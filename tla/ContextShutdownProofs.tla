------------------------- MODULE ContextShutdownProofs -------------------------
(***************************************************************************)
(* For any threads, contexts and guard conditions: what a shutdown reaches *)
(* has not been finalized, the two C arrays keep their bounds, and no      *)
(* executor is left blocked.                                               *)
(*                                                                         *)
(* The invariant says who works on what: a guard condition has one user at *)
(* a time, a context is torn down by one thread once nothing refers to it, *)
(* and before its object goes each has left the array it was in.           *)
(***************************************************************************)
EXTENDS ContextShutdown, SequenceTheorems, TLAPS

GuardSteps == {"addGuard", "spin", "blocked", "closeGuard", "unlistGuard", "finiGuard"}
InitSteps == {"register", "install"}
CallSteps == {"rcl_shutdown", "raise", "trigger"}
CloseSteps == {"closeContext", "unregister", "finiContext"}

(* Each thread works on what its step is about; only calls of shutdown on   *)
(* one context meet.                                                        *)
Alone ==
  /\ \A t \in Threads :
       /\ pc[t] = "idle" => arg[t] = NoOne
       /\ pc[t] \in GuardSteps => arg[t] \in Guards
       /\ pc[t] \in InitSteps \cup CallSteps \cup CloseSteps => arg[t] \in Contexts
  /\ \A t, u \in Threads :
       t # u /\ pc[t] # "idle" /\ arg[t] = arg[u] => {pc[t], pc[u]} \subseteq CallSteps

NoDuplicates(s) == \A i, j \in DOMAIN s : s[i] = s[j] => i = j

(* The list of a context has its live guard conditions, each once.          *)
Listing ==
  \A c \in Contexts :
    /\ NoDuplicates(listed[c])
    /\ \A g \in Range(listed[c]) : ParentOf[g] = c /\ life[g] \in {"live", "closing"}

(* A guard condition is in the list while an executor spins with it, and    *)
(* has left the list when its object goes.                                  *)
GuardLife ==
  \A t \in Threads :
    LET g == arg[t]
    IN  /\ pc[t] \in {"addGuard", "spin", "blocked", "closeGuard"} => life[g] = "live"
        /\ pc[t] \in {"unlistGuard", "finiGuard"} => life[g] = "closing"
        /\ pc[t] \in {"addGuard", "finiGuard"} => g \notin Range(listed[ParentOf[g]])
        /\ pc[t] \in {"spin", "blocked"} => g \in Range(listed[ParentOf[g]])

(* The table has the contexts that are not gone, each once, and the signal  *)
(* thread works on one of them.                                             *)
Tabled ==
  /\ NoDuplicates(table)
  /\ \A c \in Range(table) : life[c] \in {"live", "closing"}
  /\ sigPc \in {"shutdown", "notify"} => target \in Range(table)
  /\ sigPc \notin {"shutdown", "notify"} => target = NoOne

(* What is referred to is live; what is torn down nobody refers to, and has *)
(* left the table when its object goes.                                     *)
ContextLife ==
  /\ \A c \in Contexts : Holders(c) # {} => life[c] = "live"
  /\ \A t \in Threads :
       LET c == arg[t]
       IN  /\ pc[t] \in CallSteps => c \in held
           /\ pc[t] \in InitSteps \cup CloseSteps => Holders(c) = {}
           /\ pc[t] \in InitSteps => life[c] = "live"
           /\ pc[t] \in {"register", "finiContext"} => c \notin Range(table)

ContextInv ==
  TypeOK /\ Alone /\ Listing /\ GuardLife /\ Tabled /\ ContextLife /\ NobodyIsLeftBlocked
-------------------------------------------------------------------------------
(* The two changes of an array: an element more, ...                        *)
LEMMA AppendAdds ==
  ASSUME NEW S, NEW s \in Seq(S), NEW x \in S
  PROVE  /\ Append(s, x) \in Seq(S) /\ Len(Append(s, x)) = Len(s) + 1
         /\ Range(Append(s, x)) = Range(s) \cup {x}
         /\ NoDuplicates(s) /\ x \notin Range(s) => NoDuplicates(Append(s, x))
<1>1. /\ Append(s, x) \in Seq(S) /\ Len(Append(s, x)) = Len(s) + 1 /\ Len(s) \in Nat
      /\ DOMAIN s = 1 .. Len(s) /\ DOMAIN Append(s, x) = 1 .. Len(s) + 1
      /\ \A i \in 1 .. Len(s) : Append(s, x)[i] = s[i]
      /\ Append(s, x)[Len(s) + 1] = x
  BY AppendProperties, LenProperties
<1>2. Range(Append(s, x)) = Range(s) \cup {x}
  BY <1>1 DEF Range
<1>3. NoDuplicates(s) /\ x \notin Range(s) => NoDuplicates(Append(s, x))
  BY <1>1 DEF Range, NoDuplicates
<1>4. QED
  BY <1>1, <1>2, <1>3

(* ... and one less, in whose place comes the last.                         *)
LEMMA SwapRemoveRemoves ==
  ASSUME NEW S, NEW s \in Seq(S), NEW x, NoDuplicates(s)
  PROVE  /\ SwapRemove(s, x) \in Seq(S) /\ Len(SwapRemove(s, x)) <= Len(s)
         /\ Range(SwapRemove(s, x)) = Range(s) \ {x}
         /\ NoDuplicates(SwapRemove(s, x))
<1>1. CASE x \notin Range(s)
  BY <1>1, LenProperties DEF SwapRemove
<1>2. CASE x \in Range(s)
  <2> DEFINE i == CHOOSE i \in DOMAIN s : s[i] = x /\ \A j \in 1 .. i - 1 : s[j] # x
             r == [s EXCEPT ![i] = s[Len(s)]]
             q == SubSeq(r, 1, Len(s) - 1)
  <2>1. DOMAIN s = 1 .. Len(s) /\ Len(s) \in Nat
    BY LenProperties
  <2>2. \E k \in DOMAIN s : s[k] = x /\ \A j \in 1 .. k - 1 : s[j] # x
    <3>1. PICK k \in DOMAIN s : s[k] = x
      BY <1>2 DEF Range
    <3>2. \A j \in 1 .. k - 1 : j \in DOMAIN s /\ j # k
      BY <2>1
    <3>3. QED
      BY <3>1, <3>2 DEF NoDuplicates
  <2>3. i \in 1 .. Len(s) /\ s[i] = x
    BY <2>1, <2>2
  <2>4. \A j \in 1 .. Len(s) : j # i => s[j] # x
    BY <2>1, <2>3 DEF NoDuplicates
  <2> HIDE DEF i
  <2>5. s[Len(s)] \in S
    BY <2>1, <2>3, ElementOfSeq
  <2>6. /\ r \in Seq(S) /\ Len(r) = Len(s)
        /\ \A j \in 1 .. Len(s) : r[j] = IF j = i THEN s[Len(s)] ELSE s[j]
    BY <2>3, <2>5, ExceptSeq
  <2> HIDE DEF r
  <2>7. /\ q \in Seq(S) /\ Len(q) = Len(s) - 1
        /\ \A j \in 1 .. Len(s) - 1 : q[j] = r[j]
    BY <2>1, <2>3, <2>6, SubSeqProperties
  <2>8. DOMAIN q = 1 .. Len(s) - 1
    BY <2>7, LenProperties
  <2> HIDE DEF q
  <2>9. \A j \in 1 .. Len(s) - 1 : q[j] = IF j = i THEN s[Len(s)] ELSE s[j]
    BY <2>1, <2>6, <2>7
  <2>10. NoDuplicates(q)
    BY <2>1, <2>3, <2>8, <2>9 DEF NoDuplicates
  <2>11. Range(q) = Range(s) \ {x}
    <3>1. \A y \in Range(q) : y \in Range(s) /\ y # x
      BY <2>1, <2>3, <2>4, <2>8, <2>9 DEF Range
    <3>2. \A n \in Nat : \A j \in 1 .. n : j # n => j \in 1 .. n - 1
      OBVIOUS
    <3>3. ASSUME NEW j \in 1 .. Len(s), s[j] # x
          PROVE  s[j] \in Range(q)
      <4>1. CASE j = Len(s)
        <5>1. i \in DOMAIN q /\ q[i] = s[j]
          BY <2>1, <2>3, <2>8, <2>9, <3>3, <4>1
        <5>2. QED
          BY <5>1 DEF Range
      <4>2. CASE j # Len(s)
        <5>1. j \in 1 .. Len(s) - 1
          BY <2>1, <3>2, <4>2
        <5>2. j # i
          BY <2>3, <3>3, Zenon
        <5>3. q[j] = s[j]
          BY <2>9, <5>1, <5>2
        <5>4. QED
          BY <2>8, <5>1, <5>3 DEF Range
      <4>3. QED
        BY <4>1, <4>2
    <3>4. QED
      BY <2>1, <3>1, <3>3 DEF Range
  <2>12. SwapRemove(s, x) = q
    BY <1>2, <2>6 DEF SwapRemove, i, q, r
  <2>13. QED
    BY <2>1, <2>7, <2>10, <2>11, <2>12
<1>3. QED
  BY <1>1, <1>2
-------------------------------------------------------------------------------
LEMMA ContextInit == Init => ContextInv
<1> SUFFICES ASSUME Init
             PROVE  ContextInv
  OBVIOUS
<1> USE ContextAssumption DEF Init, GuardSteps, InitSteps, CallSteps, CloseSteps
<1>1. /\ Range(<<>>) = {} /\ NoDuplicates(<<>>)
      /\ <<>> \in Seq(Guards) /\ <<>> \in Seq(Contexts) /\ Len(<<>>) = 0
  BY EmptySeq DEF Range, NoDuplicates
<1>2. TypeOK
  <2>1. /\ table \in Seq(Contexts) /\ Len(table) <= MaxContexts
        /\ listed \in [Contexts -> Seq(Guards)]
        /\ \A c \in Contexts : Len(listed[c]) <= MaxGuards
    BY <1>1
  <2>2. handlers \in BOOLEAN
    BY Zenon
  <2>3. QED
    BY <2>1, <2>2 DEF TypeOK, PC
<1>3. Alone /\ GuardLife /\ NobodyIsLeftBlocked
  BY DEF Alone, GuardLife, NobodyIsLeftBlocked
<1>4. Listing /\ Tabled
  BY <1>1 DEF Listing, Tabled
<1>5. ContextLife
  BY <1>1 DEF ContextLife, Holders
<1>6. QED
  BY <1>2, <1>3, <1>4, <1>5 DEF ContextInv

(* The arrays hold what they are for.                                       *)
LEMMA ArraysHold ==
  ASSUME TypeOK
  PROVE  Range(table) \subseteq Contexts /\ \A c \in Contexts : Range(listed[c]) \subseteq Guards
<1>1. table \in Seq(Contexts) /\ \A c \in Contexts : listed[c] \in Seq(Guards)
  BY DEF TypeOK
<1>2. QED
  BY <1>1, RangeOfSeq

(* Where a thread goes, and on what it works there.                         *)
LEMMA EnterType ==
  ASSUME TypeOK, NEW t \in Threads, NEW step \in PC, NEW h \in Contexts \cup Guards,
         Enter(t, step, h)
  PROVE  pc' \in [Threads -> PC] /\ arg' \in [Threads -> Contexts \cup Guards \cup {NoOne}]
  BY DEF TypeOK, Enter

LEMMA GoToType ==
  ASSUME TypeOK, NEW t \in Threads, NEW from, NEW to \in PC, GoTo(t, from, to)
  PROVE  pc' \in [Threads -> PC] /\ arg' \in [Threads -> Contexts \cup Guards \cup {NoOne}]
  BY DEF TypeOK, GoTo

(* A thread in these steps has a guard condition, or a context, of its own. *)
LEMMA Works ==
  ASSUME ContextInv, NEW t \in Threads
  PROVE  /\ pc[t] \in GuardSteps => arg[t] \in Guards /\ ParentOf[arg[t]] \in Contexts
         /\ pc[t] \in InitSteps \cup CallSteps \cup CloseSteps => arg[t] \in Contexts
         /\ pc[t] \in GuardSteps \cup InitSteps \cup CloseSteps
              => \A u \in Threads \ {t} : arg[u] # arg[t]
<1>1. pc[t] \in GuardSteps \cup InitSteps \cup CloseSteps => pc[t] \notin CallSteps \cup {"idle"}
  BY DEF GuardSteps, InitSteps, CallSteps, CloseSteps
<1>2. QED
  BY <1>1, ContextAssumption DEF ContextInv, Alone

(* The types, and the bounds of the arrays.                                 *)
LEMMA TypeStep ==
  ASSUME ContextInv, [Next]_vars
  PROVE  TypeOK'
<1> DEFINE PcType == pc' \in [Threads -> PC] /\ arg' \in [Threads -> Contexts \cup Guards \cup {NoOne}]
           Lives == {"absent", "live", "closing", "gone"}
<1>0. TypeOK
  BY DEF ContextInv
<1> USE ContextAssumption DEF GuardSteps, InitSteps, CallSteps, CloseSteps
<1>1. ASSUME NEW t \in Threads, NEW c \in Contexts, InitContext(t, c)
      PROVE  TypeOK'
  <2>1. PcType
    BY <1>0, <1>1, EnterType DEF InitContext, PC
  <2>2. QED
    BY <1>0, <1>1, <2>1 DEF InitContext, TypeOK, sigVars
<1>2. ASSUME NEW t \in Threads, RegisterContext(t)
      PROVE  TypeOK'
  <2>1. PcType
    BY <1>0, <1>2, GoToType DEF RegisterContext, PC
  <2>2. arg[t] \in Contexts
    BY <1>2, Works DEF RegisterContext, GoTo
  <2>3. table' \in Seq(Contexts) /\ Len(table') <= MaxContexts
    BY <1>0, <1>2, <2>2, AppendAdds, LenProperties DEF RegisterContext, TypeOK
  <2>4. QED
    BY <1>0, <1>2, <2>1, <2>2, <2>3 DEF RegisterContext, TypeOK, sigVars
<1>16. ASSUME NEW t \in Threads, InstallHandlers(t)
       PROVE  TypeOK'
  <2>1. PcType
    BY <1>0, <1>16, GoToType DEF InstallHandlers, PC
  <2>2. arg[t] \in Contexts
    BY <1>16, Works DEF InstallHandlers, GoTo
  <2>3. QED
    BY <1>0, <1>16, <2>1, <2>2 DEF InstallHandlers, TypeOK
<1>3. ASSUME NEW t \in Threads, NEW g \in Guards, CreateGuard(t, g)
      PROVE  TypeOK'
  <2>1. PcType
    BY <1>0, <1>3, EnterType DEF CreateGuard, PC
  <2>2. QED
    BY <1>0, <1>3, <2>1 DEF CreateGuard, TypeOK, sigVars
<1>4. ASSUME NEW t \in Threads, AddShutdownGuard(t)
      PROVE  TypeOK'
  <2>1. PcType
    BY <1>0, <1>4, GoToType DEF AddShutdownGuard, PC
  <2>2. arg[t] \in Guards /\ ParentOf[arg[t]] \in Contexts
    BY <1>4, Works DEF AddShutdownGuard
  <2>3. LET l == listed[ParentOf[arg[t]]]
        IN  Append(l, arg[t]) \in Seq(Guards) /\ Len(Append(l, arg[t])) = Len(l) + 1
              /\ Len(l) \in Nat
    BY <1>0, <2>2, AppendAdds, LenProperties DEF TypeOK
  <2>4. listed' \in [Contexts -> Seq(Guards)] /\ \A c \in Contexts : Len(listed'[c]) <= MaxGuards
    BY <1>0, <1>4, <2>2, <2>3 DEF AddShutdownGuard, TypeOK
  <2>5. QED
    BY <1>0, <1>4, <2>1, <2>4 DEF AddShutdownGuard, TypeOK, sigVars
<1>5. ASSUME NEW t \in Threads, NEW h \in Contexts \cup Guards,
             StartSpin(t, h) \/ CallShutdown(t, h) \/ DropGuard(t, h)
      PROVE  TypeOK'
  <2>1. PcType
    BY <1>0, <1>5, EnterType DEF StartSpin, CallShutdown, DropGuard, PC
  <2>2. QED
    BY <1>0, <1>5, <2>1 DEF StartSpin, CallShutdown, DropGuard, TypeOK, sigVars
<1>6. ASSUME NEW t \in Threads, CheckOk(t) \/ WakeUp(t) \/ Raise(t) \/ RclShutdown(t)
      PROVE  TypeOK'
  <2>1. PcType
    BY <1>0, <1>6, GoToType DEF CheckOk, WakeUp, Raise, RclShutdown, PC
  <2>2. QED
    BY <1>0, <1>6, <2>1 DEF CheckOk, WakeUp, Raise, RclShutdown, TypeOK, sigVars
<1>7. ASSUME NEW t \in Threads, TriggerGuards(t)
      PROVE  TypeOK'
  <2>1. PcType
    BY <1>0, <1>7, GoToType DEF TriggerGuards, PC
  <2>2. arg[t] \in Contexts
    BY <1>7, Works DEF TriggerGuards, GoTo
  <2>3. triggered' \subseteq Guards
    BY <1>0, <1>7, <2>2, ArraysHold DEF TriggerGuards, Triggers, TypeOK
  <2>4. QED
    BY <1>0, <1>7, <2>1, <2>3 DEF TriggerGuards, TypeOK, sigVars
<1>8. ASSUME NEW t \in Threads, CloseGuard(t) \/ CloseContext(t) \/ FiniContext(t)
      PROVE  TypeOK'
  <2>1. PcType
    BY <1>0, <1>8, GoToType DEF CloseGuard, CloseContext, FiniContext, PC
  <2>2. life' \in [Contexts \cup Guards -> Lives] /\ rclOk' \subseteq Contexts
    BY <1>0, <1>8 DEF CloseGuard, CloseContext, FiniContext, TypeOK
  <2>3. treeMutex' \in Threads \cup {NoOne}
    BY <1>8 DEF CloseGuard, CloseContext, FiniContext, LockTree, UnlockTree
  <2>4. QED
    BY <1>0, <1>8, <2>1, <2>2, <2>3
       DEF CloseGuard, CloseContext, FiniContext, TypeOK, sigVars
<1>9. ASSUME NEW t \in Threads, UnlistGuard(t)
      PROVE  TypeOK'
  <2>1. PcType
    BY <1>0, <1>9, GoToType DEF UnlistGuard, PC
  <2>2. arg[t] \in Guards /\ ParentOf[arg[t]] \in Contexts
    BY <1>9, Works DEF UnlistGuard
  <2>3. LET l == listed[ParentOf[arg[t]]]
        IN  /\ SwapRemove(l, arg[t]) \in Seq(Guards)
            /\ Len(SwapRemove(l, arg[t])) <= Len(l)
            /\ Len(l) \in Nat /\ Len(l) <= MaxGuards /\ Len(SwapRemove(l, arg[t])) \in Nat
    BY <1>0, <2>2, SwapRemoveRemoves, LenProperties DEF TypeOK, ContextInv, Listing
  <2>4. listed' \in [Contexts -> Seq(Guards)] /\ \A c \in Contexts : Len(listed'[c]) <= MaxGuards
    BY <1>0, <1>9, <2>2, <2>3 DEF UnlistGuard, TypeOK
  <2>5. QED
    BY <1>0, <1>9, <2>1, <2>4 DEF UnlistGuard, TypeOK, sigVars
<1>10. ASSUME NEW t \in Threads, FiniGuard(t)
       PROVE  TypeOK'
  <2>1. arg[t] \in Guards /\ ParentOf[arg[t]] \in Contexts
    BY <1>10, Works DEF FiniGuard
  <2>2. PcType
    <3>1. CASE GoTo(t, "finiGuard", "idle")
      BY <1>0, <3>1, GoToType DEF PC
    <3>2. CASE /\ pc' = [pc EXCEPT ![t] = "closeContext"]
               /\ arg' = [arg EXCEPT ![t] = ParentOf[arg[t]]]
      BY <1>0, <2>1, <3>2 DEF TypeOK, PC
    <3>3. QED
      BY <1>10, <3>1, <3>2 DEF FiniGuard
  <2>3. QED
    BY <1>0, <1>10, <2>1, <2>2 DEF FiniGuard, UnlockTree, TypeOK, sigVars
<1>11. ASSUME NEW t \in Threads, NEW c \in Contexts, DropContext(t, c)
       PROVE  TypeOK'
  <2>1. PcType
    BY <1>0, <1>11, EnterType DEF DropContext, TypeOK, PC
  <2>2. QED
    BY <1>0, <1>11, <2>1 DEF DropContext, TypeOK, sigVars
<1>12. ASSUME NEW t \in Threads, Unregister(t)
       PROVE  TypeOK'
  <2>1. PcType
    BY <1>0, <1>12, GoToType DEF Unregister, PC
  <2>2. /\ SwapRemove(table, arg[t]) \in Seq(Contexts)
        /\ Len(SwapRemove(table, arg[t])) <= Len(table)
        /\ Len(table) \in Nat /\ Len(table) <= MaxContexts
        /\ Len(SwapRemove(table, arg[t])) \in Nat
    BY <1>0, SwapRemoveRemoves, LenProperties DEF TypeOK, ContextInv, Tabled
  <2>3. table' \in Seq(Contexts) /\ Len(table') <= MaxContexts
    BY <1>12, <2>2 DEF Unregister
  <2>4. QED
    BY <1>0, <1>12, <2>1, <2>3 DEF Unregister, TypeOK, sigVars
<1>13. ASSUME Walk \/ SignalTrigger
       PROVE  TypeOK'
  <2>1. target \in Contexts => Range(listed[target]) \subseteq Guards
    BY <1>0, ArraysHold
  <2>2. sigNext \in DOMAIN table => table[sigNext] \in Contexts
    BY <1>0, ElementOfSeq, LenProperties DEF TypeOK
  <2>3. sigPc = "notify" => target \in Contexts
    BY <1>0, ArraysHold DEF ContextInv, Tabled
  <2>4. CASE Walk
    <3>1. /\ target' \in Contexts \cup {NoOne}
          /\ sigPc' \in {"sem_wait", "walk", "shutdown"}
      BY <2>2, <2>4 DEF Walk, WalkTo, SigGoTo
    <3>2. /\ sigNext' = sigNext + 1
          /\ UNCHANGED <<life, held, rclOk, listed, triggered, table, handlers, signals, sem, treeMutex, pc,
                         arg>>
      BY <2>4 DEF Walk, WalkTo
    <3>3. QED
      BY <1>0, <3>1, <3>2 DEF TypeOK
  <2>5. CASE SignalTrigger
    BY <1>0, <2>1, <2>3, <2>5 DEF SignalTrigger, SigGoTo, Triggers, TypeOK
  <2>6. QED
    BY <1>13, <2>4, <2>5
<1>14. CASE Signal \/ SemWait \/ SignalShutdown \/ UNCHANGED vars
  BY <1>0, <1>14 DEF Signal, SemWait, SignalShutdown, SigGoTo, vars, sigVars, TypeOK
<1>15. QED
  BY <1>1, <1>2, <1>3, <1>4, <1>5, <1>6, <1>7, <1>8, <1>9, <1>10, <1>11, <1>12, <1>13, <1>14,
     <1>16 DEF Next, Calls, Continues, SignalThread

(* A thread that goes on stays with what it has, or is done with it; ...    *)
LEMMA AloneGoesOn ==
  ASSUME TypeOK, Alone, NEW t \in Threads, NEW from, NEW to, GoTo(t, from, to),
         \/ to = "idle"
         \/ {from, to} \subseteq InitSteps
         \/ {from, to} \subseteq GuardSteps
         \/ {from, to} \subseteq CallSteps
         \/ {from, to} \subseteq CloseSteps
  PROVE  Alone'
<1>1. CASE to = "idle"
  <2>1. pc' = [pc EXCEPT ![t] = "idle"] /\ arg' = [arg EXCEPT ![t] = NoOne]
    BY <1>1 DEF GoTo
  <2>2. pc'[t] = "idle" /\ arg'[t] = NoOne
    BY <2>1 DEF TypeOK
  <2>3. \A u \in Threads \ {t} : pc'[u] = pc[u] /\ arg'[u] = arg[u]
    BY <2>1 DEF TypeOK
  <2>4. \A u \in Threads : pc[u] # "idle" => arg[u] # NoOne
    BY ContextAssumption DEF TypeOK, Alone, PC, GuardSteps, InitSteps, CallSteps, CloseSteps
  <2>5. "idle" \notin GuardSteps \cup InitSteps \cup CallSteps \cup CloseSteps
    BY DEF GuardSteps, InitSteps, CallSteps, CloseSteps
  <2>6. QED
    BY <2>2, <2>3, <2>4, <2>5 DEF Alone
<1>2. CASE to # "idle"
  <2>1. pc' = [pc EXCEPT ![t] = to] /\ arg' = arg /\ pc[t] = from
    BY <1>2 DEF GoTo
  <2>2. pc'[t] = to /\ \A u \in Threads \ {t} : pc'[u] = pc[u]
    BY <2>1 DEF TypeOK
  <2>6. CASE {from, to} \subseteq InitSteps
    <3>1. {from, to} \cap ({"idle"} \cup GuardSteps \cup CallSteps) = {}
      BY <2>6 DEF InitSteps, GuardSteps, CallSteps
    <3>2. QED
      BY <2>1, <2>2, <2>6, <3>1 DEF Alone
  <2>3. CASE {from, to} \subseteq GuardSteps
    <3>1. {from, to} \cap ({"idle"} \cup InitSteps \cup CallSteps \cup CloseSteps) = {}
      BY <2>3 DEF GuardSteps, InitSteps, CallSteps, CloseSteps
    <3>2. QED
      BY <2>1, <2>2, <2>3, <3>1 DEF Alone
  <2>4. CASE {from, to} \subseteq CallSteps
    <3>1. {from, to} \cap ({"idle"} \cup GuardSteps) = {}
      BY <2>4 DEF GuardSteps, CallSteps
    <3>2. QED
      BY <2>1, <2>2, <2>4, <3>1 DEF Alone
  <2>5. CASE {from, to} \subseteq CloseSteps
    <3>1. {from, to} \cap ({"idle"} \cup GuardSteps \cup CallSteps) = {}
      BY <2>5 DEF GuardSteps, InitSteps, CallSteps, CloseSteps
    <3>2. QED
      BY <2>1, <2>2, <2>5, <3>1 DEF Alone
  <2>7. QED
    BY <1>2, <2>3, <2>4, <2>5, <2>6
<1>3. QED
  BY <1>1, <1>2

(* ... and one that takes something up finds nobody else with it.           *)
LEMMA AloneTakesGuard ==
  ASSUME TypeOK, Alone, NEW t \in Threads, NEW step \in GuardSteps, NEW g \in Guards,
         pc' = [pc EXCEPT ![t] = step], arg' = [arg EXCEPT ![t] = g],
         \A u \in Threads \ {t} : arg[u] # g
  PROVE  Alone'
<1>1. /\ pc'[t] = step /\ arg'[t] = g
      /\ \A u \in Threads \ {t} : pc'[u] = pc[u] /\ arg'[u] = arg[u]
  BY DEF TypeOK
<1>2. step \notin {"idle"} \cup InitSteps \cup CallSteps \cup CloseSteps
  BY DEF GuardSteps, InitSteps, CallSteps, CloseSteps
<1>3. QED
  BY <1>1, <1>2 DEF Alone

LEMMA AloneTakesContext ==
  ASSUME TypeOK, Alone, NEW t \in Threads, NEW c \in Contexts,
         NEW step \in InitSteps \cup CallSteps \cup CloseSteps,
         pc' = [pc EXCEPT ![t] = step], arg' = [arg EXCEPT ![t] = c],
         \A u \in Threads \ {t} : arg[u] = c => pc[u] \in CallSteps /\ step \in CallSteps
  PROVE  Alone'
<1>1. /\ pc'[t] = step /\ arg'[t] = c
      /\ \A u \in Threads \ {t} : pc'[u] = pc[u] /\ arg'[u] = arg[u]
  BY DEF TypeOK
<1>2. step \notin {"idle"} \cup GuardSteps
  BY DEF GuardSteps, InitSteps, CallSteps, CloseSteps
<1>3. QED
  BY <1>1, <1>2 DEF Alone

(* Nobody comes to where another is at work, but for calls of shutdown.     *)
LEMMA AloneStep ==
  ASSUME ContextInv, [Next]_vars
  PROVE  Alone'
<1> USE ContextAssumption DEF ContextInv
<1>1. ASSUME NEW t \in Threads, NEW c \in Contexts, InitContext(t, c)
      PROVE  Alone'
  <2>1. pc' = [pc EXCEPT ![t] = "register"] /\ arg' = [arg EXCEPT ![t] = c]
    BY <1>1 DEF InitContext, Enter
  <2>2. \A u \in Threads : arg[u] # c
    BY <1>1 DEF InitContext, InUse
  <2>3. QED
    BY <2>1, <2>2, AloneTakesContext DEF InitSteps
<1>2. ASSUME NEW t \in Threads, NEW g \in Guards,
             CreateGuard(t, g) \/ StartSpin(t, g) \/ DropGuard(t, g)
      PROVE  Alone'
  BY <1>2, AloneTakesGuard DEF CreateGuard, StartSpin, DropGuard, Enter, InUse, GuardSteps
<1>3. ASSUME NEW t \in Threads,
             \/ RegisterContext(t) \/ InstallHandlers(t) \/ AddShutdownGuard(t)
             \/ CheckOk(t) \/ WakeUp(t) \/ RclShutdown(t) \/ Raise(t) \/ TriggerGuards(t) \/ CloseGuard(t)
             \/ UnlistGuard(t) \/ CloseContext(t) \/ Unregister(t) \/ FiniContext(t)
      PROVE  Alone'
  <2>1. CASE RegisterContext(t) \/ InstallHandlers(t) \/ Raise(t) \/ TriggerGuards(t)
             \/ FiniContext(t)
    <3>1. {"register", "install"} \subseteq InitSteps
      BY DEF InitSteps
    <3>2. QED
      BY <2>1, <3>1, AloneGoesOn
         DEF RegisterContext, InstallHandlers, Raise, TriggerGuards, FiniContext
  <2>2. CASE AddShutdownGuard(t) \/ CheckOk(t) \/ WakeUp(t) \/ CloseGuard(t) \/ UnlistGuard(t)
    BY <2>2, AloneGoesOn
       DEF AddShutdownGuard, CheckOk, WakeUp, CloseGuard, UnlistGuard, GuardSteps
  <2>3. CASE RclShutdown(t)
    BY <2>3, AloneGoesOn DEF RclShutdown, CallSteps
  <2>4. CASE CloseContext(t) \/ Unregister(t)
    BY <2>4, AloneGoesOn DEF CloseContext, Unregister, CloseSteps
  <2>5. QED
    BY <1>3, <2>1, <2>2, <2>3, <2>4
<1>4. ASSUME NEW c \in Contexts, NEW u \in Threads, arg[u] = c
      PROVE  /\ pc[u] \in CallSteps => c \in held
             /\ pc[u] \in InitSteps \cup CloseSteps => Holders(c) = {}
             /\ pc[u] \in CallSteps \cup InitSteps \cup CloseSteps
  <2>1. pc[u] \in {"idle"} \cup InitSteps \cup GuardSteps \cup CallSteps \cup CloseSteps
    BY DEF TypeOK, PC, GuardSteps, InitSteps, CallSteps, CloseSteps
  <2>2. pc[u] \notin {"idle"} \cup GuardSteps
    BY <1>4 DEF Alone
  <2>3. QED
    BY <1>4, <2>1, <2>2 DEF ContextLife
<1>5. ASSUME NEW t \in Threads, NEW c \in Contexts, CallShutdown(t, c)
      PROVE  Alone'
  <2>1. \A u \in Threads : arg[u] = c => pc[u] \in CallSteps
    BY <1>4, <1>5 DEF CallShutdown, Holders
  <2>2. "rcl_shutdown" \in CallSteps /\ "rcl_shutdown" \notin GuardSteps \cup {"idle"}
    BY DEF CallSteps, GuardSteps
  <2>3. /\ pc'[t] = "rcl_shutdown" /\ arg'[t] = c
        /\ \A u \in Threads \ {t} : pc'[u] = pc[u] /\ arg'[u] = arg[u]
    BY <1>5 DEF CallShutdown, Enter, TypeOK
  <2>4. QED
    BY <2>1, <2>2, <2>3 DEF Alone
<1>6. ASSUME NEW t \in Threads, FiniGuard(t)
      PROVE  Alone'
  <2>1. CASE GoTo(t, "finiGuard", "idle")
    BY <2>1, AloneGoesOn
  <2>2. CASE /\ Holders(ParentOf[arg[t]]) = {arg[t]}
             /\ pc' = [pc EXCEPT ![t] = "closeContext"]
             /\ arg' = [arg EXCEPT ![t] = ParentOf[arg[t]]]
    <3>1. arg[t] \in Guards /\ ParentOf[arg[t]] \in Contexts
      BY <1>6, Works DEF FiniGuard, GuardSteps
    <3>2. ParentOf[arg[t]] \notin held
      BY <2>2, <3>1 DEF Holders
    <3>3. \A u \in Threads : arg[u] # ParentOf[arg[t]]
      BY <1>4, <2>2, <3>1, <3>2
    <3>4. "closeContext" \in InitSteps \cup CallSteps \cup CloseSteps
      BY DEF InitSteps, CloseSteps
    <3>5. TypeOK /\ Alone
      OBVIOUS
    <3> HIDE DEF ContextInv
    <3>6. QED
      BY <2>2, <3>1, <3>3, <3>4, <3>5, AloneTakesContext
  <2>3. QED
    BY <1>6, <2>1, <2>2 DEF FiniGuard
<1>7. ASSUME NEW t \in Threads, NEW c \in Contexts, DropContext(t, c)
      PROVE  Alone'
  <2>1. CASE Enter(t, "closeContext", c)
    BY <1>7, <2>1, AloneTakesContext DEF DropContext, InUse, Enter, CloseSteps
  <2>2. CASE UNCHANGED <<pc, arg>>
    BY <2>2 DEF Alone
  <2>3. QED
    BY <1>7, <2>1, <2>2 DEF DropContext
<1>8. ASSUME Signal \/ SignalThread \/ UNCHANGED vars
      PROVE  Alone'
  <2>1. UNCHANGED <<pc, arg>>
    BY <1>8 DEF Signal, SignalThread, SemWait, Walk, WalkTo, SignalShutdown, SignalTrigger, vars
  <2>2. QED
    BY <2>1 DEF Alone
<1>9. QED
  BY <1>1, <1>2, <1>3, <1>5, <1>6, <1>7, <1>8 DEF Next, Calls, Continues

(* What is in a list is not finalized.                                      *)
LEMMA ListingStep ==
  ASSUME ContextInv, [Next]_vars
  PROVE  Listing'
<1> USE ContextAssumption DEF ContextInv, GuardSteps, InitSteps, CallSteps, CloseSteps, Listing
<1>1. \A c \in Contexts : Range(listed[c]) \subseteq Guards
  BY ArraysHold
<1>2. ASSUME UNCHANGED <<life, listed>>
      PROVE  Listing'
  BY <1>2
<1>3. ASSUME NEW t \in Threads, NEW h \in Contexts \cup Guards,
             InitContext(t, h) \/ CreateGuard(t, h)
      PROVE  Listing'
  <2>1. CASE InitContext(t, h)
    BY <1>1, <2>1 DEF InitContext, TypeOK
  <2>2. CASE CreateGuard(t, h)
    BY <1>1, <2>2 DEF CreateGuard, TypeOK
  <2>3. QED
    BY <1>3, <2>1, <2>2
<1>4. ASSUME NEW t \in Threads, AddShutdownGuard(t)
      PROVE  Listing'
  <2>1. arg[t] \in Guards /\ ParentOf[arg[t]] \in Contexts
    BY <1>4, Works DEF AddShutdownGuard
  <2>2. arg[t] \notin Range(listed[ParentOf[arg[t]]]) /\ life[arg[t]] = "live"
    BY <1>4 DEF AddShutdownGuard, GuardLife
  <2>3. LET l == listed[ParentOf[arg[t]]]
        IN  /\ Range(Append(l, arg[t])) = Range(l) \cup {arg[t]}
            /\ NoDuplicates(Append(l, arg[t]))
    BY <2>1, <2>2, AppendAdds DEF TypeOK
  <2>4. QED
    BY <1>4, <2>1, <2>2, <2>3 DEF AddShutdownGuard, TypeOK
<1>5. ASSUME NEW t \in Threads, UnlistGuard(t)
      PROVE  Listing'
  <2>1. arg[t] \in Guards /\ ParentOf[arg[t]] \in Contexts
    BY <1>5, Works DEF UnlistGuard
  <2>2. LET l == listed[ParentOf[arg[t]]]
        IN  /\ Range(SwapRemove(l, arg[t])) = Range(l) \ {arg[t]}
            /\ NoDuplicates(SwapRemove(l, arg[t]))
    BY <2>1, SwapRemoveRemoves DEF TypeOK
  <2>3. QED
    BY <1>5, <2>1, <2>2 DEF UnlistGuard, TypeOK
<1>6. ASSUME NEW t \in Threads, CloseGuard(t) \/ CloseContext(t) \/ FiniContext(t)
      PROVE  Listing'
  <2>1. CASE CloseGuard(t)
    BY <1>1, <2>1 DEF CloseGuard, TypeOK
  <2>2. CASE CloseContext(t) \/ FiniContext(t)
    <3>1. arg[t] \in Contexts /\ UNCHANGED listed
      BY <2>2, Works DEF CloseContext, FiniContext, GoTo
    <3>2. \A g \in Guards : life'[g] = life[g]
      BY <2>2, <3>1 DEF CloseContext, FiniContext, TypeOK
    <3>3. QED
      BY <1>1, <3>1, <3>2
  <2>3. QED
    BY <1>6, <2>1, <2>2
<1>7. ASSUME NEW t \in Threads, FiniGuard(t)
      PROVE  Listing'
  <2>1. arg[t] \notin Range(listed[ParentOf[arg[t]]])
    BY <1>7 DEF FiniGuard, GuardLife
  <2>2. \A c \in Contexts : arg[t] \notin Range(listed[c])
    BY <2>1
  <2>3. UNCHANGED listed /\ \A h \in Contexts \cup Guards : h # arg[t] => life'[h] = life[h]
    BY <1>7 DEF FiniGuard, TypeOK
  <2>4. QED
    BY <1>1, <2>2, <2>3
<1>8. ASSUME NEW t \in Threads,
             \/ \E c \in Contexts : CallShutdown(t, c) \/ DropContext(t, c)
             \/ \E g \in Guards : StartSpin(t, g) \/ DropGuard(t, g)
             \/ RegisterContext(t) \/ InstallHandlers(t) \/ CheckOk(t) \/ WakeUp(t)
             \/ RclShutdown(t) \/ Raise(t) \/ TriggerGuards(t) \/ Unregister(t)
      PROVE  UNCHANGED <<life, listed>>
  BY <1>8 DEF CallShutdown, DropContext, StartSpin, DropGuard, RegisterContext,
              InstallHandlers, CheckOk, WakeUp, RclShutdown, Raise, TriggerGuards, Unregister
<1>9. ASSUME Signal \/ SignalThread \/ UNCHANGED vars
      PROVE  UNCHANGED <<life, listed>>
  BY <1>9 DEF Signal, SignalThread, SemWait, Walk, WalkTo, SignalShutdown, SignalTrigger, vars
<1>10. QED
  BY <1>2, <1>3, <1>4, <1>5, <1>6, <1>7, <1>8, <1>9 DEF Next, Calls, Continues

(* A guard condition leaves the list before its object goes.                *)
LEMMA GuardLifeStep ==
  ASSUME ContextInv, [Next]_vars
  PROVE  GuardLife'
<1> USE ContextAssumption DEF ContextInv, GuardSteps, InitSteps, CallSteps, CloseSteps
<1> DEFINE Kept(t) == \A u \in Threads \ {t} : pc'[u] = pc[u] /\ arg'[u] = arg[u]
<1>1. \A c \in Contexts : Range(listed[c]) \subseteq Guards
  BY ArraysHold
<1>2. \A t \in Threads : pc[t] \in GuardSteps => arg[t] \in Guards /\ ParentOf[arg[t]] \in Contexts
  BY Works
<1> USE DEF GuardLife
<1>3. ASSUME NEW t \in Threads, NEW g \in Guards, CreateGuard(t, g)
      PROVE  GuardLife'
  <2>1. \A c \in Contexts : g \notin Range(listed[c])
    BY <1>3 DEF CreateGuard, Listing
  <2>2. Kept(t) /\ \A u \in Threads : arg[u] # g
    BY <1>3 DEF CreateGuard, Enter, InUse, TypeOK
  <2>3. QED
    BY <1>2, <1>3, <2>1, <2>2 DEF CreateGuard, Enter, TypeOK
<1>4. ASSUME NEW t \in Threads, AddShutdownGuard(t)
      PROVE  GuardLife'
  <2>1. arg[t] \in Guards /\ ParentOf[arg[t]] \in Contexts /\ \A u \in Threads \ {t} : arg[u] # arg[t]
    BY <1>4, Works DEF AddShutdownGuard
  <2>2. \A c \in Contexts : \/ listed'[c] = listed[c]
                           \/ /\ c = ParentOf[arg[t]]
                              /\ Range(listed'[c]) = Range(listed[c]) \cup {arg[t]}
    BY <1>4, <2>1, AppendAdds DEF AddShutdownGuard, TypeOK
  <2>3. QED
    BY <1>2, <1>4, <2>1, <2>2 DEF AddShutdownGuard, GoTo, TypeOK
<1>5. ASSUME NEW t \in Threads, NEW g \in Guards, StartSpin(t, g) \/ DropGuard(t, g)
      PROVE  GuardLife'
  <2>1. CASE StartSpin(t, g)
    BY <2>1 DEF StartSpin, Enter, TypeOK
  <2>2. CASE DropGuard(t, g)
    BY <2>2 DEF DropGuard, Enter, TypeOK
  <2>3. QED
    BY <1>5, <2>1, <2>2
<1>6. ASSUME NEW t \in Threads, CheckOk(t) \/ WakeUp(t)
      PROVE  GuardLife'
  <2>1. Kept(t) /\ arg'[t] \in {arg[t], NoOne} /\ UNCHANGED <<listed, life>>
    BY <1>6 DEF CheckOk, WakeUp, GoTo, TypeOK
  <2>2. /\ pc[t] \in {"spin", "blocked"} /\ pc'[t] \in {"spin", "blocked", "idle"}
        /\ pc'[t] # "idle" => arg'[t] = arg[t]
    BY <1>6 DEF CheckOk, WakeUp, GoTo, TypeOK
  <2>3. QED
    BY <2>1, <2>2
<1>7. ASSUME NEW t \in Threads, CloseGuard(t)
      PROVE  GuardLife'
  <2>1. arg[t] \in Guards /\ \A u \in Threads \ {t} : arg[u] # arg[t]
    BY <1>7, Works DEF CloseGuard, GoTo
  <2>2. QED
    BY <1>2, <1>7, <2>1 DEF CloseGuard, GoTo, TypeOK
<1>8. ASSUME NEW t \in Threads, UnlistGuard(t)
      PROVE  GuardLife'
  <2>1. arg[t] \in Guards /\ ParentOf[arg[t]] \in Contexts /\ \A u \in Threads \ {t} : arg[u] # arg[t]
    BY <1>8, Works DEF UnlistGuard
  <2>2. \A c \in Contexts : \/ listed'[c] = listed[c]
                           \/ /\ c = ParentOf[arg[t]]
                              /\ Range(listed'[c]) = Range(listed[c]) \ {arg[t]}
    BY <1>8, <2>1, SwapRemoveRemoves DEF UnlistGuard, TypeOK, Listing
  <2>3. arg[t] \notin Range(listed'[ParentOf[arg[t]]])
    BY <1>8, <2>1, SwapRemoveRemoves DEF UnlistGuard, TypeOK, Listing
  <2>4. QED
    BY <1>2, <1>8, <2>1, <2>2, <2>3 DEF UnlistGuard, GoTo, TypeOK
<1>9. ASSUME NEW t \in Threads, FiniGuard(t)
      PROVE  GuardLife'
  <2>1. arg[t] \in Guards /\ \A u \in Threads \ {t} : arg[u] # arg[t]
    BY <1>9, Works DEF FiniGuard
  <2>2. Kept(t) /\ pc'[t] \notin GuardSteps
    BY <1>9 DEF FiniGuard, GoTo, TypeOK
  <2>3. UNCHANGED listed /\ \A g \in Guards : g # arg[t] => life'[g] = life[g]
    BY <1>9 DEF FiniGuard, TypeOK
  <2>4. QED
    BY <1>2, <2>1, <2>2, <2>3
<1>10. ASSUME NEW t \in Threads,
              \/ \E c \in Contexts : InitContext(t, c) \/ CallShutdown(t, c) \/ DropContext(t, c)
              \/ RegisterContext(t) \/ InstallHandlers(t) \/ RclShutdown(t) \/ Raise(t)
              \/ TriggerGuards(t) \/ CloseContext(t) \/ Unregister(t) \/ FiniContext(t)
       PROVE  GuardLife'
  <2>1. Kept(t) /\ pc'[t] \notin GuardSteps
    <3>1. CASE \E c \in Contexts : InitContext(t, c) \/ CallShutdown(t, c) \/ DropContext(t, c)
      BY <3>1 DEF InitContext, CallShutdown, DropContext, Enter, TypeOK
    <3>2. CASE \/ RegisterContext(t) \/ InstallHandlers(t) \/ RclShutdown(t) \/ Raise(t)
               \/ TriggerGuards(t) \/ CloseContext(t) \/ Unregister(t) \/ FiniContext(t)
      BY <3>2 DEF RegisterContext, InstallHandlers, RclShutdown, Raise, TriggerGuards,
                  CloseContext, Unregister, FiniContext, GoTo, TypeOK
    <3>3. QED
      BY <1>10, <3>1, <3>2
  <2>2. UNCHANGED listed
    BY <1>10 DEF InitContext, CallShutdown, DropContext, RegisterContext, InstallHandlers,
                 RclShutdown, Raise, TriggerGuards, CloseContext, Unregister, FiniContext
  <2>3. \A g \in Guards : life'[g] = life[g]
    <3>1. CASE CloseContext(t) \/ FiniContext(t)
      BY <3>1, Works DEF CloseContext, FiniContext, GoTo, TypeOK
    <3>2. CASE \E c \in Contexts : InitContext(t, c)
      BY <3>2 DEF InitContext, TypeOK
    <3>3. QED
      BY <1>10, <3>1, <3>2 DEF CallShutdown, DropContext, RegisterContext, InstallHandlers,
                               RclShutdown, Raise, TriggerGuards, Unregister
  <2>4. QED
    BY <1>2, <2>1, <2>2, <2>3
<1>11. CASE Signal \/ SignalThread \/ UNCHANGED vars
  BY <1>11 DEF Signal, SignalThread, SemWait, Walk, WalkTo, SignalShutdown, SignalTrigger, vars
<1>12. QED
  BY <1>3, <1>4, <1>5, <1>6, <1>7, <1>8, <1>9, <1>10, <1>11 DEF Next, Calls, Continues

(* A context leaves the table before its object goes, and not while the     *)
(* signal thread is at work on the table.                                   *)
LEMMA TabledStep ==
  ASSUME ContextInv, [Next]_vars
  PROVE  Tabled'
<1> USE ContextAssumption DEF ContextInv
<1>1. Range(table) \subseteq Contexts /\ DOMAIN table = 1 .. Len(table)
  BY ArraysHold, LenProperties DEF TypeOK
<1>2. ASSUME UNCHANGED <<table, sigPc, target>>,
             \A c \in Range(table) : life'[c] \in {life[c], "live", "closing"}
      PROVE  Tabled'
  BY <1>2 DEF Tabled
<1>3. ASSUME NEW t \in Threads, RegisterContext(t)
      PROVE  Tabled'
  <2>1. arg[t] \in Contexts /\ arg[t] \notin Range(table) /\ life[arg[t]] = "live"
    BY <1>3, Works DEF RegisterContext, GoTo, ContextLife, InitSteps
  <2>2. \/ UNCHANGED table
        \/ NoDuplicates(table') /\ Range(table') = Range(table) \cup {arg[t]}
    BY <1>3, <2>1, AppendAdds DEF RegisterContext, TypeOK, Tabled
  <2>3. UNCHANGED <<life, sigPc, target>>
    BY <1>3 DEF RegisterContext, sigVars
  <2>4. QED
    BY <2>1, <2>2, <2>3 DEF Tabled
<1>4. ASSUME NEW t \in Threads, Unregister(t)
      PROVE  Tabled'
  <2>1. NoDuplicates(table') /\ Range(table') = Range(table) \ {arg[t]}
    BY <1>4, SwapRemoveRemoves DEF Unregister, TypeOK, Tabled
  <2>2. UNCHANGED <<life, sigPc, target>> /\ sigPc \notin {"shutdown", "notify"}
    BY <1>4 DEF Unregister, TableFree, sigVars
  <2>3. QED
    BY <2>1, <2>2 DEF Tabled
<1>5. ASSUME NEW t \in Threads, FiniGuard(t) \/ FiniContext(t)
      PROVE  Tabled'
  <2>1. arg[t] \notin Range(table)
    BY <1>1, <1>5, Works DEF FiniGuard, FiniContext, GoTo, ContextLife, GuardSteps
  <2>2. UNCHANGED <<table, sigPc, target>> /\ \A h \in Contexts : h # arg[t] => life'[h] = life[h]
    BY <1>5 DEF FiniGuard, FiniContext, sigVars, TypeOK
  <2>3. QED
    BY <1>1, <1>2, <2>1, <2>2
<1>6. ASSUME NEW t \in Threads,
             \/ \E c \in Contexts : InitContext(t, c)
             \/ \E g \in Guards : CreateGuard(t, g)
             \/ CloseGuard(t) \/ CloseContext(t)
      PROVE  Tabled'
  <2>1. UNCHANGED <<table, sigPc, target>>
    BY <1>6 DEF InitContext, CreateGuard, CloseGuard, CloseContext, sigVars
  <2>2. \A h \in Contexts : life'[h] \in {life[h], "live", "closing"}
    BY <1>6 DEF InitContext, CreateGuard, CloseGuard, CloseContext, TypeOK
  <2>3. QED
    BY <1>1, <1>2, <2>1, <2>2
<1>7. ASSUME NEW t \in Threads,
             \/ \E c \in Contexts : CallShutdown(t, c) \/ DropContext(t, c)
             \/ \E g \in Guards : StartSpin(t, g) \/ DropGuard(t, g)
             \/ InstallHandlers(t) \/ AddShutdownGuard(t) \/ CheckOk(t) \/ WakeUp(t)
             \/ RclShutdown(t) \/ Raise(t) \/ TriggerGuards(t) \/ UnlistGuard(t)
      PROVE  UNCHANGED <<life, table, sigPc, target>>
  BY <1>7 DEF CallShutdown, DropContext, StartSpin, DropGuard, InstallHandlers,
              AddShutdownGuard, CheckOk, WakeUp, RclShutdown, Raise, TriggerGuards, UnlistGuard, sigVars
<1>8. ASSUME SignalThread
      PROVE  Tabled'
  <2>1. UNCHANGED <<life, table>>
    BY <1>8 DEF SignalThread, SemWait, Walk, WalkTo, SignalShutdown, SignalTrigger
  <2>2. CASE Walk
    <3>1. \/ target' = NoOne /\ sigPc' \in {"walk", "sem_wait"}
          \/ target' \in Range(table) /\ sigPc' = "shutdown"
      BY <2>2 DEF Walk, WalkTo, SigGoTo, Range
    <3>2. QED
      BY <2>1, <3>1 DEF Tabled
  <2>3. CASE SemWait \/ SignalShutdown \/ SignalTrigger
    BY <2>1, <2>3 DEF SemWait, SignalShutdown, SignalTrigger, SigGoTo, Tabled
  <2>4. QED
    BY <1>8, <2>2, <2>3 DEF SignalThread
<1>9. ASSUME Signal \/ UNCHANGED vars
      PROVE  UNCHANGED <<life, table, sigPc, target>>
  BY <1>9 DEF Signal, vars, sigVars
<1>10. QED
  BY <1>2, <1>3, <1>4, <1>5, <1>6, <1>7, <1>8, <1>9 DEF Next, Calls, Continues

(* What is referred to stays live until the last reference is dropped.      *)
LEMMA ContextLifeStep ==
  ASSUME ContextInv, [Next]_vars
  PROVE  ContextLife'
<1> USE ContextAssumption DEF ContextInv
<1> DEFINE Kept(t) == \A u \in Threads \ {t} : pc'[u] = pc[u] /\ arg'[u] = arg[u]
<1>1. Range(table) \subseteq Contexts
  BY ArraysHold
<1>2. \A t \in Threads :
        /\ pc[t] \in GuardSteps => arg[t] \in Guards /\ ParentOf[arg[t]] \in Contexts
        /\ pc[t] \in InitSteps \cup CallSteps \cup CloseSteps => arg[t] \in Contexts
        /\ pc[t] \in InitSteps \cup CloseSteps => \A u \in Threads \ {t} : arg[u] # arg[t]
  BY Works
<1>3. ASSUME held' = held, \A g \in Guards : life'[g] = life[g]
      PROVE  \A c : Holders(c)' = Holders(c)
  BY <1>3 DEF Holders
<1>4. ASSUME NEW t \in Threads, Kept(t), UNCHANGED <<life, held>>,
             \A c \in Range(table') : c \in Range(table),
             pc'[t] \in CallSteps => arg'[t] \in held,
             pc'[t] \notin InitSteps \cup CloseSteps
      PROVE  ContextLife'
  <2>1. \A c : Holders(c)' = Holders(c)
    BY <1>3, <1>4
  <2>2. ASSUME NEW u \in Threads \ {t}
        PROVE  /\ pc'[u] = pc[u] /\ arg'[u] = arg[u]
               /\ pc[u] \in CallSteps => arg[u] \in held
               /\ pc[u] \in InitSteps \cup CloseSteps => Holders(arg[u])' = {}
               /\ pc[u] \in InitSteps => life[arg[u]] = "live"
               /\ pc[u] \in {"register", "finiContext"} => arg[u] \notin Range(table')
    BY <1>4, <2>1 DEF ContextLife
  <2>3. "finiContext" \in CloseSteps /\ "register" \in InitSteps
    BY DEF InitSteps, CloseSteps
  <2>4. QED
    BY <1>4, <2>1, <2>2, <2>3 DEF ContextLife
<1>5. ASSUME NEW t \in Threads, NEW c \in Contexts, InitContext(t, c)
      PROVE  ContextLife'
  <2>1. /\ Kept(t) /\ UNCHANGED <<held, table>>
        /\ pc'[t] = "register" /\ arg'[t] = c
        /\ life' = [life EXCEPT ![c] = "live"] /\ life[c] = "absent"
        /\ \A u \in Threads : arg[u] # c
    BY <1>5 DEF InitContext, Enter, InUse, TypeOK
  <2>2. \A d : Holders(d)' = Holders(d)
    BY <1>3, <2>1 DEF TypeOK
  <2>3. Holders(c) = {} /\ c \notin Range(table)
    BY <2>1 DEF ContextLife, Tabled
  <2>4. life'[c] = "live" /\ \A d \in Contexts \ {c} : life'[d] = life[d]
    BY <2>1 DEF TypeOK
  <2>5. "register" \notin CallSteps
    BY DEF CallSteps
  <2>6. QED
    BY <1>2, <2>1, <2>2, <2>3, <2>4, <2>5 DEF ContextLife
<1>6. ASSUME NEW t \in Threads, RegisterContext(t) \/ InstallHandlers(t)
      PROVE  ContextLife'
  <2>1. /\ Kept(t) /\ UNCHANGED life /\ pc[t] \in InitSteps
        /\ \/ held' = held \cup {arg[t]} /\ pc'[t] = "idle"
           \/ held' = held /\ pc'[t] = "install" /\ arg'[t] = arg[t]
    BY <1>6 DEF RegisterContext, InstallHandlers, GoTo, TypeOK, InitSteps
  <2>2. /\ arg[t] \in Contexts /\ life[arg[t]] = "live" /\ Holders(arg[t]) = {}
        /\ \A u \in Threads \ {t} : arg[u] # arg[t]
    BY <1>2, <2>1 DEF ContextLife
  <2>3. Range(table') \subseteq Range(table) \cup {arg[t]}
    <3>1. CASE RegisterContext(t)
      BY <2>2, <3>1, AppendAdds DEF RegisterContext, TypeOK
    <3>2. CASE InstallHandlers(t)
      BY <3>2 DEF InstallHandlers
    <3>3. QED
      BY <1>6, <3>1, <3>2
  <2>4. \A d : d # arg[t] \/ held' = held => Holders(d)' = Holders(d)
    BY <2>1 DEF Holders
  <2>5. /\ "idle" \notin InitSteps \cup CallSteps \cup CloseSteps
        /\ "install" \notin CallSteps \cup CloseSteps
    BY DEF InitSteps, CallSteps, CloseSteps
  <2>6. QED
    BY <2>1, <2>2, <2>3, <2>4, <2>5 DEF ContextLife
<1>7. ASSUME NEW t \in Threads, NEW g \in Guards, CreateGuard(t, g)
      PROVE  ContextLife'
  <2>1. /\ Kept(t) /\ UNCHANGED <<held, table>> /\ pc'[t] = "addGuard"
        /\ life' = [life EXCEPT ![g] = "live"]
        /\ life[ParentOf[g]] = "live" /\ ParentOf[g] \in held /\ ParentOf[g] \in Contexts
    BY <1>7 DEF CreateGuard, Enter, TypeOK
  <2>2. \A d : d # ParentOf[g] => Holders(d)' = Holders(d)
    BY <2>1 DEF Holders, TypeOK
  <2>3. Holders(ParentOf[g]) # {}
    BY <2>1 DEF Holders
  <2>4. \A d \in Contexts : life'[d] = life[d]
    BY <2>1 DEF TypeOK
  <2>5. "addGuard" \notin InitSteps \cup CallSteps \cup CloseSteps
    BY DEF InitSteps, CallSteps, CloseSteps
  <2>6. QED
    BY <1>2, <2>1, <2>2, <2>3, <2>4, <2>5 DEF ContextLife
<1>8. ASSUME NEW t \in Threads, CloseGuard(t)
      PROVE  ContextLife'
  <2>1. /\ Kept(t) /\ UNCHANGED <<held, table>> /\ pc'[t] = "unlistGuard" /\ arg[t] \in Guards
        /\ life' = [life EXCEPT ![arg[t]] = "closing"] /\ life[arg[t]] = "live"
    BY <1>2, <1>8 DEF CloseGuard, GoTo, TypeOK, GuardLife, GuardSteps
  <2>2. \A d : Holders(d)' = Holders(d)
    BY <2>1 DEF Holders, TypeOK
  <2>3. \A d \in Contexts : life'[d] = life[d]
    BY <2>1 DEF TypeOK
  <2>4. "unlistGuard" \notin InitSteps \cup CallSteps \cup CloseSteps
    BY DEF InitSteps, CallSteps, CloseSteps
  <2>5. QED
    BY <1>2, <2>1, <2>2, <2>3, <2>4 DEF ContextLife
<1>9. ASSUME NEW t \in Threads, NEW g, NEW c, g = arg[t], c = ParentOf[g], FiniGuard(t)
      PROVE  ContextLife'
  <2>1. /\ Kept(t) /\ UNCHANGED <<held, table>> /\ g \in Guards /\ c \in Contexts
        /\ life' = [life EXCEPT ![g] = "gone"]
    BY <1>2, <1>9 DEF FiniGuard, GoTo, TypeOK, GuardSteps
  <2>2. \A d : Holders(d)' = Holders(d) \ {g}
    <3>1. /\ g \notin held
          /\ \A x \in Guards : life'[x] = IF x = g THEN "gone" ELSE life[x]
      BY <2>1 DEF TypeOK
    <3>2. QED
      BY <2>1, <3>1 DEF Holders
  <2>3. \A d \in Contexts : life'[d] = life[d]
    BY <2>1 DEF TypeOK
  <2>4. \/ pc'[t] = "idle"
        \/ pc'[t] = "closeContext" /\ arg'[t] = c /\ Holders(c)' = {}
    BY <1>9, <2>2 DEF FiniGuard, GoTo, TypeOK
  <2>5. {"idle", "closeContext"} \cap (InitSteps \cup {"finiContext"} \cup CallSteps) = {}
        /\ "idle" \notin CloseSteps
    BY DEF InitSteps, CallSteps, CloseSteps
  <2>6. QED
    BY <1>2, <2>1, <2>2, <2>3, <2>4, <2>5 DEF ContextLife
<1>10. ASSUME NEW t \in Threads, NEW c \in Contexts, DropContext(t, c)
       PROVE  ContextLife'
  <2>1. /\ Kept(t) /\ UNCHANGED <<life, table>> /\ held' = held \ {c}
        /\ \A u \in Threads : arg[u] # c
    BY <1>10 DEF DropContext, Enter, InUse, TypeOK
  <2>2. \A d : Holders(d)' = Holders(d) \ {c}
    BY <2>1 DEF Holders
  <2>3. \/ pc'[t] = "idle"
        \/ pc'[t] = "closeContext" /\ arg'[t] = c /\ Holders(c)' = {}
    BY <1>10, <2>2 DEF DropContext, Enter, TypeOK
  <2>4. {"idle", "closeContext"} \cap (InitSteps \cup {"finiContext"} \cup CallSteps) = {}
        /\ "idle" \notin CloseSteps
    BY DEF InitSteps, CallSteps, CloseSteps
  <2>5. QED
    BY <1>2, <2>1, <2>2, <2>3, <2>4 DEF ContextLife
<1>11. ASSUME NEW t \in Threads, CloseContext(t) \/ Unregister(t) \/ FiniContext(t)
       PROVE  ContextLife'
  <2>1. pc[t] \in CloseSteps
    BY <1>11 DEF CloseContext, Unregister, FiniContext, GoTo, CloseSteps
  <2>2. arg[t] \in Contexts /\ Holders(arg[t]) = {} /\ \A u \in Threads \ {t} : arg[u] # arg[t]
    BY <1>2, <2>1 DEF ContextLife
  <2>3. Kept(t) /\ UNCHANGED held /\ \A h \in Contexts \cup Guards : h # arg[t] => life'[h] = life[h]
    BY <1>11 DEF CloseContext, Unregister, FiniContext, GoTo, TypeOK
  <2>4. \A d : Holders(d)' = Holders(d)
    BY <1>3, <2>2, <2>3
  <2>5. /\ pc'[t] \in {"unregister", "finiContext", "idle"}
        /\ pc'[t] # "idle" => arg'[t] = arg[t]
    BY <1>11 DEF CloseContext, Unregister, FiniContext, GoTo, TypeOK
  <2>6. /\ Range(table') \subseteq Range(table)
        /\ pc'[t] = "finiContext" => arg[t] \notin Range(table')
    BY <1>11, SwapRemoveRemoves
       DEF CloseContext, Unregister, FiniContext, GoTo, TypeOK, Tabled
  <2>7. {"unregister", "finiContext", "idle"} \cap (InitSteps \cup CallSteps) = {}
        /\ "idle" \notin CloseSteps
    BY DEF InitSteps, CallSteps, CloseSteps
  <2>8. QED
    BY <1>2, <2>2, <2>3, <2>4, <2>5, <2>6, <2>7 DEF ContextLife
<1>12. ASSUME NEW t \in Threads,
              \/ \E c \in Contexts : CallShutdown(t, c)
              \/ \E g \in Guards : StartSpin(t, g) \/ DropGuard(t, g)
              \/ AddShutdownGuard(t) \/ CheckOk(t) \/ WakeUp(t) \/ RclShutdown(t) \/ Raise(t)
              \/ TriggerGuards(t) \/ UnlistGuard(t)
       PROVE  ContextLife'
  <2>1. Kept(t) /\ UNCHANGED <<life, held, table>>
    BY <1>12 DEF CallShutdown, StartSpin, DropGuard, AddShutdownGuard, CheckOk, WakeUp,
                 RclShutdown, Raise, TriggerGuards, UnlistGuard, Enter, GoTo, TypeOK
  <2>2. pc'[t] \in CallSteps => arg'[t] \in held
    <3>1. CASE \E c \in Contexts : CallShutdown(t, c)
      BY <3>1 DEF CallShutdown, Enter, TypeOK
    <3>2. CASE RclShutdown(t)
      BY <3>2 DEF RclShutdown, GoTo, TypeOK, ContextLife, CallSteps
    <3>3. CASE \/ \E g \in Guards : StartSpin(t, g) \/ DropGuard(t, g)
               \/ AddShutdownGuard(t) \/ CheckOk(t) \/ WakeUp(t) \/ Raise(t)
               \/ TriggerGuards(t) \/ UnlistGuard(t)
      BY <3>3 DEF StartSpin, DropGuard, AddShutdownGuard, CheckOk, WakeUp, Raise, TriggerGuards,
                  UnlistGuard, Enter, GoTo, TypeOK, CallSteps
    <3>4. QED
      BY <1>12, <3>1, <3>2, <3>3
  <2>3. pc'[t] \notin InitSteps \cup CloseSteps
    BY <1>12 DEF CallShutdown, StartSpin, DropGuard, AddShutdownGuard, CheckOk, WakeUp,
                 RclShutdown, Raise, TriggerGuards, UnlistGuard, Enter, GoTo, TypeOK, InitSteps, CloseSteps
  <2>4. QED
    BY <1>4, <2>1, <2>2, <2>3
<1>13. ASSUME Signal \/ SignalThread \/ UNCHANGED vars
       PROVE  ContextLife'
  <2>1. UNCHANGED <<life, held, table, pc, arg>>
    BY <1>13 DEF Signal, SignalThread, SemWait, Walk, WalkTo, SignalShutdown, SignalTrigger, vars
  <2>2. QED
    BY <1>3, <2>1 DEF ContextLife
<1>14. QED
  BY <1>5, <1>6, <1>7, <1>8, <1>9, <1>10, <1>11, <1>12, <1>13 DEF Next, Calls, Continues

(* An executor blocks while its context is up, and whoever takes the context *)
(* down triggers every guard condition of its list.                         *)
LEMMA BlockedStep ==
  ASSUME ContextInv, [Next]_vars
  PROVE  NobodyIsLeftBlocked'
<1> USE ContextAssumption DEF ContextInv
<1> DEFINE Kept(t) == \A u \in Threads \ {t} : pc'[u] = pc[u] /\ arg'[u] = arg[u]
<1>1. ASSUME NEW t \in Threads, pc[t] = "blocked"
      PROVE  /\ arg[t] \in Guards /\ ParentOf[arg[t]] \in Contexts
             /\ arg[t] \in Range(listed[ParentOf[arg[t]]]) /\ life[arg[t]] = "live"
             /\ \A u \in Threads \ {t} : arg[u] # arg[t]
             /\ Holders(ParentOf[arg[t]]) # {}
  <2>1. arg[t] \in Guards /\ ParentOf[arg[t]] \in Contexts /\ \A u \in Threads \ {t} : arg[u] # arg[t]
    BY <1>1, Works DEF GuardSteps
  <2>2. arg[t] \in Range(listed[ParentOf[arg[t]]]) /\ life[arg[t]] = "live"
    BY <1>1 DEF GuardLife
  <2>3. QED
    BY <2>1, <2>2 DEF Holders
<1>2. ASSUME NEW t \in Threads, Kept(t), pc[t] # "trigger", pc'[t] # "blocked",
             UNCHANGED <<rclOk, triggered, sigPc, target>>
      PROVE  NobodyIsLeftBlocked'
  BY <1>2 DEF NobodyIsLeftBlocked
<1>3. ASSUME NEW t \in Threads,
             \/ \E c \in Contexts : CallShutdown(t, c) \/ DropContext(t, c)
             \/ \E g \in Guards : CreateGuard(t, g) \/ StartSpin(t, g) \/ DropGuard(t, g)
             \/ RegisterContext(t) \/ InstallHandlers(t) \/ AddShutdownGuard(t) \/ Raise(t)
             \/ CloseGuard(t) \/ UnlistGuard(t) \/ CloseContext(t) \/ Unregister(t)
      PROVE  NobodyIsLeftBlocked'
  <2>1. Kept(t)
    BY <1>3 DEF CallShutdown, DropContext, CreateGuard, StartSpin, DropGuard, RegisterContext,
                InstallHandlers, AddShutdownGuard, Raise, CloseGuard, UnlistGuard, CloseContext, Unregister,
                Enter, GoTo, TypeOK
  <2>2. pc[t] # "trigger" /\ pc'[t] # "blocked"
    BY <1>3 DEF CallShutdown, DropContext, CreateGuard, StartSpin, DropGuard, RegisterContext,
                InstallHandlers, AddShutdownGuard, Raise, CloseGuard, UnlistGuard, CloseContext, Unregister,
                Enter, GoTo, TypeOK
  <2>3. UNCHANGED <<rclOk, triggered, sigPc, target>>
    BY <1>3 DEF CallShutdown, DropContext, CreateGuard, StartSpin, DropGuard, RegisterContext,
                InstallHandlers, AddShutdownGuard, Raise, CloseGuard, UnlistGuard, CloseContext, Unregister, sigVars
  <2>4. QED
    BY <1>2, <2>1, <2>2, <2>3
<1>4. ASSUME NEW t \in Threads, NEW c \in Contexts, InitContext(t, c)
      PROVE  NobodyIsLeftBlocked'
  <2>1. /\ Kept(t) /\ pc[t] # "trigger" /\ pc'[t] # "blocked" /\ rclOk \subseteq rclOk'
        /\ UNCHANGED <<triggered, sigPc, target>>
    BY <1>4 DEF InitContext, Enter, TypeOK, sigVars
  <2>2. QED
    BY <2>1 DEF NobodyIsLeftBlocked
<1>5. ASSUME NEW t \in Threads, CheckOk(t)
      PROVE  NobodyIsLeftBlocked'
  <2>1. /\ Kept(t) /\ pc[t] = "spin"
        /\ pc'[t] = "blocked" => arg'[t] = arg[t] /\ ParentOf[arg[t]] \in rclOk
        /\ UNCHANGED <<rclOk, triggered, sigPc, target>>
    BY <1>5 DEF CheckOk, GoTo, TypeOK, sigVars
  <2>2. QED
    BY <2>1 DEF NobodyIsLeftBlocked
<1>6. ASSUME NEW t \in Threads, WakeUp(t) \/ FiniGuard(t)
      PROVE  NobodyIsLeftBlocked'
  <2>1. /\ Kept(t) /\ pc[t] # "trigger" /\ pc'[t] # "blocked"
        /\ triggered' = triggered \ {arg[t]} /\ UNCHANGED <<rclOk, sigPc, target>>
    BY <1>6 DEF WakeUp, FiniGuard, GoTo, TypeOK, sigVars
  <2>2. QED
    BY <1>1, <2>1 DEF NobodyIsLeftBlocked
<1>7. ASSUME NEW t \in Threads, RclShutdown(t)
      PROVE  NobodyIsLeftBlocked'
  <2>1. /\ Kept(t) /\ arg'[t] = arg[t] /\ pc[t] = "rcl_shutdown"
        /\ pc'[t] = IF arg[t] \in rclOk THEN "trigger" ELSE "raise"
        /\ rclOk' = rclOk \ {arg[t]} /\ UNCHANGED <<triggered, sigPc, target>>
    BY <1>7 DEF RclShutdown, GoTo, TypeOK, sigVars
  <2>2. QED
    BY <2>1 DEF NobodyIsLeftBlocked
<1>8. ASSUME NEW t \in Threads, TriggerGuards(t)
      PROVE  NobodyIsLeftBlocked'
  <2>1. /\ Kept(t) /\ pc[t] = "trigger" /\ pc'[t] = "idle"
        /\ triggered' = triggered \cup Range(listed[arg[t]])
        /\ UNCHANGED <<rclOk, sigPc, target>>
    BY <1>8 DEF TriggerGuards, Triggers, GoTo, TypeOK, sigVars
  <2>2. QED
    BY <1>1, <2>1 DEF NobodyIsLeftBlocked
<1>9. ASSUME NEW t \in Threads, FiniContext(t)
      PROVE  NobodyIsLeftBlocked'
  <2>1. /\ Kept(t) /\ pc[t] = "finiContext" /\ pc'[t] = "idle"
        /\ rclOk' = rclOk \ {arg[t]} /\ UNCHANGED <<triggered, sigPc, target>>
    BY <1>9 DEF FiniContext, GoTo, TypeOK, sigVars
  <2>2. Holders(arg[t]) = {}
    BY <2>1 DEF ContextLife, CloseSteps
  <2>3. QED
    BY <1>1, <2>1, <2>2 DEF NobodyIsLeftBlocked
<1>10. CASE SignalShutdown
  BY <1>10 DEF SignalShutdown, SigGoTo, NobodyIsLeftBlocked
<1>11. CASE SignalTrigger
  BY <1>1, <1>11 DEF SignalTrigger, Triggers, NobodyIsLeftBlocked
<1>12. CASE SemWait \/ Walk
  <2>1. UNCHANGED <<rclOk, triggered, pc, arg>> /\ sigPc # "notify"
    BY <1>12 DEF SemWait, Walk, WalkTo, SigGoTo
  <2>2. QED
    BY <2>1 DEF NobodyIsLeftBlocked
<1>13. CASE Signal \/ UNCHANGED vars
  BY <1>13 DEF Signal, vars, sigVars, NobodyIsLeftBlocked
<1>14. QED
  BY <1>3, <1>4, <1>5, <1>6, <1>7, <1>8, <1>9, <1>10, <1>11, <1>12, <1>13
     DEF Next, Calls, Continues, SignalThread
-------------------------------------------------------------------------------
LEMMA ContextInvariance == Spec => []ContextInv
<1>1. ContextInv /\ [Next]_vars => ContextInv'
  BY TypeStep, AloneStep, ListingStep, GuardLifeStep, TabledStep, ContextLifeStep, BlockedStep
     DEF ContextInv
<1>2. QED
  BY ContextInit, <1>1, PTL DEF Spec

(* Both C arrays, g_contexts and shutdown_guards, stay within their bounds, *)
(* whatever is created, registered and torn down at once.                   *)
THEOREM ArraysAreBounded == Spec => []TypeOK
<1>1. ContextInv => TypeOK
  BY DEF ContextInv
<1>2. QED
  BY ContextInvariance, <1>1, PTL

(* What rcllean_context_signal_shutdown and rcllean_context_shutdown        *)
(* trigger under the guards mutex has not been finalized.                   *)
THEOREM ShutdownTriggersLiveGuards == Spec => []ListedGuardsAreLive
<1>1. ContextInv => ListedGuardsAreLive
  BY DEF ContextInv, Listing, ListedGuardsAreLive
<1>2. QED
  BY ContextInvariance, <1>1, PTL

(* The signal thread finds no finalized context, though it takes no         *)
(* reference to one.                                                        *)
THEOREM SignalThreadFindsLiveContexts == Spec => []SignalledContextsAreLive
<1>1. ContextInv => SignalledContextsAreLive
  BY DEF ContextInv, Tabled, SignalledContextsAreLive
<1>2. QED
  BY ContextInvariance, <1>1, PTL

(* However Context.shutdown, Ctrl-C, finalizers and executors going to      *)
(* sleep interleave, an executor blocked on a context that is down has been *)
(* triggered or is about to be.                                             *)
THEOREM ShutdownWakesEveryExecutor == Spec => []NobodyIsLeftBlocked
<1>1. ContextInv => NobodyIsLeftBlocked
  BY DEF ContextInv
<1>2. QED
  BY ContextInvariance, <1>1, PTL
===============================================================================
