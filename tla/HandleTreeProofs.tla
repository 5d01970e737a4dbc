--------------------------- MODULE HandleTreeProofs ---------------------------
(***************************************************************************)
(* For any tree of handles and any number of threads: each handle is torn  *)
(* down once and before its memory goes, the lists of children are sound,  *)
(* and a clock outlives its timers; and if the application destroys        *)
(* nothing above what another thread is creating, children go before their *)
(* parents.                                                                *)
(***************************************************************************)
EXTENDS HandleTree, SequenceTheorems, TLAPS

Elements(s) == {s[i] : i \in DOMAIN s}
Distinct(s) == \A i, j \in DOMAIN s : s[i] = s[j] => i = j

Stacked == Elements(stack)

(* The steps in which a thread has the only reference to a handle.          *)
Owning(t) == pc[t] \in {"link", "rcl_init", "finalize", "release"}

(* What an owner has is nobody else's.                                      *)
Ownership(t) ==
  Owning(t) =>
    /\ arg[t] \in Handles \ held
    /\ memory[arg[t]] = IF pc[t] = "link" THEN "absent" ELSE "allocated"
    /\ \A c \in Handles : memory[c] = "allocated" => ParentOf[c] # arg[t]
    /\ \A c \in ticking : ClockOf[c] # arg[t]
    /\ \A u \in Threads \ {t} : Owning(u) => arg[u] # arg[t]
    /\ pc[t] = "rcl_init" => rcl[arg[t]] # "init"
    /\ pc[t] = "rcl_init" /\ ParentOf[arg[t]] = Null => arg[t] \in valid
    /\ pc[t] = "release" => arg[t] \notin valid \cup Stacked

(* Who uses a handle, or creates one below it, keeps a reference to it.     *)
Borrowing(t) ==
  /\ pc[t] \in Creating =>
       /\ {ParentOf[arg[t]], ClockOf[arg[t]]} \ {Null} \subseteq held
  /\ pc[t] \in {"call", "destroy"} => arg[t] \in held
  /\ pc[t] = "destroy" => ParentOf[arg[t]] # Null

References ==
  /\ \A h \in Handles : memory[h] = "absent" => rcl[h] = "zero"
  /\ \A h \in held :
       /\ memory[h] = "allocated" /\ rcl[h] # "zero"
       /\ ParentOf[h] = Null => h \in valid /\ rcl[h] = "init"
  /\ \A h \in Handles :
       memory[h] = "allocated" /\ ParentOf[h] # Null => memory[ParentOf[h]] = "allocated"
  /\ \A h \in ticking :
       /\ ClockOf[h] # Null /\ memory[ClockOf[h]] = "allocated"
       /\ ClockOf[h] \in valid /\ rcl[ClockOf[h]] = "init"

(* The handles that are being torn down, each once.                         *)
Teardown ==
  /\ valid \cap Stacked = {}
  /\ Distinct(stack)
  /\ \A h \in valid \cup Stacked : memory[h] = "allocated" /\ rcl[h] # "fini"
  /\ \A h \in Handles :
       finis[h] = IF memory[h] # "absent" /\ h \notin valid \cup Stacked THEN 1 ELSE 0
  /\ \A h \in Handles : rcl[h] = "init" /\ ClockOf[h] # Null => h \in ticking
  /\ mutex = Null => stack = <<>>
  /\ mutex # Null =>
       /\ pc[mutex] \in {"destroy", "finalize"}
       /\ arg[mutex] \notin valid
       /\ \A h \in Stacked : arg[mutex] \in Ancestry(h)
       /\ pc[mutex] = "finalize" => Stacked \subseteq {arg[mutex]}

(* The lists of children; none goes round in a circle.                      *)
Listed == {h \in valid \cup Stacked : ParentOf[h] # Null}

Lists ==
  \A h \in Handles :
    /\ first[h] # Null => /\ first[h] \in Listed
                          /\ ParentOf[first[h]] = h /\ prev[first[h]] = Null
    /\ next[h] # Null => /\ {h, next[h]} \subseteq Listed
                         /\ prev[next[h]] = h /\ ParentOf[next[h]] = ParentOf[h]
    /\ prev[h] # Null => {h, prev[h]} \subseteq Listed /\ next[prev[h]] = h
    /\ h \in Listed => first[ParentOf[h]] = h \/ prev[h] # Null

Grounded == \A S \in SUBSET Handles : (\A h \in S : prev[h] \in S) => S = {}

(* What follows from what the application keeps apart.                      *)
Apart ==
  Serialized =>
    /\ \A t, u \in Threads :
         pc[t] \in Creating /\ pc[u] = "destroy" => arg[u] \notin Ancestry(arg[t])
    /\ \A t \in Threads : pc[t] = "rcl_init" => arg[t] \in valid
    /\ \A h \in Handles : rcl[h] = "init" =>
         /\ h \in valid \cup Stacked
         /\ ParentOf[h] # Null => rcl[ParentOf[h]] = "init"

TreeInv ==
  /\ TypeOK
  /\ \A t \in Threads : Ownership(t) /\ Borrowing(t)
  /\ References /\ Teardown /\ Lists /\ Grounded /\ Apart
Act(t) == Starts(t) \/ Continues(t)

-------------------------------------------------------------------------------
(* The stack: one more, one less.                                           *)
LEMMA ConsAdds ==
  ASSUME NEW S, NEW s \in Seq(S), NEW x \in S
  PROVE  /\ <<x>> \o s \in Seq(S) /\ Elements(<<x>> \o s) = {x} \cup Elements(s)
         /\ Distinct(s) /\ x \notin Elements(s) => Distinct(<<x>> \o s)
<1> DEFINE c == <<x>> \o s
<1>1. /\ <<x>> \in Seq(S) /\ Len(<<x>>) = 1 /\ <<x>>[1] = x
      /\ Len(s) \in Nat /\ DOMAIN s = 1 .. Len(s)
  BY LenProperties
<1>2. /\ c \in Seq(S) /\ Len(c) = 1 + Len(s)
      /\ \A i \in 1 .. 1 + Len(s) : c[i] = IF i <= 1 THEN <<x>>[i] ELSE s[i - 1]
  BY <1>1, ConcatProperties
<1> HIDE DEF c
<1>3. /\ DOMAIN c = 1 .. Len(s) + 1 /\ c[1] = x
      /\ \A i \in 1 .. Len(s) : c[i + 1] = s[i]
  BY <1>1, <1>2, LenProperties
<1>4. \A i \in DOMAIN c : i = 1 \/ (i - 1 \in DOMAIN s /\ c[i] = s[i - 1])
  <2>1. \A i \in 1 .. Len(s) + 1 : i # 1 => i - 1 \in 1 .. Len(s) /\ (i - 1) + 1 = i
    BY <1>1
  <2>2. QED
    BY <1>1, <1>3, <2>1
<1>5. Elements(c) = {x} \cup Elements(s)
  <2>1. Elements(c) \subseteq {x} \cup Elements(s)
    BY <1>3, <1>4 DEF Elements
  <2>2. x \in Elements(c)
    BY <1>1, <1>3 DEF Elements
  <2>3. Elements(s) \subseteq Elements(c)
    <3>1. \A i \in 1 .. Len(s) : i + 1 \in 1 .. Len(s) + 1
      BY <1>1
    <3>2. QED
      BY <1>1, <1>3, <3>1 DEF Elements
  <2>4. QED
    BY <2>1, <2>2, <2>3
<1>6. ASSUME Distinct(s), x \notin Elements(s)
      PROVE  Distinct(c)
  <2>1. SUFFICES ASSUME NEW i \in DOMAIN c, NEW j \in DOMAIN c, c[i] = c[j]
                 PROVE  i = j
    BY DEF Distinct
  <2>2. CASE i = 1 \/ j = 1
    BY <1>3, <1>4, <1>6, <2>1, <2>2 DEF Elements
  <2>3. CASE i # 1 /\ j # 1
    <3>1. i - 1 = j - 1
      BY <1>4, <1>6, <2>1, <2>3 DEF Distinct
    <3>2. QED
      BY <1>1, <1>3, <3>1
  <2>4. QED
    BY <2>2, <2>3
<1>7. QED
  BY <1>2, <1>5, <1>6 DEF c

LEMMA TailRemoves ==
  ASSUME NEW S, NEW s \in Seq(S), s # <<>>
  PROVE  /\ Head(s) \in S /\ Tail(s) \in Seq(S)
         /\ Elements(s) = {Head(s)} \cup Elements(Tail(s))
         /\ Distinct(s) => Distinct(Tail(s)) /\ Head(s) \notin Elements(Tail(s))
<1> DEFINE r == Tail(s)
<1>1. Len(s) \in Nat /\ DOMAIN s = 1 .. Len(s) /\ Len(s) # 0
  BY LenProperties, EmptySeq
<1>2. /\ Head(s) = s[1] /\ r \in Seq(S) /\ Len(r) = Len(s) - 1
      /\ \A i \in 1 .. Len(r) : r[i] = s[i + 1]
  BY HeadTailProperties
<1>3. s[1] \in S
  BY <1>1, ElementOfSeq
<1> HIDE DEF r
<1>4. DOMAIN r = 1 .. Len(s) - 1
  BY <1>2, LenProperties
<1>5. \A i \in DOMAIN r : i + 1 \in DOMAIN s /\ i + 1 # 1 /\ r[i] = s[i + 1]
  BY <1>1, <1>2, <1>4
<1>6. Elements(s) = {s[1]} \cup Elements(r)
  <2>1. ASSUME NEW i \in DOMAIN s, i # 1
        PROVE  s[i] \in Elements(r)
    <3>1. i - 1 \in DOMAIN r /\ (i - 1) + 1 = i
      BY <1>1, <1>4, <2>1
    <3>2. r[i - 1] = s[i]
      BY <1>5, <3>1
    <3>3. QED
      BY <3>1, <3>2 DEF Elements
  <2>2. {s[1]} \cup Elements(r) \subseteq Elements(s)
    BY <1>1, <1>5 DEF Elements
  <2>3. Elements(s) \subseteq {s[1]} \cup Elements(r)
    BY <2>1 DEF Elements
  <2>4. QED
    BY <2>2, <2>3
<1>7. ASSUME Distinct(s)
      PROVE  Distinct(r) /\ s[1] \notin Elements(r)
  <2>1. ASSUME NEW i \in DOMAIN r, NEW j \in DOMAIN r, r[i] = r[j]
        PROVE  i = j
    <3>1. i + 1 = j + 1
      BY <1>5, <1>7, <2>1 DEF Distinct
    <3>2. QED
      BY <1>1, <1>4, <3>1
  <2>2. ASSUME NEW i \in DOMAIN r
        PROVE  r[i] # s[1]
    BY <1>1, <1>5, <1>7 DEF Distinct
  <2>3. QED
    BY <2>1, <2>2 DEF Distinct, Elements
<1>8. QED
  BY <1>2, <1>3, <1>6, <1>7 DEF r

(* A handle is in its ancestry, with that of its parent; and what holds of  *)
(* it, and of a handle's parent if of the handle, holds of them all.        *)
LEMMA AncestryFacts ==
  /\ \A h \in Handles : h \in Ancestry(h) /\ Ancestry(h) \subseteq Handles
  /\ \A h \in Handles : ParentOf[h] # Null => Ancestry(ParentOf[h]) \subseteq Ancestry(h)
  /\ \A h \in Handles, S \in SUBSET Handles :
       h \in S /\ (\A g \in S : ParentOf[g] \in S \cup {Null}) => Ancestry(h) \subseteq S
<1> USE TreeAssumption DEF Ancestry, Above, Upwards
<1>1. \A h \in Handles : h \in Ancestry(h) /\ Ancestry(h) \subseteq Handles
  OBVIOUS
<1>2. ASSUME NEW h \in Handles, ParentOf[h] # Null
      PROVE  Ancestry(ParentOf[h]) \subseteq Ancestry(h)
  <2>1. ParentOf[h] \in Handles
    BY <1>2
  <2>2. \A S \in Upwards : h \in S => ParentOf[h] \in S
    BY <1>2
  <2>3. QED
    BY <2>1, <2>2
<1>3. \A h \in Handles, S \in SUBSET Handles :
        h \in S /\ (\A g \in S : ParentOf[g] \in S \cup {Null}) => Ancestry(h) \subseteq S
  OBVIOUS
<1>4. QED
  BY <1>1, <1>2, <1>3

-------------------------------------------------------------------------------
(* Where each step leads.                                                   *)
Steps == {"idle", "link", "rcl_init", "call", "destroy", "finalize", "release"}

Goes(t, from, to, h) ==
  /\ pc[t] \in from /\ pc' = [pc EXCEPT ![t] = to] /\ arg' = [arg EXCEPT ![t] = h]
  /\ to \in Steps /\ h \in Handles \cup {Null}

LEMMA GoToStep ==
  ASSUME TypeOK, NEW t \in Threads
  PROVE  /\ \A from, to \in Steps : GoTo(t, from, to) =>
              Goes(t, {from}, to, IF to = "idle" THEN Null ELSE arg[t])
         /\ \A h \in Handles, to \in Steps : Enter(t, to, h) => Goes(t, {"idle"}, to, h)
         /\ UNCHANGED <<pc, arg>> => Goes(t, {pc[t]}, pc[t], arg[t])
<1>1. arg = [arg EXCEPT ![t] = arg[t]] /\ pc = [pc EXCEPT ![t] = pc[t]]
  BY DEF TypeOK
<1>2. pc[t] \in Steps /\ arg[t] \in Handles \cup {Null}
  BY DEF TypeOK, Steps
<1>3. QED
  BY <1>1, <1>2 DEF GoTo, Enter, Goes

LEMMA Moves ==
  ASSUME TypeOK, NEW t \in Threads
  PROVE  /\ \A h \in Handles :
              /\ StartCreate(t, h) => Goes(t, {"idle"}, "link", h)
              /\ StartCall(t, h) => Goes(t, {"idle"}, "call", h)
              /\ StartDestroy(t, h) => Goes(t, {"idle"}, "destroy", h)
              /\ Drop(t, h) => \/ Goes(t, {"idle"}, "finalize", h)
                               \/ Goes(t, {"idle"}, "idle", arg[t]) /\ UNCHANGED <<pc, arg>>
         /\ Link(t) => Goes(t, {"link"}, "rcl_init", arg[t])
         /\ RclInit(t) => Goes(t, {"rcl_init"}, "idle", Null)
         /\ RclInitFails(t) => Goes(t, {"rcl_init"}, "finalize", arg[t])
         /\ EndCall(t) => Goes(t, {"call"}, "idle", Null)
         /\ Lock(t) => Goes(t, {"destroy", "finalize"}, pc[t], arg[t]) /\ UNCHANGED <<pc, arg>>
         /\ DestroyChild(t) => Goes(t, Steps, pc[t], arg[t]) /\ UNCHANGED <<pc, arg>>
         /\ FiniAndUnlink(t) => Goes(t, Steps, pc[t], arg[t]) /\ UNCHANGED <<pc, arg>>
         /\ Unlock(t) => \/ Goes(t, {"destroy"}, "idle", Null)
                         \/ Goes(t, Steps \ {"destroy"}, "release", arg[t])
         /\ Release(t) => \/ Goes(t, {"release"}, "finalize", ParentOf[arg[t]])
                          \/ Goes(t, {"release"}, "idle", Null)
<1>0. pc[t] \in Steps /\ {"idle", "link", "rcl_init", "call", "destroy", "finalize", "release"} = Steps
  BY DEF TypeOK, Steps
<1>1. \A h \in Handles :
        /\ StartCreate(t, h) => Goes(t, {"idle"}, "link", h)
        /\ StartCall(t, h) => Goes(t, {"idle"}, "call", h)
        /\ StartDestroy(t, h) => Goes(t, {"idle"}, "destroy", h)
  BY <1>0, GoToStep DEF StartCreate, StartCall, StartDestroy
<1>2. \A h \in Handles : Drop(t, h) =>
        \/ Goes(t, {"idle"}, "finalize", h)
        \/ Goes(t, {"idle"}, "idle", arg[t]) /\ UNCHANGED <<pc, arg>>
  BY <1>0, GoToStep DEF Drop
<1>3. /\ Link(t) => Goes(t, {"link"}, "rcl_init", arg[t])
      /\ RclInit(t) => Goes(t, {"rcl_init"}, "idle", Null)
      /\ RclInitFails(t) => Goes(t, {"rcl_init"}, "finalize", arg[t])
      /\ EndCall(t) => Goes(t, {"call"}, "idle", Null)
  BY <1>0, GoToStep DEF Link, RclInit, RclInitFails, EndCall
<1>4. /\ Lock(t) => Goes(t, {"destroy", "finalize"}, pc[t], arg[t]) /\ UNCHANGED <<pc, arg>>
      /\ DestroyChild(t) => Goes(t, Steps, pc[t], arg[t]) /\ UNCHANGED <<pc, arg>>
  BY <1>0, GoToStep DEF Lock, DestroyChild, Goes
<1>5. FiniAndUnlink(t) => Goes(t, Steps, pc[t], arg[t]) /\ UNCHANGED <<pc, arg>>
  BY <1>0, GoToStep DEF FiniAndUnlink, Fini, Goes
<1>6. Unlock(t) => \/ Goes(t, {"destroy"}, "idle", Null)
                   \/ Goes(t, Steps \ {"destroy"}, "release", arg[t])
  <2>1. CASE pc[t] = "destroy"
    BY <1>0, <2>1, GoToStep DEF Unlock
  <2>2. CASE pc[t] # "destroy"
    <3>1. Unlock(t) => Goes(t, {pc[t]}, "release", arg[t])
      BY <1>0, <2>2, GoToStep DEF Unlock
    <3>2. QED
      BY <1>0, <2>2, <3>1 DEF Goes
  <2>3. QED
    BY <2>1, <2>2
<1>7. Release(t) => \/ Goes(t, {"release"}, "finalize", ParentOf[arg[t]])
                    \/ Goes(t, {"release"}, "idle", Null)
  <2>1. SUFFICES ASSUME Release(t)
                 PROVE  \/ Goes(t, {"release"}, "finalize", ParentOf[arg[t]])
                        \/ Goes(t, {"release"}, "idle", Null)
    OBVIOUS
  <2>2. CASE GoTo(t, "release", "idle")
    BY <1>0, <2>2, GoToStep
  <2>3. CASE /\ Children(ParentOf[arg[t]]) = {arg[t]} /\ ParentOf[arg[t]] # Null
             /\ pc' = [pc EXCEPT ![t] = "finalize"]
             /\ arg' = [arg EXCEPT ![t] = ParentOf[arg[t]]]
    <3>1. arg[t] \in Handles
      BY <2>3 DEF Children
    <3>2. QED
      BY <1>0, <2>1, <2>3, <3>1, TreeAssumption DEF Goes, Release
  <2>4. QED
    BY <2>1, <2>2, <2>3 DEF Release
<1>8. QED
  BY <1>1, <1>2, <1>3, <1>4, <1>5, <1>6, <1>7

LEMMA Others ==
  ASSUME TypeOK, NEW t \in Threads, Act(t)
  PROVE  \E from, to, h : Goes(t, from, to, h)
BY Moves DEF Act, Starts, Continues

LEMMA GoesTo ==
  ASSUME TypeOK, NEW t \in Threads, NEW from, NEW to, NEW h, Goes(t, from, to, h)
  PROVE  /\ pc[t] \in from /\ pc'[t] = to /\ arg'[t] = h
         /\ \A u \in Threads \ {t} : pc'[u] = pc[u] /\ arg'[u] = arg[u]
         /\ pc' \in [Threads -> Steps] /\ arg' \in [Threads -> Handles \cup {Null}]
BY DEF Goes, TypeOK, Steps

(* Who is in an operation has its handle.                                   *)
LEMMA InUse ==
  ASSUME TreeInv, NEW t \in Threads
  PROVE  /\ pc[t] # "idle" => arg[t] \in Handles
         /\ pc[t] \in {"call", "destroy"} => arg[t] \in held
         /\ held \subseteq Handles
BY DEF TreeInv, TypeOK, Ownership, Owning, Borrowing

(* A teardown starts.                                                       *)
LEMMA LockFacts ==
  ASSUME TreeInv, NEW t \in Threads, Lock(t)
  PROVE  /\ mutex = Null /\ stack = <<>> /\ Stacked = {} /\ mutex' = t /\ arg[t] \in Handles
         /\ pc[t] \in {"destroy", "finalize"}
         /\ pc[t] = "destroy" => arg[t] \in held /\ ParentOf[arg[t]] # Null
         /\ pc[t] = "finalize" => Ownership(t)
         /\ valid' = valid \ {arg[t]} /\ Stacked' = valid \cap {arg[t]}
         /\ stack' \in Seq(Handles) /\ Distinct(stack)'
         /\ valid' \cup Stacked' = valid \cup Stacked
<1>1. /\ mutex = Null /\ mutex' = t /\ valid' = valid \ {arg[t]}
      /\ stack' = IF arg[t] \in valid THEN <<arg[t]>> ELSE <<>>
      /\ pc[t] \in {"destroy", "finalize"}
  BY DEF Lock
<1>2. /\ stack = <<>> /\ arg[t] \in Handles /\ valid \subseteq Handles
      /\ Ownership(t) /\ Borrowing(t)
  BY <1>1, InUse DEF TreeInv, Teardown, TypeOK
<1>3. Stacked = {}
  BY <1>2 DEF Stacked, Elements
<1>4. Stacked' = valid \cap {arg[t]} /\ stack' \in Seq(Handles) /\ Distinct(stack)'
  <2>1. CASE arg[t] \in valid
    <3>1. stack' = <<arg[t]>>
      BY <1>1, <2>1
    <3>2. DOMAIN stack' = {1} /\ stack'[1] = arg[t] /\ stack' \in Seq(Handles)
      BY <1>2, <3>1
    <3>3. QED
      BY <2>1, <3>2 DEF Stacked, Elements, Distinct
  <2>2. CASE arg[t] \notin valid
    <3>1. stack' = <<>>
      BY <1>1, <2>2
    <3>2. DOMAIN stack' = {} /\ stack' \in Seq(Handles)
      BY <3>1
    <3>3. QED
      BY <2>2, <3>2 DEF Stacked, Elements, Distinct
  <2>3. QED
    BY <2>1, <2>2
<1>5. QED
  BY <1>1, <1>2, <1>3, <1>4 DEF Borrowing

(* It goes on with a child.                                                 *)
LEMMA ChildFacts ==
  ASSUME TreeInv, NEW t \in Threads, DestroyChild(t)
  PROVE  \E c \in Listed :
           /\ mutex = t /\ mutex' = t /\ pc[t] = "destroy"
           /\ ParentOf[c] = Top /\ Top \in Stacked /\ arg[t] \in Ancestry(c)
           /\ valid' = valid \ {c} /\ Stacked' = Stacked \cup {c}
           /\ stack' \in Seq(Handles) /\ Distinct(stack)' /\ stack' # <<>>
           /\ valid' \cup Stacked' = valid \cup Stacked
<1> DEFINE c == first[Top]
<1>1. /\ mutex = t /\ mutex' = t /\ stack # <<>> /\ first[Top] # Null
      /\ stack' = IF c \in valid THEN <<c>> \o stack ELSE stack
      /\ valid' = valid \ {c}
  BY DEF DestroyChild
<1>2. stack \in Seq(Handles) /\ Distinct(stack) /\ valid \cap Stacked = {} /\ t # Null
  BY TreeAssumption DEF TreeInv, TypeOK, Teardown
<1>3. Top \in Handles /\ Top \in Stacked
  BY <1>1, <1>2, TailRemoves DEF Top, Stacked
<1>4. c \in Listed /\ ParentOf[c] = Top
  BY <1>1, <1>3 DEF TreeInv, Lists
<1>5. c \in Handles /\ memory[c] = "allocated" /\ c \in valid \cup Stacked
  BY <1>2, <1>4, TailRemoves DEF Listed, TreeInv, TypeOK, Teardown, Stacked, Elements
<1>6. /\ pc[t] \in {"destroy", "finalize"} /\ arg[t] \in Ancestry(Top)
      /\ pc[t] = "finalize" => Top = arg[t]
  BY <1>1, <1>2, <1>3 DEF TreeInv, Teardown
<1>7. pc[t] = "destroy"
  BY <1>4, <1>5, <1>6 DEF TreeInv, Ownership, Owning
<1>8. arg[t] \in Ancestry(c)
  BY <1>3, <1>4, <1>5, <1>6, AncestryFacts, TreeAssumption
<1>9. /\ Stacked' = Stacked \cup {c} /\ stack' \in Seq(Handles) /\ Distinct(stack)'
      /\ stack' # <<>>
  <2>1. CASE c \in valid
    <3>1. stack' = <<c>> \o stack
      BY <1>1, <2>1
    <3>2. /\ <<c>> \o stack \in Seq(Handles) /\ Elements(<<c>> \o stack) = {c} \cup Elements(stack)
          /\ Distinct(<<c>> \o stack)
      BY <1>2, <1>5, <2>1, ConsAdds DEF Stacked
    <3>3. <<c>> \o stack # <<>>
      BY <3>2 DEF Elements
    <3>4. QED
      BY <3>1, <3>2, <3>3 DEF Stacked, Elements, Distinct
  <2>2. CASE c \notin valid
    <3>1. stack' = stack /\ c \in Stacked
      BY <1>1, <1>5, <2>2
    <3>2. QED
      BY <1>1, <1>2, <3>1 DEF Stacked, Elements, Distinct
  <2>3. QED
    BY <2>1, <2>2
<1>10. QED
  BY <1>1, <1>3, <1>4, <1>5, <1>7, <1>8, <1>9

(* It ends with a handle, and with the clock whose last timer that was.     *)
LEMMA FiniFacts ==
  ASSUME TreeInv, NEW t \in Threads, FiniAndUnlink(t)
  PROVE  /\ mutex = t /\ mutex' = t /\ first[Top] = Null
         /\ Top \in Handles \ valid /\ memory[Top] = "allocated"
         /\ Stacked = {Top} \cup Stacked' /\ Top \notin Stacked'
         /\ stack' \in Seq(Handles) /\ Distinct(stack)' /\ stack # <<>>
         /\ valid' = valid \ ClockGoingWith(Top)
         /\ \A h \in Handles :
              /\ rcl'[h] = IF h \in {Top} \cup ClockGoingWith(Top) THEN "fini" ELSE rcl[h]
              /\ finis'[h] = IF h \in {Top} \cup ClockGoingWith(Top) THEN finis[h] + 1
                             ELSE finis[h]
              /\ memory'[h] = IF h \in ClockGoingWith(Top) THEN "freed" ELSE memory[h]
         /\ ticking' = ticking \ {Top}
         /\ \A c \in ClockGoingWith(Top) :
              /\ c \in valid /\ c \notin held \cup Stacked /\ memory[c] = "allocated"
              /\ ParentOf[c] = Null /\ ClockOf[Top] = c /\ ClockOf[c] = Null
              /\ \A h \in Handles : ParentOf[h] # c
              /\ \A h \in ticking \ {Top} : ClockOf[h] # c
              /\ \A u \in Threads : pc[u] # "idle" => arg[u] # c
              /\ \A u \in Threads : pc[u] \in Creating => ClockOf[arg[u]] # c
<1> DEFINE clock == ClockGoingWith(Top)
<1>1. /\ mutex = t /\ mutex' = t /\ first[Top] = Null /\ stack # <<>> /\ stack' = Tail(stack)
      /\ valid' = valid \ clock /\ ticking' = ticking \ {Top}
      /\ rcl' = [h \in Handles |-> IF h \in {Top} \cup (clock \cap valid) THEN "fini" ELSE rcl[h]]
      /\ finis' = [h \in Handles |-> IF h \in {Top} \cup (clock \cap valid) THEN finis[h] + 1
                                     ELSE finis[h]]
      /\ memory' = [h \in Handles |-> IF h \in clock THEN "freed" ELSE memory[h]]
  BY DEF FiniAndUnlink, Fini
<1>2. stack \in Seq(Handles) /\ Distinct(stack) /\ valid \cap Stacked = {}
  BY DEF TreeInv, TypeOK, Teardown
<1>3. /\ Top \in Handles /\ Tail(stack) \in Seq(Handles)
      /\ Elements(stack) = {Top} \cup Elements(Tail(stack))
      /\ Distinct(Tail(stack)) /\ Top \notin Elements(Tail(stack))
  BY <1>1, <1>2, TailRemoves DEF Top
<1>4. /\ Stacked = {Top} \cup Stacked' /\ Top \notin Stacked'
      /\ stack' \in Seq(Handles) /\ Distinct(stack)'
  BY <1>1, <1>3 DEF Stacked, Elements, Distinct
<1>5. Top \notin valid /\ memory[Top] = "allocated"
  BY <1>2, <1>4 DEF TreeInv, Teardown
<1>6. ASSUME NEW c \in clock
      PROVE  /\ c \in valid /\ c \notin held \cup Stacked /\ memory[c] = "allocated"
             /\ ParentOf[c] = Null /\ ClockOf[Top] = c /\ ClockOf[c] = Null
             /\ \A h \in Handles : ParentOf[h] # c
             /\ \A h \in ticking \ {Top} : ClockOf[h] # c
             /\ \A u \in Threads : pc[u] # "idle" => arg[u] # c
             /\ \A u \in Threads : pc[u] \in Creating => ClockOf[arg[u]] # c
  <2>1. /\ c \in Handles \ held /\ Top \in ticking /\ ClockOf[Top] = c
        /\ TimersOf(c) = {Top} /\ ~Borrowed(c)
    BY DEF ClockGoingWith
  <2>2. /\ ParentOf[c] = Null /\ ClockOf[c] = Null /\ \A h \in Handles : ParentOf[h] # c
    BY <1>3, <2>1, TreeAssumption
  <2>3. c \in valid /\ memory[c] = "allocated"
    BY <2>1 DEF TreeInv, References
  <2>4. \A h \in ticking \ {Top} : ClockOf[h] # c
    BY <2>1 DEF TimersOf
  <2>5. ASSUME NEW u \in Threads, pc[u] # "idle"
        PROVE  arg[u] # c
    <3>1. Ownership(u) /\ Borrowing(u) /\ pc[u] \in Steps
      BY DEF TreeInv, TypeOK, Steps
    <3>2. QED
      BY <2>1, <2>5, <3>1 DEF Ownership, Owning, Borrowing, Steps
  <2>6. \A u \in Threads : pc[u] \in Creating => ClockOf[arg[u]] # c
    BY <2>1 DEF Borrowed
  <2>7. QED
    BY <1>2, <2>1, <2>2, <2>3, <2>4, <2>5, <2>6
<1>7. clock \cap valid = clock
  BY <1>6
<1> HIDE DEF clock
<1>8. \A h \in Handles :
         /\ rcl'[h] = IF h \in {Top} \cup clock THEN "fini" ELSE rcl[h]
         /\ finis'[h] = IF h \in {Top} \cup clock THEN finis[h] + 1 ELSE finis[h]
         /\ memory'[h] = IF h \in clock THEN "freed" ELSE memory[h]
  BY <1>1, <1>7
<1>9. QED
  BY <1>1, <1>3, <1>4, <1>5, <1>6, <1>8 DEF clock

-------------------------------------------------------------------------------
(* Every step keeps the types.                                              *)
LEMMA LinksType ==
  ASSUME TypeOK, NEW h \in Handles, NEW p \in Handles
  PROVE  Unlink(h, p) => /\ first' \in [Handles -> Handles \cup {Null}]
                         /\ next' \in [Handles -> Handles \cup {Null}]
                         /\ prev' \in [Handles -> Handles \cup {Null}]
BY DEF Unlink, TypeOK

LEMMA TypeStep ==
  ASSUME TreeInv, NEW t \in Threads, Act(t)
  PROVE  TypeOK'
<1> USE TreeAssumption
<1>1. TypeOK
  BY DEF TreeInv
<1>2. /\ pc' \in [Threads -> Steps]
      /\ arg' \in [Threads -> Handles \cup {Null}]
  <2>1. PICK from, to, h : Goes(t, from, to, h)
    BY <1>1, Others
  <2>2. QED
    BY <1>1, <2>1, GoesTo
<1>3. CASE Starts(t)
  <2>1. UNCHANGED <<memory, rcl, valid, links, ticking, finis, mutex, stack>> /\ held' \subseteq held
    BY <1>3 DEF Starts, StartCreate, StartCall, StartDestroy, Drop
  <2>2. QED
    BY <1>1, <1>2, <2>1 DEF TypeOK, Steps, links
<1>4. CASE Link(t)
  <2> DEFINE h == arg[t]
             p == ParentOf[h]
  <2>1. h \in Handles /\ p \in Handles \cup {Null}
    BY <1>1, <1>4, Moves, InUse, GoesTo
  <2>2. /\ memory' = [memory EXCEPT ![h] = "allocated"] /\ valid' = valid \cup {h}
        /\ UNCHANGED <<rcl, held, ticking, finis, mutex, stack>>
    BY <1>4 DEF Link
  <2>3. /\ first' \in [Handles -> Handles \cup {Null}]
        /\ next' \in [Handles -> Handles \cup {Null}]
        /\ prev' \in [Handles -> Handles \cup {Null}]
    <3>1. \/ p = Null /\ UNCHANGED links
          \/ /\ p # Null /\ first' = [first EXCEPT ![p] = h]
             /\ next' = [next EXCEPT ![h] = first[p]]
             /\ prev' = [g \in Handles |->
                          IF g = h THEN Null ELSE IF g = first[p] THEN h ELSE prev[g]]
      BY <1>4 DEF Link
    <3>2. CASE UNCHANGED links
      BY <1>1, <3>2 DEF links, TypeOK
    <3>3. CASE ~UNCHANGED links
      <4> HIDE DEF h, p
      <4>1. /\ first \in [Handles -> Handles \cup {Null}]
            /\ next \in [Handles -> Handles \cup {Null}]
            /\ prev \in [Handles -> Handles \cup {Null}]
        BY <1>1 DEF TypeOK
      <4>2. p \in Handles /\ h \in Handles
        BY <2>1, <3>1, <3>3
      <4>3. first' \in [Handles -> Handles \cup {Null}]
        BY <3>1, <3>3, <4>1, <4>2
      <4>4. next' \in [Handles -> Handles \cup {Null}]
        BY <3>1, <3>3, <4>1, <4>2
      <4>5. prev' \in [Handles -> Handles \cup {Null}]
        BY <3>1, <3>3, <4>1, <4>2
      <4>6. QED
        BY <4>3, <4>4, <4>5
    <3>4. QED
      BY <3>2, <3>3
  <2>4. QED
    BY <1>1, <1>2, <2>1, <2>2, <2>3 DEF TypeOK, Steps
<1>5. CASE RclInit(t) \/ RclInitFails(t) \/ EndCall(t)
  <2>1. UNCHANGED <<memory, valid, links, finis, mutex, stack>>
    BY <1>5 DEF RclInit, RclInitFails, EndCall
  <2>2. /\ rcl' \in [Handles -> {"zero", "init", "fini"}] /\ held' \subseteq Handles
        /\ ticking' \subseteq Handles
    <3>1. RclInit(t) \/ RclInitFails(t) => arg[t] \in Handles
      BY <1>1, Moves, InUse, GoesTo
    <3>2. CASE RclInit(t)
      BY <1>1, <3>1, <3>2 DEF RclInit, KeepClock, TypeOK
    <3>3. CASE RclInitFails(t)
      BY <1>1, <3>1, <3>3 DEF RclInitFails, KeepClock, TypeOK
    <3>4. CASE EndCall(t)
      BY <1>1, <3>4 DEF EndCall, TypeOK
    <3>5. QED
      BY <1>5, <3>2, <3>3, <3>4
  <2>3. QED
    BY <1>1, <1>2, <2>1, <2>2 DEF TypeOK, Steps, links
<1>6. CASE Lock(t)
  <2>1. /\ UNCHANGED <<memory, rcl, links, held, ticking, finis>> /\ mutex' = t
        /\ valid' \subseteq valid /\ stack' \in Seq(Handles)
    BY <1>6, LockFacts DEF Lock
  <2>2. QED
    BY <1>1, <1>2, <2>1 DEF TypeOK, Steps, links
<1>7. CASE DestroyChild(t)
  <2>1. /\ UNCHANGED <<memory, rcl, links, held, ticking, finis>> /\ mutex' = t
        /\ valid' \subseteq valid /\ stack' \in Seq(Handles)
    BY <1>7, ChildFacts DEF DestroyChild
  <2>2. QED
    BY <1>1, <1>2, <2>1 DEF TypeOK, Steps, links
<1>8. CASE FiniAndUnlink(t)
  <2>1. /\ mutex' = t /\ stack' \in Seq(Handles) /\ Top \in Handles
        /\ valid' \subseteq valid /\ ticking' \subseteq ticking
    BY <1>8, FiniFacts
  <2>2. /\ memory' \in [Handles -> {"absent", "allocated", "freed"}]
        /\ rcl' \in [Handles -> {"zero", "init", "fini"}]
        /\ finis' \in [Handles -> Nat] /\ UNCHANGED held
    BY <1>1, <1>8 DEF FiniAndUnlink, Fini, TypeOK
  <2>3. /\ first' \in [Handles -> Handles \cup {Null}]
        /\ next' \in [Handles -> Handles \cup {Null}]
        /\ prev' \in [Handles -> Handles \cup {Null}]
    BY <1>1, <1>8, <2>1, LinksType DEF FiniAndUnlink, Fini, links, TypeOK
  <2>4. QED
    BY <1>1, <1>2, <2>1, <2>2, <2>3 DEF TypeOK, Steps
<1>9. CASE Unlock(t) \/ Release(t)
  <2>1. Release(t) => arg[t] \in Handles
    BY <1>1, Moves, InUse, GoesTo
  <2>2. /\ UNCHANGED <<rcl, valid, links, held, ticking, finis, stack>>
        /\ memory' \in [Handles -> {"absent", "allocated", "freed"}]
        /\ Unlock(t) => mutex' = Null /\ stack = <<>>
        /\ Release(t) => UNCHANGED mutex
    BY <1>1, <1>9, <2>1 DEF Unlock, Release, TypeOK
  <2>3. QED
    BY <1>1, <1>2, <1>9, <2>2 DEF TypeOK, Steps, links
<1>10. QED
  BY <1>3, <1>4, <1>5, <1>6, <1>7, <1>8, <1>9 DEF Act, Continues

(* What leaves the references is only ever given up by who has them.        *)
LEMMA BorrowingStep ==
  ASSUME TreeInv, NEW t \in Threads, Act(t), NEW u \in Threads
  PROVE  Borrowing(u)'
<1>1. TypeOK /\ Borrowing(u) /\ held \subseteq Handles
  BY InUse DEF TreeInv
<1>2. CASE u # t
  <2>1. pc'[u] = pc[u] /\ arg'[u] = arg[u]
    <3>1. PICK from, to, h : Goes(t, from, to, h)
      BY <1>1, Others
    <3>2. QED
      BY <1>1, <1>2, <3>1, GoesTo
  <2>2. held \subseteq held' \/ \E h \in Handles : held' = held \ {h} /\ ~Borrowed(h)
    BY DEF Act, Starts, Continues, StartCreate, StartCall, StartDestroy, Drop, Link, RclInit,
           RclInitFails, EndCall, Lock, DestroyChild, FiniAndUnlink, Fini, Unlock, Release
  <2>3. CASE held \subseteq held'
    BY <1>1, <2>1, <2>3 DEF Borrowing, Creating
  <2>4. ASSUME NEW h \in Handles, held' = held \ {h}, ~Borrowed(h)
        PROVE  Borrowing(u)'
    BY <1>1, <2>1, <2>4 DEF Borrowing, Borrowed
  <2>5. QED
    BY <2>2, <2>3, <2>4
<1>3. CASE u = t
  <2>1. ASSUME NEW h \in Handles, StartCreate(t, h)
        PROVE  Borrowing(t)'
    <3>1. pc'[t] = "link" /\ arg'[t] = h
      BY <1>1, <2>1, Moves, GoesTo
    <3>2. {ParentOf[h], ClockOf[h]} \ {Null} \subseteq held /\ UNCHANGED held
      BY <2>1 DEF StartCreate
    <3>3. QED
      BY <3>1, <3>2 DEF Borrowing
  <2>2. ASSUME NEW h \in Handles, StartCall(t, h) \/ StartDestroy(t, h)
        PROVE  Borrowing(t)'
    <3>1. /\ arg'[t] = h /\ pc'[t] \in {"call", "destroy"}
          /\ pc'[t] = "destroy" => StartDestroy(t, h)
      BY <1>1, <2>2, Moves, GoesTo
    <3>2. h \in held /\ UNCHANGED held /\ (StartDestroy(t, h) => ParentOf[h] # Null)
      BY <2>2 DEF StartCall, StartDestroy
    <3>3. QED
      BY <3>1, <3>2 DEF Borrowing, Creating
  <2>3. ASSUME \/ \E h \in Handles : Drop(t, h)
               \/ RclInit(t) \/ RclInitFails(t) \/ EndCall(t) \/ Unlock(t) \/ Release(t)
        PROVE  Borrowing(t)'
    <3>1. pc'[t] \in {"idle", "finalize", "release"}
      BY <1>1, <2>3, Moves, GoesTo
    <3>2. QED
      BY <3>1 DEF Borrowing, Creating
  <2>4. CASE Link(t)
    <3>1. pc[t] = "link" /\ pc'[t] = "rcl_init" /\ arg'[t] = arg[t]
      BY <1>1, <2>4, Moves, GoesTo
    <3>2. UNCHANGED held
      BY <2>4 DEF Link
    <3>3. QED
      BY <1>1, <1>3, <3>1, <3>2 DEF Borrowing, Creating
  <2>5. CASE Lock(t) \/ DestroyChild(t) \/ FiniAndUnlink(t)
    <3>1. UNCHANGED <<pc, arg, held>>
      BY <2>5 DEF Lock, DestroyChild, FiniAndUnlink, Fini
    <3>2. QED
      BY <1>1, <1>3, <3>1 DEF Borrowing
  <2>6. QED
    BY <1>3, <2>1, <2>2, <2>3, <2>4, <2>5 DEF Act, Starts, Continues
<1>4. QED
  BY <1>2, <1>3

-------------------------------------------------------------------------------
(* A creation links its handle.                                             *)
LEMMA LinkFacts ==
  ASSUME TreeInv, NEW t \in Threads, Link(t)
  PROVE  /\ pc[t] = "link" /\ Owning(t) /\ Ownership(t) /\ Borrowing(t)
         /\ arg[t] \in Handles \ held /\ memory[arg[t]] = "absent" /\ rcl[arg[t]] = "zero"
         /\ memory' = [memory EXCEPT ![arg[t]] = "allocated"]
         /\ \A h \in Handles : memory'[h] = IF h = arg[t] THEN "allocated" ELSE memory[h]
         /\ valid' = valid \cup {arg[t]} /\ arg[t] \notin valid \cup Stacked
         /\ ParentOf[arg[t]] # Null => /\ ParentOf[arg[t]] \in held
                                       /\ mutex = Null /\ stack = <<>> /\ Stacked = {}
         /\ UNCHANGED <<rcl, held, ticking, finis, mutex, stack, Stacked>>
<1>1. pc[t] = "link" /\ TypeOK
  BY Moves, GoesTo DEF TreeInv
<1>2. Owning(t) /\ Ownership(t) /\ Borrowing(t)
  BY <1>1 DEF TreeInv, Owning
<1>3. arg[t] \in Handles \ held /\ memory[arg[t]] = "absent" /\ rcl[arg[t]] = "zero"
  BY <1>1, <1>2 DEF Ownership, TreeInv, References
<1>4. /\ memory' = [memory EXCEPT ![arg[t]] = "allocated"] /\ valid' = valid \cup {arg[t]}
      /\ ParentOf[arg[t]] # Null => mutex = Null
      /\ UNCHANGED <<rcl, held, ticking, finis, mutex, stack>>
  BY DEF Link
<1>5. \A h \in Handles : memory'[h] = IF h = arg[t] THEN "allocated" ELSE memory[h]
  BY <1>1, <1>3, <1>4 DEF TypeOK
<1>6. arg[t] \notin valid \cup Stacked
  BY <1>3 DEF TreeInv, Teardown
<1>7. ParentOf[arg[t]] # Null => /\ ParentOf[arg[t]] \in held
                                 /\ mutex = Null /\ stack = <<>> /\ Stacked = {}
  BY <1>1, <1>2, <1>4 DEF Borrowing, Creating, TreeInv, Teardown, Stacked, Elements
<1>8. UNCHANGED Stacked
  BY <1>4 DEF Stacked, Elements
<1>9. QED
  BY <1>1, <1>2, <1>3, <1>4, <1>5, <1>6, <1>7, <1>8

(* ... and ends; a timer has its clock then.                                *)
LEMMA InitFacts ==
  ASSUME TreeInv, NEW t \in Threads, RclInit(t) \/ RclInitFails(t)
  PROVE  /\ pc[t] = "rcl_init" /\ Owning(t) /\ Ownership(t) /\ Borrowing(t)
         /\ arg[t] \in Handles \ held /\ memory[arg[t]] = "allocated"
         /\ UNCHANGED <<memory, valid, links, finis, mutex, stack, Stacked>>
         /\ \A h \in ticking' : h \in ticking \/ (h = arg[t] /\ ClockOf[h] # Null)
         /\ ticking \subseteq ticking'
         /\ ClockOf[arg[t]] # Null => arg[t] \in ticking' /\ ClockOf[arg[t]] \in held
         /\ \/ /\ RclInit(t) /\ held' = held \cup {arg[t]}
               /\ ParentOf[arg[t]] # Null => rcl[ParentOf[arg[t]]] = "init"
               /\ \A h \in Handles : rcl'[h] = IF h = arg[t] THEN "init" ELSE rcl[h]
            \/ RclInitFails(t) /\ UNCHANGED <<rcl, held>>
<1>1. pc[t] = "rcl_init" /\ TypeOK
  BY Moves, GoesTo DEF TreeInv
<1>2. Owning(t) /\ Ownership(t) /\ Borrowing(t)
  BY <1>1 DEF TreeInv, Owning
<1>3. /\ arg[t] \in Handles \ held /\ memory[arg[t]] = "allocated"
      /\ ClockOf[arg[t]] # Null => ClockOf[arg[t]] \in held
  BY <1>1, <1>2 DEF Ownership, Borrowing, Creating
<1>4. /\ UNCHANGED <<memory, valid, links, finis, mutex, stack, Stacked>>
      /\ ticking' = ticking \cup {c \in {arg[t]} : ClockOf[c] # Null}
  BY DEF RclInit, RclInitFails, KeepClock, Stacked, Elements
<1>5. \/ /\ RclInit(t) /\ held' = held \cup {arg[t]}
         /\ ParentOf[arg[t]] # Null => rcl[ParentOf[arg[t]]] = "init"
         /\ \A h \in Handles : rcl'[h] = IF h = arg[t] THEN "init" ELSE rcl[h]
      \/ RclInitFails(t) /\ UNCHANGED <<rcl, held>>
  <2>1. CASE RclInit(t)
    <3>1. /\ rcl' = [rcl EXCEPT ![arg[t]] = "init"] /\ held' = held \cup {arg[t]}
          /\ ParentOf[arg[t]] # Null => rcl[ParentOf[arg[t]]] = "init"
      BY <2>1 DEF RclInit
    <3>2. QED
      BY <1>1, <1>3, <2>1, <3>1 DEF TypeOK
  <2>2. CASE RclInitFails(t)
    BY <2>2 DEF RclInitFails
  <2>3. QED
    BY <2>1, <2>2
<1>6. /\ \A h \in ticking' : h \in ticking \/ (h = arg[t] /\ ClockOf[h] # Null)
      /\ ticking \subseteq ticking' /\ (ClockOf[arg[t]] # Null => arg[t] \in ticking')
  <2>1. ticking' = ticking \cup {c \in {arg[t]} : ClockOf[c] # Null}
    BY <1>4
  <2>2. \A h : h \in ticking' <=> h \in ticking \/ (h = arg[t] /\ ClockOf[h] # Null)
    BY <2>1
  <2>3. QED
    BY <2>2
<1>7. UNCHANGED <<memory, valid, links, finis, mutex, stack, Stacked>>
  BY <1>4
<1>8. QED
  BY <1>1, <1>2, <1>3, <1>5, <1>6, <1>7

(* A finalizer ends; the reference of a last child goes to its parent's.    *)
LEMMA ReleaseFacts ==
  ASSUME TreeInv, NEW t \in Threads, Release(t)
  PROVE  /\ pc[t] = "release" /\ Owning(t) /\ Ownership(t)
         /\ arg[t] \in Handles \ held /\ memory[arg[t]] = "allocated"
         /\ arg[t] \notin valid \cup Stacked
         /\ \A h \in Handles : memory'[h] = IF h = arg[t] THEN "freed" ELSE memory[h]
         /\ UNCHANGED <<rcl, valid, links, held, ticking, finis, mutex, stack, Stacked>>
         /\ \/ pc'[t] = "idle"
            \/ /\ pc'[t] = "finalize" /\ arg'[t] = ParentOf[arg[t]]
               /\ ParentOf[arg[t]] \in Handles \ held
               /\ Children(ParentOf[arg[t]]) = {arg[t]}
<1>1. pc[t] = "release" /\ TypeOK
  BY Moves, GoesTo DEF TreeInv
<1>2. Owning(t) /\ Ownership(t)
  BY <1>1 DEF TreeInv, Owning
<1>3. /\ arg[t] \in Handles \ held /\ memory[arg[t]] = "allocated"
      /\ arg[t] \notin valid \cup Stacked
  BY <1>1, <1>2 DEF Ownership
<1>4. /\ memory' = [memory EXCEPT ![arg[t]] = "freed"]
      /\ UNCHANGED <<rcl, valid, links, held, ticking, finis, mutex, stack, Stacked>>
  BY DEF Release, Stacked, Elements
<1>5. \A h \in Handles : memory'[h] = IF h = arg[t] THEN "freed" ELSE memory[h]
  BY <1>1, <1>3, <1>4 DEF TypeOK
<1>6. \/ pc'[t] = "idle"
      \/ /\ pc'[t] = "finalize" /\ arg'[t] = ParentOf[arg[t]]
         /\ ParentOf[arg[t]] \in Handles \ held
         /\ Children(ParentOf[arg[t]]) = {arg[t]}
  <2>1. CASE GoTo(t, "release", "idle")
    BY <1>1, <2>1 DEF GoTo, TypeOK
  <2>2. CASE /\ ParentOf[arg[t]] # Null /\ ParentOf[arg[t]] \notin held
             /\ Children(ParentOf[arg[t]]) = {arg[t]}
             /\ pc' = [pc EXCEPT ![t] = "finalize"]
             /\ arg' = [arg EXCEPT ![t] = ParentOf[arg[t]]]
    BY <1>1, <1>3, <2>2, TreeAssumption DEF TypeOK
  <2>3. QED
    BY <2>1, <2>2 DEF Release
<1>7. QED
  BY <1>1, <1>2, <1>3, <1>4, <1>5, <1>6

(* The references that handles have are to what is there.                   *)
LEMMA ReferencesStep ==
  ASSUME TreeInv, NEW t \in Threads, Act(t)
  PROVE  References'
<1> USE TreeAssumption
<1>1. TypeOK /\ References /\ held \subseteq Handles /\ ticking \subseteq Handles
  BY DEF TreeInv, TypeOK
<1>2. ASSUME UNCHANGED <<memory, rcl, valid, ticking>>, held' \subseteq held
      PROVE  References'
  BY <1>1, <1>2 DEF References
<1>3. CASE Starts(t) \/ EndCall(t) \/ Unlock(t)
  <2>1. UNCHANGED <<memory, rcl, valid, ticking>> /\ held' \subseteq held
    BY <1>3 DEF Starts, StartCreate, StartCall, StartDestroy, Drop, EndCall, Unlock
  <2>2. QED
    BY <1>2, <2>1
<1>4. CASE Link(t)
  BY <1>1, <1>4, LinkFacts DEF References
<1>5. CASE RclInit(t) \/ RclInitFails(t)
  <2>1. /\ UNCHANGED <<memory, valid>> /\ memory[arg[t]] = "allocated"
        /\ arg[t] \in Handles \ held /\ rcl[arg[t]] # "init"
        /\ ParentOf[arg[t]] = Null => arg[t] \in valid
    BY <1>5, InitFacts DEF Ownership
  <2>2. /\ \A h \in ticking' : h \in ticking \/ (h = arg[t] /\ ClockOf[h] # Null)
        /\ ClockOf[arg[t]] # Null => ClockOf[arg[t]] \in held
    BY <1>5, InitFacts
  <2>3. /\ held' \subseteq held \cup {arg[t]}
        /\ \A h \in Handles \ {arg[t]} : rcl'[h] = rcl[h]
        /\ arg[t] \in held' => rcl'[arg[t]] = "init"
    BY <1>5, <2>1, InitFacts
  <2>4. \A h \in Handles : ClockOf[h] # Null => ParentOf[ClockOf[h]] = Null /\ ClockOf[h] \in Handles
    OBVIOUS
  <2>5. \A h \in Handles : ClockOf[h] # Null /\ ClockOf[h] \in held =>
          /\ memory[ClockOf[h]] = "allocated" /\ ClockOf[h] \in valid /\ rcl[ClockOf[h]] = "init"
          /\ ClockOf[h] # arg[t]
    BY <1>1, <2>1, <2>4 DEF References
  <2>6. \A h \in ticking' :
          /\ ClockOf[h] # Null /\ memory[ClockOf[h]] = "allocated"
          /\ ClockOf[h] \in valid /\ rcl[ClockOf[h]] = "init" /\ ClockOf[h] # arg[t]
    BY <1>1, <2>1, <2>2, <2>5 DEF References
  <2>7. \A h \in ticking' : rcl'[ClockOf[h]] = "init" /\ h \in Handles
    BY <1>1, <2>1, <2>2, <2>3, <2>4, <2>6
  <2>8. QED
    BY <1>1, <2>1, <2>3, <2>6, <2>7 DEF References
<1>6. CASE Lock(t)
  <2>1. UNCHANGED <<memory, rcl, ticking, held>>
    BY <1>6 DEF Lock
  <2>2. valid' = valid \ {arg[t]} /\ arg[t] \in Handles
    BY <1>6, LockFacts
  <2>3. arg[t] \in held => ParentOf[arg[t]] # Null
    BY <1>6, LockFacts DEF Ownership, Owning
  <2>4. \A h \in ticking : ClockOf[h] # arg[t]
    <3>1. CASE pc[t] = "destroy"
      <4>1. ParentOf[arg[t]] # Null
        BY <1>6, <3>1, LockFacts
      <4>2. QED
        BY <1>1, <4>1 DEF References
    <3>2. CASE pc[t] = "finalize"
      BY <1>6, <3>2, LockFacts DEF Ownership, Owning
    <3>3. QED
      BY <1>6, <3>1, <3>2, LockFacts
  <2>5. QED
    BY <1>1, <2>1, <2>2, <2>3, <2>4 DEF References
<1>7. CASE DestroyChild(t)
  <2>1. UNCHANGED <<memory, rcl, ticking, held>>
    BY <1>7 DEF DestroyChild
  <2>2. PICK c \in Listed : valid' = valid \ {c}
    BY <1>7, ChildFacts
  <2>3. ParentOf[c] # Null
    BY DEF Listed
  <2>4. \A h \in ticking : ClockOf[h] # c
    BY <1>1, <2>3 DEF References
  <2>5. QED
    BY <1>1, <2>1, <2>2, <2>3, <2>4 DEF References
<1>8. CASE FiniAndUnlink(t)
  <2> DEFINE clock == ClockGoingWith(Top)
  <2>1. UNCHANGED held
    BY <1>8 DEF FiniAndUnlink, Fini
  <2>2. /\ Top \in Handles \ valid /\ valid' = valid \ clock
        /\ memory[Top] = "allocated" /\ ticking' = ticking \ {Top}
        /\ \A h \in Handles :
              /\ rcl'[h] = IF h \in {Top} \cup clock THEN "fini" ELSE rcl[h]
              /\ memory'[h] = IF h \in clock THEN "freed" ELSE memory[h]
    BY <1>8, FiniFacts
  <2>3. \A c \in clock :
          /\ c \in valid /\ c \notin held /\ memory[c] = "allocated" /\ ParentOf[c] = Null
          /\ \A h \in Handles : ParentOf[h] # c
          /\ \A h \in ticking \ {Top} : ClockOf[h] # c
    BY <1>8, FiniFacts
  <2> HIDE DEF clock
  <2>4. Top \in held => ParentOf[Top] # Null
    BY <1>1, <2>2 DEF References
  <2>5. \A h \in ticking \ {Top} : ClockOf[h] \in Handles /\ ClockOf[h] # Top
    BY <1>1, <2>2 DEF References
  <2>6. \A h \in Handles : memory'[h] = "absent" => rcl'[h] = "zero"
    BY <1>1, <2>2, <2>3 DEF References
  <2>7. \A h \in held' : /\ memory'[h] = "allocated" /\ rcl'[h] # "zero"
                         /\ ParentOf[h] = Null => h \in valid' /\ rcl'[h] = "init"
    BY <1>1, <2>1, <2>2, <2>3, <2>4 DEF References
  <2>8. \A h \in Handles :
          memory'[h] = "allocated" /\ ParentOf[h] # Null => memory'[ParentOf[h]] = "allocated"
    BY <1>1, <2>2, <2>3 DEF References
  <2>9. \A h \in ticking' : /\ ClockOf[h] # Null /\ memory'[ClockOf[h]] = "allocated"
                            /\ ClockOf[h] \in valid' /\ rcl'[ClockOf[h]] = "init"
    BY <1>1, <2>2, <2>3, <2>5 DEF References
  <2>10. QED
    BY <2>6, <2>7, <2>8, <2>9 DEF References
<1>9. CASE Release(t)
  <2>1. /\ arg[t] \in Handles \ held /\ memory[arg[t]] = "allocated" /\ Ownership(t) /\ Owning(t)
        /\ \A h \in Handles : memory'[h] = IF h = arg[t] THEN "freed" ELSE memory[h]
        /\ UNCHANGED <<rcl, valid, held, ticking>>
    BY <1>9, ReleaseFacts
  <2>2. /\ \A c \in Handles : memory[c] = "allocated" => ParentOf[c] # arg[t]
        /\ \A c \in ticking : ClockOf[c] # arg[t]
    BY <2>1 DEF Ownership
  <2>3. QED
    BY <1>1, <2>1, <2>2 DEF References
<1>10. QED
  BY <1>3, <1>4, <1>5, <1>6, <1>7, <1>8, <1>9 DEF Act, Continues

(* Who has the only reference to a handle keeps it, whatever others do, ... *)
LEMMA OwnershipKept ==
  ASSUME TreeInv, NEW t \in Threads, Act(t), NEW u \in Threads \ {t}
  PROVE  Ownership(u)'
<1> USE TreeAssumption
<1>1. /\ TypeOK /\ References /\ Ownership(u) /\ held \subseteq Handles
      /\ \A w \in Threads \ {t} : pc'[w] = pc[w] /\ arg'[w] = arg[w]
  <2>1. TypeOK
    BY DEF TreeInv
  <2>2. PICK from, to, h : Goes(t, from, to, h)
    BY <2>1, Others
  <2>3. \A w \in Threads \ {t} : pc'[w] = pc[w] /\ arg'[w] = arg[w]
    BY <2>1, <2>2, GoesTo
  <2>4. QED
    BY <2>1, <2>3, InUse DEF TreeInv
<1>2. SUFFICES ASSUME Owning(u)
               PROVE  Ownership(u)'
  BY <1>1 DEF Ownership, Owning
<1>3. /\ arg[u] \in Handles \ held
      /\ memory[arg[u]] = IF pc[u] = "link" THEN "absent" ELSE "allocated"
      /\ \A c \in Handles : memory[c] = "allocated" => ParentOf[c] # arg[u]
      /\ \A c \in ticking : ClockOf[c] # arg[u]
      /\ \A w \in Threads \ {u} : Owning(w) => arg[w] # arg[u]
      /\ pc[u] = "rcl_init" => rcl[arg[u]] # "init"
      /\ pc[u] = "rcl_init" /\ ParentOf[arg[u]] = Null => arg[u] \in valid
      /\ pc[u] = "release" => arg[u] \notin valid \cup Stacked
  BY <1>1, <1>2 DEF Ownership
<1>4. ASSUME arg[u] \notin held',
             memory'[arg[u]] = memory[arg[u]],
             \A c \in Handles : memory'[c] = "allocated" => ParentOf[c] # arg[u],
             \A c \in ticking' : ClockOf[c] # arg[u],
             Owning(t)' => arg'[t] # arg[u],
             rcl'[arg[u]] = "init" => rcl[arg[u]] = "init",
             arg[u] \in valid /\ ParentOf[arg[u]] = Null => arg[u] \in valid',
             arg[u] \in valid' \cup Stacked' => arg[u] \in valid \cup Stacked
      PROVE  Ownership(u)'
  <2>1. \A w \in Threads \ {u} : Owning(w)' => arg'[w] # arg[u]
    <3>1. \A w \in Threads \ {t} : Owning(w)' => Owning(w)
      BY <1>1 DEF Owning
    <3>2. QED
      BY <1>1, <1>3, <1>4, <3>1
  <2>2. pc'[u] = pc[u] /\ arg'[u] = arg[u]
    BY <1>1
  <2>3. QED
    BY <1>3, <1>4, <2>1, <2>2 DEF Ownership
<1>5. CASE Starts(t)
  <2>1. /\ UNCHANGED <<memory, rcl, valid, ticking, Stacked>> /\ held' \subseteq held
    BY <1>5 DEF Starts, StartCreate, StartCall, StartDestroy, Drop, Stacked, Elements
  <2>2. Owning(t)' => arg'[t] # arg[u]
    <3>1. PICK h \in Handles : StartCreate(t, h) \/ StartCall(t, h) \/ StartDestroy(t, h) \/ Drop(t, h)
      BY <1>5 DEF Starts
    <3>2. CASE StartCreate(t, h)
      <4>1. h # arg[u]
        BY <3>2 DEF StartCreate
      <4>2. QED
        BY <1>1, <3>2, <4>1, Moves, GoesTo
    <3>3. CASE StartCall(t, h) \/ StartDestroy(t, h)
      <4>1. pc'[t] \in {"call", "destroy"}
        BY <1>1, <3>3, Moves, GoesTo
      <4>2. QED
        BY <4>1 DEF Owning
    <3>4. CASE Drop(t, h)
      <4>1. h \in held
        BY <3>4 DEF Drop
      <4>2. pc'[t] = "idle" \/ arg'[t] = h
        BY <1>1, <3>4, Moves, GoesTo
      <4>3. QED
        BY <1>3, <4>1, <4>2 DEF Owning
    <3>5. QED
      BY <3>1, <3>2, <3>3, <3>4
  <2>3. QED
    BY <1>3, <1>4, <2>1, <2>2
<1>6. CASE Link(t)
  <2>1. arg[t] # arg[u]
    BY <1>3, <1>6, LinkFacts
  <2>2. arg'[t] = arg[t]
    BY <1>1, <1>6, Moves, GoesTo
  <2>3. \A c \in Handles : memory'[c] = "allocated" => ParentOf[c] # arg[u]
    BY <1>3, <1>6, LinkFacts
  <2>4. /\ memory'[arg[u]] = memory[arg[u]]
        /\ UNCHANGED <<rcl, held, ticking, Stacked>> /\ valid' = valid \cup {arg[t]}
    BY <1>3, <1>6, <2>1, LinkFacts
  <2>5. QED
    BY <1>3, <1>4, <2>1, <2>2, <2>3, <2>4
<1>7. CASE RclInit(t) \/ RclInitFails(t)
  <2>1. arg[t] # arg[u]
    BY <1>3, <1>7, InitFacts
  <2>2. pc'[t] = "idle" \/ arg'[t] = arg[t]
    BY <1>1, <1>7, Moves, GoesTo
  <2>3. \A c \in ticking' : ClockOf[c] # arg[u]
    BY <1>3, <1>7, InitFacts
  <2>4. held' \subseteq held \cup {arg[t]} /\ rcl'[arg[u]] = rcl[arg[u]]
    BY <1>3, <1>7, <2>1, InitFacts
  <2>5. UNCHANGED <<memory, valid, Stacked>>
    BY <1>7, InitFacts
  <2>6. QED
    BY <1>3, <1>4, <2>1, <2>2, <2>3, <2>4, <2>5 DEF Owning
<1>8. CASE EndCall(t)
  <2>1. /\ UNCHANGED <<memory, rcl, valid, ticking, held, Stacked>>
    BY <1>8 DEF EndCall, Stacked, Elements
  <2>2. pc'[t] = "idle"
    BY <1>1, <1>8, Moves, GoesTo
  <2>3. QED
    BY <1>3, <1>4, <2>1, <2>2 DEF Owning
<1>9. CASE Lock(t)
  <2>1. UNCHANGED <<memory, rcl, ticking, held, pc, arg>>
    BY <1>9 DEF Lock
  <2>2. /\ arg[t] = arg[u] => ParentOf[arg[u]] # Null
        /\ valid' = valid \ {arg[t]} /\ valid' \cup Stacked' = valid \cup Stacked
    BY <1>3, <1>9, LockFacts DEF Owning
  <2>3. QED
    BY <1>3, <1>4, <2>1, <2>2 DEF Owning
<1>10. CASE DestroyChild(t)
  <2>1. UNCHANGED <<memory, rcl, ticking, held, pc, arg>>
    BY <1>10 DEF DestroyChild
  <2>2. PICK c \in Listed : valid' = valid \ {c} /\ valid' \cup Stacked' = valid \cup Stacked
    BY <1>10, ChildFacts
  <2>3. ParentOf[c] # Null
    BY DEF Listed
  <2>4. QED
    BY <1>3, <1>4, <2>1, <2>2, <2>3 DEF Owning
<1>11. CASE FiniAndUnlink(t)
  <2>1. UNCHANGED <<held, pc, arg>>
    BY <1>11 DEF FiniAndUnlink, Fini
  <2>2. /\ valid' \subseteq valid /\ Stacked' \subseteq Stacked
        /\ valid' = valid \ ClockGoingWith(Top) /\ ticking' \subseteq ticking
        /\ \A h \in Handles : /\ memory'[h] = IF h \in ClockGoingWith(Top) THEN "freed" ELSE memory[h]
                              /\ rcl'[h] = "init" => rcl[h] = "init"
        /\ arg[u] \notin ClockGoingWith(Top)
    BY <1>2, <1>11, FiniFacts DEF Owning
  <2>3. QED
    BY <1>3, <1>4, <2>1, <2>2 DEF Owning
<1>12. CASE Unlock(t)
  <2>1. /\ UNCHANGED <<memory, rcl, valid, ticking, held, Stacked>>
        /\ pc[t] \in {"destroy", "finalize"}
    BY <1>12 DEF Unlock, Stacked, Elements, TreeInv, Teardown
  <2>2. pc'[t] = "idle" \/ (pc[t] # "destroy" /\ arg'[t] = arg[t])
    BY <1>1, <1>12, Moves, GoesTo
  <2>3. QED
    BY <1>3, <1>4, <2>1, <2>2 DEF Owning
<1>13. CASE Release(t)
  <2>1. /\ arg[t] # arg[u] /\ arg[t] \in Handles /\ memory[arg[t]] = "allocated"
        /\ \A h \in Handles : memory'[h] = IF h = arg[t] THEN "freed" ELSE memory[h]
        /\ UNCHANGED <<rcl, valid, held, ticking, Stacked>>
        /\ pc'[t] = "idle" \/ arg'[t] = ParentOf[arg[t]]
    BY <1>3, <1>13, ReleaseFacts
  <2>2. QED
    BY <1>3, <1>4, <2>1 DEF Owning
<1>14. QED
  BY <1>5, <1>6, <1>7, <1>8, <1>9, <1>10, <1>11, <1>12, <1>13 DEF Act, Continues

(* ... and who comes to have it, in a creation or a finalizer, has.         *)
LEMMA OwnershipGot ==
  ASSUME TreeInv, NEW t \in Threads, Act(t)
  PROVE  Ownership(t)'
<1> USE TreeAssumption
<1>1. TypeOK /\ References /\ Ownership(t) /\ held \subseteq Handles /\ ticking \subseteq Handles
  BY InUse DEF TreeInv, TypeOK
<1>2. /\ \A u \in Threads \ {t} : pc'[u] = pc[u] /\ arg'[u] = arg[u]
      /\ \A u \in Threads \ {t} : Owning(u)' => Owning(u)
  <2>1. PICK from, to, h : Goes(t, from, to, h)
    BY <1>1, Others
  <2>2. \A u \in Threads \ {t} : pc'[u] = pc[u] /\ arg'[u] = arg[u]
    BY <1>1, <2>1, GoesTo
  <2>3. QED
    BY <2>2 DEF Owning
<1>3. ASSUME pc'[t] \notin {"link", "rcl_init", "finalize", "release"}
      PROVE  Ownership(t)'
  BY <1>3 DEF Ownership, Owning
<1>4. ASSUME NEW h \in Handles, StartCreate(t, h)
      PROVE  Ownership(t)'
  <2>1. pc'[t] = "link" /\ arg'[t] = h
    BY <1>1, <1>4, Moves, GoesTo
  <2>2. /\ memory[h] = "absent" /\ \A u \in Threads : arg[u] # h
        /\ UNCHANGED <<memory, rcl, valid, held, ticking>>
    BY <1>4 DEF StartCreate
  <2>3. /\ h \notin held /\ \A c \in ticking : ClockOf[c] # h
        /\ \A c \in Handles : memory[c] = "allocated" => ParentOf[c] # h
    BY <1>1, <2>2 DEF References
  <2>4. QED
    BY <1>2, <2>1, <2>2, <2>3 DEF Ownership
<1>5. ASSUME NEW h \in Handles, Drop(t, h)
      PROVE  Ownership(t)'
  <2>1. CASE pc'[t] = "idle"
    BY <1>3, <2>1
  <2>2. CASE pc'[t] # "idle"
    <3>1. pc'[t] = "finalize" /\ arg'[t] = h
      BY <1>1, <1>5, <2>2, Moves, GoesTo
    <3>2. /\ h \in held /\ held' = held \ {h} /\ UNCHANGED <<memory, ticking>>
          /\ Children(h) \cup TimersOf(h) = {}
      BY <1>1, <1>5, <2>2 DEF Drop, TypeOK
    <3>3. \A u \in Threads \ {t} : Owning(u) => arg[u] # h
      BY <3>2 DEF TreeInv, Ownership
    <3>4. QED
      BY <1>1, <1>2, <3>1, <3>2, <3>3 DEF Ownership, References, Children, TimersOf
  <2>3. QED
    BY <2>1, <2>2
<1>6. CASE Link(t)
  <2>1. pc'[t] = "rcl_init" /\ arg'[t] = arg[t]
    BY <1>1, <1>6, Moves, GoesTo
  <2>2. /\ arg[t] \in Handles \ held
        /\ \A u \in Threads \ {t} : Owning(u) => arg[u] # arg[t]
        /\ \A c \in ticking : ClockOf[c] # arg[t]
        /\ \A c \in Handles : memory[c] = "allocated" => ParentOf[c] # arg[t]
    BY <1>6, LinkFacts DEF Ownership
  <2>3. \A h \in Handles : memory'[h] = IF h = arg[t] THEN "allocated" ELSE memory[h]
    BY <1>6, LinkFacts
  <2>4. /\ UNCHANGED <<held, ticking>> /\ rcl'[arg[t]] = "zero" /\ valid' = valid \cup {arg[t]}
        /\ ParentOf[arg[t]] # Null => ParentOf[arg[t]] \in held
    BY <1>6, LinkFacts
  <2>5. QED
    BY <1>2, <2>1, <2>2, <2>3, <2>4 DEF Ownership
<1>7. CASE RclInit(t) \/ EndCall(t)
  <2>1. pc'[t] = "idle"
    BY <1>1, <1>7, Moves, GoesTo
  <2>2. QED
    BY <1>3, <2>1
<1>8. CASE RclInitFails(t)
  <2>1. pc'[t] = "finalize" /\ arg'[t] = arg[t]
    BY <1>1, <1>8, Moves, GoesTo
  <2>2. /\ arg[t] \in Handles \ held /\ memory[arg[t]] = "allocated"
        /\ \A u \in Threads \ {t} : Owning(u) => arg[u] # arg[t]
        /\ \A c \in ticking : ClockOf[c] # arg[t]
        /\ \A c \in Handles : memory[c] = "allocated" => ParentOf[c] # arg[t]
    BY <1>8, InitFacts DEF Ownership
  <2>3. \A c \in ticking' : ClockOf[c] # arg[t]
    BY <1>8, <2>2, InitFacts
  <2>4. UNCHANGED <<memory, held>>
    BY <1>8 DEF RclInitFails
  <2>5. QED
    BY <1>2, <2>1, <2>2, <2>3, <2>4 DEF Ownership
<1>9. CASE Lock(t) \/ DestroyChild(t) \/ FiniAndUnlink(t)
  <2>1. UNCHANGED <<pc, arg, held>>
    BY <1>9 DEF Lock, DestroyChild, FiniAndUnlink, Fini
  <2>2. pc[t] \in {"destroy", "finalize"}
    <3>1. DestroyChild(t) \/ FiniAndUnlink(t) => mutex = t
      BY DEF DestroyChild, FiniAndUnlink
    <3>2. Lock(t) => pc[t] \in {"destroy", "finalize"}
      BY DEF Lock
    <3>3. QED
      BY <1>9, <3>1, <3>2 DEF TreeInv, Teardown
  <2>3. CASE pc[t] = "destroy"
    BY <1>3, <2>1, <2>3
  <2>4. CASE pc[t] = "finalize"
    <3>1. /\ arg[t] \in Handles \ held /\ memory[arg[t]] = "allocated"
          /\ \A u \in Threads \ {t} : Owning(u) => arg[u] # arg[t]
          /\ \A c \in ticking : ClockOf[c] # arg[t]
          /\ \A c \in Handles : memory[c] = "allocated" => ParentOf[c] # arg[t]
      BY <1>1, <2>4 DEF Ownership, Owning
    <3>2. Lock(t) \/ DestroyChild(t) => UNCHANGED <<memory, ticking>>
      BY DEF Lock, DestroyChild
    <3>3. FiniAndUnlink(t) =>
            /\ ticking' \subseteq ticking /\ memory'[arg[t]] = "allocated"
            /\ \A c \in Handles : memory'[c] = "allocated" => memory[c] = "allocated"
      <4>1. SUFFICES ASSUME FiniAndUnlink(t)
                     PROVE  /\ ticking' \subseteq ticking /\ memory'[arg[t]] = "allocated"
                            /\ \A c \in Handles : memory'[c] = "allocated" => memory[c] = "allocated"
        OBVIOUS
      <4>2. /\ ticking' \subseteq ticking /\ arg[t] \notin ClockGoingWith(Top)
            /\ \A h \in Handles : memory'[h] = IF h \in ClockGoingWith(Top) THEN "freed" ELSE memory[h]
        BY <2>4, <4>1, FiniFacts
      <4>3. QED
        BY <3>1, <4>2
    <3>4. QED
      BY <1>2, <1>9, <2>1, <2>4, <3>1, <3>2, <3>3 DEF Ownership
  <2>5. QED
    BY <2>2, <2>3, <2>4
<1>10. CASE Unlock(t)
  <2>1. CASE pc'[t] = "idle"
    BY <1>3, <2>1
  <2>2. CASE pc'[t] # "idle"
    <3>1. /\ mutex = t /\ stack = <<>> /\ t # Null
          /\ UNCHANGED <<memory, rcl, valid, held, ticking, stack>>
      BY <1>10 DEF Unlock
    <3>2. pc'[t] = "release" /\ arg'[t] = arg[t] /\ pc[t] = "finalize" /\ arg[t] \notin valid
      BY <1>1, <1>10, <2>2, <3>1, Moves, GoesTo DEF TreeInv, Teardown
    <3>3. /\ arg[t] \in Handles \ held /\ memory[arg[t]] = "allocated"
          /\ \A u \in Threads \ {t} : Owning(u) => arg[u] # arg[t]
          /\ \A c \in ticking : ClockOf[c] # arg[t]
          /\ \A c \in Handles : memory[c] = "allocated" => ParentOf[c] # arg[t]
      BY <1>1, <3>2 DEF Ownership, Owning
    <3>4. Stacked' = {}
      BY <3>1 DEF Stacked, Elements
    <3>5. QED
      BY <1>2, <3>1, <3>2, <3>3, <3>4 DEF Ownership
  <2>3. QED
    BY <2>1, <2>2
<1>11. CASE Release(t)
  <2> DEFINE p == ParentOf[arg[t]]
  <2>1. CASE pc'[t] = "idle"
    BY <1>3, <2>1
  <2>2. CASE pc'[t] # "idle"
    <3>1. /\ pc'[t] = "finalize" /\ arg'[t] = p /\ p \in Handles \ held
          /\ Children(p) = {arg[t]} /\ UNCHANGED <<held, ticking>>
          /\ arg[t] \in Handles /\ memory[arg[t]] = "allocated"
          /\ \A h \in Handles : memory'[h] = IF h = arg[t] THEN "freed" ELSE memory[h]
      BY <1>11, <2>2, ReleaseFacts
    <3>2. p # arg[t]
      BY <1>11, <3>1, ReleaseFacts DEF Ownership
    <3>3. memory[p] = "allocated" /\ memory'[p] = "allocated"
      BY <1>1, <3>1, <3>2 DEF References
    <3>4. \A c \in Handles : memory'[c] = "allocated" => ParentOf[c] # p
      BY <3>1 DEF Children
    <3>5. \A c \in ticking : ClockOf[c] # p
      BY <1>1, <3>1 DEF References
    <3>6. \A u \in Threads \ {t} : Owning(u) => arg[u] # p
      BY <3>1 DEF TreeInv, Ownership
    <3>7. QED
      BY <1>2, <3>1, <3>3, <3>4, <3>5, <3>6 DEF Ownership
  <2>3. QED
    BY <2>1, <2>2
<1>12. QED
  <2>1. ASSUME NEW h \in Handles, StartCall(t, h) \/ StartDestroy(t, h)
        PROVE  Ownership(t)'
    <3>1. pc'[t] \in {"call", "destroy"}
      BY <1>1, <2>1, Moves, GoesTo
    <3>2. QED
      BY <1>3, <3>1
  <2>2. QED
    BY <1>4, <1>5, <1>6, <1>7, <1>8, <1>9, <1>10, <1>11, <2>1 DEF Act, Starts, Continues

-------------------------------------------------------------------------------
(* One thread at a time tears down, and fini has run on what is gone.       *)
LEMMA TeardownStep ==
  ASSUME TreeInv, NEW t \in Threads, Act(t)
  PROVE  Teardown'
<1> USE TreeAssumption
<1>1. /\ TypeOK /\ References /\ Teardown /\ held \subseteq Handles
      /\ valid \subseteq Handles /\ Stacked \subseteq Handles /\ stack \in Seq(Handles)
  <2>1. stack \in Seq(Handles)
    BY DEF TreeInv, TypeOK
  <2>2. Stacked \subseteq Handles
    BY <2>1, ElementOfSeq, LenProperties DEF Stacked, Elements
  <2>3. QED
    BY <2>1, <2>2, InUse DEF TreeInv, TypeOK
<1>2. \A u \in Threads \ {t} : pc'[u] = pc[u] /\ arg'[u] = arg[u]
  <2>1. PICK from, to, h : Goes(t, from, to, h)
    BY <1>1, Others
  <2>2. QED
    BY <1>1, <2>1, GoesTo
<1>3. ASSUME UNCHANGED <<valid, stack, mutex, finis>>, mutex # t,
             \A h \in Handles : /\ memory'[h] = "absent" <=> memory[h] = "absent"
                                /\ h \in valid \cup Stacked => memory'[h] = memory[h],
             \A h \in valid \cup Stacked : rcl'[h] = "fini" => rcl[h] = "fini",
             \A h \in Handles : rcl'[h] = "init" /\ ClockOf[h] # Null => h \in ticking'
      PROVE  Teardown'
  <2>1. UNCHANGED <<Stacked, Distinct(stack)>>
    BY <1>3 DEF Stacked, Elements, Distinct
  <2>2. mutex # Null => mutex \in Threads \ {t}
    BY <1>1, <1>3 DEF TypeOK
  <2>3. \A h \in valid' \cup Stacked' : memory'[h] = "allocated" /\ rcl'[h] # "fini"
    BY <1>1, <1>3, <2>1 DEF Teardown
  <2>4. \A h \in Handles :
          finis'[h] = IF memory'[h] # "absent" /\ h \notin valid' \cup Stacked' THEN 1 ELSE 0
    BY <1>1, <1>3, <2>1 DEF Teardown
  <2>5. mutex' # Null =>
          /\ pc'[mutex'] \in {"destroy", "finalize"} /\ arg'[mutex'] \notin valid'
          /\ \A h \in Stacked' : arg'[mutex'] \in Ancestry(h)
          /\ pc'[mutex'] = "finalize" => Stacked' \subseteq {arg'[mutex']}
    BY <1>1, <1>2, <1>3, <2>1, <2>2 DEF Teardown
  <2>6. QED
    BY <1>1, <1>3, <2>1, <2>3, <2>4, <2>5 DEF Teardown
<1>4. pc[t] \notin {"destroy", "finalize"} => mutex # t
  BY <1>1 DEF Teardown
<1>5. ASSUME Starts(t) \/ EndCall(t)
      PROVE  Teardown'
  <2>1. pc[t] \in {"idle", "call"}
    BY <1>1, <1>5, Moves, GoesTo DEF Starts
  <2>2. UNCHANGED <<memory, rcl, valid, ticking, finis, mutex, stack>>
    BY <1>5 DEF Starts, StartCreate, StartCall, StartDestroy, Drop, EndCall
  <2>3. QED
    BY <1>1, <1>3, <1>4, <2>1, <2>2 DEF Teardown
<1>6. CASE Link(t)
  <2>1. /\ pc[t] = "link" /\ arg[t] \in Handles \ held /\ memory[arg[t]] = "absent"
        /\ rcl[arg[t]] = "zero" /\ valid' = valid \cup {arg[t]} /\ arg[t] \notin valid \cup Stacked
        /\ \A h \in Handles : memory'[h] = IF h = arg[t] THEN "allocated" ELSE memory[h]
        /\ UNCHANGED <<rcl, held, ticking, finis, mutex, stack, Stacked>>
        /\ Ownership(t) /\ Owning(t)
    BY <1>6, LinkFacts
  <2>2. UNCHANGED Distinct(stack)
    BY <2>1 DEF Distinct
  <2>3. mutex # Null => mutex \in Threads \ {t}
    BY <1>1, <1>4, <2>1 DEF TypeOK
  <2>4. mutex # Null => arg[mutex] # arg[t]
    <3>1. \A u \in Threads \ {t} : Owning(u) => arg[u] # arg[t]
      BY <2>1 DEF Ownership
    <3>2. \A u \in Threads : pc[u] = "destroy" => arg[u] # arg[t]
      BY <2>1, InUse
    <3>3. QED
      BY <1>1, <2>3, <3>1, <3>2 DEF Teardown, Owning
  <2>5. \A h \in valid' \cup Stacked' : memory'[h] = "allocated" /\ rcl'[h] # "fini"
    BY <1>1, <2>1 DEF Teardown
  <2>6. \A h \in Handles :
          finis'[h] = IF memory'[h] # "absent" /\ h \notin valid' \cup Stacked' THEN 1 ELSE 0
    BY <1>1, <2>1 DEF Teardown
  <2>7. mutex' # Null =>
          /\ pc'[mutex'] \in {"destroy", "finalize"} /\ arg'[mutex'] \notin valid'
          /\ \A h \in Stacked' : arg'[mutex'] \in Ancestry(h)
          /\ pc'[mutex'] = "finalize" => Stacked' \subseteq {arg'[mutex']}
    BY <1>1, <1>2, <2>1, <2>3, <2>4 DEF Teardown
  <2>8. QED
    BY <1>1, <2>1, <2>2, <2>5, <2>6, <2>7 DEF Teardown
<1>7. CASE RclInit(t) \/ RclInitFails(t)
  <2>1. /\ pc[t] = "rcl_init" /\ UNCHANGED <<memory, valid, finis, mutex, stack>>
        /\ ticking \subseteq ticking' /\ (ClockOf[arg[t]] # Null => arg[t] \in ticking')
    BY <1>7, InitFacts
  <2>2. \A h \in Handles : rcl'[h] = rcl[h] \/ (h = arg[t] /\ rcl'[h] = "init")
    BY <1>7, InitFacts
  <2>3. \A h \in Handles : rcl'[h] = "init" /\ ClockOf[h] # Null => h \in ticking'
    BY <1>1, <2>1, <2>2 DEF Teardown
  <2>4. \A h \in valid \cup Stacked : rcl'[h] = "fini" => rcl[h] = "fini"
    BY <1>1, <2>2
  <2>5. QED
    BY <1>3, <1>4, <2>1, <2>3, <2>4
<1>8. CASE Lock(t)
  <2>1. UNCHANGED <<memory, rcl, ticking, finis, pc, arg>>
    BY <1>8 DEF Lock
  <2>2. /\ mutex' = t /\ arg[t] \in Handles /\ pc[t] \in {"destroy", "finalize"}
        /\ valid' = valid \ {arg[t]} /\ Stacked' = valid \cap {arg[t]} /\ Distinct(stack)'
        /\ valid' \cup Stacked' = valid \cup Stacked
    BY <1>8, LockFacts
  <2>3. arg[t] \in Ancestry(arg[t])
    BY <2>2, AncestryFacts
  <2>4. \A h \in Handles :
          finis'[h] = IF memory'[h] # "absent" /\ h \notin valid' \cup Stacked' THEN 1 ELSE 0
    BY <1>1, <2>1, <2>2 DEF Teardown
  <2>5. \A h \in valid' \cup Stacked' : memory'[h] = "allocated" /\ rcl'[h] # "fini"
    BY <1>1, <2>1, <2>2 DEF Teardown
  <2>6. QED
    BY <1>1, <2>1, <2>2, <2>3, <2>4, <2>5 DEF Teardown
<1>9. CASE DestroyChild(t)
  <2>1. UNCHANGED <<memory, rcl, ticking, finis, pc, arg>>
    BY <1>9 DEF DestroyChild
  <2>2. PICK c \in Listed :
           /\ mutex = t /\ mutex' = t /\ pc[t] = "destroy" /\ arg[t] \in Ancestry(c)
           /\ valid' = valid \ {c} /\ Stacked' = Stacked \cup {c} /\ Distinct(stack)'
           /\ stack' # <<>> /\ valid' \cup Stacked' = valid \cup Stacked
    BY <1>9, ChildFacts
  <2>3. \A h \in Handles :
          finis'[h] = IF memory'[h] # "absent" /\ h \notin valid' \cup Stacked' THEN 1 ELSE 0
    BY <1>1, <2>1, <2>2 DEF Teardown
  <2>4. \A h \in valid' \cup Stacked' : memory'[h] = "allocated" /\ rcl'[h] # "fini"
    BY <1>1, <2>1, <2>2 DEF Teardown
  <2>5. QED
    BY <1>1, <2>1, <2>2, <2>3, <2>4 DEF Teardown
<1>10. CASE FiniAndUnlink(t)
  <2> DEFINE torn == {Top} \cup ClockGoingWith(Top)
  <2>1. UNCHANGED <<pc, arg>>
    BY <1>10 DEF FiniAndUnlink, Fini
  <2>2. /\ mutex = t /\ mutex' = t /\ Top \in Handles \ valid /\ memory[Top] = "allocated"
        /\ Stacked = {Top} \cup Stacked' /\ Top \notin Stacked' /\ Distinct(stack)'
        /\ valid' = valid \ ClockGoingWith(Top) /\ ticking' = ticking \ {Top}
        /\ ClockGoingWith(Top) \subseteq valid \ Stacked
    BY <1>10, FiniFacts
  <2>3. \A h \in Handles :
          /\ rcl'[h] = IF h \in torn THEN "fini" ELSE rcl[h]
          /\ finis'[h] = IF h \in torn THEN finis[h] + 1 ELSE finis[h]
          /\ memory'[h] = IF h \in ClockGoingWith(Top) THEN "freed" ELSE memory[h]
    BY <1>10, FiniFacts
  <2>4. /\ torn \subseteq valid \cup Stacked /\ valid' \cup Stacked' = (valid \cup Stacked) \ torn
        /\ \A h \in valid \cup Stacked : h \in Handles /\ memory[h] = "allocated" /\ rcl[h] # "fini"
    BY <1>1, <2>2 DEF Teardown
  <2> HIDE DEF torn
  <2>5. ASSUME NEW h \in Handles
        PROVE  finis'[h] = IF memory'[h] # "absent" /\ h \notin valid' \cup Stacked' THEN 1 ELSE 0
    <3>1. finis[h] = IF memory[h] # "absent" /\ h \notin valid \cup Stacked THEN 1 ELSE 0
      BY <1>1 DEF Teardown
    <3>2. CASE h \in torn
      <4>1. finis[h] = 0
        BY <2>4, <3>1, <3>2
      <4>2. finis'[h] = 1 /\ memory'[h] # "absent" /\ h \notin valid' \cup Stacked'
        BY <2>3, <2>4, <3>2, <4>1
      <4>3. QED
        BY <4>2
    <3>3. CASE h \notin torn
      BY <2>3, <2>4, <3>1, <3>3 DEF torn
    <3>4. QED
      BY <3>2, <3>3
  <2>6. \A h \in valid' \cup Stacked' : memory'[h] = "allocated" /\ rcl'[h] # "fini"
    BY <2>3, <2>4 DEF torn
  <2>7. \A h \in Handles : rcl'[h] = "init" /\ ClockOf[h] # Null => h \in ticking'
    BY <1>1, <2>2, <2>3 DEF Teardown, torn
  <2>8. mutex' # Null =>
          /\ pc'[mutex'] \in {"destroy", "finalize"} /\ arg'[mutex'] \notin valid'
          /\ \A h \in Stacked' : arg'[mutex'] \in Ancestry(h)
          /\ pc'[mutex'] = "finalize" => Stacked' \subseteq {arg'[mutex']}
    BY <1>1, <2>1, <2>2 DEF Teardown
  <2>9. QED
    BY <1>1, <2>2, <2>5, <2>6, <2>7, <2>8 DEF Teardown
<1>11. CASE Unlock(t)
  <2>1. /\ stack = <<>> /\ mutex' = Null
        /\ UNCHANGED <<memory, rcl, valid, ticking, finis, stack>>
    BY <1>11 DEF Unlock
  <2>2. UNCHANGED <<Stacked, Distinct(stack)>>
    BY <2>1 DEF Stacked, Elements, Distinct
  <2>3. QED
    BY <1>1, <2>1, <2>2 DEF Teardown
<1>12. CASE Release(t)
  <2>1. /\ pc[t] = "release" /\ arg[t] \in Handles /\ memory[arg[t]] = "allocated"
        /\ arg[t] \notin valid \cup Stacked
        /\ \A h \in Handles : memory'[h] = IF h = arg[t] THEN "freed" ELSE memory[h]
        /\ UNCHANGED <<rcl, valid, ticking, finis, mutex, stack>>
    BY <1>12, ReleaseFacts
  <2>2. QED
    BY <1>1, <1>3, <1>4, <2>1 DEF Teardown
<1>13. QED
  BY <1>5, <1>6, <1>7, <1>8, <1>9, <1>10, <1>11, <1>12 DEF Act, Continues

-------------------------------------------------------------------------------
(* The lists stay sound, ...                                                *)
LEMMA ListedHandles ==
  ASSUME TypeOK
  PROVE  \A g \in Listed : g \in Handles /\ ParentOf[g] \in Handles
<1>1. Stacked \subseteq Handles
  <2>1. \A i \in DOMAIN stack : stack[i] \in Handles
    BY ElementOfSeq, LenProperties DEF TypeOK
  <2>2. QED
    BY <2>1 DEF Stacked, Elements
<1>2. QED
  BY <1>1, TreeAssumption DEF Listed, TypeOK

LEMMA ListsSame ==
  ASSUME Lists, Grounded, UNCHANGED <<links, Listed>>
  PROVE  Lists' /\ Grounded'
BY DEF Lists, Grounded, links

LEMMA LinkLists ==
  ASSUME TypeOK, Lists, Grounded, NEW h \in Handles, h \notin Listed,
         ParentOf[h] \in Handles \ {h}, Listed' = Listed \cup {h},
         first' = [first EXCEPT ![ParentOf[h]] = h],
         next' = [next EXCEPT ![h] = first[ParentOf[h]]],
         \A g \in Handles :
           prev'[g] = IF g = h THEN Null ELSE IF g = first[ParentOf[h]] THEN h ELSE prev[g]
  PROVE  Lists' /\ Grounded'
<1> DEFINE p == ParentOf[h]
<1>0. \A g \in Listed : g \in Handles /\ ParentOf[g] \in Handles
  BY ListedHandles
<1> USE TreeAssumption
<1>1. /\ \A g \in Handles : first'[g] = IF g = p THEN h ELSE first[g]
      /\ \A g \in Handles : next'[g] = IF g = h THEN first[p] ELSE next[g]
      /\ \A g \in Handles : prev'[g] = IF g = h THEN Null
                                       ELSE IF g = first[p] THEN h ELSE prev[g]
      /\ \A g \in Handles : {first[g], next[g], prev[g]} \subseteq Handles \cup {Null}
      /\ Null \notin Handles
  BY DEF TypeOK
<1>2. \A g \in Handles :
        /\ first[g] # Null => /\ first[g] \in Listed
                              /\ ParentOf[first[g]] = g /\ prev[first[g]] = Null
        /\ next[g] # Null => /\ {g, next[g]} \subseteq Listed
                             /\ prev[next[g]] = g /\ ParentOf[next[g]] = ParentOf[g]
        /\ prev[g] # Null => {g, prev[g]} \subseteq Listed /\ next[prev[g]] = g
        /\ g \in Listed => first[ParentOf[g]] = g \/ prev[g] # Null
  BY DEF Lists
<1>3. ASSUME NEW g \in Handles, first'[g] # Null
      PROVE  first'[g] \in Listed' /\ ParentOf[first'[g]] = g /\ prev'[first'[g]] = Null
  <2>1. CASE g = p
    BY <1>1, <2>1
  <2>2. CASE g # p
    BY <1>1, <1>2, <1>3, <2>2
  <2>3. QED
    BY <2>1, <2>2
<1>4. ASSUME NEW g \in Handles, next'[g] # Null
      PROVE  /\ {g, next'[g]} \subseteq Listed'
             /\ prev'[next'[g]] = g /\ ParentOf[next'[g]] = ParentOf[g]
  <2>1. CASE g = h
    BY <1>1, <1>2, <1>4, <2>1
  <2>2. CASE g # h
    BY <1>1, <1>2, <1>4, <2>2
  <2>3. QED
    BY <2>1, <2>2
<1>5. ASSUME NEW g \in Handles, prev'[g] # Null
      PROVE  {g, prev'[g]} \subseteq Listed' /\ next'[prev'[g]] = g
  BY <1>1, <1>2, <1>5
<1>6. ASSUME NEW g \in Listed'
      PROVE  first'[ParentOf[g]] = g \/ prev'[g] # Null
  <2>1. CASE g = h
    BY <1>1, <2>1
  <2>2. CASE g # h
    <3>1. g \in Listed /\ g \in Handles /\ ParentOf[g] \in Handles
      BY <1>0, <2>2
    <3>2. QED
      BY <1>1, <1>2, <2>2, <3>1
  <2>3. QED
    BY <2>1, <2>2
<1>7. Lists'
  BY <1>3, <1>4, <1>5, <1>6 DEF Lists
<1>8. ASSUME NEW S \in SUBSET Handles, \A g \in S : prev'[g] \in S
      PROVE  S = {}
  <2>1. h \notin S
    BY <1>1, <1>8
  <2>2. first[p] \notin S
    BY <1>1, <1>8, <2>1
  <2>3. \A g \in S : prev[g] \in S
    BY <1>1, <1>8, <2>1, <2>2
  <2>4. QED
    BY <2>3 DEF Grounded
<1>9. QED
  BY <1>7, <1>8 DEF Grounded

LEMMA UnlinkLists ==
  ASSUME TypeOK, Lists, Grounded, NEW h \in Listed, NEW p \in Handles,
         ParentOf[h] = p, Listed' = Listed \ {h}, Unlink(h, p)
  PROVE  Lists' /\ Grounded'
<1> USE TreeAssumption
<1>1. h \in Handles /\ \A g \in Listed : g \in Handles /\ ParentOf[g] \in Handles
  BY ListedHandles
<1>2. /\ \A g \in Handles : first'[g] = IF g = p /\ prev[h] = Null THEN next[h] ELSE first[g]
      /\ \A g \in Handles : next'[g] = IF g = h THEN Null
                                       ELSE IF g = prev[h] THEN next[h] ELSE next[g]
      /\ \A g \in Handles : prev'[g] = IF g = h THEN Null
                                       ELSE IF g = next[h] THEN prev[h] ELSE prev[g]
      /\ \A g \in Handles : {first[g], next[g], prev[g]} \subseteq Handles \cup {Null}
      /\ Null \notin Handles
  BY DEF TypeOK, Unlink
<1>3. \A g \in Handles :
        /\ first[g] # Null => /\ first[g] \in Listed
                              /\ ParentOf[first[g]] = g /\ prev[first[g]] = Null
        /\ next[g] # Null => /\ {g, next[g]} \subseteq Listed
                             /\ prev[next[g]] = g /\ ParentOf[next[g]] = ParentOf[g]
        /\ prev[g] # Null => {g, prev[g]} \subseteq Listed /\ next[prev[g]] = g
        /\ g \in Listed => first[ParentOf[g]] = g \/ prev[g] # Null
  BY DEF Lists
<1>4. prev[h] # h /\ next[h] # h
  <2>1. prev[h] # h
    <3>1. SUFFICES ASSUME prev[h] = h
                   PROVE  FALSE
      OBVIOUS
    <3>2. \A g \in {h} : prev[g] \in {h}
      BY <3>1
    <3>3. {h} \in SUBSET Handles /\ {h} # {}
      BY <1>1
    <3>4. QED
      BY <3>2, <3>3 DEF Grounded
  <2>2. QED
    BY <1>1, <1>2, <1>3, <2>1
<1>5. ASSUME NEW g \in Handles, first'[g] # Null
      PROVE  first'[g] \in Listed' /\ ParentOf[first'[g]] = g /\ prev'[first'[g]] = Null
  <2>1. CASE g = p /\ prev[h] = Null
    BY <1>1, <1>2, <1>3, <1>4, <1>5, <2>1
  <2>2. CASE ~ (g = p /\ prev[h] = Null)
    <3>1. first'[g] = first[g]
      BY <1>2, <2>2
    <3>2. first[g] \in Listed /\ ParentOf[first[g]] = g /\ prev[first[g]] = Null
      BY <1>3, <1>5, <3>1
    <3>3. first[g] # h
      BY <2>2, <3>2
    <3>4. QED
      BY <1>1, <1>2, <1>3, <3>1, <3>2, <3>3
  <2>3. QED
    BY <2>1, <2>2
<1>6. ASSUME NEW g \in Handles, next'[g] # Null
      PROVE  /\ {g, next'[g]} \subseteq Listed'
             /\ prev'[next'[g]] = g /\ ParentOf[next'[g]] = ParentOf[g]
  <2>1. g # h
    BY <1>2, <1>6
  <2>2. CASE g = prev[h]
    BY <1>1, <1>2, <1>3, <1>4, <1>6, <2>1, <2>2
  <2>3. CASE g # prev[h]
    BY <1>1, <1>2, <1>3, <1>4, <1>6, <2>1, <2>3
  <2>4. QED
    BY <2>2, <2>3
<1>7. ASSUME NEW g \in Handles, prev'[g] # Null
      PROVE  {g, prev'[g]} \subseteq Listed' /\ next'[prev'[g]] = g
  <2>1. g # h
    BY <1>2, <1>7
  <2>2. CASE g = next[h]
    BY <1>1, <1>2, <1>3, <1>4, <1>7, <2>1, <2>2
  <2>3. CASE g # next[h]
    BY <1>1, <1>2, <1>3, <1>4, <1>7, <2>1, <2>3
  <2>4. QED
    BY <2>2, <2>3
<1>8. ASSUME NEW g \in Listed'
      PROVE  first'[ParentOf[g]] = g \/ prev'[g] # Null
  <2>1. g # h /\ g \in Listed /\ g \in Handles /\ ParentOf[g] \in Handles
    BY <1>1
  <2>2. CASE g = next[h]
    BY <1>1, <1>2, <1>3, <2>1, <2>2
  <2>3. CASE g # next[h]
    <3>1. first[ParentOf[g]] = g => first'[ParentOf[g]] = g
      <4>1. ParentOf[g] = p /\ prev[h] = Null => first[p] = h
        BY <1>1, <1>3
      <4>2. QED
        BY <1>2, <2>1, <4>1
    <3>2. QED
      BY <1>2, <1>3, <2>1, <2>3, <3>1
  <2>4. QED
    BY <2>2, <2>3
<1>9. Lists'
  BY <1>5, <1>6, <1>7, <1>8 DEF Lists
<1>10. ASSUME NEW S \in SUBSET Handles, \A g \in S : prev'[g] \in S
       PROVE  S = {}
  <2>1. h \notin S
    BY <1>2, <1>10
  <2>2. CASE next[h] \notin S
    <3>1. \A g \in S : prev[g] \in S
      BY <1>2, <1>10, <2>1, <2>2
    <3>2. QED
      BY <3>1 DEF Grounded
  <2>3. CASE next[h] \in S
    <3>1. prev'[next[h]] = prev[h]
      BY <1>1, <1>2, <1>4, <2>3
    <3>2. prev[h] \in S /\ prev[next[h]] = h
      BY <1>1, <1>2, <1>3, <1>10, <2>3, <3>1
    <3>3. \A g \in S \cup {h} : prev[g] \in S \cup {h}
      BY <1>2, <1>10, <2>1, <3>2
    <3>4. S \cup {h} \in SUBSET Handles /\ S \cup {h} # {}
      BY <1>1
    <3>5. QED
      BY <3>3, <3>4 DEF Grounded
  <2>4. QED
    BY <2>2, <2>3
<1>11. QED
  BY <1>9, <1>10 DEF Grounded

LEMMA ListsStep ==
  ASSUME TreeInv, NEW t \in Threads, Act(t)
  PROVE  Lists' /\ Grounded'
<1> USE TreeAssumption
<1>1. TypeOK /\ Lists /\ Grounded /\ Teardown /\ held \subseteq Handles
  BY InUse DEF TreeInv
<1>2. CASE Starts(t) \/ EndCall(t) \/ RclInit(t) \/ RclInitFails(t) \/ Unlock(t) \/ Release(t)
  <2>1. UNCHANGED <<links, valid, stack>>
    BY <1>2 DEF Starts, StartCreate, StartCall, StartDestroy, Drop, EndCall, RclInit, RclInitFails,
                Unlock, Release
  <2>2. UNCHANGED Listed
    BY <2>1 DEF Listed, Stacked, Elements
  <2>3. QED
    BY <1>1, <2>1, <2>2, ListsSame
<1>3. CASE Lock(t) \/ DestroyChild(t)
  <2>1. UNCHANGED links
    BY <1>3 DEF Lock, DestroyChild
  <2>2. valid' \cup Stacked' = valid \cup Stacked
    BY <1>3, LockFacts, ChildFacts
  <2>3. UNCHANGED Listed
    BY <2>2 DEF Listed
  <2>4. QED
    BY <1>1, <2>1, <2>3, ListsSame
<1>4. CASE Link(t)
  <2> DEFINE h == arg[t]
             p == ParentOf[h]
  <2>1. /\ h \in Handles \ held /\ h \notin valid \cup Stacked
        /\ valid' = valid \cup {h} /\ UNCHANGED Stacked
        /\ p # Null => p \in held
    BY <1>4, LinkFacts
  <2>2. CASE p = Null
    <3>1. UNCHANGED links
      BY <1>4, <2>2 DEF Link
    <3>2. UNCHANGED Listed
      BY <2>1, <2>2 DEF Listed
    <3>3. QED
      BY <1>1, <3>1, <3>2, ListsSame
  <2>3. CASE p # Null
    <3>1. /\ first' = [first EXCEPT ![p] = h]
          /\ next' = [next EXCEPT ![h] = first[p]]
          /\ prev' = [g \in Handles |->
                       IF g = h THEN Null ELSE IF g = first[p] THEN h ELSE prev[g]]
      BY <1>4, <2>3 DEF Link
    <3>2. Listed' = Listed \cup {h} /\ h \notin Listed
      BY <2>1, <2>3 DEF Listed
    <3>3. p \in Handles \ {h} /\ h \in Handles
      BY <1>1, <2>1, <2>3
    <3>4. \A g \in Handles : prev'[g] = IF g = h THEN Null ELSE IF g = first[p] THEN h ELSE prev[g]
      BY <3>1
    <3>5. QED
      BY <1>1, <3>1, <3>2, <3>3, <3>4, LinkLists
  <2>4. QED
    BY <2>2, <2>3
<1>5. CASE FiniAndUnlink(t)
  <2> DEFINE p == ParentOf[Top]
  <2>1. /\ Top \in Handles \ valid
        /\ Stacked = {Top} \cup Stacked' /\ Top \notin Stacked'
        /\ valid' = valid \ ClockGoingWith(Top)
        /\ \A c \in ClockGoingWith(Top) : ParentOf[c] = Null
    BY <1>5, FiniFacts
  <2>2. Listed' = Listed \ {Top}
    BY <2>1 DEF Listed
  <2>3. IF p = Null THEN UNCHANGED links ELSE Unlink(Top, p)
    BY <1>5 DEF FiniAndUnlink, Fini
  <2>4. CASE p = Null
    <3>1. UNCHANGED Listed
      BY <2>2, <2>4 DEF Listed
    <3>2. QED
      BY <1>1, <2>3, <2>4, <3>1, ListsSame
  <2>5. CASE p # Null
    <3>1. Top \in Listed /\ p \in Handles
      BY <2>1, <2>5 DEF Listed
    <3>2. QED
      BY <1>1, <2>2, <2>3, <2>5, <3>1, UnlinkLists
  <2>6. QED
    BY <2>4, <2>5
<1>6. QED
  BY <1>2, <1>3, <1>4, <1>5 DEF Act, Continues

(* ... so that one without a first child is empty.                          *)
LEMMA NoFirstNoChild ==
  ASSUME TypeOK, Lists, Grounded, NEW p \in Handles, first[p] = Null
  PROVE  \A c \in Listed : ParentOf[c] # p
<1> DEFINE S == {c \in Listed : ParentOf[c] = p}
<1>1. S \in SUBSET Handles
  BY ListedHandles
<1>2. ASSUME NEW c \in S
      PROVE  prev[c] \in S
  <2>1. c \in Handles /\ prev[c] # Null
    BY <1>1, TreeAssumption DEF Lists, Listed
  <2>2. prev[c] \in Listed /\ next[prev[c]] = c /\ prev[c] \in Handles
    BY <2>1 DEF Lists, TypeOK
  <2>3. ParentOf[prev[c]] = p
    BY <2>1, <2>2, TreeAssumption DEF Lists
  <2>4. QED
    BY <2>2, <2>3
<1>3. S = {}
  BY <1>1, <1>2 DEF Grounded
<1>4. QED
  BY <1>3

-------------------------------------------------------------------------------
(* What is kept apart stays so.                                             *)
LEMMA ApartStep ==
  ASSUME TreeInv, NEW t \in Threads, Act(t), Serialized
  PROVE  Apart'
<1> USE TreeAssumption
<1>1. /\ TypeOK /\ Apart /\ References /\ Teardown /\ held \subseteq Handles /\ Serialized'
      /\ \A u \in Threads : Ownership(u) /\ Borrowing(u) /\ (pc[u] # "idle" => arg[u] \in Handles)
      /\ valid \subseteq Handles /\ Stacked \subseteq Handles
  <2>1. Stacked \subseteq Handles
    BY ElementOfSeq, LenProperties DEF Stacked, Elements, TreeInv, TypeOK
  <2>2. QED
    BY <2>1, InUse DEF TreeInv, TypeOK
<1>2. \A u \in Threads \ {t} : pc'[u] = pc[u] /\ arg'[u] = arg[u]
  <2>1. PICK from, to, h : Goes(t, from, to, h)
    BY <1>1, Others
  <2>2. QED
    BY <1>1, <2>1, GoesTo
<1>3. /\ \A u, w \in Threads : pc[u] \in Creating /\ pc[w] = "destroy" => arg[w] \notin Ancestry(arg[u])
      /\ \A u \in Threads : pc[u] = "rcl_init" => arg[u] \in valid
      /\ \A h \in Handles : rcl[h] = "init" =>
           /\ h \in valid \cup Stacked
           /\ ParentOf[h] # Null => rcl[ParentOf[h]] = "init"
  BY <1>1 DEF Apart
(* Creations and destroys above them are apart. *)
<1>4. ASSUME NEW u \in Threads, NEW w \in Threads, pc'[u] \in Creating, pc'[w] = "destroy"
      PROVE  arg'[w] \notin Ancestry(arg'[u])
  <2>1. CASE \E h \in Handles : StartCreate(t, h)
    <3>1. PICK h \in Handles : StartCreate(t, h)
      BY <2>1
    <3>2. pc'[t] # "destroy" /\ arg'[t] = h
      BY <1>1, <3>1, Moves, GoesTo
    <3>3. \A x \in Threads : pc[x] = "destroy" => arg[x] \notin Ancestry(h)
      BY <3>1 DEF StartCreate, MayCreate
    <3>4. QED
      BY <1>2, <1>3, <1>4, <3>2, <3>3
  <2>2. CASE \E h \in Handles : StartDestroy(t, h)
    <3>1. PICK h \in Handles : StartDestroy(t, h)
      BY <2>2
    <3>2. pc'[t] = "destroy" /\ arg'[t] = h
      BY <1>1, <3>1, Moves, GoesTo
    <3>3. \A x \in Threads : pc[x] \in Creating => h \notin Ancestry(arg[x])
      BY <3>1 DEF StartDestroy, MayDestroy
    <3>4. u # t
      BY <1>4, <3>2 DEF Creating
    <3>5. QED
      BY <1>2, <1>3, <1>4, <3>2, <3>3, <3>4
  <2>3. CASE \E h \in Handles : StartCall(t, h) \/ Drop(t, h)
    <3>1. pc'[t] \in {"idle", "call", "finalize"}
      BY <1>1, <2>3, Moves, GoesTo
    <3>2. u # t /\ w # t
      BY <1>4, <3>1 DEF Creating
    <3>3. QED
      BY <1>2, <1>3, <1>4, <3>2
  <2>4. CASE Link(t)
    <3>1. pc[t] = "link" /\ pc'[t] = "rcl_init" /\ arg'[t] = arg[t]
      BY <1>1, <2>4, Moves, GoesTo
    <3>2. QED
      BY <1>2, <1>3, <1>4, <3>1 DEF Creating
  <2>5. CASE RclInit(t) \/ RclInitFails(t) \/ EndCall(t) \/ Unlock(t) \/ Release(t)
    <3>1. pc'[t] \in {"idle", "finalize", "release"}
      BY <1>1, <2>5, Moves, GoesTo
    <3>2. u # t /\ w # t
      BY <1>4, <3>1 DEF Creating
    <3>3. QED
      BY <1>2, <1>3, <1>4, <3>2
  <2>6. CASE Lock(t) \/ DestroyChild(t) \/ FiniAndUnlink(t)
    <3>1. UNCHANGED <<pc, arg>>
      BY <2>6 DEF Lock, DestroyChild, FiniAndUnlink, Fini
    <3>2. QED
      BY <1>3, <1>4, <3>1
  <2>7. QED
    BY <2>1, <2>2, <2>3, <2>4, <2>5, <2>6 DEF Act, Starts, Continues
(* What is being created is not torn down. *)
<1>5. ASSUME NEW u \in Threads, pc'[u] = "rcl_init"
      PROVE  arg'[u] \in valid'
  <2>2. CASE Link(t)
    <3>1. arg'[t] = arg[t]
      BY <1>1, <2>2, Moves, GoesTo
    <3>2. valid' = valid \cup {arg[t]}
      BY <2>2, LinkFacts
    <3>3. QED
      BY <1>2, <1>3, <1>5, <3>1, <3>2
  <2>3. ASSUME \/ \E h \in Handles :
                    StartCreate(t, h) \/ StartCall(t, h) \/ StartDestroy(t, h) \/ Drop(t, h)
               \/ RclInit(t) \/ RclInitFails(t) \/ EndCall(t) \/ Unlock(t) \/ Release(t)
        PROVE  arg'[u] \in valid'
    <3>1. pc'[t] \in {"link", "call", "destroy", "idle", "finalize", "release"}
      BY <1>1, <2>3, Moves, GoesTo
    <3>2. UNCHANGED valid
      BY <2>3 DEF StartCreate, StartCall, StartDestroy, Drop, RclInit, RclInitFails, EndCall, Unlock, Release
    <3>3. QED
      BY <1>2, <1>3, <1>5, <3>1, <3>2
  <2>4. CASE Lock(t) \/ DestroyChild(t) \/ FiniAndUnlink(t)
    <3>1. UNCHANGED <<pc, arg>>
      BY <2>4 DEF Lock, DestroyChild, FiniAndUnlink, Fini
    <3>2. pc[u] = "rcl_init" /\ arg[u] \in valid /\ arg[u] \in Handles /\ pc[u] \in Creating
      BY <1>1, <1>3, <1>5, <3>1 DEF Creating
    <3>3. CASE Lock(t)
      <4>1. CASE pc[t] = "destroy"
        <5>1. arg[t] \notin Ancestry(arg[u])
          BY <1>3, <3>2, <4>1
        <5>2. arg[t] # arg[u]
          BY <3>2, <5>1, AncestryFacts
        <5>3. QED
          BY <3>1, <3>2, <3>3, <5>2, LockFacts
      <4>2. CASE pc[t] = "finalize"
        <5>1. arg[t] \notin held /\ \A x \in Threads \ {t} : Owning(x) => arg[x] # arg[t]
          BY <1>1, <4>2 DEF Ownership, Owning
        <5>2. arg[t] # arg[u]
          BY <1>1, <3>2, <4>2, <5>1 DEF Owning, Borrowing
        <5>3. QED
          BY <3>1, <3>2, <3>3, <5>2, LockFacts
      <4>3. QED
        BY <3>3, <4>1, <4>2, LockFacts
    <3>4. CASE DestroyChild(t)
      <4>1. PICK c \in Listed : /\ pc[t] = "destroy" /\ arg[t] \in Ancestry(c)
                                /\ valid' = valid \ {c}
        BY <3>4, ChildFacts
      <4>2. arg[u] # c
        BY <1>3, <3>2, <4>1
      <4>3. QED
        BY <3>1, <3>2, <4>1, <4>2
    <3>5. CASE FiniAndUnlink(t)
      <4>1. valid' = valid \ ClockGoingWith(Top) /\ arg[u] \notin ClockGoingWith(Top)
        BY <3>2, <3>5, FiniFacts
      <4>2. QED
        BY <3>1, <3>2, <4>1
    <3>6. QED
      BY <2>4, <3>3, <3>4, <3>5
  <2>5. QED
    BY <2>2, <2>3, <2>4 DEF Act, Starts, Continues
(* Nothing is left without its parent. *)
<1>6. ASSUME NEW h \in Handles, rcl'[h] = "init"
      PROVE  h \in valid' \cup Stacked' /\ (ParentOf[h] # Null => rcl'[ParentOf[h]] = "init")
  <2>1. CASE Starts(t) \/ RclInitFails(t) \/ EndCall(t) \/ Unlock(t) \/ Release(t)
    <3>1. UNCHANGED <<rcl, valid, stack>>
      BY <2>1 DEF Starts, StartCreate, StartCall, StartDestroy, Drop, RclInitFails, EndCall, Unlock,
                  Release
    <3>2. UNCHANGED Stacked
      BY <3>1 DEF Stacked, Elements
    <3>3. QED
      BY <1>3, <1>6, <3>1, <3>2
  <2>2. CASE Link(t)
    <3>1. UNCHANGED <<rcl, Stacked>> /\ valid \subseteq valid'
      BY <2>2, LinkFacts
    <3>2. QED
      BY <1>3, <1>6, <3>1
  <2>3. CASE RclInit(t)
    <3>1. /\ UNCHANGED <<valid, Stacked>> /\ pc[t] = "rcl_init" /\ arg[t] \in Handles
          /\ ParentOf[arg[t]] # Null => rcl[ParentOf[arg[t]]] = "init"
          /\ \A g \in Handles : rcl'[g] = IF g = arg[t] THEN "init" ELSE rcl[g]
      <4>1. RclInit(t) \/ RclInitFails(t)
        BY <2>3
      <4>2. RclInitFails(t) => pc'[t] = "finalize"
        BY <1>1, Moves, GoesTo
      <4>3. RclInit(t) => pc'[t] = "idle"
        BY <1>1, Moves, GoesTo
      <4>4. QED
        BY <2>3, <4>1, <4>2, <4>3, InitFacts
    <3>2. arg[t] \in valid
      BY <1>3, <3>1
    <3>3. ParentOf[h] \in Handles \cup {Null}
      OBVIOUS
    <3>4. QED
      BY <1>3, <1>6, <3>1, <3>2, <3>3
  <2>4. CASE Lock(t) \/ DestroyChild(t)
    <3>1. UNCHANGED rcl
      BY <2>4 DEF Lock, DestroyChild
    <3>2. valid' \cup Stacked' = valid \cup Stacked
      BY <2>4, LockFacts, ChildFacts
    <3>3. QED
      BY <1>3, <1>6, <3>1, <3>2
  <2>5. CASE FiniAndUnlink(t)
    <3> DEFINE torn == {Top} \cup ClockGoingWith(Top)
    <3>1. /\ Top \in Handles /\ first[Top] = Null
          /\ \A g \in Handles : rcl'[g] = IF g \in torn THEN "fini" ELSE rcl[g]
          /\ valid' \cup Stacked' = (valid \cup Stacked) \ torn
          /\ \A c \in ClockGoingWith(Top), g \in Handles : ParentOf[g] # c
      BY <2>5, FiniFacts
    <3>2. h \notin torn /\ rcl[h] = "init"
      BY <1>6, <3>1
    <3>3. h \in valid \cup Stacked /\ (ParentOf[h] # Null => rcl[ParentOf[h]] = "init")
      BY <1>3, <3>2
    <3>4. ParentOf[h] # Null => h \in Listed
      BY <3>3 DEF Listed
    <3>5. ParentOf[h] # Null => ParentOf[h] # Top
      BY <1>1, <3>1, <3>4, NoFirstNoChild DEF TreeInv
    <3>6. ParentOf[h] # Null => ParentOf[h] \in Handles \ torn
      BY <3>1, <3>5
    <3>7. QED
      BY <3>1, <3>2, <3>3, <3>6
  <2>6. QED
    BY <2>1, <2>2, <2>3, <2>4, <2>5 DEF Act, Continues
<1>7. QED
  BY <1>4, <1>5, <1>6 DEF Apart

-------------------------------------------------------------------------------
LEMMA TreeInit == Init => TreeInv
<1> SUFFICES ASSUME Init
             PROVE  TreeInv
  OBVIOUS
<1> USE TreeAssumption DEF Init
<1>1. <<>> \in Seq(Handles) /\ Stacked = {} /\ Distinct(stack)
  <2>1. DOMAIN <<>> = {} /\ <<>> \in Seq(Handles)
    OBVIOUS
  <2>2. QED
    BY <2>1 DEF Stacked, Elements, Distinct
<1>2. TypeOK
  BY <1>1 DEF TypeOK
<1>3. \A t \in Threads : Ownership(t) /\ Borrowing(t)
  BY DEF Ownership, Owning, Borrowing, Creating
<1>4. References
  BY DEF References
<1>5. Teardown
  BY <1>1 DEF Teardown
<1>6. Lists
  BY <1>1 DEF Lists, Listed
<1>7. Grounded
  BY DEF Grounded
<1>8. Apart
  BY DEF Apart, Creating
<1>9. QED
  BY <1>2, <1>3, <1>4, <1>5, <1>6, <1>7, <1>8 DEF TreeInv

LEMMA TreeStep == TreeInv /\ [Next]_vars => TreeInv'
<1>1. ASSUME TreeInv, NEW t \in Threads, Act(t)
      PROVE  TreeInv'
  <2>1. \A u \in Threads : Ownership(u)' /\ Borrowing(u)'
    BY <1>1, OwnershipKept, OwnershipGot, BorrowingStep
  <2>2. Apart'
    BY <1>1, ApartStep DEF Apart
  <2>3. QED
    BY <1>1, <2>1, <2>2, TypeStep, ReferencesStep, TeardownStep, ListsStep DEF TreeInv
<1>2. ASSUME TreeInv, UNCHANGED vars
      PROVE  TreeInv'
  <2>1. UNCHANGED <<memory, rcl, valid, first, next, prev, held, ticking, finis, mutex, stack, pc,
                    arg>>
    BY <1>2 DEF vars, links
  <2>2. UNCHANGED <<Stacked, Distinct(stack), Listed>>
    BY <2>1 DEF Stacked, Elements, Distinct, Listed
  <2>3. TypeOK'
    BY <1>2, <2>1 DEF TreeInv, TypeOK
  <2>4. \A u \in Threads : Ownership(u)' /\ Borrowing(u)'
    BY <1>2, <2>1, <2>2 DEF TreeInv, Ownership, Owning, Borrowing
  <2>5. References'
    BY <1>2, <2>1 DEF TreeInv, References
  <2>6. Teardown'
    BY <1>2, <2>1, <2>2 DEF TreeInv, Teardown
  <2>7. Lists' /\ Grounded'
    BY <1>2, <2>1, <2>2 DEF TreeInv, Lists, Grounded
  <2>8. Apart'
    BY <1>2, <2>1, <2>2 DEF TreeInv, Apart
  <2>9. QED
    BY <2>3, <2>4, <2>5, <2>6, <2>7, <2>8 DEF TreeInv
<1>3. Next => \E t \in Threads : Act(t)
  BY DEF Next, Act
<1>4. QED
  BY <1>1, <1>2, <1>3

LEMMA TreeInvariance == Spec => []TreeInv
BY TreeInit, TreeStep, PTL DEF Spec

(* Whatever destroys, drops and teardowns of ancestors meet: fini runs once *)
(* on each handle, and before its memory goes.                              *)
THEOREM HandlesAreFinalizedOnce == Spec => []FinalizedOnce
<1>1. TreeInv => FinalizedOnce
  <2>1. SUFFICES ASSUME TreeInv, NEW h \in Handles
                 PROVE  finis[h] <= 1 /\ (memory[h] = "freed" => finis[h] = 1)
    BY DEF FinalizedOnce
  <2>2. /\ finis[h] = IF memory[h] # "absent" /\ h \notin valid \cup Stacked THEN 1 ELSE 0
        /\ h \in valid \cup Stacked => memory[h] = "allocated"
    BY <2>1 DEF TreeInv, Teardown
  <2>3. QED
    BY <2>2
<1>2. QED
  BY TreeInvariance, <1>1, PTL

(* The lists of children are sound whenever the mutex is free, and at each  *)
(* step of a teardown.                                                      *)
THEOREM ListsAreSound == Spec => []TreeIsSound
<1>1. TreeInv => TreeIsSound
  <2>1. SUFFICES ASSUME TreeInv, NEW h \in Handles
                 PROVE  /\ first[h] # Null => ParentOf[first[h]] = h /\ prev[first[h]] = Null
                        /\ next[h] # Null => prev[next[h]] = h /\ ParentOf[next[h]] = ParentOf[h]
                        /\ prev[h] # Null => next[prev[h]] = h
                        /\ \A g \in {first[h], next[h], prev[h]} \ {Null} : memory[g] = "allocated"
                        /\ h \in valid /\ ParentOf[h] # Null
                             => /\ memory[ParentOf[h]] = "allocated"
                                /\ first[ParentOf[h]] = h \/ prev[h] # Null
    BY DEF TreeIsSound
  <2>2. Lists /\ Teardown /\ References
    BY <2>1 DEF TreeInv
  <2>3. \A g \in Listed : memory[g] = "allocated"
    BY <2>2 DEF Listed, Teardown
  <2>4. \A g \in {first[h], next[h], prev[h]} \ {Null} : g \in Listed
    BY <2>2 DEF Lists
  <2>5. h \in valid /\ ParentOf[h] # Null
          => /\ memory[ParentOf[h]] = "allocated"
             /\ first[ParentOf[h]] = h \/ prev[h] # Null
    BY <2>2, <2>3 DEF Lists, Listed, References
  <2>6. QED
    BY <2>2, <2>3, <2>4, <2>5 DEF Lists
<1>2. QED
  BY TreeInvariance, <1>1, PTL

(* A clock is there for as long as one of its timers is, also when the      *)
(* application destroys what others are using.                              *)
THEOREM ClocksOutliveTheirTimers == Spec => []ClockOutlivesTimers
<1>1. TreeInv => ClockOutlivesTimers
  BY DEF TreeInv, Teardown, References, ClockOutlivesTimers
<1>2. QED
  BY TreeInvariance, <1>1, PTL

(* If nothing is destroyed above what another thread is creating: an entity *)
(* of rcl goes before all that it was created on, however high up the       *)
(* destroy began, and whatever calls go on meanwhile.                       *)
THEOREM ParentsGoLast == Serialized => (Spec => []ChildrenGoFirst)
<1>1. Serialized /\ TreeInv => ChildrenGoFirst
  <2>1. SUFFICES ASSUME Serialized, TreeInv, NEW h \in Handles, rcl[h] = "init"
                 PROVE  \A p \in Ancestry(h) : rcl[p] = "init"
    BY DEF ChildrenGoFirst
  <2> DEFINE S == {g \in Handles : rcl[g] = "init"}
  <2>2. \A g \in S : ParentOf[g] \in S \cup {Null}
    BY <2>1, TreeAssumption DEF TreeInv, Apart
  <2>3. h \in S /\ S \in SUBSET Handles
    BY <2>1
  <2> HIDE DEF S
  <2>4. Ancestry(h) \subseteq S
    BY <2>2, <2>3, AncestryFacts
  <2>5. QED
    BY <2>4 DEF S
<1>2. SUFFICES ASSUME Serialized
               PROVE  Spec => []ChildrenGoFirst
  OBVIOUS
<1>3. TreeInv => ChildrenGoFirst
  BY <1>1, <1>2
<1>4. QED
  BY TreeInvariance, <1>3, PTL
===============================================================================
