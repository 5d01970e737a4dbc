--------------------------- MODULE ParametersProofs ---------------------------
(***************************************************************************)
(* For any parameters, batches and callbacks, and any number of threads:   *)
(* what the store holds has been checked; and when operations run one at a *)
(* time, what is read-only stays, and the listing, the events and the      *)
(* clock agree with the store.                                             *)
(***************************************************************************)
EXTENDS Parameters, SequenceTheorems, WellFoundedInduction, TLAPS

SetSteps == {"callbacks", "consult", "switch", "write", "relist", "insert"}
WriteSteps == {"erase", "unlist", "write", "relist", "insert", "announce"}

USE DEF store, clock

NoDuplicates(s) == \A i, j \in DOMAIN s : s[i] = s[j] => i = j

(* An update satisfies the descriptor that its operation has found.         *)
Passes(t, u) == current[t][u[1]] \in Descriptors /\ u[2] \in current[t][u[1]].allows

(* A set that goes on has been checked, a declaration is of the default,    *)
(* and a thread has written nothing before it comes to write.               *)
Checked(t) ==
  /\ pc[t] \in SetSteps =>
       /\ proposed[t] # <<>>
       /\ \A u \in Range(proposed[t]) : Passes(t, u) /\ ~current[t][u[1]].readOnly
  /\ pc[t] \notin SetSteps \cup {"refused"} => proposed[t] = <<>>
  /\ \A i, j \in DOMAIN proposed[t] : proposed[t][i][1] = proposed[t][j][1] => i = j
  /\ pc[t] \in {"declare", "list"} =>
       \E n \in Names : event[t] = {<<n, DefaultOf[n]>>}
  /\ pc[t] = "declare" => \A e \in event[t] : Passes(t, e)
  /\ pc[t] \notin WriteSteps => written[t] = {}
  /\ pc[t] \in {"erase", "unlist"} => written[t] \subseteq Undeclarable

(* The rest is about operations that run one at a time.                     *)
Lone(t) == \A u \in Threads \ {t} : pc[u] = "idle"

Exclusion == exclusive => \A t \in Threads : pc[t] # "idle" => Lone(t)

(* Each callback has still to be consulted or has not refused.              *)
Consulted(t) ==
  pc[t] \in SetSteps \ {"callbacks"} =>
    \A cb \in Range(onSet) \cap Vetoes :
      \/ pc[t] \in {"consult", "switch"} /\ cb \in Range(consulting[t])
      \/ Range(proposed[t]) \cap Refuses[cb] = {}

(* What the operation has found is what is there.                           *)
Fresh(t) ==
  /\ pc[t] \in SetSteps =>
       \A u \in Range(proposed[t]) : descriptor[u[1]] = current[t][u[1]]
  /\ pc[t] = "erase" => \A n \in written[t] : ~descriptor[n].readOnly

DeclaredNames == {n \in Names : Declared(n)}

(* The names whose entry in the listing is not what it is to be.            *)
Listed(t) ==
  /\ NoDuplicates(order)
  /\ Range(order) =
       CASE pc[t] = "list" -> DeclaredNames \ {e[1] : e \in event[t]}
         [] pc[t] = "unlist" -> DeclaredNames \cup written[t]
         [] pc[t] = "insert" -> DeclaredNames \cup {Update(t)[1]}
         [] OTHER -> DeclaredNames
  /\ pc[t] = "declare" => \A e \in event[t] : ~Declared(e[1])
  /\ pc[t] = "erase" => \A n \in written[t] : Declared(n)
  /\ pc[t] = "list" => \A e \in event[t] : Declared(e[1])
  /\ pc[t] = "relist" => ~Declared(Update(t)[1])
  /\ pc[t] = "unlist" => \A n \in written[t] : ~Declared(n)

(* A value nobody knows of is in the event to come.                         *)
Announced(t) ==
  /\ \A n \in Names :
       \/ announced[n] \in {params[n], Lost} \/ ~Declared(n)
       \/ pc[t] \in {"write", "relist", "insert", "announce"} /\ n \in written[t]
       \/ pc[t] \in {"list", "publish"} /\ <<n, params[n]>> \in event[t]
  /\ pc[t] \in {"list", "publish"} => \A e \in event[t] : params[e[1]] = e[2]

(* The time source is the last callback, and consulted once.                *)
FollowsLast(s) ==
  /\ s # <<>> /\ s[Len(s)] = FollowClock
  /\ \A j \in 1 .. Len(s) - 1 : s[j] # FollowClock

Agrees(v) == IsBool(v) => enabled = (v = On)

(* The clock as it is to be once the set has written.                       *)
ClockAhead(t) ==
  /\ \A u \in Range(proposed[t]) :
       u[1] = UseSimTime /\ IsBool(u[2]) => enabled = (u[2] = On)
  /\ UseSimTime \notin {u[1] : u \in Range(proposed[t])} => Agrees(params[UseSimTime])

(* The time source has been consulted and the set has still to write.       *)
Ahead(t) ==
  \/ pc[t] \in {"switch", "write", "relist", "insert"}
  \/ pc[t] = "consult" /\ consulting[t] = <<>>

ClockSwitched(t) ==
  /\ IF pc[t] \in {"switch", "switch first"} THEN on[t] = enabled ELSE override = enabled
  /\ pc[t] \in {"switch first", "follow"} =>
       /\ FollowClock \notin Range(onSet) /\ Declared(UseSimTime)
       /\ Agrees(params[UseSimTime])
  /\ FollowClock \in Range(onSet) => Declared(UseSimTime)
  /\ \A i, j \in DOMAIN onSet : onSet[i] = FollowClock /\ onSet[j] = FollowClock => i = j
  /\ FollowsLast(onSet) =>
       /\ pc[t] = "consult" => consulting[t] = <<>> \/ FollowsLast(consulting[t])
       /\ pc[t] = "switch" => consulting[t] = <<>>
       /\ IF Ahead(t) THEN ClockAhead(t) ELSE Agrees(params[UseSimTime])

OneAtATime ==
  exclusive => \A t \in Threads :
                 Lone(t) =>
                   Consulted(t) /\ Fresh(t) /\ Listed(t) /\ Announced(t) /\ ClockSwitched(t)

Described == \A n \in Names : Declared(n) => descriptor[n] \in Descriptors

ParamInv ==
  /\ TypeOK /\ \A t \in Threads : Checked(t)
  /\ Described /\ DescriptorsHold /\ Exclusion /\ OneAtATime
-------------------------------------------------------------------------------
(* Sequences: one element more, one less, and a filter.                     *)
LEMMA AppendAdds ==
  ASSUME NEW S, NEW s \in Seq(S), NEW x \in S
  PROVE  /\ Append(s, x) \in Seq(S) /\ Range(Append(s, x)) = Range(s) \cup {x}
         /\ NoDuplicates(s) /\ x \notin Range(s) => NoDuplicates(Append(s, x))
<1>1. /\ Append(s, x) \in Seq(S) /\ Len(Append(s, x)) = Len(s) + 1 /\ Len(s) \in Nat
      /\ DOMAIN s = 1 .. Len(s) /\ DOMAIN Append(s, x) = 1 .. Len(s) + 1
      /\ \A i \in 1 .. Len(s) : Append(s, x)[i] = s[i]
      /\ Append(s, x)[Len(s) + 1] = x
  BY AppendProperties, LenProperties
<1>2. Range(Append(s, x)) = Range(s) \cup {x}
  BY <1>1 DEF Range
<1>3. NoDuplicates(s) /\ x \notin Range(s) => NoDuplicates(Append(s, x))
  BY <1>1 DEF Range, NoDuplicates
<1>4. QED
  BY <1>1, <1>2, <1>3

LEMMA TailRemoves ==
  ASSUME NEW S, NEW s \in Seq(S), s # <<>>
  PROVE  /\ Head(s) \in S /\ Head(s) = s[1] /\ Tail(s) \in Seq(S)
         /\ Len(s) \in Nat \ {0} /\ DOMAIN s = 1 .. Len(s)
         /\ Len(Tail(s)) = Len(s) - 1 /\ DOMAIN Tail(s) = 1 .. Len(s) - 1
         /\ \A i \in 1 .. Len(s) - 1 : Tail(s)[i] = s[i + 1]
         /\ Range(s) = {Head(s)} \cup Range(Tail(s))
         /\ Tail(s) = <<>> <=> Len(s) = 1
<1>1. /\ Len(s) \in Nat /\ DOMAIN s = 1 .. Len(s) /\ Len(s) # 0
  BY LenProperties, EmptySeq
<1>2. /\ Head(s) = s[1] /\ Tail(s) \in Seq(S) /\ Len(Tail(s)) = Len(s) - 1
      /\ \A i \in 1 .. Len(s) - 1 : Tail(s)[i] = s[i + 1]
  BY HeadTailProperties
<1>3. s[1] \in S
  BY <1>1, ElementOfSeq
<1>4. DOMAIN Tail(s) = 1 .. Len(s) - 1
  BY <1>2, LenProperties
<1>5. Range(s) = {Head(s)} \cup Range(Tail(s))
  <2>1. \A i \in 1 .. Len(s) : i # 1 => i - 1 \in 1 .. Len(s) - 1 /\ (i - 1) + 1 = i
    BY <1>1
  <2>2. Range(s) \subseteq {Head(s)} \cup Range(Tail(s))
    <3>1. ASSUME NEW i \in 1 .. Len(s)
          PROVE  s[i] \in {Head(s)} \cup Range(Tail(s))
      <4>1. CASE i # 1
        <5>1. s[i] = Tail(s)[i - 1] /\ i - 1 \in DOMAIN Tail(s)
          BY <1>2, <1>4, <2>1, <4>1
        <5>2. QED
          BY <5>1 DEF Range
      <4>2. QED
        BY <1>2, <4>1
    <3>2. QED
      BY <1>1, <3>1 DEF Range
  <2>3. {Head(s)} \cup Range(Tail(s)) \subseteq Range(s)
    BY <1>1, <1>2, <1>4 DEF Range
  <2>4. QED
    BY <2>2, <2>3
<1>6. Tail(s) = <<>> <=> Len(s) = 1
  BY <1>1, <1>2, EmptySeq
<1>7. QED
  BY <1>1, <1>2, <1>3, <1>4, <1>5, <1>6

LEMMA Induction ==
  ASSUME NEW S, 0 \in S, \A n \in Nat : n \in S => n + 1 \in S
  PROVE  Nat \subseteq S
<1> DEFINE R == OpToRel(<, Nat)
<1>1. IsWellFoundedOn(R, Nat)
  BY NatLessThanWellFounded, Zenon
<1>2. \A x, y \in Nat : x < y => <<x, y>> \in R
  BY DEF OpToRel
<1> HIDE DEF R
<1>3. SUFFICES ASSUME Nat \ S # {}
               PROVE  FALSE
  OBVIOUS
<1>4. PICK x \in Nat \ S : \A y \in Nat \ S : ~ (<<y, x>> \in R)
  <2>1. Nat \ S \subseteq Nat
    OBVIOUS
  <2>2. QED
    BY <1>1, <1>3, <2>1, WFMin, Zenon
<1>5. x - 1 \in Nat /\ x - 1 < x /\ (x - 1) + 1 = x
  BY <1>4
<1>6. x - 1 \in S
  BY <1>2, <1>4, <1>5
<1>7. QED
  BY <1>4, <1>5, <1>6

(* The filter keeps what is not among the names, ...                        *)
LEMMA WithoutFilters ==
  ASSUME NEW S, NEW s \in Seq(S), NEW names
  PROVE  /\ Without(s, names) \in Seq(S)
         /\ Range(Without(s, names)) = Range(s) \ names
         /\ NoDuplicates(s) => NoDuplicates(Without(s, names))
<1> DEFINE Dom == 0 .. Len(s)
           Is(f, n) == \A i \in 0 .. n :
                         f[i] = IF i = 0 THEN <<>>
                                ELSE IF s[i] \in names THEN f[i - 1] ELSE Append(f[i - 1], s[i])
           kept == CHOOSE f : f = [i \in Dom |->
                                    IF i = 0 THEN <<>>
                                    ELSE IF s[i] \in names THEN f[i - 1]
                                         ELSE Append(f[i - 1], s[i])]
<1>1. Len(s) \in Nat /\ DOMAIN s = 1 .. Len(s)
  BY LenProperties
<1>2. \E f : Is(f, Len(s)) /\ f = [i \in Dom |-> f[i]]
  <2> DEFINE T == {n \in Nat : \E f : Is(f, n) /\ f = [i \in 0 .. n |-> f[i]]}
  <2>1. 0 \in T
    <3>1. Is([i \in 0 .. 0 |-> <<>>], 0)
      OBVIOUS
    <3>2. QED
      BY <3>1
  <2>2. ASSUME NEW n \in Nat, n \in T
        PROVE  n + 1 \in T
    <3>1. PICK f : Is(f, n) /\ f = [i \in 0 .. n |-> f[i]]
      BY <2>2
    <3> DEFINE g == [i \in 0 .. n + 1 |->
                      IF i # n + 1 THEN f[i]
                      ELSE IF s[i] \in names THEN f[n] ELSE Append(f[n], s[i])]
    <3>2. Is(g, n + 1)
      <4>1. \A i \in 0 .. n : g[i] = f[i]
        OBVIOUS
      <4>2. \A i \in 0 .. n + 1 : i # n + 1 => i \in 0 .. n /\ (i # 0 => i - 1 \in 0 .. n)
        OBVIOUS
      <4>3. g[n + 1] = IF s[n + 1] \in names THEN g[n] ELSE Append(g[n], s[n + 1])
        OBVIOUS
      <4> HIDE DEF g
      <4>4. (n + 1) - 1 = n /\ n + 1 # 0
        OBVIOUS
      <4>5. QED
        BY <3>1, <4>1, <4>2, <4>3, <4>4
    <3>3. g = [i \in 0 .. n + 1 |-> g[i]]
      OBVIOUS
    <3> HIDE DEF g, Is
    <3>4. \E h : Is(h, n + 1) /\ h = [i \in 0 .. n + 1 |-> h[i]]
      BY <3>2, <3>3
    <3>5. QED
      BY <3>4
  <2> HIDE DEF T
  <2>3. Len(s) \in T
    BY <1>1, <2>1, <2>2, Induction
  <2>4. QED
    BY <2>3 DEF T
<1>3. Is(kept, Len(s))
  <2>1. PICK f : Is(f, Len(s)) /\ f = [i \in Dom |-> f[i]]
    BY <1>2
  <2>2. f = [i \in Dom |-> IF i = 0 THEN <<>>
                           ELSE IF s[i] \in names THEN f[i - 1] ELSE Append(f[i - 1], s[i])]
    BY <2>1
  <2>3. kept = [i \in Dom |-> IF i = 0 THEN <<>>
                              ELSE IF s[i] \in names THEN kept[i - 1]
                                   ELSE Append(kept[i - 1], s[i])]
    BY <2>2
  <2> HIDE DEF kept
  <2>4. QED
    BY <2>3
<1>4. Without(s, names) = kept[Len(s)]
  BY DEF Without
<1> HIDE DEF kept
<1> DEFINE Upto(n) == {s[i] : i \in 1 .. n}
           Good(n) == /\ kept[n] \in Seq(S) /\ Range(kept[n]) = Upto(n) \ names
                      /\ NoDuplicates(s) => NoDuplicates(kept[n])
           T == {n \in Nat : n <= Len(s) => Good(n)}
<1>5. 0 \in T
  <2>1. kept[0] = <<>>
    BY <1>1, <1>3
  <2>2. /\ <<>> \in Seq(S) /\ Range(<<>>) = {} /\ NoDuplicates(<<>>)
    BY EmptySeq DEF Range, NoDuplicates
  <2>3. Upto(0) = {}
    OBVIOUS
  <2>4. QED
    BY <2>1, <2>2, <2>3
<1>6. ASSUME NEW n \in Nat, n \in T
      PROVE  n + 1 \in T
  <2>1. SUFFICES ASSUME n + 1 <= Len(s)
                 PROVE  Good(n + 1)
    OBVIOUS
  <2>2. Good(n)
    BY <1>1, <1>6, <2>1
  <2>3. n + 1 \in 1 .. Len(s) /\ n + 1 # 0 /\ (n + 1) - 1 = n /\ n + 1 \in 0 .. Len(s)
    BY <1>1, <2>1
  <2>4. kept[n + 1] = IF s[n + 1] \in names THEN kept[n] ELSE Append(kept[n], s[n + 1])
    BY <1>3, <2>3
  <2>5. s[n + 1] \in S
    BY <2>3, ElementOfSeq
  <2>6. Upto(n + 1) = Upto(n) \cup {s[n + 1]}
    <3>1. 1 .. n + 1 = (1 .. n) \cup {n + 1}
      OBVIOUS
    <3>2. QED
      BY <3>1
  <2>7. NoDuplicates(s) => s[n + 1] \notin Upto(n)
    <3>1. \A i \in 1 .. n : i \in DOMAIN s /\ i # n + 1
      BY <1>1, <2>1
    <3>2. QED
      BY <1>1, <2>3, <3>1 DEF NoDuplicates
  <2> HIDE DEF Upto
  <2>8. CASE s[n + 1] \in names
    BY <2>2, <2>4, <2>6, <2>8
  <2>9. CASE s[n + 1] \notin names
    <3>1. kept[n + 1] = Append(kept[n], s[n + 1])
      BY <2>4, <2>9
    <3>2. NoDuplicates(s) => s[n + 1] \notin Range(kept[n])
      BY <2>2, <2>7
    <3>3. /\ kept[n + 1] \in Seq(S) /\ Range(kept[n + 1]) = Range(kept[n]) \cup {s[n + 1]}
          /\ NoDuplicates(kept[n]) /\ s[n + 1] \notin Range(kept[n]) => NoDuplicates(kept[n + 1])
      BY <2>2, <2>5, <3>1, AppendAdds
    <3>4. QED
      BY <2>2, <2>6, <2>9, <3>2, <3>3
  <2>10. QED
    BY <2>8, <2>9
<1> HIDE DEF T
<1>7. Len(s) \in T
  BY <1>1, <1>5, <1>6, Induction
<1>8. Good(Len(s)) /\ Upto(Len(s)) = Range(s)
  BY <1>1, <1>7 DEF T, Range
<1>9. QED
  BY <1>4, <1>8
-------------------------------------------------------------------------------
(* What any thread does; that only one of them sets up plays no role here.  *)
Act(t) == SetsUp(t) \/ Sets(t) \/ Continues(t)

(* The other threads stay where they are, with what they have.              *)
LEMMA OthersStay ==
  ASSUME TypeOK, NEW t \in Threads, Act(t)
  PROVE  \A u \in Threads \ {t} :
           /\ pc'[u] = pc[u] /\ proposed'[u] = proposed[u] /\ consulting'[u] = consulting[u]
           /\ written'[u] = written[u] /\ event'[u] = event[u] /\ on'[u] = on[u]
           /\ current'[u] = current[u]
<1>1. CASE SetsUp(t) \/ Sets(t)
  <2>1. CASE Sets(t)
    BY <2>1 DEF Sets, StartSet, Begin, GoTo, TypeOK
  <2>2. CASE StartFollow(t)
    BY <2>2 DEF StartFollow, SetEnabled, TypeOK
  <2>3. CASE SetsUp(t) /\ ~StartFollow(t)
    <3>1. CASE \E n \in Names : \E d \in DescriptorsOf[n] : StartDeclare(t, n, d)
      BY <3>1 DEF StartDeclare, Begin, GoTo, TypeOK
    <3>2. CASE \E n \in Names : StartUndeclare(t, n)
      BY <3>2 DEF StartUndeclare, Begin, GoTo, TypeOK
    <3>3. CASE \E cb \in Vetoes : AddVeto(t, cb)
      BY <3>3 DEF AddVeto, Begin, GoTo, TypeOK
    <3>4. QED
      BY <2>3, <3>1, <3>2, <3>3 DEF SetsUp
  <2>4. QED
    BY <1>1, <2>1, <2>2, <2>3
<1>2. CASE Declare(t) \/ List(t) \/ Erase(t) \/ Unlist(t) \/ Callbacks(t) \/ Consult(t)
  BY <1>2 DEF Declare, List, Erase, Unlist, Callbacks, Consult, GoTo, TypeOK
<1>3. CASE Follow(t) \/ SwitchClock(t, "switch", "consult") \/ Refuse(t) \/ Accept(t)
  BY <1>3 DEF Follow, SetEnabled, SwitchClock, Refuse, Accept, GoTo, TypeOK
<1>4. CASE Write(t) \/ Relist(t) \/ Insert(t) \/ Announce(t) \/ Publish(t) \/ PublishFails(t)
  BY <1>4 DEF Write, Relist, Insert, Announce, EventAbout, Publish, PublishFails, GoTo, TypeOK
<1>5. CASE SwitchClock(t, "switch first", "follow") \/ AddFollow(t)
  BY <1>5 DEF SwitchClock, AddFollow, GoTo, TypeOK
<1>6. QED
  BY <1>1, <1>2, <1>3, <1>4, <1>5 DEF Act, Continues

LEMMA GoToStep ==
  ASSUME TypeOK, NEW t \in Threads, NEW from, NEW to \in Steps, GoTo(t, from, to)
  PROVE  pc[t] = from /\ pc'[t] = to /\ pc' \in [Threads -> Steps]
  BY DEF TypeOK, GoTo

(* Where each action takes the thread.                                       *)
LEMMA Moves ==
  ASSUME TypeOK, NEW t \in Threads
  PROVE  /\ \A n, d : StartDeclare(t, n, d) => pc[t] = "idle" /\ pc'[t] = "declare"
         /\ \A n \in Names : StartUndeclare(t, n) => pc[t] = "idle" /\ pc'[t] = "erase"
         /\ \A cb \in Vetoes : AddVeto(t, cb) => pc[t] = "idle" /\ pc'[t] = "idle"
         /\ Sets(t) => pc[t] = "idle" /\ pc'[t] \in {"callbacks", "refused"}
         /\ Declare(t) => pc[t] = "declare" /\ pc'[t] = "list"
         /\ List(t) => pc[t] = "list" /\ pc'[t] = "publish"
         /\ Erase(t) => pc[t] = "erase" /\ pc'[t] = "unlist"
         /\ Unlist(t) => pc[t] = "unlist" /\ pc'[t] = "idle"
         /\ Callbacks(t) => pc[t] = "callbacks" /\ pc'[t] = "consult"
         /\ Consult(t) => pc[t] = "consult" /\ pc'[t] \in {"consult", "refused"}
         /\ SwitchClock(t, "switch", "consult") => pc[t] = "switch" /\ pc'[t] = "consult"
         /\ Refuse(t) => pc[t] = "refused" /\ pc'[t] = "idle"
         /\ Accept(t) => pc[t] = "consult" /\ pc'[t] = "write"
         /\ Write(t) => pc[t] = "write" /\ pc'[t] \in {"insert", "relist"}
         /\ Relist(t) => pc[t] = "relist" /\ pc'[t] = "insert"
         /\ Insert(t) => pc[t] = "insert" /\ pc'[t] \in {"write", "announce"}
         /\ Announce(t) => pc[t] = "announce" /\ pc'[t] = "publish"
         /\ Publish(t) \/ PublishFails(t) => pc[t] = "publish" /\ pc'[t] = "idle"
         /\ SwitchClock(t, "switch first", "follow") => pc[t] = "switch first" /\ pc'[t] = "follow"
         /\ AddFollow(t) => pc[t] = "follow" /\ pc'[t] = "idle"
         /\ Follow(t) => pc[t] = "consult" /\ pc'[t] \in {"consult", "switch"}
         /\ StartFollow(t) => pc[t] = "idle" /\ pc'[t] \in {"switch first", "follow"}
<1>1. \A n, d : StartDeclare(t, n, d) => pc[t] = "idle" /\ pc'[t] = "declare"
  BY GoToStep DEF StartDeclare, Begin, Steps
<1>2. \A n \in Names : StartUndeclare(t, n) => pc[t] = "idle" /\ pc'[t] = "erase"
  BY GoToStep DEF StartUndeclare, Begin, Steps
<1>3. \A cb \in Vetoes : AddVeto(t, cb) => pc[t] = "idle" /\ pc'[t] = "idle"
  BY GoToStep DEF AddVeto, Begin, Steps
<1>4. Sets(t) => pc[t] = "idle" /\ pc'[t] \in {"callbacks", "refused"}
  BY GoToStep DEF Sets, StartSet, Begin, Steps
<1>5. Declare(t) => pc[t] = "declare" /\ pc'[t] = "list"
  BY GoToStep DEF Declare, Steps
<1>6. List(t) => pc[t] = "list" /\ pc'[t] = "publish"
  BY GoToStep DEF List, Steps
<1>7. Erase(t) => pc[t] = "erase" /\ pc'[t] = "unlist"
  BY GoToStep DEF Erase, Steps
<1>8. Unlist(t) => pc[t] = "unlist" /\ pc'[t] = "idle"
  BY GoToStep DEF Unlist, Steps
<1>9. Callbacks(t) => pc[t] = "callbacks" /\ pc'[t] = "consult"
  BY GoToStep DEF Callbacks, Steps
<1>10. Consult(t) => pc[t] = "consult" /\ pc'[t] \in {"consult", "refused"}
  BY GoToStep DEF Consult, Steps
<1>11. SwitchClock(t, "switch", "consult") => pc[t] = "switch" /\ pc'[t] = "consult"
  BY GoToStep DEF SwitchClock, Steps
<1>12. Refuse(t) => pc[t] = "refused" /\ pc'[t] = "idle"
  BY GoToStep DEF Refuse, Steps
<1>13. Accept(t) => pc[t] = "consult" /\ pc'[t] = "write"
  BY GoToStep DEF Accept, Steps
<1>14. Write(t) => pc[t] = "write" /\ pc'[t] \in {"insert", "relist"}
  BY GoToStep DEF Write, Steps
<1>15. Relist(t) => pc[t] = "relist" /\ pc'[t] = "insert"
  BY GoToStep DEF Relist, Steps
<1>16. Insert(t) => pc[t] = "insert" /\ pc'[t] \in {"write", "announce"}
  BY GoToStep DEF Insert, Steps
<1>17. Announce(t) => pc[t] = "announce" /\ pc'[t] = "publish"
  BY GoToStep DEF Announce, EventAbout, Steps
<1>18. Publish(t) \/ PublishFails(t) => pc[t] = "publish" /\ pc'[t] = "idle"
  BY GoToStep DEF Publish, PublishFails, Steps
<1>19. SwitchClock(t, "switch first", "follow") => pc[t] = "switch first" /\ pc'[t] = "follow"
  BY GoToStep DEF SwitchClock, Steps
<1>20. AddFollow(t) => pc[t] = "follow" /\ pc'[t] = "idle"
  BY GoToStep DEF AddFollow, Steps
<1>21. ASSUME NEW value, NEW switch, NEW next, SetEnabled(t, value, switch, next)
       PROVE  pc'[t] \in {switch, next}
  BY <1>21 DEF SetEnabled, TypeOK
<1>22. Follow(t) => pc[t] = "consult" /\ pc'[t] \in {"consult", "switch"}
  <2>1. SUFFICES ASSUME Follow(t)
                 PROVE  pc'[t] \in {"consult", "switch"}
    BY DEF Follow
  <2>2. pc[t] = "consult" /\ (pc' = pc \/ \E value : SetEnabled(t, value, "switch", "consult"))
    BY <2>1 DEF Follow
  <2>3. CASE pc' = pc
    BY <2>2, <2>3
  <2>4. CASE \E value : SetEnabled(t, value, "switch", "consult")
    BY <1>21, <2>4
  <2>5. QED
    BY <2>2, <2>3, <2>4
<1>23. StartFollow(t) => pc[t] = "idle" /\ pc'[t] \in {"switch first", "follow"}
  BY <1>21 DEF StartFollow, TypeOK
<1>24. QED
  BY <1>1, <1>2, <1>3, <1>4, <1>5, <1>6, <1>7, <1>8, <1>9, <1>10, <1>11, <1>12, <1>13, <1>14,
     <1>15, <1>16, <1>17, <1>18, <1>19, <1>20, <1>22, <1>23

(* A batch that is being set has a next update.                             *)
LEMMA NextUpdate ==
  ASSUME TypeOK, NEW t \in Threads, Checked(t), pc[t] \in SetSteps
  PROVE  /\ proposed[t] \in Seq(Names \X Values) /\ proposed[t] # <<>>
         /\ Update(t) \in Names \X Values
         /\ Update(t) \in Range(proposed[t])
         /\ Update(t)[1] \in Names /\ Update(t)[2] \in Values
         /\ Passes(t, Update(t)) /\ ~current[t][Update(t)[1]].readOnly
<1>1. proposed[t] \in Seq(Names \X Values) /\ proposed[t] # <<>>
  BY DEF TypeOK, Checked
<1>2. Update(t) \in Names \X Values /\ Update(t) \in Range(proposed[t])
  BY <1>1, TailRemoves DEF Update
<1>3. QED
  BY <1>1, <1>2 DEF Checked

(* The types.                                                               *)
LEMMA StoreType ==
  ASSUME TypeOK, NEW t \in Threads, NEW n \in Names, NEW v \in Values, Store(t, n, v)
  PROVE  /\ params' \in [Names -> Values \cup {NoValue}]
         /\ descriptor' \in [Names -> Descriptors \cup {NoValue}]
         /\ \A m \in Names : params'[m] = IF m = n THEN v ELSE params[m]
         /\ \A m \in Names : descriptor'[m] = IF m = n THEN current[t][n] ELSE descriptor[m]
BY DEF TypeOK, Store

LEMMA TypeStep ==
  ASSUME TypeOK, NEW t \in Threads, Checked(t), Act(t)
  PROVE  TypeOK'
<1> USE ParameterAssumption
<1>1. ASSUME NEW n \in Names, NEW d \in DescriptorsOf[n], StartDeclare(t, n, d)
      PROVE  TypeOK'
  <2>1. event' \in [Threads -> SUBSET (Names \X Values)]
    BY <1>1 DEF StartDeclare, TypeOK
  <2>2. pc' \in [Threads -> Steps]
    BY <1>1 DEF StartDeclare, Begin, GoTo, TypeOK, Steps
  <2>3. d \in Descriptors
    OBVIOUS
  <2>4. [NoneFound EXCEPT ![n] = d] \in [Names -> Descriptors \cup {NoValue}]
    BY <2>3 DEF NoneFound
  <2>5. current' \in [Threads -> [Names -> Descriptors \cup {NoValue}]]
    BY <1>1, <2>4 DEF StartDeclare, TypeOK
  <2>6. QED
    BY <1>1, <2>1, <2>2, <2>5 DEF StartDeclare, TypeOK
<1>2. CASE Declare(t) \/ List(t)
  <2>1. \A e \in event[t] : e[1] \in Names /\ e[2] \in Values
    BY DEF TypeOK
  <2>2. pc' \in [Threads -> Steps]
    BY <1>2, GoToStep DEF Declare, List, Steps
  <2>3. CASE Declare(t)
    <3>1. PICK e \in event[t] : Store(t, e[1], e[2])
      BY <2>3 DEF Declare
    <3>2. params' \in [Names -> Values \cup {NoValue}]
          /\ descriptor' \in [Names -> Descriptors \cup {NoValue}]
      BY <2>1, <3>1, StoreType
    <3>3. current' \in [Threads -> [Names -> Descriptors \cup {NoValue}]]
      BY <2>3 DEF Declare, TypeOK, NoneFound
    <3>4. QED
      BY <2>2, <2>3, <3>2, <3>3 DEF Declare, TypeOK
  <2>4. CASE List(t)
    <3>1. order' \in Seq(Names)
      BY <2>1, <2>4, AppendProperties DEF List, TypeOK
    <3>2. QED
      BY <2>2, <2>4, <3>1 DEF List, TypeOK
  <2>5. QED
    BY <1>2, <2>3, <2>4
<1>3. ASSUME NEW n \in Names, StartUndeclare(t, n)
      PROVE  TypeOK'
  <2>1. pc' \in [Threads -> Steps]
    BY <1>3 DEF StartUndeclare, Begin, GoTo, TypeOK, Steps
  <2>2. /\ written' = [written EXCEPT ![t] = {n}]
        /\ UNCHANGED <<exclusive, store, clock, announced, proposed, current, consulting, event, on>>
    BY <1>3 DEF StartUndeclare
  <2>3. QED
    BY <2>1, <2>2 DEF TypeOK
<1>4. CASE Erase(t) \/ Unlist(t)
  <2>1. pc' \in [Threads -> Steps]
    BY <1>4, GoToStep DEF Erase, Unlist, Steps
  <2>2. CASE Erase(t)
    BY <2>1, <2>2 DEF Erase, TypeOK
  <2>3. CASE Unlist(t)
    <3>1. order' \in Seq(Names)
      BY <2>3, WithoutFilters DEF Unlist, TypeOK
    <3>2. QED
      BY <2>1, <2>3, <3>1 DEF Unlist, TypeOK
  <2>4. QED
    BY <1>4, <2>2, <2>3
<1>5. ASSUME NEW b \in Batches, StartSet(t, b)
      PROVE  TypeOK'
  <2>1. /\ Begin(t, "callbacks") \/ Begin(t, "refused")
        /\ proposed' = [proposed EXCEPT ![t] = b] \/ UNCHANGED proposed
        /\ current' = [current EXCEPT ![t] = descriptor] \/ UNCHANGED current
        /\ UNCHANGED <<exclusive, store, clock, announced, consulting, written, event, on>>
    BY <1>5 DEF StartSet
  <2>2. pc' \in [Threads -> Steps]
    BY <2>1, GoToStep DEF Begin, Steps
  <2>6. \A S, f : \A x \in S : f \in [Threads -> S] => [f EXCEPT ![t] = x] \in [Threads -> S]
    OBVIOUS
  <2>3. proposed' \in [Threads -> Seq(Names \X Values)]
    <3>1. b \in Seq(Names \X Values) /\ proposed \in [Threads -> Seq(Names \X Values)]
      BY DEF TypeOK
    <3>2. CASE proposed' = [proposed EXCEPT ![t] = b]
      BY <2>6, <3>1, <3>2, Zenon
    <3>3. QED
      BY <2>1, <3>1, <3>2, Zenon
  <2>4. current' \in [Threads -> [Names -> Descriptors \cup {NoValue}]]
    <3>1. /\ descriptor \in [Names -> Descriptors \cup {NoValue}]
          /\ current \in [Threads -> [Names -> Descriptors \cup {NoValue}]]
      BY DEF TypeOK
    <3>2. CASE current' = [current EXCEPT ![t] = descriptor]
      BY <2>6, <3>1, <3>2, Zenon
    <3>3. QED
      BY <2>1, <3>1, <3>2, Zenon
  <2>5. QED
    BY <2>1, <2>2, <2>3, <2>4 DEF TypeOK
<1>6. CASE Callbacks(t) \/ Accept(t) \/ Write(t)
  <2>1. pc' \in [Threads -> Steps]
    BY <1>6, GoToStep DEF Callbacks, Accept, Write, Steps
  <2>2. CASE Callbacks(t)
    <3>1. consulting' \in [Threads -> Seq(Vetoes \cup {FollowClock})]
      BY <2>2 DEF Callbacks, TypeOK
    <3>2. QED
      BY <2>1, <2>2, <3>1 DEF Callbacks, TypeOK
  <2>3. CASE Accept(t) \/ Write(t)
    BY <2>1, <2>3 DEF Accept, Write, TypeOK
  <2>4. QED
    BY <1>6, <2>2, <2>3
<1>7. CASE Consult(t) \/ Follow(t)
  <2>1. consulting' \in [Threads -> Seq(Vetoes \cup {FollowClock})]
    <3>1. consulting[t] \in Seq(Vetoes \cup {FollowClock}) /\ consulting[t] # <<>>
      BY <1>7 DEF Consult, Follow, TypeOK
    <3>2. Tail(consulting[t]) \in Seq(Vetoes \cup {FollowClock})
      BY <3>1, HeadTailProperties
    <3>3. consulting' = [consulting EXCEPT ![t] = Tail(consulting[t])]
      BY <1>7 DEF Consult, Follow
    <3>4. QED
      BY <3>2, <3>3 DEF TypeOK
  <2>2. CASE Consult(t)
    <3>1. pc' \in [Threads -> Steps]
      BY <2>2 DEF Consult, GoTo, TypeOK, Steps
    <3>2. QED
      BY <2>1, <2>2, <3>1 DEF Consult, TypeOK
  <2>3. CASE Follow(t)
    <3>1. \A i : (proposed[t][i][2] = On) \in BOOLEAN
      OBVIOUS
    <3>2. pc' \in [Threads -> Steps] /\ enabled' \in BOOLEAN /\ on' \in [Threads -> BOOLEAN]
      <4>1. ASSUME NEW value \in BOOLEAN, SetEnabled(t, value, "switch", "consult")
            PROVE  pc' \in [Threads -> Steps] /\ enabled' \in BOOLEAN /\ on' \in [Threads -> BOOLEAN]
        BY <4>1 DEF SetEnabled, TypeOK, Steps
      <4>2. CASE UNCHANGED <<pc, enabled, on>>
        BY <4>2 DEF TypeOK
      <4>3. QED
        BY <2>3, <3>1, <4>1, <4>2 DEF Follow
    <3>3. QED
      BY <2>1, <2>3, <3>2 DEF Follow, TypeOK
  <2>4. QED
    BY <1>7, <2>2, <2>3
<1>8. ASSUME SwitchClock(t, "switch", "consult") \/ SwitchClock(t, "switch first", "follow")
      PROVE  TypeOK'
  <2>1. pc' \in [Threads -> Steps]
    BY <1>8, GoToStep DEF SwitchClock, Steps
  <2>2. override' \in BOOLEAN /\ on' \in [Threads -> BOOLEAN]
    BY <1>8 DEF SwitchClock, TypeOK
  <2>3. UNCHANGED <<exclusive, store, enabled, announced, proposed, current, consulting, written,
                    event>>
    BY <1>8 DEF SwitchClock
  <2>4. enabled' \in BOOLEAN
    BY <2>3 DEF TypeOK
  <2>5. QED
    BY <2>1, <2>2, <2>3, <2>4 DEF TypeOK
<1>9. CASE Refuse(t)
  <2>1. pc' \in [Threads -> Steps]
    BY <1>9 DEF Refuse, GoTo, TypeOK, Steps
  <2>2. \A S : <<>> \in Seq(S)
    BY EmptySeq
  <2>3. proposed' \in [Threads -> Seq(Names \X Values)]
        /\ consulting' \in [Threads -> Seq(Vetoes \cup {FollowClock})]
        /\ current' \in [Threads -> [Names -> Descriptors \cup {NoValue}]]
    BY <1>9, <2>2 DEF Refuse, TypeOK, NoneFound
  <2>4. QED
    BY <1>9, <2>1, <2>3 DEF Refuse, TypeOK
<1>10. CASE Relist(t)
  <2>1. pc' \in [Threads -> Steps]
    BY <1>10 DEF Relist, GoTo, TypeOK, Steps
  <2>2. Update(t)[1] \in Names
    BY <1>10, NextUpdate DEF Relist, GoTo, SetSteps
  <2>3. order' \in Seq(Names)
    BY <1>10, <2>2, AppendProperties DEF Relist, TypeOK
  <2>4. QED
    BY <1>10, <2>1, <2>3 DEF Relist, TypeOK
<1>11. CASE Insert(t)
  <2>1. pc' \in [Threads -> Steps]
    BY <1>11 DEF Insert, GoTo, TypeOK, Steps
  <2>2. /\ Update(t)[1] \in Names /\ Update(t)[2] \in Values
        /\ proposed[t] \in Seq(Names \X Values) /\ proposed[t] # <<>>
    BY <1>11, NextUpdate DEF Insert, GoTo, SetSteps
  <2>3. Tail(proposed[t]) \in Seq(Names \X Values)
    BY <2>2, HeadTailProperties
  <2>4. proposed' \in [Threads -> Seq(Names \X Values)]
    BY <1>11, <2>3 DEF Insert, TypeOK
  <2>5. /\ params' \in [Names -> Values \cup {NoValue}]
        /\ descriptor' \in [Names -> Descriptors \cup {NoValue}]
        /\ written' \in [Threads -> SUBSET Names]
    <3>1. written' \in [Threads -> SUBSET Names] /\ Store(t, Update(t)[1], Update(t)[2])
      BY <1>11, <2>2 DEF Insert, TypeOK
    <3>2. QED
      BY <2>2, <3>1, StoreType
  <2>6. QED
    BY <1>11, <2>1, <2>4, <2>5 DEF Insert, TypeOK
<1>12. CASE Announce(t)
  <2>1. pc' \in [Threads -> Steps]
    BY <1>12 DEF Announce, EventAbout, GoTo, TypeOK, Steps
  <2>2. {<<n, params[n]>> : n \in {m \in written[t] : Declared(m)}} \subseteq Names \X Values
    BY DEF TypeOK, Declared
  <2>3. event' \in [Threads -> SUBSET (Names \X Values)]
    BY <1>12, <2>2 DEF Announce, EventAbout, TypeOK
  <2>4. /\ written' \in [Threads -> SUBSET Names]
        /\ current' \in [Threads -> [Names -> Descriptors \cup {NoValue}]]
    BY <1>12 DEF Announce, EventAbout, TypeOK, NoneFound
  <2>5. QED
    BY <1>12, <2>1, <2>3, <2>4 DEF Announce, EventAbout, TypeOK
<1>13. CASE Publish(t)
  <2>1. pc' \in [Threads -> Steps]
    BY <1>13 DEF Publish, GoTo, TypeOK, Steps
  <2>2. \A n : (\E e \in event[t] : e[1] = n) => (CHOOSE e \in event[t] : e[1] = n) \in event[t]
    OBVIOUS
  <2>3. \A e \in event[t] : e[2] \in Values
    BY DEF TypeOK
  <2>4. announced' \in [Names -> Values \cup {NoValue, Lost}]
    BY <1>13, <2>2, <2>3 DEF Publish, TypeOK
  <2>5. event' \in [Threads -> SUBSET (Names \X Values)]
    BY <1>13 DEF Publish, TypeOK
  <2>6. QED
    BY <1>13, <2>1, <2>4, <2>5 DEF Publish, TypeOK
<1>14. CASE AddFollow(t) \/ \E cb \in Vetoes : AddVeto(t, cb)
  <2>1. pc' \in [Threads -> Steps]
    BY <1>14, GoToStep DEF AddFollow, AddVeto, Begin, Steps
  <2>2. onSet' \in Seq(Vetoes \cup {FollowClock})
    <3>1. PICK cb \in Vetoes \cup {FollowClock} : onSet' = Append(onSet, cb)
      BY <1>14 DEF AddFollow, AddVeto
    <3>2. QED
      BY <3>1, AppendProperties DEF TypeOK
  <2>3. QED
    BY <1>14, <2>1, <2>2 DEF AddFollow, AddVeto, TypeOK
<1>15. CASE PublishFails(t)
  <2>1. pc' \in [Threads -> Steps]
    BY <1>15 DEF PublishFails, GoTo, TypeOK, Steps
  <2>2. /\ announced' \in [Names -> Values \cup {NoValue, Lost}]
        /\ event' \in [Threads -> SUBSET (Names \X Values)]
    BY <1>15 DEF PublishFails, TypeOK
  <2>3. QED
    BY <1>15, <2>1, <2>2 DEF PublishFails, TypeOK
<1>16. CASE StartFollow(t)
  <2>1. pc' \in [Threads -> Steps] /\ enabled' \in BOOLEAN /\ on' \in [Threads -> BOOLEAN]
    BY <1>16 DEF StartFollow, SetEnabled, TypeOK, Steps
  <2>2. QED
    BY <1>16, <2>1 DEF StartFollow, TypeOK
<1>17. QED
  BY <1>1, <1>2, <1>3, <1>4, <1>5, <1>6, <1>7, <1>8, <1>9, <1>10, <1>11, <1>12, <1>13, <1>14,
     <1>15, <1>16
     DEF Act, SetsUp, Sets, Continues

(* What is written has been checked.                                        *)
LEMMA CheckedStep ==
  ASSUME TypeOK, Described, NEW t \in Threads, Checked(t), Act(t)
  PROVE  Checked(t)'
<1> USE ParameterAssumption
<1>1. ASSUME UNCHANGED <<proposed[t], written[t], event[t]>>,
             UNCHANGED current[t] \/ pc'[t] \notin SetSteps \cup {"declare"},
             pc'[t] \in SetSteps => pc[t] \in SetSteps,
             pc[t] \in SetSteps \cup {"refused"} => pc'[t] \in SetSteps \cup {"refused"},
             pc'[t] # "declare", pc'[t] = "list" => pc[t] = "declare",
             pc[t] \in WriteSteps => pc'[t] \in WriteSteps,
             pc'[t] \in {"erase", "unlist"} => pc[t] \in {"erase", "unlist"}
      PROVE  Checked(t)'
  BY <1>1 DEF Checked, Passes
<1>2. ASSUME \/ Declare(t) \/ List(t) \/ Erase(t) \/ Callbacks(t) \/ Consult(t)
             \/ SwitchClock(t, "switch", "consult") \/ Accept(t) \/ Write(t) \/ Relist(t)
             \/ SwitchClock(t, "switch first", "follow") \/ AddFollow(t)
             \/ \E cb \in Vetoes : AddVeto(t, cb)
      PROVE  Checked(t)'
  <2>1. UNCHANGED <<proposed[t], written[t], event[t]>>
    BY <1>2 DEF Declare, List, Erase, Callbacks, Consult, SwitchClock, Accept, Write, Relist,
                AddFollow, AddVeto
  <2>4. UNCHANGED current[t] \/ Declare(t)
    BY <1>2 DEF List, Erase, Callbacks, Consult, SwitchClock, Accept, Write, Relist,
                AddFollow, AddVeto
  <2>2. \/ pc[t] = "declare" /\ pc'[t] = "list"
        \/ pc[t] = "list" /\ pc'[t] = "publish"
        \/ pc[t] = "erase" /\ pc'[t] = "unlist"
        \/ pc[t] \in {"callbacks", "switch"} /\ pc'[t] = "consult"
        \/ pc[t] = "consult" /\ pc'[t] \in {"consult", "refused", "write"}
        \/ pc[t] = "write" /\ pc'[t] \in {"insert", "relist"}
        \/ pc[t] = "relist" /\ pc'[t] = "insert"
        \/ pc[t] \in {"switch first", "follow", "idle"} /\ pc'[t] \in {"follow", "idle"}
    BY <1>2, Moves
  <2>5. Declare(t) => pc'[t] = "list"
    BY Moves
  <2>3. QED
    BY <1>1, <2>1, <2>2, <2>4, <2>5 DEF SetSteps, WriteSteps
<1>3. CASE Follow(t) \/ StartFollow(t)
  <2>1. UNCHANGED <<proposed[t], written[t], event[t], current[t]>>
    BY <1>3 DEF Follow, StartFollow
  <2>2. \/ pc[t] = "consult" /\ pc'[t] \in {"consult", "switch"}
        \/ pc[t] = "idle" /\ pc'[t] \in {"switch first", "follow"}
    BY <1>3, Moves
  <2>3. QED
    BY <1>1, <2>1, <2>2 DEF SetSteps, WriteSteps
<1>4. ASSUME NEW n \in Names, NEW d \in DescriptorsOf[n], StartDeclare(t, n, d)
      PROVE  Checked(t)'
  <2>1. /\ pc[t] = "idle" /\ pc'[t] = "declare" /\ UNCHANGED <<proposed, written>>
        /\ event'[t] = {<<n, DefaultOf[n]>>} /\ DefaultOf[n] \in d.allows
        /\ current'[t] = [NoneFound EXCEPT ![n] = d]
    BY <1>4 DEF StartDeclare, Begin, GoTo, TypeOK
  <2>2. current'[t][n] = d /\ d \in Descriptors
    BY <2>1 DEF NoneFound
  <2>3. \A e \in event'[t] : Passes(t, e)'
    BY <2>1, <2>2 DEF Passes
  <2>4. QED
    BY <2>1, <2>3 DEF Checked, SetSteps, WriteSteps
<1>5. ASSUME NEW n \in Names, StartUndeclare(t, n)
      PROVE  Checked(t)'
  <2>1. /\ pc[t] = "idle" /\ pc'[t] = "erase" /\ UNCHANGED <<proposed, event>>
        /\ written'[t] = {n} /\ n \in Undeclarable
    BY <1>5 DEF StartUndeclare, Begin, GoTo, TypeOK
  <2>2. QED
    BY <2>1 DEF Checked, SetSteps, WriteSteps
<1>6. ASSUME NEW b \in Batches, StartSet(t, b)
      PROVE  Checked(t)'
  <2>1. pc[t] = "idle" /\ UNCHANGED <<written, event>>
    BY <1>6 DEF StartSet, Begin, GoTo
  <2>2. b \in Seq(Names \X Values) /\ b # <<>> /\ \A i, j \in DOMAIN b : b[i][1] = b[j][1] => i = j
    OBVIOUS
  <2>3. CASE \A i \in DOMAIN b : Allows(b[i][1], b[i][2])
    <3>1. pc'[t] = "callbacks" /\ proposed'[t] = b /\ current'[t] = descriptor
      BY <1>6, <2>3 DEF StartSet, Begin, GoTo, TypeOK
    <3>2. ASSUME NEW u \in Range(b)
          PROVE  Passes(t, u)' /\ ~descriptor[u[1]].readOnly
      <4>1. PICK i \in DOMAIN b : u = b[i]
        BY DEF Range
      <4>2. u \in Names \X Values
        BY <2>2, <4>1, LenProperties, ElementOfSeq
      <4>3. Allows(u[1], u[2]) /\ u[1] \in Names
        BY <2>3, <4>1, <4>2
      <4>4. QED
        BY <3>1, <4>3 DEF Passes, Allows, Described
    <3>3. QED
      BY <2>1, <2>2, <3>1, <3>2 DEF Checked, SetSteps, WriteSteps
  <2>4. CASE ~\A i \in DOMAIN b : Allows(b[i][1], b[i][2])
    <3>1. pc'[t] = "refused" /\ UNCHANGED proposed
      BY <1>6, <2>4 DEF StartSet, Begin, GoTo, TypeOK
    <3>2. QED
      BY <2>1, <3>1 DEF Checked, SetSteps, WriteSteps
  <2>5. QED
    BY <2>3, <2>4
<1>7. CASE Unlist(t)
  <2>1. /\ pc[t] = "unlist" /\ pc'[t] = "idle" /\ written'[t] = {} /\ UNCHANGED <<proposed, event>>
    BY <1>7 DEF Unlist, GoTo, TypeOK
  <2>2. QED
    BY <2>1 DEF Checked, SetSteps, WriteSteps
<1>8. CASE Refuse(t)
  <2>1. /\ pc[t] = "refused" /\ pc'[t] = "idle" /\ proposed'[t] = <<>> /\ UNCHANGED <<written, event>>
    BY <1>8 DEF Refuse, GoTo, TypeOK
  <2>2. DOMAIN <<>> = {}
    OBVIOUS
  <2>3. QED
    BY <2>1, <2>2 DEF Checked, SetSteps, WriteSteps
<1>9. CASE Insert(t)
  <2>1. /\ pc[t] = "insert" /\ UNCHANGED event
        /\ pc'[t] = IF Len(proposed[t]) = 1 THEN "announce" ELSE "write"
        /\ proposed'[t] = Tail(proposed[t]) /\ UNCHANGED current
    BY <1>9 DEF Insert, GoTo, TypeOK
  <2>2. proposed[t] \in Seq(Names \X Values) /\ proposed[t] # <<>>
    BY <2>1, NextUpdate DEF SetSteps
  <2>3. /\ Range(Tail(proposed[t])) \subseteq Range(proposed[t])
        /\ Tail(proposed[t]) = <<>> <=> Len(proposed[t]) = 1
        /\ Len(proposed[t]) \in Nat /\ DOMAIN proposed[t] = 1 .. Len(proposed[t])
        /\ DOMAIN Tail(proposed[t]) = 1 .. Len(proposed[t]) - 1
        /\ \A i \in 1 .. Len(proposed[t]) - 1 : Tail(proposed[t])[i] = proposed[t][i + 1]
    BY <2>2, TailRemoves
  <2>4. \A i, j \in DOMAIN Tail(proposed[t]) :
          Tail(proposed[t])[i][1] = Tail(proposed[t])[j][1] => i = j
    <3>1. \A i, j \in 1 .. Len(proposed[t]) - 1 :
            /\ i + 1 \in DOMAIN proposed[t]
            /\ i + 1 = j + 1 => i = j
      BY <2>3
    <3>2. \A i, j \in DOMAIN proposed[t] : proposed[t][i][1] = proposed[t][j][1] => i = j
      BY DEF Checked
    <3>3. ASSUME NEW i \in 1 .. Len(proposed[t]) - 1, NEW j \in 1 .. Len(proposed[t]) - 1,
                 Tail(proposed[t])[i][1] = Tail(proposed[t])[j][1]
          PROVE  i = j
      <4>1. proposed[t][i + 1][1] = proposed[t][j + 1][1]
        BY <2>3, <3>3
      <4>2. i + 1 = j + 1
        BY <3>1, <3>2, <4>1
      <4>3. QED
        BY <3>1, <4>2
    <3>4. QED
      BY <2>3, <3>3
  <2>5. \A u \in Range(proposed[t]) : Passes(t, u)' /\ ~current'[t][u[1]].readOnly
    BY <2>1 DEF Checked, SetSteps, Passes
  <2>6. QED
    BY <2>1, <2>3, <2>4, <2>5 DEF Checked, SetSteps, WriteSteps
<1>10. CASE Announce(t) \/ Publish(t) \/ PublishFails(t)
  <2>1. /\ <<pc[t], pc'[t]>> \in {<<"announce", "publish">>, <<"publish", "idle">>}
        /\ UNCHANGED proposed
        /\ pc[t] = "publish" => UNCHANGED written
        /\ pc[t] = "announce" => written'[t] = {}
    BY <1>10 DEF Announce, EventAbout, Publish, PublishFails, GoTo, TypeOK
  <2>2. QED
    BY <2>1 DEF Checked, SetSteps, WriteSteps
<1>11. QED
  BY <1>2, <1>3, <1>4, <1>5, <1>6, <1>7, <1>8, <1>9, <1>10
     DEF Act, SetsUp, Sets, Continues

LEMMA OtherActions ==
  ASSUME NEW t, Act(t), ~Declare(t), ~Erase(t), ~Insert(t)
  PROVE  UNCHANGED <<params, descriptor>>
BY DEF Act, Continues, SetsUp, Sets, StartDeclare, StartUndeclare, AddVeto, StartFollow, StartSet,
       List, Unlist, Callbacks, Consult, Follow, SwitchClock, Refuse, Accept, Write, Relist,
       Announce, EventAbout, Publish, PublishFails, AddFollow

(* Every value goes in with the descriptor it has been checked against.     *)
LEMMA DescriptorsStep ==
  ASSUME ParamInv, NEW t \in Threads, Act(t)
  PROVE  Described' /\ DescriptorsHold'
<1> USE ParameterAssumption DEF ParamInv
<1>1. ASSUME UNCHANGED <<params, descriptor>>
      PROVE  Described' /\ DescriptorsHold'
  BY <1>1 DEF Described, DescriptorsHold, Declared
<1>2. ASSUME NEW n \in Names, NEW v \in Values, Store(t, n, v), Passes(t, <<n, v>>)
      PROVE  Described' /\ DescriptorsHold'
  <2>1. /\ \A m \in Names : params'[m] = IF m = n THEN v ELSE params[m]
        /\ \A m \in Names : descriptor'[m] = IF m = n THEN current[t][n] ELSE descriptor[m]
    BY <1>2, StoreType
  <2>2. current[t][n] \in Descriptors /\ v \in current[t][n].allows
    BY <1>2 DEF Passes
  <2>3. QED
    BY <2>1, <2>2 DEF Described, DescriptorsHold, Declared
<1>3. CASE Declare(t)
  <2>1. pc[t] = "declare"
    BY <1>3 DEF Declare, GoTo
  <2>2. PICK e \in event[t] : Store(t, e[1], e[2])
    BY <1>3 DEF Declare
  <2>3. e \in Names \X Values /\ Passes(t, e)
    BY <2>1 DEF Checked, TypeOK
  <2>4. e[1] \in Names /\ e[2] \in Values /\ Passes(t, <<e[1], e[2]>>)
    BY <2>3 DEF Passes
  <2>5. QED
    BY <1>2, <2>2, <2>4
<1>4. CASE Erase(t)
  BY <1>4 DEF Erase, Described, DescriptorsHold, Declared, TypeOK
<1>5. CASE Insert(t)
  <2>1. pc[t] \in SetSteps /\ Store(t, Update(t)[1], Update(t)[2])
    BY <1>5 DEF Insert, GoTo, SetSteps
  <2>2. Update(t)[1] \in Names /\ Update(t)[2] \in Values /\ Passes(t, Update(t))
    BY <2>1, NextUpdate
  <2>3. Passes(t, <<Update(t)[1], Update(t)[2]>>)
    BY <2>2 DEF Passes
  <2>4. QED
    BY <1>2, <2>1, <2>2, <2>3
<1>6. QED
  BY <1>1, <1>3, <1>4, <1>5, OtherActions

-------------------------------------------------------------------------------
(* One operation at a time: whoever acts is alone, and stays alone.         *)
LEMMA ActsAlone ==
  ASSUME ParamInv, NEW t \in Threads, Act(t)
  PROVE  /\ UNCHANGED exclusive
         /\ exclusive => Lone(t) /\ Lone(t)'
<1>1. UNCHANGED exclusive
  BY DEF Act, SetsUp, Sets, Continues, StartDeclare, StartUndeclare, AddVeto, StartFollow,
         StartSet, Declare, List, Erase, Unlist, Callbacks, Consult, Follow, SwitchClock, Refuse,
         Accept, Write, Relist, Insert, Announce, EventAbout, Publish, PublishFails, AddFollow
<1>2. ASSUME exclusive
      PROVE  Lone(t)
  <2>1. CASE SetsUp(t) \/ Sets(t)
    BY <1>2, <2>1 DEF SetsUp, Sets, StartDeclare, StartUndeclare, AddVeto, StartFollow, StartSet,
                      Begin, Lone
  <2>2. CASE Continues(t)
    <3>1. pc[t] # "idle"
      BY <2>2 DEF Continues, Declare, List, Erase, Unlist, Callbacks, Consult, Follow,
                  SwitchClock, Refuse, Accept, Write, Relist, Insert, Announce, EventAbout,
                  Publish, PublishFails, AddFollow, GoTo
    <3>2. QED
      BY <1>2, <3>1 DEF ParamInv, Exclusion
  <2>3. QED
    BY <2>1, <2>2 DEF Act
<1>3. Lone(t) => Lone(t)'
  BY OthersStay DEF ParamInv, Lone
<1>4. QED
  BY <1>1, <1>2, <1>3

LEMMA ExclusionStep ==
  ASSUME ParamInv, NEW t \in Threads, Act(t)
  PROVE  Exclusion'
<1>1. UNCHANGED exclusive /\ (exclusive => Lone(t)')
  BY ActsAlone
<1>2. ASSUME exclusive, NEW u \in Threads, pc'[u] # "idle"
      PROVE  Lone(u)'
  BY <1>1, <1>2 DEF Lone
<1>3. QED
  BY <1>1, <1>2 DEF Exclusion

(* The callbacks are those registered when the operation began.             *)
LEMMA ConsultedStep ==
  ASSUME ParamInv, NEW t \in Threads, Act(t), exclusive
  PROVE  Consulted(t)'
<1> USE ParameterAssumption
<1>1. TypeOK /\ Checked(t) /\ Consulted(t)
  BY ActsAlone DEF ParamInv, OneAtATime
<1>2. \A from, to : pc[t] = from /\ pc' = [pc EXCEPT ![t] = to] => pc'[t] = to
  BY <1>1 DEF TypeOK
<1>3. ASSUME UNCHANGED onSet, pc'[t] \in SetSteps \ {"callbacks"} => pc[t] \in SetSteps \ {"callbacks"},
             Range(proposed'[t]) \subseteq Range(proposed[t]),
             pc[t] \in {"consult", "switch"} =>
               \A cb \in Range(consulting[t]) \cap Vetoes :
                 \/ pc'[t] \in {"consult", "switch"} /\ cb \in Range(consulting'[t])
                 \/ Range(proposed[t]) \cap Refuses[cb] = {}
                 \/ pc'[t] \notin SetSteps
      PROVE  Consulted(t)'
  BY <1>3, <1>1 DEF Consulted
<1>4. ASSUME pc'[t] \notin SetSteps \ {"callbacks"}
      PROVE  Consulted(t)'
  BY <1>4 DEF Consulted
<1>5. ASSUME \/ SetsUp(t) \/ Sets(t) \/ Declare(t) \/ List(t) \/ Erase(t) \/ Unlist(t)
             \/ Refuse(t) \/ Announce(t) \/ Publish(t) \/ PublishFails(t) \/ AddFollow(t)
             \/ SwitchClock(t, "switch first", "follow")
      PROVE  pc'[t] \notin SetSteps \ {"callbacks"}
  BY <1>1, <1>5, Moves DEF SetsUp, SetSteps
<1>6. CASE Callbacks(t)
  <2>1. /\ pc'[t] = "consult" /\ consulting'[t] = onSet /\ UNCHANGED onSet
    BY <1>1, <1>6 DEF Callbacks, GoTo, TypeOK
  <2>2. QED
    BY <2>1 DEF Consulted
<1>7. ASSUME Consult(t) \/ Follow(t)
      PROVE  Consulted(t)'
  <2>1. /\ pc[t] = "consult" /\ UNCHANGED <<onSet, proposed>> /\ consulting[t] # <<>>
        /\ consulting'[t] = Tail(consulting[t])
    <3>1. consulting' = [consulting EXCEPT ![t] = Tail(consulting[t])]
      BY <1>7 DEF Consult, Follow
    <3>2. pc[t] = "consult" /\ UNCHANGED <<onSet, proposed>> /\ consulting[t] # <<>>
      BY <1>7 DEF Consult, Follow, GoTo
    <3>3. QED
      BY <1>1, <3>1, <3>2 DEF TypeOK
  <2>2. Range(consulting[t]) = {Head(consulting[t])} \cup Range(Tail(consulting[t]))
    BY <1>1, <2>1, TailRemoves DEF TypeOK
  <2>3. CASE Consult(t)
    <3>1. \/ pc'[t] = "refused"
          \/ pc'[t] = "consult" /\ ~Refused(t)
      BY <1>1, <2>3 DEF Consult, GoTo, TypeOK
    <3>2. ~Refused(t) => Range(proposed[t]) \cap Refuses[Head(consulting[t])] = {}
      BY DEF Refused, Range
    <3>3. "refused" \notin SetSteps /\ "consult" \in SetSteps \ {"callbacks"}
      BY DEF SetSteps
    <3>4. QED
      BY <1>3, <1>4, <2>1, <2>2, <3>1, <3>2, <3>3
  <2>4. CASE Follow(t)
    <3>1. pc'[t] \in {"consult", "switch"}
      BY <1>1, <2>4, Moves
    <3>2. Head(consulting[t]) \notin Vetoes
      BY <2>4 DEF Follow
    <3>3. "consult" \in SetSteps \ {"callbacks"}
      BY DEF SetSteps
    <3>4. QED
      BY <1>3, <2>1, <2>2, <3>1, <3>2, <3>3
  <2>5. QED
    BY <1>7, <2>3, <2>4
<1>8. CASE SwitchClock(t, "switch", "consult") \/ Write(t) \/ Relist(t)
  <2>1. /\ UNCHANGED <<onSet, proposed, consulting>>
        /\ \/ pc[t] = "switch" /\ pc'[t] = "consult"
           \/ pc[t] \in {"write", "relist"} /\ pc'[t] \in {"insert", "relist"}
    BY <1>1, <1>8 DEF SwitchClock, Write, Relist, GoTo, TypeOK
  <2>2. QED
    BY <1>3, <2>1 DEF SetSteps
<1>9. CASE Accept(t)
  <2>1. /\ pc[t] = "consult" /\ pc'[t] = "write" /\ consulting[t] = <<>>
        /\ UNCHANGED <<onSet, proposed>>
    BY <1>1, <1>9 DEF Accept, GoTo, TypeOK
  <2>2. Range(<<>>) = {}
    BY DEF Range
  <2>3. QED
    BY <1>3, <2>1, <2>2 DEF SetSteps
<1>10. CASE Insert(t)
  <2>1. /\ pc[t] = "insert" /\ pc'[t] \in {"write", "announce"} /\ UNCHANGED onSet
        /\ proposed'[t] = Tail(proposed[t])
    BY <1>1, <1>10 DEF Insert, GoTo, TypeOK
  <2>2. Range(Tail(proposed[t])) \subseteq Range(proposed[t])
    BY <1>1, <2>1, NextUpdate, TailRemoves DEF SetSteps
  <2>3. QED
    BY <1>3, <2>1, <2>2 DEF SetSteps
<1>11. QED
  BY <1>4, <1>5, <1>6, <1>7, <1>8, <1>9, <1>10 DEF Act, Continues

(* Nobody else changes what the operation has found, ...                    *)
LEMMA FreshStep ==
  ASSUME ParamInv, NEW t \in Threads, Act(t), exclusive
  PROVE  Fresh(t)'
<1> USE ParameterAssumption
<1>1. TypeOK /\ Checked(t) /\ Fresh(t)
  BY ActsAlone DEF ParamInv, OneAtATime
<1>2. ASSUME pc'[t] \notin SetSteps \cup {"erase"}
      PROVE  Fresh(t)'
  BY <1>2 DEF Fresh
<1>3. ASSUME NEW n \in Names, StartUndeclare(t, n)
      PROVE  Fresh(t)'
  <2>1. /\ pc'[t] = "erase" /\ written'[t] = {n} /\ ~descriptor[n].readOnly
        /\ UNCHANGED descriptor
    <3>1. pc'[t] = "erase"
      BY <1>1, <1>3, Moves
    <3>2. ~descriptor[n].readOnly /\ UNCHANGED descriptor /\ written' = [written EXCEPT ![t] = {n}]
      BY <1>3 DEF StartUndeclare
    <3>3. written'[t] = {n}
      BY <1>1, <3>2 DEF TypeOK
    <3>4. QED
      BY <3>1, <3>2, <3>3
  <2>2. QED
    BY <2>1 DEF Fresh, SetSteps
<1>4. ASSUME NEW b \in Batches, StartSet(t, b)
      PROVE  Fresh(t)'
  <2>1. CASE pc'[t] \in SetSteps
    <3>1. /\ pc'[t] = "callbacks" /\ current'[t] = descriptor /\ UNCHANGED descriptor
      <4>1. pc'[t] # "refused"
        BY <2>1 DEF SetSteps
      <4>2. QED
        BY <1>1, <1>4, <4>1 DEF StartSet, Begin, GoTo, TypeOK
    <3>2. QED
      BY <3>1 DEF Fresh
  <2>2. CASE pc'[t] \notin SetSteps
    <3>1. pc'[t] # "erase"
      BY <1>1, <1>4 DEF StartSet, Begin, GoTo, TypeOK
    <3>2. QED
      BY <1>2, <2>2, <3>1
  <2>3. QED
    BY <2>1, <2>2
<1>5. ASSUME \/ Callbacks(t) \/ Consult(t) \/ Follow(t) \/ SwitchClock(t, "switch", "consult")
             \/ Accept(t) \/ Write(t) \/ Relist(t)
      PROVE  Fresh(t)'
  <2>1. UNCHANGED <<descriptor, proposed, current>>
    BY <1>5 DEF Callbacks, Consult, Follow, SwitchClock, Accept, Write, Relist
  <2>2. pc[t] \in SetSteps /\ pc'[t] # "erase"
    BY <1>1, <1>5, Moves DEF SetSteps
  <2>3. QED
    BY <1>1, <2>1, <2>2 DEF Fresh
<1>6. CASE Insert(t)
  <2>1. /\ pc[t] = "insert" /\ pc'[t] # "erase" /\ UNCHANGED current
        /\ proposed'[t] = Tail(proposed[t]) /\ Store(t, Update(t)[1], Update(t)[2])
    BY <1>1, <1>6, Moves DEF Insert, TypeOK
  <2>2. /\ proposed[t] \in Seq(Names \X Values) /\ proposed[t] # <<>>
        /\ Update(t)[1] \in Names /\ Update(t)[2] \in Values
    BY <1>1, <2>1, NextUpdate DEF SetSteps
  <2>3. Range(Tail(proposed[t])) \subseteq Range(proposed[t])
    BY <2>2, TailRemoves
  <2>4. \A m \in Names : descriptor'[m] = IF m = Update(t)[1] THEN current[t][m] ELSE descriptor[m]
    BY <1>1, <2>1, <2>2, StoreType
  <2>5. \A u \in Range(proposed[t]) : u[1] \in Names
    BY <2>2, LenProperties, ElementOfSeq DEF Range
  <2>6. \A u \in Range(proposed[t]) : descriptor[u[1]] = current[t][u[1]]
    BY <1>1, <2>1 DEF Fresh, SetSteps
  <2>7. \A u \in Range(proposed'[t]) : descriptor'[u[1]] = current'[t][u[1]]
    BY <2>1, <2>3, <2>4, <2>5, <2>6
  <2>8. QED
    BY <2>1, <2>7 DEF Fresh
<1>7. ASSUME \/ \E n \in Names : \E d \in DescriptorsOf[n] : StartDeclare(t, n, d)
             \/ (\E cb \in Vetoes : AddVeto(t, cb)) \/ StartFollow(t)
             \/ Declare(t) \/ List(t) \/ Erase(t) \/ Unlist(t) \/ Refuse(t) \/ Announce(t)
             \/ Publish(t) \/ PublishFails(t) \/ SwitchClock(t, "switch first", "follow")
             \/ AddFollow(t)
      PROVE  Fresh(t)'
  <2>1. pc'[t] \notin SetSteps \cup {"erase"}
    BY <1>1, <1>7, Moves DEF SetSteps
  <2>2. QED
    BY <1>2, <2>1
<1>8. QED
  BY <1>3, <1>4, <1>5, <1>6, <1>7 DEF Act, SetsUp, Sets, Continues

(* ... so what is read-only stays.                                          *)
LEMMA ReadOnlyStep ==
  ASSUME ParamInv, NEW t \in Threads, Act(t), exclusive,
         NEW n \in Names, Declared(n), descriptor[n].readOnly
  PROVE  params'[n] = params[n] /\ descriptor'[n] = descriptor[n]
<1> USE ParameterAssumption
<1>1. TypeOK /\ Checked(t) /\ Fresh(t) /\ Listed(t)
  BY ActsAlone DEF ParamInv, OneAtATime
<1>2. CASE Declare(t)
  <2>1. PICK e \in event[t] : Store(t, e[1], e[2])
    BY <1>2 DEF Declare
  <2>2. ~Declared(e[1])
    BY <1>1, <1>2, Moves DEF Listed
  <2>3. e[1] # n
    BY <2>2
  <2>4. QED
    BY <1>1, <2>1, <2>3 DEF Store, TypeOK
<1>3. CASE Erase(t)
  <2>1. n \notin written[t]
    BY <1>1, <1>3, Moves DEF Fresh
  <2>2. QED
    BY <1>3, <2>1 DEF Erase
<1>4. CASE Insert(t)
  <2>1. pc[t] \in SetSteps /\ Store(t, Update(t)[1], Update(t)[2])
    BY <1>4 DEF Insert, GoTo, SetSteps
  <2>2. Update(t) \in Range(proposed[t]) /\ ~current[t][Update(t)[1]].readOnly
    BY <1>1, <2>1, NextUpdate
  <2>3. Update(t)[1] # n
    BY <1>1, <2>1, <2>2 DEF Fresh
  <2>4. QED
    BY <1>1, <2>1, <2>3 DEF Store, TypeOK
<1>5. ASSUME ~Declare(t), ~Erase(t), ~Insert(t)
      PROVE  UNCHANGED <<params, descriptor>>
  BY <1>5, OtherActions
<1>6. QED
  BY <1>2, <1>3, <1>4, <1>5

(* Only the entry in hand differs between the listing and the store.        *)
LEMMA ListedStep ==
  ASSUME ParamInv, NEW t \in Threads, Act(t), exclusive
  PROVE  Listed(t)'
<1> USE ParameterAssumption
<1>1. TypeOK /\ Checked(t) /\ Listed(t)
  BY ActsAlone DEF ParamInv, OneAtATime
<1>2. ASSUME UNCHANGED <<params, order>>, pc[t] \notin {"list", "unlist", "insert"},
             pc'[t] \notin {"declare", "erase", "list", "unlist", "relist", "insert"}
      PROVE  Listed(t)'
  BY <1>1, <1>2 DEF Listed, DeclaredNames, Declared
<1>3. ASSUME NEW n \in Names, NEW d \in DescriptorsOf[n], StartDeclare(t, n, d)
      PROVE  Listed(t)'
  <2>1. /\ pc[t] = "idle" /\ pc'[t] = "declare" /\ UNCHANGED <<params, order>>
        /\ event'[t] = {<<n, DefaultOf[n]>>} /\ ~Declared(n)
    BY <1>1, <1>3 DEF StartDeclare, Begin, GoTo, TypeOK
  <2>2. QED
    BY <1>1, <2>1 DEF Listed, DeclaredNames, Declared
<1>4. CASE Declare(t)
  <2>1. /\ pc[t] = "declare" /\ pc'[t] = "list" /\ UNCHANGED <<order, event>>
        /\ \E e \in event[t] : params' = [params EXCEPT ![e[1]] = e[2]]
    BY <1>1, <1>4 DEF Declare, Store, GoTo, TypeOK
  <2>2. PICK n \in Names : event[t] = {<<n, DefaultOf[n]>>}
    BY <1>1, <2>1 DEF Checked
  <2>3. params' = [params EXCEPT ![n] = DefaultOf[n]] /\ DefaultOf[n] # NoValue
    <3>1. PICK e \in event[t] : params' = [params EXCEPT ![e[1]] = e[2]]
      BY <2>1
    <3>2. e[1] = n /\ e[2] = DefaultOf[n]
      BY <2>2
    <3>3. QED
      BY <3>1, <3>2
  <2>4. DeclaredNames' = DeclaredNames \cup {n} /\ n \notin DeclaredNames
    BY <1>1, <2>1, <2>2, <2>3 DEF Listed, DeclaredNames, Declared, TypeOK
  <2>5. {e[1] : e \in event'[t]} = {n}
    BY <2>1, <2>2
  <2>6. NoDuplicates(order) /\ Range(order) = DeclaredNames
    BY <1>1, <2>1 DEF Listed
  <2>7. \A e \in event'[t] : Declared(e[1])'
    BY <1>1, <2>1, <2>2, <2>3 DEF Declared, TypeOK
  <2>8. Range(order') = DeclaredNames' \ {e[1] : e \in event'[t]} /\ NoDuplicates(order')
    <3>1. DeclaredNames' \ {n} = DeclaredNames /\ UNCHANGED <<Range(order), NoDuplicates(order)>>
      BY <2>1, <2>4
    <3>2. QED
      BY <2>5, <2>6, <3>1
  <2>9. QED
    BY <2>1, <2>7, <2>8 DEF Listed
<1>5. CASE List(t)
  <2>1. /\ pc[t] = "list" /\ pc'[t] = "publish" /\ UNCHANGED params
        /\ \E e \in event[t] : order' = Append(order, e[1])
    BY <1>1, <1>5 DEF List, GoTo, TypeOK
  <2>2. PICK n \in Names : event[t] = {<<n, DefaultOf[n]>>}
    BY <1>1, <2>1 DEF Checked
  <2>3. order' = Append(order, n)
    BY <2>1, <2>2
  <2>4. NoDuplicates(order) /\ Range(order) = DeclaredNames \ {n} /\ n \in DeclaredNames
    <3>1. {e[1] : e \in event[t]} = {n}
      BY <2>2
    <3>2. Declared(n)
      BY <1>1, <2>1, <2>2 DEF Listed
    <3>3. NoDuplicates(order) /\ Range(order) = DeclaredNames \ {e[1] : e \in event[t]}
      BY <1>1, <2>1 DEF Listed
    <3>4. QED
      BY <3>1, <3>2, <3>3 DEF DeclaredNames
  <2>5. NoDuplicates(order') /\ Range(order') = DeclaredNames
    <3>1. order \in Seq(Names) /\ n \notin Range(order)
      BY <1>1, <2>4 DEF TypeOK
    <3>2. Range(order') = Range(order) \cup {n} /\ NoDuplicates(order')
      BY <2>3, <2>4, <3>1, AppendAdds
    <3>3. QED
      BY <2>4, <3>2
  <2>6. DeclaredNames' = DeclaredNames
    BY <2>1 DEF DeclaredNames, Declared
  <2>7. QED
    BY <2>1, <2>5, <2>6 DEF Listed
<1>6. ASSUME NEW n \in Names, StartUndeclare(t, n)
      PROVE  Listed(t)'
  <2>1. /\ pc[t] = "idle" /\ pc'[t] = "erase" /\ UNCHANGED <<params, order>>
        /\ written'[t] = {n} /\ Declared(n)
    BY <1>1, <1>6 DEF StartUndeclare, Begin, GoTo, TypeOK
  <2>2. QED
    BY <1>1, <2>1 DEF Listed, DeclaredNames, Declared
<1>7. CASE Erase(t)
  <2>1. /\ pc[t] = "erase" /\ pc'[t] = "unlist" /\ UNCHANGED <<order, written>>
        /\ params' = [n \in Names |-> IF n \in written[t] THEN NoValue ELSE params[n]]
    BY <1>1, <1>7 DEF Erase, GoTo, TypeOK
  <2>2. DeclaredNames' = DeclaredNames \ written[t] /\ \A n \in written[t] : ~Declared(n)'
    BY <1>1, <2>1 DEF DeclaredNames, Declared, TypeOK
  <2>3. written[t] \subseteq DeclaredNames
    BY <1>1, <2>1 DEF Listed, DeclaredNames, TypeOK
  <2>4. NoDuplicates(order) /\ Range(order) = DeclaredNames
    BY <1>1, <2>1 DEF Listed
  <2>5. QED
    BY <2>1, <2>2, <2>3, <2>4 DEF Listed
<1>8. CASE Unlist(t)
  <2>1. /\ pc[t] = "unlist" /\ pc'[t] = "idle" /\ UNCHANGED params
        /\ order' = Without(order, written[t])
    BY <1>1, <1>8 DEF Unlist, GoTo, TypeOK
  <2>2. /\ NoDuplicates(order) /\ Range(order) = DeclaredNames \cup written[t]
        /\ \A n \in written[t] : ~Declared(n)
    BY <1>1, <2>1 DEF Listed
  <2>3. NoDuplicates(order') /\ Range(order') = DeclaredNames
    BY <1>1, <2>1, <2>2, WithoutFilters DEF TypeOK, DeclaredNames
  <2>4. DeclaredNames' = DeclaredNames
    BY <2>1 DEF DeclaredNames, Declared
  <2>5. QED
    BY <2>1, <2>3, <2>4 DEF Listed
<1>9. CASE Write(t)
  <2>1. /\ pc[t] = "write" /\ UNCHANGED <<params, order, proposed>>
        /\ pc'[t] = IF Declared(Update(t)[1]) THEN "insert" ELSE "relist"
    BY <1>1, <1>9 DEF Write, GoTo, TypeOK
  <2>2. Update(t)[1] \in Names
    BY <1>1, <2>1, NextUpdate DEF SetSteps
  <2>3. NoDuplicates(order) /\ Range(order) = DeclaredNames
    BY <1>1, <2>1 DEF Listed
  <2>4. UNCHANGED <<DeclaredNames, Update(t)>> /\ Declared(Update(t)[1])' = Declared(Update(t)[1])
    BY <2>1 DEF DeclaredNames, Declared, Update
  <2>5. pc'[t] = "insert" => DeclaredNames = DeclaredNames \cup {Update(t)[1]}
    BY <2>1, <2>2 DEF DeclaredNames
  <2>6. QED
    BY <2>1, <2>3, <2>4, <2>5 DEF Listed
<1>10. CASE Relist(t)
  <2>1. /\ pc[t] = "relist" /\ pc'[t] = "insert" /\ UNCHANGED <<params, proposed>>
        /\ order' = Append(order, Update(t)[1])
    BY <1>1, <1>10 DEF Relist, GoTo, TypeOK
  <2>2. Update(t)[1] \in Names
    BY <1>1, <2>1, NextUpdate DEF SetSteps
  <2>3. /\ NoDuplicates(order) /\ Range(order) = DeclaredNames
        /\ Update(t)[1] \notin DeclaredNames
    BY <1>1, <2>1 DEF Listed, DeclaredNames
  <2>4. NoDuplicates(order') /\ Range(order') = DeclaredNames \cup {Update(t)[1]}
    BY <1>1, <2>1, <2>2, <2>3, AppendAdds DEF TypeOK
  <2>5. UNCHANGED <<DeclaredNames, Update(t)>>
    BY <2>1 DEF DeclaredNames, Declared, Update
  <2>6. QED
    BY <2>1, <2>4, <2>5 DEF Listed
<1>11. CASE Insert(t)
  <2>1. /\ pc[t] = "insert" /\ pc'[t] \in {"write", "announce"} /\ UNCHANGED order
        /\ params' = [params EXCEPT ![Update(t)[1]] = Update(t)[2]]
    BY <1>1, <1>11 DEF Insert, Store, GoTo, TypeOK
  <2>2. Update(t)[1] \in Names /\ Update(t)[2] \in Values
    BY <1>1, <2>1, NextUpdate DEF SetSteps
  <2>3. DeclaredNames' = DeclaredNames \cup {Update(t)[1]}
    BY <1>1, <2>1, <2>2 DEF DeclaredNames, Declared, TypeOK
  <2>4. NoDuplicates(order) /\ Range(order) = DeclaredNames \cup {Update(t)[1]}
    BY <1>1, <2>1 DEF Listed
  <2>5. QED
    BY <2>1, <2>3, <2>4 DEF Listed
<1>12. ASSUME \/ Sets(t) \/ StartFollow(t) \/ Callbacks(t) \/ Consult(t) \/ Follow(t)
              \/ SwitchClock(t, "switch", "consult") \/ Refuse(t) \/ Accept(t) \/ Announce(t)
              \/ Publish(t) \/ PublishFails(t) \/ SwitchClock(t, "switch first", "follow") \/ AddFollow(t)
              \/ \E cb \in Vetoes : AddVeto(t, cb)
       PROVE  Listed(t)'
  <2>1. UNCHANGED <<params, order>>
    BY <1>12 DEF Sets, StartSet, StartFollow, Callbacks, Consult, Follow, SwitchClock, Refuse,
                 Accept, Announce, EventAbout, Publish, PublishFails, AddFollow, AddVeto
  <2>2. /\ pc[t] \notin {"list", "unlist", "insert"}
        /\ pc'[t] \notin {"declare", "erase", "list", "unlist", "relist", "insert"}
    BY <1>1, <1>12, Moves
  <2>3. QED
    BY <1>2, <2>1, <2>2
<1>13. QED
  BY <1>3, <1>4, <1>5, <1>6, <1>7, <1>8, <1>9, <1>10, <1>11, <1>12 DEF Act, SetsUp, Continues

(* What the events do not say yet, the next one will.                       *)
LEMMA AnnouncedStep ==
  ASSUME ParamInv, NEW t \in Threads, Act(t), exclusive
  PROVE  Announced(t)'
<1> USE ParameterAssumption
<1> DEFINE Writing == {"write", "relist", "insert", "announce"}
           Telling == {"list", "publish"}
<1>1. TypeOK /\ Checked(t) /\ Announced(t)
  BY ActsAlone DEF ParamInv, OneAtATime
<1>2. ASSUME UNCHANGED <<params, announced>>, pc[t] \notin Writing \cup Telling, pc'[t] \notin Telling
      PROVE  Announced(t)'
  BY <1>1, <1>2 DEF Announced, Declared
<1>3. CASE Declare(t)
  <2>1. /\ pc[t] = "declare" /\ pc'[t] = "list" /\ UNCHANGED <<announced, event>>
        /\ \E e \in event[t] : params' = [params EXCEPT ![e[1]] = e[2]]
    BY <1>1, <1>3 DEF Declare, Store, GoTo, TypeOK
  <2>2. PICK n \in Names : event[t] = {<<n, DefaultOf[n]>>}
    BY <1>1, <2>1 DEF Checked
  <2>3. params' = [params EXCEPT ![n] = DefaultOf[n]]
    <3>1. PICK e \in event[t] : params' = [params EXCEPT ![e[1]] = e[2]]
      BY <2>1
    <3>2. e[1] = n /\ e[2] = DefaultOf[n]
      BY <2>2
    <3>3. QED
      BY <3>1, <3>2
  <2>4. \A m \in Names : params'[m] = IF m = n THEN DefaultOf[n] ELSE params[m]
    BY <1>1, <2>3 DEF TypeOK
  <2>5. \A m \in Names : announced[m] \in {params[m], Lost} \/ ~Declared(m)
    BY <1>1, <2>1 DEF Announced
  <2>6. QED
    BY <2>1, <2>2, <2>4, <2>5 DEF Announced, Declared
<1>4. CASE List(t) \/ Write(t) \/ Relist(t)
  <2>1. /\ \/ pc[t] = "list" /\ pc'[t] = "publish"
           \/ pc[t] \in {"write", "relist"} /\ pc'[t] \in {"insert", "relist"}
        /\ UNCHANGED <<params, announced, written, event>>
    BY <1>1, <1>4 DEF List, Write, Relist, GoTo, TypeOK
  <2>2. QED
    BY <1>1, <2>1 DEF Announced, Declared
<1>5. CASE Erase(t)
  <2>1. /\ pc[t] = "erase" /\ pc'[t] = "unlist" /\ UNCHANGED announced
        /\ \A n \in Names : params'[n] \in {NoValue, params[n]}
    BY <1>1, <1>5 DEF Erase, GoTo, TypeOK
  <2>2. \A n \in Names : announced[n] \in {params[n], Lost} \/ ~Declared(n)
    BY <1>1, <2>1 DEF Announced
  <2>3. QED
    BY <2>1, <2>2 DEF Announced, Declared
<1>6. CASE Insert(t)
  <2>1. /\ pc[t] = "insert" /\ pc'[t] \in {"write", "announce"} /\ UNCHANGED announced
        /\ params' = [params EXCEPT ![Update(t)[1]] = Update(t)[2]]
        /\ written'[t] = written[t] \cup {Update(t)[1]}
    BY <1>1, <1>6 DEF Insert, Store, GoTo, TypeOK
  <2>2. \A n \in Names : params'[n] = params[n] \/ n = Update(t)[1]
    BY <1>1, <2>1 DEF TypeOK
  <2>3. \A n \in Names : announced[n] \in {params[n], Lost} \/ ~Declared(n) \/ n \in written[t]
    BY <1>1, <2>1 DEF Announced
  <2>4. QED
    BY <2>1, <2>2, <2>3 DEF Announced, Declared
<1>7. CASE Announce(t)
  <2>1. /\ pc[t] = "announce" /\ pc'[t] = "publish" /\ UNCHANGED <<params, announced>>
        /\ event'[t] = {<<n, params[n]>> : n \in {m \in written[t] : Declared(m)}}
    BY <1>1, <1>7 DEF Announce, EventAbout, GoTo, TypeOK
  <2>2. \A n \in Names : announced[n] \in {params[n], Lost} \/ ~Declared(n) \/ n \in written[t]
    BY <1>1, <2>1 DEF Announced
  <2>3. QED
    BY <2>1, <2>2 DEF Announced, Declared
<1>8. CASE Publish(t)
  <2>1. /\ pc[t] = "publish" /\ pc'[t] = "idle" /\ UNCHANGED params
        /\ announced' = [n \in Names |->
                          IF \E e \in event[t] : e[1] = n
                          THEN (CHOOSE e \in event[t] : e[1] = n)[2] ELSE announced[n]]
    BY <1>1, <1>8 DEF Publish, GoTo, TypeOK
  <2>2. \A n \in Names : \/ announced[n] \in {params[n], Lost} \/ ~Declared(n)
                         \/ <<n, params[n]>> \in event[t]
    BY <1>1, <2>1 DEF Announced
  <2>3. \A e \in event[t] : params[e[1]] = e[2]
    BY <1>1, <2>1 DEF Announced
  <2>4. ASSUME NEW n \in Names, \E e \in event[t] : e[1] = n
        PROVE  announced'[n] = params[n]
    <3>1. PICK e \in event[t] : e[1] = n /\ e = CHOOSE f \in event[t] : f[1] = n
      BY <2>4
    <3>2. announced'[n] = e[2]
      BY <2>1, <2>4, <3>1
    <3>3. QED
      BY <2>3, <3>1, <3>2
  <2>5. ASSUME NEW n \in Names, ~\E e \in event[t] : e[1] = n, Declared(n)
        PROVE  announced'[n] \in {params[n], Lost}
    <3>1. announced'[n] = announced[n]
      BY <2>1, <2>5
    <3>2. <<n, params[n]>> \notin event[t]
      BY <2>5
    <3>3. QED
      BY <2>2, <2>5, <3>1, <3>2
  <2>6. \A n \in Names : announced'[n] \in {params'[n], Lost} \/ ~Declared(n)'
    BY <2>1, <2>4, <2>5 DEF Declared
  <2>7. QED
    BY <2>1, <2>6 DEF Announced
<1>9. ASSUME \/ SetsUp(t) \/ Sets(t) \/ Unlist(t) \/ Callbacks(t) \/ Consult(t) \/ Follow(t)
             \/ SwitchClock(t, "switch", "consult") \/ Refuse(t) \/ Accept(t)
             \/ SwitchClock(t, "switch first", "follow") \/ AddFollow(t)
      PROVE  Announced(t)'
  <2>1. UNCHANGED <<params, announced>>
    BY <1>9 DEF SetsUp, Sets, StartDeclare, StartUndeclare, AddVeto, StartSet, StartFollow,
                Unlist, Callbacks, Consult, Follow, SwitchClock, Refuse, Accept, AddFollow
  <2>2. pc[t] \notin Writing \cup Telling /\ pc'[t] \notin Telling
    BY <1>1, <1>9, Moves DEF SetsUp
  <2>3. QED
    BY <1>2, <2>1, <2>2
<1>10. CASE PublishFails(t)
  <2>1. /\ pc[t] = "publish" /\ pc'[t] = "idle" /\ UNCHANGED params
        /\ \A n \in Names : announced'[n] = IF n \in About(event[t]) THEN Lost ELSE announced[n]
    BY <1>1, <1>10, Moves DEF PublishFails
  <2>2. \A n \in Names : \/ announced[n] \in {params[n], Lost} \/ ~Declared(n)
                         \/ <<n, params[n]>> \in event[t]
    BY <1>1, <2>1 DEF Announced
  <2>3. \A n \in Names : <<n, params[n]>> \in event[t] => n \in About(event[t])
    BY DEF About
  <2>4. \A n \in Names : announced'[n] \in {params[n], Lost} \/ ~Declared(n)
    BY <2>1, <2>2, <2>3
  <2>5. QED
    BY <2>1, <2>4 DEF Announced, Declared
<1>11. QED
  BY <1>3, <1>4, <1>5, <1>6, <1>7, <1>8, <1>9, <1>10 DEF Act, Continues

(* The time source in a list of callbacks.                                  *)
LEMMA FollowsLastIn ==
  ASSUME NEW S, NEW s \in Seq(S)
  PROVE  /\ FollowsLast(s) => FollowClock \in Range(s)
         /\ FollowsLast(s) /\ Head(s) # FollowClock => FollowsLast(Tail(s))
         /\ FollowsLast(s) /\ Head(s) = FollowClock => Tail(s) = <<>>
         /\ \A cb \in S : FollowsLast(Append(s, cb)) => cb = FollowClock
<1>1. ASSUME FollowsLast(s)
      PROVE  /\ FollowClock \in Range(s)
             /\ Head(s) # FollowClock => FollowsLast(Tail(s))
             /\ Head(s) = FollowClock => Tail(s) = <<>>
  <2>1. /\ Len(s) \in Nat \ {0} /\ DOMAIN s = 1 .. Len(s) /\ Head(s) = s[1]
        /\ Len(Tail(s)) = Len(s) - 1 /\ DOMAIN Tail(s) = 1 .. Len(s) - 1
        /\ \A i \in 1 .. Len(s) - 1 : Tail(s)[i] = s[i + 1]
        /\ Tail(s) = <<>> <=> Len(s) = 1
    BY <1>1, TailRemoves DEF FollowsLast
  <2>2. s[Len(s)] = FollowClock /\ \A j \in 1 .. Len(s) - 1 : s[j] # FollowClock
    BY <1>1 DEF FollowsLast
  <2>3. FollowClock \in Range(s)
    BY <2>1, <2>2 DEF Range
  <2>4. ASSUME Head(s) # FollowClock
        PROVE  FollowsLast(Tail(s))
    <3>1. Len(s) # 1
      BY <2>1, <2>2, <2>4
    <3>2. Len(s) - 1 \in 1 .. Len(s) - 1 /\ (Len(s) - 1) + 1 = Len(s)
      BY <2>1, <3>1
    <3>3. Tail(s)[Len(s) - 1] = FollowClock
      BY <2>1, <2>2, <3>2
    <3>4. \A j \in 1 .. (Len(s) - 1) - 1 : j \in 1 .. Len(s) - 1 /\ j + 1 \in 1 .. Len(s) - 1
      BY <2>1
    <3>5. QED
      BY <2>1, <2>2, <3>1, <3>3, <3>4 DEF FollowsLast
  <2>5. ASSUME Head(s) = FollowClock
        PROVE  Tail(s) = <<>>
    BY <2>1, <2>2, <2>5
  <2>6. QED
    BY <2>3, <2>4, <2>5
<1>2. ASSUME NEW cb \in S, FollowsLast(Append(s, cb))
      PROVE  cb = FollowClock
  BY <1>2, AppendProperties DEF FollowsLast
<1>3. QED
  BY <1>1, <1>2

(* The clock is switched before the set that asks for it has written, and   *)
(* the rest of the set agrees.                                              *)
LEMMA ClockStep ==
  ASSUME ParamInv, NEW t \in Threads, Act(t), exclusive
  PROVE  ClockSwitched(t)'
<1> USE ParameterAssumption
<1> DEFINE Busy == {"switch", "switch first", "follow", "consult", "write", "relist", "insert"}
<1>1. TypeOK /\ Checked(t) /\ ClockSwitched(t) /\ Listed(t)
  BY ActsAlone DEF ParamInv, OneAtATime
<1>2. FollowsLast(onSet) => FollowClock \in Range(onSet)
  BY <1>1, FollowsLastIn DEF TypeOK
<1>3. ASSUME UNCHANGED <<onSet, enabled, override>>, pc[t] \notin Busy, pc'[t] \notin Busy,
             FollowClock \in Range(onSet) => UNCHANGED params[UseSimTime]
      PROVE  ClockSwitched(t)'
  <2>1. FollowClock \in Range(onSet) => UNCHANGED <<Declared(UseSimTime), params[UseSimTime]>>
    BY <1>3 DEF Declared
  <2>2. FollowsLast(onSet)' <=> FollowsLast(onSet)
    BY <1>3 DEF FollowsLast
  <2>3. QED
    BY <1>1, <1>2, <1>3, <2>1, <2>2 DEF ClockSwitched, Ahead, Agrees
<1>4. ASSUME \/ Sets(t) \/ List(t) \/ Refuse(t) \/ Unlist(t) \/ Announce(t) \/ Publish(t)
             \/ PublishFails(t)
             \/ \E n \in Names : \/ StartUndeclare(t, n)
                              \/ \E d \in DescriptorsOf[n] : StartDeclare(t, n, d)
      PROVE  ClockSwitched(t)'
  <2>1. UNCHANGED <<params, onSet, enabled, override>>
    BY <1>4 DEF Sets, StartSet, List, Refuse, Unlist, Announce, EventAbout, Publish, PublishFails,
                StartDeclare, StartUndeclare
  <2>2. pc[t] \notin Busy /\ pc'[t] \notin Busy
    BY <1>1, <1>4, Moves
  <2>3. QED
    BY <1>3, <2>1, <2>2
<1>5. CASE Declare(t) \/ Erase(t)
  <2>1. UNCHANGED <<onSet, enabled, override>>
    BY <1>5 DEF Declare, Erase
  <2>2. /\ pc[t] \notin Busy /\ pc'[t] \notin Busy
        /\ Declare(t) => pc[t] = "declare"
        /\ Erase(t) => pc[t] = "erase"
    BY <1>1, <1>5, Moves
  <2>3. ASSUME FollowClock \in Range(onSet)
        PROVE  UNCHANGED params[UseSimTime]
    <3>1. Declared(UseSimTime)
      BY <1>1, <2>3 DEF ClockSwitched, Ahead
    <3>2. CASE Declare(t)
      <4>1. PICK e \in event[t] : params' = [params EXCEPT ![e[1]] = e[2]]
        BY <3>2 DEF Declare, Store
      <4>2. ~Declared(e[1])
        BY <1>1, <2>2, <3>2 DEF Listed
      <4>3. QED
        BY <1>1, <3>1, <4>1, <4>2 DEF TypeOK
    <3>3. CASE Erase(t)
      <4>1. UseSimTime \notin written[t]
        BY <1>1, <2>2, <3>3 DEF Checked
      <4>2. QED
        BY <3>3, <4>1 DEF Erase
    <3>4. QED
      BY <1>5, <3>2, <3>3
  <2>4. QED
    BY <1>3, <2>1, <2>2, <2>3
<1>6. CASE Callbacks(t)
  <2>1. /\ pc[t] = "callbacks" /\ pc'[t] = "consult"
        /\ UNCHANGED <<params, onSet, enabled, override>>
    BY <1>1, <1>6, Moves DEF Callbacks
  <2>6. consulting'[t] = onSet
    BY <1>1, <1>6 DEF Callbacks, TypeOK
  <2>2. UNCHANGED <<Declared(UseSimTime), FollowsLast(onSet)>>
    BY <2>1 DEF Declared, FollowsLast
  <2>3. FollowsLast(onSet) => onSet # <<>>
    BY DEF FollowsLast
  <2>4. FollowsLast(consulting[t])' = FollowsLast(onSet)
    BY <2>6 DEF FollowsLast
  <2>5. QED
    BY <1>1, <2>1, <2>2, <2>3, <2>4, <2>6 DEF ClockSwitched, Ahead, Agrees
<1>7. CASE Consult(t)
  <2>1. /\ pc[t] = "consult" /\ pc'[t] \in {"consult", "refused"} /\ consulting[t] # <<>>
        /\ consulting'[t] = Tail(consulting[t]) /\ Head(consulting[t]) # FollowClock
        /\ UNCHANGED <<params, onSet, enabled, override>>
    BY <1>1, <1>7, Moves DEF Consult, TypeOK
  <2>2. UNCHANGED <<Declared(UseSimTime), FollowsLast(onSet)>>
    BY <2>1 DEF Declared, FollowsLast
  <2>3. FollowsLast(consulting[t]) => FollowsLast(Tail(consulting[t])) /\ Tail(consulting[t]) # <<>>
    <3>1. consulting[t] \in Seq(Vetoes \cup {FollowClock})
      BY <1>1 DEF TypeOK
    <3>2. FollowsLast(consulting[t]) => FollowsLast(Tail(consulting[t]))
      BY <2>1, <3>1, FollowsLastIn
    <3>3. QED
      BY <3>2 DEF FollowsLast
  <2>4. FollowsLast(consulting[t])' = FollowsLast(Tail(consulting[t]))
    BY <2>1 DEF FollowsLast
  <2>5. QED
    BY <1>1, <2>1, <2>2, <2>3, <2>4 DEF ClockSwitched, Ahead, Agrees
<1>8. CASE Follow(t)
  <2> DEFINE updates == {i \in DOMAIN proposed[t] : proposed[t][i][1] = UseSimTime /\ IsBool(proposed[t][i][2])}
  <2>1. /\ pc[t] = "consult" /\ consulting[t] # <<>> /\ Head(consulting[t]) = FollowClock
        /\ consulting'[t] = Tail(consulting[t])
        /\ UNCHANGED <<params, onSet, override, proposed>>
    BY <1>1, <1>8 DEF Follow, TypeOK
  <2>2. FollowsLast(onSet) => Tail(consulting[t]) = <<>> /\ Agrees(params[UseSimTime])
    <3>1. FollowsLast(onSet) => FollowsLast(consulting[t]) /\ Agrees(params[UseSimTime])
      BY <1>1, <2>1 DEF ClockSwitched, Ahead, Agrees
    <3>2. QED
      BY <1>1, <2>1, <3>1, FollowsLastIn DEF TypeOK
  <2>3. UNCHANGED <<Declared(UseSimTime), FollowsLast(onSet)>>
    BY <2>1 DEF Declared, FollowsLast
  <2>4. CASE updates = {}
    <3>1. UNCHANGED <<pc, enabled>>
      BY <1>8, <2>4 DEF Follow
    <3>2. FollowsLast(onSet) => ClockAhead(t)'
      BY <2>1, <2>2, <2>4, <3>1 DEF ClockAhead, Range, Agrees
    <3>3. QED
      BY <1>1, <2>1, <2>2, <2>3, <3>1, <3>2 DEF ClockSwitched, Ahead, Agrees
  <2>5. CASE updates # {}
    <3>1. PICK i \in updates : SetEnabled(t, proposed[t][i][2] = On, "switch", "consult")
      BY <1>8, <2>5 DEF Follow
    <3> DEFINE value == proposed[t][i][2] = On
    <3>2. /\ enabled' = value
          /\ \/ pc'[t] = "consult" /\ UNCHANGED enabled
             \/ pc'[t] = "switch" /\ on'[t] = value
      BY <1>1, <3>1 DEF SetEnabled, TypeOK
    <3>3. \A u \in Range(proposed[t]) : u[1] = UseSimTime => u = proposed[t][i]
      BY <1>1 DEF Checked, Range
    <3>4. /\ proposed[t][i] \in Range(proposed[t])
          /\ proposed[t][i][1] = UseSimTime /\ IsBool(proposed[t][i][2])
      BY DEF Range
    <3>5. ClockAhead(t)'
      BY <2>1, <3>2, <3>3, <3>4 DEF ClockAhead
    <3> HIDE DEF value
    <3>6. override = enabled
      BY <1>1, <2>1 DEF ClockSwitched, Ahead, Agrees
    <3>7. QED
      BY <1>1, <2>1, <2>2, <2>3, <3>2, <3>5, <3>6 DEF ClockSwitched, Ahead, Agrees
  <2>6. QED
    BY <2>4, <2>5
<1>9. CASE SwitchClock(t, "switch", "consult") \/ Accept(t) \/ Write(t) \/ Relist(t)
  <2>1. /\ UNCHANGED <<params, onSet, enabled, proposed, consulting>>
        /\ \/ pc[t] = "switch" /\ pc'[t] = "consult" /\ override' = on[t]
           \/ /\ UNCHANGED override
              /\ \/ pc[t] = "consult" /\ consulting[t] = <<>> /\ pc'[t] = "write"
                 \/ pc[t] \in {"write", "relist"} /\ pc'[t] \in {"relist", "insert"}
    BY <1>1, <1>9, Moves DEF SwitchClock, Accept, Write, Relist
  <2>2. UNCHANGED <<Declared(UseSimTime), FollowsLast(onSet), ClockAhead(t)>>
    BY <2>1 DEF Declared, FollowsLast, ClockAhead, Agrees
  <2>3. QED
    BY <1>1, <2>1, <2>2 DEF ClockSwitched, Ahead, Agrees
<1>10. CASE Insert(t)
  <2>1. /\ pc[t] = "insert" /\ UNCHANGED <<onSet, enabled, override>>
        /\ pc'[t] = IF Len(proposed[t]) = 1 THEN "announce" ELSE "write"
        /\ params' = [params EXCEPT ![Update(t)[1]] = Update(t)[2]]
        /\ proposed'[t] = Tail(proposed[t])
    BY <1>1, <1>10 DEF Insert, Store, GoTo, TypeOK
  <2>2. /\ proposed[t] \in Seq(Names \X Values) /\ proposed[t] # <<>>
        /\ Update(t)[1] \in Names /\ Update(t)[2] \in Values
    BY <1>1, <2>1, NextUpdate DEF SetSteps
  <2>3. /\ Range(proposed[t]) = {Update(t)} \cup Range(Tail(proposed[t]))
        /\ Tail(proposed[t]) = <<>> <=> Len(proposed[t]) = 1
    BY <2>2, TailRemoves DEF Update
  <2>4. params'[UseSimTime] = IF Update(t)[1] = UseSimTime THEN Update(t)[2] ELSE params[UseSimTime]
    BY <1>1, <2>1 DEF TypeOK
  <2>5. FollowClock \in Range(onSet) => Declared(UseSimTime)'
    BY <1>1, <2>2, <2>4 DEF ClockSwitched, Declared
  <2>6. UNCHANGED FollowsLast(onSet)
    BY <2>1 DEF FollowsLast
  <2>7. ClockAhead(t) => ClockAhead(t)'
    BY <2>1, <2>3, <2>4 DEF ClockAhead, Agrees
  <2>8. Len(proposed[t]) = 1 /\ ClockAhead(t)' => Agrees(params[UseSimTime])'
    BY <2>1, <2>3 DEF ClockAhead, Range
  <2>9. QED
    BY <1>1, <2>1, <2>5, <2>6, <2>7, <2>8 DEF ClockSwitched, Ahead, Agrees
<1>11. ASSUME NEW cb \in Vetoes, AddVeto(t, cb)
       PROVE  ClockSwitched(t)'
  <2>1. /\ pc[t] = "idle" /\ pc'[t] = "idle" /\ onSet' = Append(onSet, cb)
        /\ UNCHANGED <<params, enabled, override>>
    BY <1>1, <1>11, Moves DEF AddVeto
  <2>2. onSet \in Seq(Vetoes \cup {FollowClock}) /\ cb # FollowClock
    BY <1>1 DEF TypeOK
  <2>3. ~FollowsLast(onSet)' /\ Range(onSet') = Range(onSet) \cup {cb}
    <3>1. ~FollowsLast(Append(onSet, cb)) /\ Range(Append(onSet, cb)) = Range(onSet) \cup {cb}
      BY <2>2, FollowsLastIn, AppendAdds
    <3>2. QED
      BY <2>1, <3>1 DEF FollowsLast
  <2>4. \A i, j \in DOMAIN onSet' : onSet'[i] = FollowClock /\ onSet'[j] = FollowClock => i = j
    BY <1>1, <2>1, <2>2, AppendProperties, LenProperties DEF ClockSwitched, Ahead, Agrees
  <2>5. UNCHANGED Declared(UseSimTime)
    BY <2>1 DEF Declared
  <2>6. QED
    BY <1>1, <2>1, <2>2, <2>3, <2>4, <2>5 DEF ClockSwitched, Ahead, Agrees
<1>12. CASE StartFollow(t)
  <2> DEFINE value == params[UseSimTime] = On
  <2>1. /\ pc[t] = "idle" /\ FollowClock \notin Range(onSet) /\ Declared(UseSimTime)
        /\ UNCHANGED <<params, onSet, override>>
    BY <1>12 DEF StartFollow
  <2>2. UNCHANGED <<Declared(UseSimTime), FollowsLast(onSet)>>
    BY <2>1 DEF Declared, FollowsLast
  <2>3. override = enabled
    BY <1>1, <2>1 DEF ClockSwitched
  <2>4. CASE IsBool(params[UseSimTime])
    <3>1. SetEnabled(t, value, "switch first", "follow")
      BY <1>12, <2>4 DEF StartFollow
    <3>2. /\ enabled' = value
          /\ \/ pc'[t] = "follow" /\ UNCHANGED enabled
             \/ pc'[t] = "switch first" /\ on'[t] = value
      BY <1>1, <3>1 DEF SetEnabled, TypeOK
    <3>3. Agrees(params[UseSimTime])'
      BY <2>1, <3>2 DEF Agrees
    <3> HIDE DEF value
    <3>4. QED
      BY <1>1, <1>2, <2>1, <2>2, <2>3, <3>2, <3>3 DEF ClockSwitched, Ahead, Agrees
  <2>5. CASE ~IsBool(params[UseSimTime])
    <3>1. pc'[t] = "follow" /\ UNCHANGED enabled
      BY <1>1, <1>12, <2>5 DEF StartFollow, TypeOK
    <3>2. Agrees(params[UseSimTime])'
      BY <2>1, <2>5 DEF Agrees
    <3>3. QED
      BY <1>1, <1>2, <2>1, <2>2, <2>3, <3>1, <3>2 DEF ClockSwitched, Ahead, Agrees
  <2>6. QED
    BY <2>4, <2>5
<1>13. CASE SwitchClock(t, "switch first", "follow")
  <2>1. /\ pc[t] = "switch first" /\ pc'[t] = "follow" /\ override' = on[t]
        /\ UNCHANGED <<params, onSet, enabled>>
    BY <1>1, <1>13, Moves DEF SwitchClock
  <2>2. UNCHANGED <<Declared(UseSimTime), FollowsLast(onSet)>>
    BY <2>1 DEF Declared, FollowsLast
  <2>3. QED
    BY <1>1, <1>2, <2>1, <2>2 DEF ClockSwitched, Ahead, Agrees
<1>14. CASE AddFollow(t)
  <2>1. /\ pc[t] = "follow" /\ pc'[t] = "idle" /\ onSet' = Append(onSet, FollowClock)
        /\ UNCHANGED <<params, enabled, override>>
    BY <1>1, <1>14, Moves DEF AddFollow
  <2>2. onSet \in Seq(Vetoes \cup {FollowClock})
    BY <1>1 DEF TypeOK
  <2>3. /\ FollowClock \notin Range(onSet) /\ Declared(UseSimTime)
        /\ Agrees(params[UseSimTime]) /\ override = enabled
    BY <1>1, <2>1 DEF ClockSwitched, Ahead, Agrees
  <2>4. \A i, j \in DOMAIN onSet' : onSet'[i] = FollowClock /\ onSet'[j] = FollowClock => i = j
    <3>1. \A i \in DOMAIN onSet : onSet[i] # FollowClock
      BY <2>3 DEF Range
    <3>2. QED
      BY <2>1, <2>2, <3>1, AppendProperties, LenProperties
  <2>5. UNCHANGED Declared(UseSimTime)
    BY <2>1 DEF Declared
  <2>6. QED
    BY <2>1, <2>3, <2>4, <2>5 DEF ClockSwitched, Ahead, Agrees
<1>15. QED
  BY <1>4, <1>5, <1>6, <1>7, <1>8, <1>9, <1>10, <1>11, <1>12, <1>13, <1>14
     DEF Act, SetsUp, Continues

(* The others are idle, and alike.                                          *)
LEMMA OneAtATimeStep ==
  ASSUME ParamInv, NEW t \in Threads, Act(t)
  PROVE  OneAtATime'
<1>1. UNCHANGED exclusive /\ (exclusive => Lone(t) /\ Lone(t)')
  BY ActsAlone
<1>2. SUFFICES ASSUME exclusive, NEW u \in Threads, Lone(u)'
               PROVE  (Consulted(u) /\ Fresh(u) /\ Listed(u) /\ Announced(u) /\ ClockSwitched(u))'
  BY <1>1 DEF OneAtATime
<1>3. (Consulted(t) /\ Fresh(t) /\ Listed(t) /\ Announced(t) /\ ClockSwitched(t))'
  BY <1>2, ConsultedStep, FreshStep, ListedStep, AnnouncedStep, ClockStep
<1>4. u # t => pc'[t] = "idle" /\ pc'[u] = "idle"
  BY <1>1, <1>2 DEF Lone
<1>5. ASSUME u # t
      PROVE  (Consulted(u) /\ Fresh(u) /\ Listed(u) /\ Announced(u) /\ ClockSwitched(u))'
  <2>1. Consulted(u)'
    BY <1>4, <1>5 DEF Consulted, SetSteps
  <2>2. Listed(u)'
    BY <1>3, <1>4, <1>5 DEF Listed
  <2>3. Announced(u)'
    BY <1>3, <1>4, <1>5 DEF Announced
  <2>4. ClockSwitched(u)'
    BY <1>3, <1>4, <1>5 DEF ClockSwitched, Ahead
  <2>5. Fresh(u)'
    BY <1>4, <1>5 DEF Fresh, SetSteps
  <2>6. QED
    BY <2>1, <2>2, <2>3, <2>4, <2>5
<1>6. QED
  BY <1>3, <1>5

-------------------------------------------------------------------------------
LEMMA ParamInit == Init => ParamInv
<1> SUFFICES ASSUME Init
             PROVE  ParamInv
  OBVIOUS
<1> USE ParameterAssumption DEF Init
<1>1. /\ \A S : <<>> \in Seq(S)
      /\ Range(<<>>) = {} /\ NoDuplicates(<<>>) /\ DOMAIN <<>> = {}
  BY EmptySeq DEF Range, NoDuplicates
<1>2. TypeOK
  BY <1>1 DEF TypeOK, Steps, NoneFound
<1>3. \A t \in Threads : Checked(t)
  BY <1>1 DEF Checked, SetSteps, WriteSteps
<1>4. \A n \in Names : ~Declared(n)
  BY DEF Declared
<1>5. Described /\ DescriptorsHold /\ Exclusion
  BY <1>4 DEF Described, DescriptorsHold, Exclusion
<1>6. ASSUME NEW t \in Threads
      PROVE  Consulted(t) /\ Fresh(t) /\ Listed(t) /\ Announced(t) /\ ClockSwitched(t)
  <2>1. Consulted(t)
    BY DEF Consulted, SetSteps
  <2>2. Listed(t)
    BY <1>1, <1>4 DEF Listed, DeclaredNames
  <2>3. Announced(t)
    BY <1>4 DEF Announced
  <2>4. ClockSwitched(t)
    BY <1>1 DEF ClockSwitched, FollowsLast
  <2>5. Fresh(t)
    BY DEF Fresh, SetSteps
  <2>6. QED
    BY <2>1, <2>2, <2>3, <2>4, <2>5
<1>7. QED
  BY <1>2, <1>3, <1>5, <1>6 DEF ParamInv, OneAtATime

LEMMA ParamStep == ParamInv /\ [Next]_vars => ParamInv'
<1>1. ASSUME ParamInv, NEW t \in Threads, Act(t)
      PROVE  ParamInv'
  <2>1. TypeOK'
    BY <1>1, TypeStep DEF ParamInv
  <2>2. ASSUME NEW u \in Threads
        PROVE  Checked(u)'
    <3>1. CASE u = t
      BY <1>1, <3>1, CheckedStep DEF ParamInv
    <3>2. CASE u # t
      <4>1. /\ Checked(u) /\ pc'[u] = pc[u] /\ proposed'[u] = proposed[u]
            /\ written'[u] = written[u] /\ event'[u] = event[u] /\ current'[u] = current[u]
        BY <1>1, <3>2, OthersStay DEF ParamInv
      <4>2. QED
        BY <4>1 DEF Checked, Passes
    <3>3. QED
      BY <3>1, <3>2
  <2>3. Described' /\ DescriptorsHold' /\ Exclusion' /\ OneAtATime'
    BY <1>1, DescriptorsStep, ExclusionStep, OneAtATimeStep
  <2>4. QED
    BY <2>1, <2>2, <2>3 DEF ParamInv
<1>2. ASSUME ParamInv, UNCHANGED vars
      PROVE  ParamInv'
  <2>1. /\ TypeOK' /\ Described' /\ DescriptorsHold' /\ Exclusion'
    BY <1>2 DEF ParamInv, vars, local, TypeOK, Described, DescriptorsHold, Declared, Exclusion, Lone
  <2>2. \A t \in Threads : Checked(t)'
    BY <1>2 DEF ParamInv, vars, local, Checked, Passes
  <2>3. OneAtATime'
    <3>1. SUFFICES ASSUME NEW t \in Threads, exclusive, Lone(t)
                   PROVE  (Consulted(t) /\ Fresh(t) /\ Listed(t) /\ Announced(t) /\ ClockSwitched(t))'
      BY <1>2 DEF OneAtATime, Lone, vars, local
    <3>2. Consulted(t) /\ Fresh(t) /\ Listed(t) /\ Announced(t) /\ ClockSwitched(t)
      BY <1>2, <3>1 DEF ParamInv, OneAtATime
    <3>3. Consulted(t)'
      BY <1>2, <3>2 DEF vars, local, Consulted
    <3>4. Listed(t)'
      BY <1>2, <3>2 DEF vars, local, Listed, DeclaredNames, Declared, Update
    <3>5. Announced(t)'
      BY <1>2, <3>2 DEF vars, local, Announced, Declared
    <3>6. ClockSwitched(t)'
      <4>1. UNCHANGED <<FollowsLast(onSet), FollowsLast(consulting[t]), ClockAhead(t), Ahead(t),
                        Declared(UseSimTime)>>
        BY <1>2 DEF vars, local, FollowsLast, ClockAhead, Agrees, Ahead, Declared
      <4>2. UNCHANGED <<pc, consulting, on, enabled, override, onSet, params>>
        BY <1>2 DEF vars, local
      <4>3. QED
        BY <3>2, <4>1, <4>2 DEF ClockSwitched, Agrees
    <3>7. Fresh(t)'
      BY <1>2, <3>2 DEF vars, local, Fresh
    <3>8. QED
      BY <3>3, <3>4, <3>5, <3>6, <3>7
  <2>4. QED
    BY <2>1, <2>2, <2>3 DEF ParamInv
<1>3. Next => \E t \in Threads : Act(t)
  BY ParameterAssumption DEF Next, Act
<1>4. QED
  BY <1>1, <1>2, <1>3

LEMMA ParamInvariance == Spec => []ParamInv
  BY ParamInit, ParamStep, PTL DEF Spec

(* Every parameter satisfies the descriptor stored with it, whatever the    *)
(* interleaving of sets, declarations and undeclarations.                   *)
THEOREM OnlyCheckedValuesAreStored == Spec => []DescriptorsHold
<1>1. ParamInv => DescriptorsHold
  BY DEF ParamInv
<1>2. QED
  BY ParamInvariance, <1>1, PTL

(* What is declared read-only keeps its value and its descriptor, when      *)
(* operations run one at a time.                                            *)
THEOREM ReadOnlyIsKept == Spec => ReadOnlyStays
<1>1. ParamInv /\ [Next]_vars =>
        [exclusive => \A n \in Names :
           Declared(n) /\ descriptor[n].readOnly =>
             params'[n] = params[n] /\ descriptor'[n] = descriptor[n]]_vars
  <2>1. Next => \E t \in Threads : Act(t)
    BY ParameterAssumption DEF Next, Act
  <2>2. QED
    BY <2>1, ReadOnlyStep
<1>2. QED
  BY ParamInvariance, <1>1, PTL DEF Spec, ReadOnlyStays

(* A set that is refused has written nothing, and one that writes was       *)
(* refused by no callback.                                                  *)
THEOREM SetsAreAtomic == Spec => []AllOrNothing
<1>1. ParamInv => AllOrNothing
  <2>1. SUFFICES ASSUME ParamInv, NEW t \in Threads
                 PROVE  /\ pc[t] = "refused" => written[t] = {}
                        /\ exclusive /\ pc[t] \in {"write", "relist", "insert"} =>
                             \A i \in DOMAIN proposed[t], j \in DOMAIN onSet :
                               onSet[j] \in Vetoes => proposed[t][i] \notin Refuses[onSet[j]]
    BY DEF AllOrNothing
  <2>2. pc[t] = "refused" => written[t] = {}
    BY <2>1 DEF ParamInv, Checked, WriteSteps
  <2>3. ASSUME exclusive, pc[t] \in {"write", "relist", "insert"},
               NEW i \in DOMAIN proposed[t], NEW j \in DOMAIN onSet, onSet[j] \in Vetoes
        PROVE  proposed[t][i] \notin Refuses[onSet[j]]
    <3>1. Lone(t)
      BY <2>1, <2>3 DEF ParamInv, Exclusion
    <3>2. Consulted(t)
      BY <2>1, <2>3, <3>1 DEF ParamInv, OneAtATime
    <3>3. pc[t] \in SetSteps \ {"callbacks"} /\ pc[t] \notin {"consult", "switch"}
      BY <2>3 DEF SetSteps
    <3>4. onSet[j] \in Range(onSet) /\ proposed[t][i] \in Range(proposed[t])
      BY DEF Range
    <3>5. QED
      BY <2>3, <3>2, <3>3, <3>4 DEF Consulted
  <2>4. QED
    BY <2>2, <2>3
<1>2. QED
  BY ParamInvariance, <1>1, PTL

(* Between operations everything agrees.                                    *)
LEMMA QuietFacts ==
  ASSUME ParamInv, Quiet
  PROVE  \E t \in Threads : pc[t] = "idle" /\ Listed(t) /\ Announced(t) /\ ClockSwitched(t)
<1>1. Owner \in Threads /\ pc[Owner] = "idle" /\ Lone(Owner) /\ exclusive
  BY ParameterAssumption DEF Quiet, Lone
<1>2. QED
  BY <1>1 DEF ParamInv, OneAtATime

(* list names each declared parameter, once.                                *)
THEOREM ListingIsExact == Spec => []ListingMatchesStore
<1>1. ParamInv => ListingMatchesStore
  <2>1. SUFFICES ASSUME ParamInv, Quiet
                 PROVE  /\ \A n \in Names : Declared(n) <=> n \in Range(order)
                        /\ \A i, j \in DOMAIN order : order[i] = order[j] => i = j
    BY DEF ListingMatchesStore
  <2>2. PICK t \in Threads : pc[t] = "idle" /\ Listed(t)
    BY <2>1, QuietFacts
  <2>3. NoDuplicates(order) /\ Range(order) = DeclaredNames
    BY <2>2 DEF Listed
  <2>4. QED
    BY <2>3 DEF NoDuplicates, DeclaredNames
<1>2. QED
  BY ParamInvariance, <1>1, PTL

(* Who follows the events knows every parameter whose last event arrived.   *)
THEOREM EventsTellEverything == Spec => []EventsAreCurrent
<1>1. ParamInv => EventsAreCurrent
  BY QuietFacts DEF EventsAreCurrent, Announced
<1>2. QED
  BY ParamInvariance, <1>1, PTL

(* The clock follows use_sim_time while the time source has the last word.  *)
THEOREM ClockFollowsUseSimTime == Spec => []ClockFollowsUnlessVetoed
<1>1. ParamInv => ClockFollowsUnlessVetoed
  <2>1. SUFFICES ASSUME ParamInv, Quiet, onSet # <<>>, onSet[Len(onSet)] = FollowClock
                 PROVE  ClockFollows
    BY DEF ClockFollowsUnlessVetoed
  <2>2. PICK t \in Threads : pc[t] = "idle" /\ ClockSwitched(t)
    BY <2>1, QuietFacts
  <2>3. onSet \in Seq(Vetoes \cup {FollowClock})
    BY <2>1 DEF ParamInv, TypeOK
  <2>4. Len(onSet) \in Nat /\ DOMAIN onSet = 1 .. Len(onSet) /\ Len(onSet) # 0
    BY <2>1, <2>3, LenProperties, EmptySeq
  <2>5. \A k \in Nat : k # 0 => k \in 1 .. k /\ \A j \in 1 .. k - 1 : j \in 1 .. k /\ j # k
    OBVIOUS
  <2>6. FollowsLast(onSet)
    <3>1. \A j \in 1 .. Len(onSet) - 1 : onSet[j] # FollowClock
      BY <2>1, <2>2, <2>4, <2>5 DEF ClockSwitched
    <3>2. QED
      BY <2>1, <3>1 DEF FollowsLast
  <2>7. QED
    BY <2>2, <2>6 DEF ClockSwitched, Ahead, Agrees, ClockFollows
<1>2. QED
  BY ParamInvariance, <1>1, PTL
===============================================================================
