---------------------------- MODULE WaitingProofs -----------------------------
(***************************************************************************)
(* For any entities, groups, periods and timeouts, and nested calls of any *)
(* depth: a pass still speaks of the wait set it has filled, or knows that *)
(* a nested one has refilled it.                                           *)
(***************************************************************************)
EXTENDS Waiting, SequenceTheorems, WellFoundedInduction, TLAPS

(* Where a pass is once its wait is over.                                   *)
Passing == {"take", "callback", "nesting", "after"}

(* What a pass is to look at: each entity at most once, ...                 *)
Once(work) == \A m, n \in DOMAIN work : work[m][1] = work[n][1] => m = n

(* ... which stands in its slot; ...                                        *)
Placed(into, work) ==
  \A m \in DOMAIN work :
    /\ work[m][2] \in DOMAIN into[KindOf(work[m][1])]
    /\ into[KindOf(work[m][1])][work[m][2]] = work[m][1]

(* ... and all that stands in a slot.                                       *)
Complete(into, work) ==
  \A k \in Kinds : \A n \in DOMAIN into[k] :
    \E m \in DOMAIN work : work[m] = <<into[k][n], n>> /\ KindOf(into[k][n]) = k

(* A call has work only within a pass; and the pass of a call inside it has *)
(* made it stale.                                                           *)
CallsNest ==
  \A i \in DOMAIN stack :
    /\ stack[i].pc \in {"check", "fill"} => stack[i].work = <<>>
    /\ Once(stack[i].work)
    /\ stack[i].pc \notin {"check", "fill"} =>
         \A j \in DOMAIN stack : j > i => stack[j].stale

(* While a call waits, its work is what the slots hold, and no trigger is   *)
(* owed from before.                                                        *)
WaitsOnItsWork ==
  \A i \in DOMAIN stack : stack[i].pc = "wait" =>
    /\ owed = {} /\ ~stack[i].stale
    /\ Placed(slots, stack[i].work) /\ Complete(slots, stack[i].work)

(* After it, as long as no other pass has refilled the slots: a timer that  *)
(* is still in its slot is due, ...                                         *)
DueOrReset(i) ==
  \A m \in DOMAIN stack[i].work :
    LET e == stack[i].work[m][1]
    IN  e \in Timers /\ SlotReady(e, stack[i].work[m][2]) => left[e] = 0 \/ e \in rescheduled

ReportedTimersAreDue ==
  \A i \in DOMAIN stack : stack[i].pc \in Passing /\ ~stack[i].stale => DueOrReset(i)

(* ... and a guard condition whose trigger is owed is in its slot.          *)
OwedBy(i, g) ==
  /\ stack[i].pc \in Passing /\ ~stack[i].stale
  /\ \E m \in DOMAIN stack[i].work :
       stack[i].work[m][1] = g /\ SlotReady(g, stack[i].work[m][2])

OwedTriggersAreInWork == \A g \in owed : \E i \in DOMAIN stack : OwedBy(i, g)

WaitingInv ==
  TypeOK /\ CallsNest /\ WaitsOnItsWork /\ ReportedTimersAreDue /\ OwedTriggersAreInWork

-------------------------------------------------------------------------------
(* What a pass fills in                                                    *)

LEMMA KindFacts ==
  /\ \A e : KindOf(e) \in Kinds
  /\ \A tm \in Timers : KindOf(tm) = "timer" /\ tm \notin Guards /\ tm \notin Clients
  /\ \A g \in Guards : KindOf(g) = "guard" /\ g \notin Timers /\ g \notin Clients
  /\ \A c \in Clients : KindOf(c) = "client"
  /\ Null \notin Entities
  BY WaitingAssumption DEF KindOf, Kinds, Entities

LEMMA Induction ==
  ASSUME NEW S, 0 \in S, \A n \in Nat : n \in S => n + 1 \in S
  PROVE  Nat \subseteq S
<1> DEFINE R == OpToRel(<, Nat)
<1>1. IsWellFoundedOn(R, Nat)
  BY NatLessThanWellFounded, Zenon
<1>2. \A x, y \in Nat : x < y => <<x, y>> \in R
  BY DEF OpToRel
<1> HIDE DEF R
<1>3. SUFFICES ASSUME Nat \ S # {}
               PROVE  FALSE
  OBVIOUS
<1>4. PICK x \in Nat \ S : \A y \in Nat \ S : ~ (<<y, x>> \in R)
  <2>1. Nat \ S \subseteq Nat
    OBVIOUS
  <2>2. QED
    BY <1>1, <1>3, <2>1, WFMin, Zenon
<1>5. x - 1 \in Nat /\ x - 1 < x /\ (x - 1) + 1 = x
  BY <1>4
<1>6. x - 1 \in S
  BY <1>2, <1>4, <1>5
<1>7. QED
  BY <1>4, <1>5, <1>6

(* A pass that has seen the first n of the registry.                        *)
From(work, n) == \A m \in DOMAIN work : \E i \in 1 .. n : work[m][1] = Registry[i]

Agree(pass, n) ==
  /\ pass.slots \in [Kinds -> Seq(Entities)]
  /\ pass.work \in Seq(Entities \X Nat)
  /\ From(pass.work, n) /\ Once(pass.work)
  /\ Placed(pass.slots, pass.work) /\ Complete(pass.slots, pass.work)

LEMMA AppendFacts ==
  ASSUME NEW S, NEW s \in Seq(S), NEW e \in S
  PROVE  /\ Append(s, e) \in Seq(S)
         /\ DOMAIN Append(s, e) = DOMAIN s \cup {Len(s) + 1}
         /\ \A i \in DOMAIN s : Append(s, e)[i] = s[i]
         /\ Append(s, e)[Len(s) + 1] = e
         /\ Len(s) + 1 \notin DOMAIN s /\ Len(s) + 1 \in Nat
  OBVIOUS

LEMMA AddKeepsAgreement ==
  ASSUME NEW pass, NEW n \in Nat, n + 1 <= Len(Registry), Agree(pass, n)
  PROVE  Agree(Add(pass, Registry[n + 1]), n + 1)
<1> DEFINE e == Registry[n + 1]
           k == KindOf(e)
           here == pass.slots[k]
           at == Len(here) + 1
           grown == Append(here, e)
           work == Append(pass.work, <<e, at>>)
           new == Add(pass, e)
<1>1. e \in Entities /\ k \in Kinds /\ n + 1 \in 1 .. Len(Registry)
  <2>1. n + 1 \in 1 .. Len(Registry) /\ Registry \in Seq(Entities)
    BY WaitingAssumption
  <2>2. QED
    BY <2>1, ElementOfSeq, KindFacts
<1>2. \A i \in 1 .. n : Registry[i] # e
  BY <1>1, WaitingAssumption
<1>3. CASE LeftOut(e)
  <2>1. new = pass
    BY <1>3 DEF Add
  <2>2. From(pass.work, n + 1)
    <3>1. \A i \in 1 .. n : i \in 1 .. n + 1
      OBVIOUS
    <3>2. QED
      BY <3>1 DEF Agree, From
  <2> HIDE DEF new
  <2>3. Agree(new, n + 1)
    BY <2>1, <2>2 DEF Agree
  <2>4. QED
    BY <2>3 DEF new
<1>4. CASE ~LeftOut(e)
  <2>1. /\ new.slots = [pass.slots EXCEPT ![k] = grown]
        /\ new.work = work
    <3> DEFINE into == [pass.slots EXCEPT ![k] = grown]
    <3>1. new = [slots |-> into, work |-> work]
      BY <1>4 DEF Add
    <3> HIDE DEF into, work, new
    <3>2. QED
      BY <3>1 DEF into
  <2>2. here \in Seq(Entities) /\ pass.work \in Seq(Entities \X Nat)
    BY <1>1 DEF Agree
  <2>3. /\ grown \in Seq(Entities)
        /\ DOMAIN grown = DOMAIN here \cup {at}
        /\ \A i \in DOMAIN here : grown[i] = here[i]
        /\ grown[at] = e
        /\ at \notin DOMAIN here /\ at \in Nat
    <3> HIDE DEF here, e
    <3>1. QED
      BY <1>1, <2>2, AppendFacts
  <2> DEFINE last == Len(pass.work) + 1
  <2>4. /\ work \in Seq(Entities \X Nat)
        /\ DOMAIN work = DOMAIN pass.work \cup {last}
        /\ \A i \in DOMAIN pass.work : work[i] = pass.work[i]
        /\ work[last] = <<e, at>>
        /\ last \notin DOMAIN pass.work
    <3>1. <<e, at>> \in Entities \X Nat
      BY <1>1, <2>3
    <3> DEFINE item == <<e, at>>
               old == pass.work
    <3>2. item \in Entities \X Nat /\ old \in Seq(Entities \X Nat)
      BY <2>2, <3>1
    <3> HIDE DEF item, old
    <3>3. /\ Append(old, item) \in Seq(Entities \X Nat)
          /\ DOMAIN Append(old, item) = DOMAIN old \cup {Len(old) + 1}
          /\ \A i \in DOMAIN old : Append(old, item)[i] = old[i]
          /\ Append(old, item)[Len(old) + 1] = item
          /\ Len(old) + 1 \notin DOMAIN old
      BY <3>2, AppendFacts
    <3>4. QED
      BY <3>3 DEF item, old
  <2>5. pass.slots \in [Kinds -> Seq(Entities)]
    BY DEF Agree
  <2>6. /\ new.slots \in [Kinds -> Seq(Entities)]
        /\ new.slots[k] = grown
        /\ \A j \in Kinds : j # k => new.slots[j] = pass.slots[j]
    <3> HIDE DEF e, at, k, here, grown, new
    <3>1. QED
      BY <1>1, <2>1, <2>3, <2>5
  <2>7. \A m \in DOMAIN pass.work : pass.work[m][1] # e
    BY <1>2 DEF Agree, From
  <2> HIDE DEF e, at, k, grown, work, last, new
  <2>8. From(work, n + 1)
    <3>1. work[last][1] = Registry[n + 1] /\ n + 1 \in 1 .. n + 1
      BY <2>4 DEF e
    <3>2. \A i \in 1 .. n : i \in 1 .. n + 1
      OBVIOUS
    <3>3. \A m \in DOMAIN pass.work : \E i \in 1 .. n + 1 : pass.work[m][1] = Registry[i]
      BY <3>2 DEF Agree, From
    <3> DEFINE Known(item) == \E i \in 1 .. n + 1 : item[1] = Registry[i]
    <3>4. \A m \in DOMAIN pass.work : Known(work[m])
      <4>1. \A m \in DOMAIN pass.work : Known(pass.work[m])
        BY <3>3
      <4>2. \A m \in DOMAIN pass.work : work[m] = pass.work[m]
        BY <2>4
      <4> HIDE DEF Known
      <4>3. QED
        BY <4>1, <4>2
    <3>5. \E i \in 1 .. n + 1 : work[last][1] = Registry[i]
      BY <3>1
    <3>6. QED
      BY <2>4, <3>4, <3>5 DEF From
  <2>9. Once(work)
    <3>1. \A m, l \in DOMAIN pass.work : pass.work[m][1] = pass.work[l][1] => m = l
      BY DEF Agree, Once
    <3>2. work[last][1] = e
      BY <2>4
    <3>3. QED
      BY <2>4, <2>7, <3>1, <3>2 DEF Once
  <2>10. Placed(new.slots, work)
    <3>1. ASSUME NEW m \in DOMAIN pass.work
          PROVE  /\ work[m][2] \in DOMAIN new.slots[KindOf(work[m][1])]
                 /\ new.slots[KindOf(work[m][1])][work[m][2]] = work[m][1]
      <4> DEFINE j == KindOf(pass.work[m][1])
      <4>1. /\ pass.work[m][2] \in DOMAIN pass.slots[j]
            /\ pass.slots[j][pass.work[m][2]] = pass.work[m][1]
        BY <3>1 DEF Agree, Placed
      <4>2. j \in Kinds /\ work[m] = pass.work[m]
        BY <2>4, <3>1, KindFacts
      <4> HIDE DEF j
      <4>3. CASE j = k
        BY <2>3, <2>6, <4>1, <4>2, <4>3 DEF j
      <4>4. CASE j # k
        BY <2>6, <4>1, <4>2, <4>4 DEF j
      <4>5. QED
        BY <4>3, <4>4
    <3>2. /\ work[last][2] \in DOMAIN new.slots[KindOf(work[last][1])]
          /\ new.slots[KindOf(work[last][1])][work[last][2]] = work[last][1]
      <4>1. work[last][1] = e /\ work[last][2] = at /\ KindOf(e) = k
        BY <2>4 DEF k
      <4>2. QED
        BY <4>1, <2>3, <2>6
    <3>3. QED
      BY <2>4, <3>1, <3>2 DEF Placed
  <2>11. Complete(new.slots, work)
    <3>1. SUFFICES ASSUME NEW j \in Kinds, NEW l \in DOMAIN new.slots[j]
                   PROVE  \E m \in DOMAIN work :
                            work[m] = <<new.slots[j][l], l>> /\ KindOf(new.slots[j][l]) = j
      BY DEF Complete
    <3>2. CASE j = k /\ l = at
      BY <2>3, <2>4, <2>6, <3>2 DEF k
    <3>3. CASE ~(j = k /\ l = at)
      <4>1. l \in DOMAIN pass.slots[j] /\ new.slots[j][l] = pass.slots[j][l]
        BY <2>3, <2>6, <3>1, <3>3
      <4>2. PICK m \in DOMAIN pass.work : /\ pass.work[m] = <<pass.slots[j][l], l>>
                                          /\ KindOf(pass.slots[j][l]) = j
        BY <3>1, <4>1 DEF Agree, Complete
      <4>3. QED
        BY <2>4, <4>1, <4>2
    <3>4. QED
      BY <3>2, <3>3
  <2>12. Agree(new, n + 1)
    BY <2>1, <2>4, <2>6, <2>8, <2>9, <2>10, <2>11 DEF Agree
  <2>13. QED
    BY <2>12 DEF new, e
<1>5. QED
  BY <1>3, <1>4

LEMMA FilledAgrees == Agree(Filled, Len(Registry))
<1> DEFINE Base == [slots |-> [k \in Kinds |-> <<>>], work |-> <<>>]
           Dom == 0 .. Len(Registry)
           Is(f, n) == \A i \in 0 .. n :
                         f[i] = IF i = 0 THEN Base ELSE Add(f[i - 1], Registry[i])
           passes == CHOOSE f : f = [i \in Dom |->
                                      IF i = 0 THEN Base ELSE Add(f[i - 1], Registry[i])]
<1>1. Len(Registry) \in Nat /\ DOMAIN Registry = 1 .. Len(Registry)
  BY WaitingAssumption
<1> HIDE DEF Base
<1>2. \E f : Is(f, Len(Registry)) /\ f = [i \in Dom |-> f[i]]
  <2> DEFINE T == {n \in Nat : \E f : Is(f, n) /\ f = [i \in 0 .. n |-> f[i]]}
  <2>1. 0 \in T
    <3>1. Is([i \in 0 .. 0 |-> Base], 0)
      OBVIOUS
    <3>2. QED
      BY <3>1
  <2>2. ASSUME NEW n \in Nat, n \in T
        PROVE  n + 1 \in T
    <3>1. PICK f : Is(f, n) /\ f = [i \in 0 .. n |-> f[i]]
      BY <2>2
    <3> DEFINE g == [i \in 0 .. n + 1 |-> IF i # n + 1 THEN f[i] ELSE Add(f[n], Registry[n + 1])]
    <3>2. Is(g, n + 1)
      <4>1. \A i \in 0 .. n : g[i] = f[i]
        OBVIOUS
      <4>2. \A i \in 0 .. n + 1 : i # n + 1 => i \in 0 .. n /\ (i # 0 => i - 1 \in 0 .. n)
        OBVIOUS
      <4>3. g[n + 1] = Add(g[n], Registry[n + 1])
        OBVIOUS
      <4> HIDE DEF g
      <4>4. (n + 1) - 1 = n /\ n + 1 # 0
        OBVIOUS
      <4>5. QED
        BY <3>1, <4>1, <4>2, <4>3, <4>4
    <3>3. g = [i \in 0 .. n + 1 |-> g[i]]
      OBVIOUS
    <3> HIDE DEF g, Is
    <3>4. \E h : Is(h, n + 1) /\ h = [i \in 0 .. n + 1 |-> h[i]]
      BY <3>2, <3>3
    <3>5. QED
      BY <3>4
  <2> HIDE DEF T
  <2>3. Len(Registry) \in T
    BY <1>1, <2>1, <2>2, Induction
  <2>4. QED
    BY <2>3 DEF T
<1>3. Is(passes, Len(Registry))
  <2>1. PICK f : Is(f, Len(Registry)) /\ f = [i \in Dom |-> f[i]]
    BY <1>2
  <2>2. f = [i \in Dom |-> IF i = 0 THEN Base ELSE Add(f[i - 1], Registry[i])]
    BY <2>1
  <2>3. passes = [i \in Dom |-> IF i = 0 THEN Base ELSE Add(passes[i - 1], Registry[i])]
    BY <2>2
  <2> HIDE DEF passes
  <2>4. QED
    BY <2>3
<1>4. Filled = passes[Len(Registry)]
  BY DEF Filled, Base
<1> HIDE DEF passes
<1> DEFINE T == {n \in Nat : n <= Len(Registry) => Agree(passes[n], n)}
<1>5. 0 \in T
  <2>1. passes[0] = Base
    BY <1>1, <1>3
  <2>2. /\ Base.slots = [k \in Kinds |-> <<>>] /\ Base.work = <<>>
        /\ Base.slots \in [Kinds -> Seq(Entities)] /\ Base.work \in Seq(Entities \X Nat)
    BY DEF Base
  <2>3. /\ From(Base.work, 0) /\ Once(Base.work)
        /\ Placed(Base.slots, Base.work) /\ Complete(Base.slots, Base.work)
    BY <2>2 DEF From, Once, Placed, Complete
  <2>4. Agree(passes[0], 0)
    BY <2>1, <2>2, <2>3 DEF Agree
  <2>5. QED
    BY <2>4
<1>6. ASSUME NEW n \in Nat, n \in T
      PROVE  n + 1 \in T
  <2>1. SUFFICES ASSUME n + 1 <= Len(Registry)
                 PROVE  Agree(passes[n + 1], n + 1)
    OBVIOUS
  <2>2. Agree(passes[n], n)
    BY <1>1, <1>6, <2>1
  <2>3. n + 1 \in 0 .. Len(Registry) /\ n + 1 # 0 /\ (n + 1) - 1 = n
    BY <1>1, <2>1
  <2>4. passes[n + 1] = Add(passes[n], Registry[n + 1])
    BY <1>3, <2>3
  <2>5. QED
    BY <2>1, <2>2, <2>4, AddKeepsAgreement
<1> HIDE DEF T
<1>7. Len(Registry) \in T
  BY <1>1, <1>5, <1>6, Induction
<1>8. QED
  BY <1>1, <1>4, <1>7 DEF T

-------------------------------------------------------------------------------
(* The stack of calls                                                      *)

LEMMA TopFacts ==
  ASSUME TypeOK, stack # <<>>
  PROVE  /\ Len(stack) \in Nat \ {0} /\ DOMAIN stack = 1 .. Len(stack) /\ 1 \in DOMAIN stack
         /\ Top = stack[1] /\ Top \in Frames
         /\ \A i \in DOMAIN stack : stack[i] \in Frames
  BY DEF TypeOK, Top

LEMMA SetTopFacts ==
  ASSUME TypeOK, stack # <<>>, NEW f \in Frames, SetTop(f)
  PROVE  /\ stack' \in Seq(Frames) /\ DOMAIN stack' = DOMAIN stack /\ Len(stack') = Len(stack)
         /\ stack'[1] = f /\ stack' # <<>>
         /\ \A i \in DOMAIN stack : i # 1 => stack'[i] = stack[i]
<1>1. /\ Tail(stack) \in Seq(Frames) /\ Len(Tail(stack)) = Len(stack) - 1
      /\ \A i \in 1 .. Len(Tail(stack)) : Tail(stack)[i] = stack[i + 1]
  BY HeadTailProperties DEF TypeOK
<1>2. /\ <<f>> \in Seq(Frames) /\ Len(<<f>>) = 1 /\ <<f>>[1] = f
  OBVIOUS
<1>3. Len(stack) \in Nat \ {0} /\ DOMAIN stack = 1 .. Len(stack)
  BY TopFacts
<1> DEFINE one == <<f>>
           rest == Tail(stack)
<1>4. stack' = one \o rest
  BY DEF SetTop
<1> HIDE DEF one, rest
<1>5. /\ stack' \in Seq(Frames)
      /\ Len(stack') = Len(one) + Len(rest)
      /\ \A i \in 1 .. Len(one) + Len(rest) :
           stack'[i] = IF i <= Len(one) THEN one[i] ELSE rest[i - Len(one)]
  BY <1>1, <1>2, <1>4, ConcatProperties DEF one, rest
<1>6. DOMAIN stack' = 1 .. Len(stack') /\ Len(stack') = Len(stack)
  BY <1>1, <1>2, <1>3, <1>5, LenProperties DEF one, rest
<1>7. stack'[1] = f
  BY <1>2, <1>3, <1>5, <1>6 DEF one
<1>8. ASSUME NEW i \in DOMAIN stack, i # 1
      PROVE  stack'[i] = stack[i]
  <2>1. stack'[i] = rest[i - 1] /\ i - 1 \in 1 .. Len(rest) /\ (i - 1) + 1 = i
    BY <1>1, <1>2, <1>3, <1>5, <1>6, <1>8 DEF one, rest
  <2>2. QED
    BY <1>1, <2>1 DEF rest
<1>9. stack' # <<>>
  BY <1>3, <1>6
<1>10. QED
  BY <1>3, <1>5, <1>6, <1>7, <1>8, <1>9

LEMMA PopFacts ==
  ASSUME TypeOK, stack # <<>>, Pop
  PROVE  /\ stack' \in Seq(Frames) /\ Len(stack') = Len(stack) - 1
         /\ DOMAIN stack' = 1 .. Len(stack) - 1
         /\ \A i \in DOMAIN stack' :
              /\ i + 1 \in DOMAIN stack
              /\ stack'[i] = IF i = 1 THEN [stack[2] EXCEPT !.pc = "after"] ELSE stack[i + 1]
<1>1. /\ Tail(stack) \in Seq(Frames) /\ Len(Tail(stack)) = Len(stack) - 1
      /\ \A i \in 1 .. Len(Tail(stack)) : Tail(stack)[i] = stack[i + 1]
  BY HeadTailProperties DEF TypeOK
<1>2. /\ Len(stack) \in Nat \ {0} /\ DOMAIN stack = 1 .. Len(stack)
      /\ \A i \in DOMAIN stack : stack[i] \in Frames
  BY TopFacts
<1>3. CASE Len(stack) = 1
  BY <1>2, <1>3 DEF Pop
<1>4. CASE Len(stack) # 1
  <2> DEFINE f == [stack[2] EXCEPT !.pc = "after"]
             one == <<f>>
             rest == Tail(Tail(stack))
  <2>1. f \in Frames
    <3>1. stack[2] \in Frames
      BY <1>2, <1>4
    <3>2. QED
      BY <3>1 DEF Frames
  <2>2. one \in Seq(Frames) /\ Len(one) = 1 /\ one[1] = f
    BY <2>1
  <2>3. Tail(stack) # <<>>
    <3>1. Len(Tail(stack)) # 0
      <4>1. Len(Tail(stack)) = Len(stack) - 1
        BY <1>1
      <4>2. Len(stack) \in Nat /\ Len(stack) # 1
        BY <1>2, <1>4
      <4>3. QED
        BY <4>1, <4>2
    <3>2. Len(<<>>) = 0
      OBVIOUS
    <3>3. QED
      BY <3>1, <3>2, Zenon
  <2>4. /\ rest \in Seq(Frames) /\ Len(rest) = Len(stack) - 2
        /\ \A i \in 1 .. Len(rest) : rest[i] = Tail(stack)[i + 1]
    BY <1>1, <1>2, <2>3, HeadTailProperties
  <2>5. stack' = one \o rest
    BY <1>4 DEF Pop
  <2> HIDE DEF one, rest, f
  <2>6. /\ stack' \in Seq(Frames)
        /\ Len(stack') = Len(one) + Len(rest)
        /\ \A i \in 1 .. Len(one) + Len(rest) :
             stack'[i] = IF i <= Len(one) THEN one[i] ELSE rest[i - Len(one)]
    BY <2>2, <2>4, <2>5, ConcatProperties
  <2>7. Len(stack') = Len(stack) - 1 /\ DOMAIN stack' = 1 .. Len(stack) - 1
    BY <1>2, <2>2, <2>4, <2>6, LenProperties
  <2>8. stack'[1] = f
    BY <1>2, <1>4, <2>2, <2>6, <2>7
  <2>9. ASSUME NEW i \in DOMAIN stack', i # 1
        PROVE  stack'[i] = stack[i + 1]
    <3>1. /\ stack'[i] = rest[i - 1] /\ i - 1 \in 1 .. Len(rest) /\ (i - 1) + 1 = i
          /\ i \in 1 .. Len(Tail(stack))
      BY <1>1, <1>2, <2>2, <2>4, <2>6, <2>7, <2>9
    <3>2. QED
      BY <1>1, <2>4, <3>1
  <2>10. \A i \in DOMAIN stack' : i + 1 \in DOMAIN stack
    BY <1>2, <2>7
  <2>11. QED
    BY <2>6, <2>7, <2>8, <2>9, <2>10 DEF f
<1>5. QED
  BY <1>3, <1>4

(* What the steps do to the stack.  The innermost call goes on, ...         *)
Turns(p, work, stale, cb) ==
  /\ stack # <<>> /\ stack' \in Seq(Frames) /\ stack' # <<>>
  /\ DOMAIN stack' = DOMAIN stack /\ Len(stack') = Len(stack)
  /\ stack'[1].pc = p /\ stack'[1].work = work
  /\ stack'[1].stale = stale /\ stack'[1].cb = cb
  /\ \A i \in DOMAIN stack : i # 1 => stack'[i] = stack[i]

(* ... or it ends, ...                                                      *)
Pops ==
  /\ stack # <<>> /\ stack' \in Seq(Frames) /\ Len(stack') = Len(stack) - 1
  /\ DOMAIN stack' = 1 .. Len(stack) - 1
  /\ \A i \in DOMAIN stack' :
       /\ i + 1 \in DOMAIN stack
       /\ stack'[i].pc = IF i = 1 THEN "after" ELSE stack[i + 1].pc
       /\ stack'[i].work = stack[i + 1].work /\ stack'[i].stale = stack[i + 1].stale

(* ... or only time goes by.                                                *)
Stays ==
  /\ stack' \in Seq(Frames) /\ DOMAIN stack' = DOMAIN stack /\ Len(stack') = Len(stack)
  /\ \A i \in DOMAIN stack :
       /\ stack'[i].pc = stack[i].pc /\ stack'[i].work = stack[i].work
       /\ stack'[i].stale = stack[i].stale /\ stack'[i].cb = stack[i].cb

LEMMA TurnsTo ==
  ASSUME TypeOK, stack # <<>>, NEW f \in Frames, SetTop(f)
  PROVE  Turns(f.pc, f.work, f.stale, f.cb)
  BY SetTopFacts DEF Turns

LEMMA PopsTo ==
  ASSUME TypeOK, stack # <<>>, Pop
  PROVE  Pops
<1>1. /\ stack' \in Seq(Frames) /\ Len(stack') = Len(stack) - 1
      /\ DOMAIN stack' = 1 .. Len(stack) - 1
      /\ \A i \in DOMAIN stack' :
           /\ i + 1 \in DOMAIN stack
           /\ stack'[i] = IF i = 1 THEN [stack[2] EXCEPT !.pc = "after"] ELSE stack[i + 1]
  BY PopFacts
<1>2. \A i \in DOMAIN stack : stack[i] \in Frames
  BY TopFacts
<1>3. \A f \in Frames :
        LET g == [f EXCEPT !.pc = "after"]
        IN  g.pc = "after" /\ g.work = f.work /\ g.stale = f.stale
  BY DEF Frames
<1>4. ASSUME NEW i \in DOMAIN stack'
      PROVE  /\ i + 1 \in DOMAIN stack
             /\ stack'[i].pc = IF i = 1 THEN "after" ELSE stack[i + 1].pc
             /\ stack'[i].work = stack[i + 1].work /\ stack'[i].stale = stack[i + 1].stale
  <2>1. CASE i = 1
    <3>1. 2 \in DOMAIN stack /\ stack'[1] = [stack[2] EXCEPT !.pc = "after"]
      BY <1>1, <1>4, <2>1
    <3>2. stack[2] \in Frames
      BY <1>2, <3>1
    <3>3. stack'[1].pc = "after" /\ stack'[1].work = stack[2].work /\ stack'[1].stale = stack[2].stale
      BY <1>3, <3>1, <3>2
    <3>4. QED
      BY <2>1, <3>1, <3>3
  <2>2. CASE i # 1
    BY <1>1, <1>4, <2>2
  <2>3. QED
    BY <2>1, <2>2
<1>5. QED
  BY <1>1, <1>4 DEF Pops

LEMMA AfterPassTurns ==
  ASSUME TypeOK, stack # <<>>, NEW f \in Frames, AfterPass(f)
  PROVE  Pops \/ Turns("check", <<>>, FALSE, f.cb)
<1>1. CASE f.once
  BY <1>1, PopsTo DEF AfterPass
<1>2. CASE ~f.once
  <2> DEFINE g == [f EXCEPT !.pc = "check", !.work = <<>>, !.stale = FALSE]
  <2>1. g \in Frames /\ g.pc = "check" /\ g.work = <<>> /\ g.stale = FALSE /\ g.cb = f.cb
    <3>1. <<>> \in Seq(Entities \X Nat)
      OBVIOUS
    <3>2. QED
      BY <3>1 DEF Frames
  <2>2. SetTop(g)
    BY <1>2 DEF AfterPass
  <2> HIDE DEF g
  <2>3. QED
    BY <2>1, <2>2, TurnsTo
<1>3. QED
  BY <1>1, <1>2

LEMMA CheckTurns ==
  ASSUME TypeOK, Check
  PROVE  Pops \/ Turns("fill", Top.work, Top.stale, Top.cb)
<1>1. stack # <<>> /\ Top \in Frames
  BY TopFacts DEF Check
<1> DEFINE g == [Top EXCEPT !.pc = "fill", !.wait = Top.left]
<1>2. g \in Frames /\ g.pc = "fill" /\ g.work = Top.work /\ g.stale = Top.stale /\ g.cb = Top.cb
  BY <1>1 DEF Frames
<1>3. Pop \/ SetTop(g)
  BY DEF Check
<1> HIDE DEF g
<1>4. QED
  BY <1>1, <1>2, <1>3, PopsTo, TurnsTo

LEMMA LookingFrame ==
  ASSUME TypeOK, stack # <<>>
  PROVE  /\ Looking \in Frames /\ Looking.pc = "take" /\ Looking.work = Top.work
         /\ Looking.stale = Top.stale /\ Looking.cb = Top.cb
<1>1. Top \in Frames
  BY TopFacts
<1>2. 0 \in Int \cup {Unbounded} /\ \A f \in Frames : f.wait \in Int \cup {Unbounded}
  BY DEF Frames
<1>3. \A f \in Frames :
        LET g == [f EXCEPT !.pc = "take", !.wait = 0]
        IN  g \in Frames /\ g.pc = "take" /\ g.work = f.work /\ g.stale = f.stale /\ g.cb = f.cb
  BY <1>2 DEF Frames
<1>4. QED
  BY <1>1, <1>3 DEF Looking

LEMMA RestFrame ==
  ASSUME TypeOK, stack # <<>>, Top.work # <<>>
  PROVE  /\ Rest \in Frames /\ Rest.pc = Top.pc /\ Rest.work = Tail(Top.work)
         /\ Rest.stale = Top.stale /\ Rest.cb = Top.cb
         /\ \A e \in Entities :
              LET f == [Rest EXCEPT !.pc = "callback", !.cb = e]
              IN  /\ f \in Frames /\ f.pc = "callback" /\ f.work = Tail(Top.work)
                  /\ f.stale = Top.stale /\ f.cb = e
<1>1. Top \in Frames
  BY TopFacts
<1>2. Top.work \in Seq(Entities \X Nat)
  BY <1>1 DEF Frames
<1>3. Tail(Top.work) \in Seq(Entities \X Nat)
  BY <1>2, HeadTailProperties
<1>4. /\ Rest \in Frames /\ Rest.pc = Top.pc /\ Rest.work = Tail(Top.work)
      /\ Rest.stale = Top.stale /\ Rest.cb = Top.cb
  BY <1>1, <1>3 DEF Rest, Frames
<1> HIDE DEF Rest
<1>5. QED
  BY <1>4 DEF Frames

LEMMA GoOnFrame ==
  ASSUME TypeOK, stack # <<>>
  PROVE  /\ GoOn(Top) \in Frames /\ GoOn(Top).pc = "take" /\ GoOn(Top).work = Top.work
         /\ GoOn(Top).stale = Top.stale /\ GoOn(Top).cb = Null
<1>1. Top \in Frames
  BY TopFacts
<1>2. QED
  BY <1>1 DEF GoOn, Frames

LEMMA Looks ==
  ASSUME TypeOK, stack # <<>>, SetTop(Looking)
  PROVE  Turns("take", Top.work, Top.stale, Top.cb)
<1>1. Turns(Looking.pc, Looking.work, Looking.stale, Looking.cb)
  BY LookingFrame, TurnsTo
<1>2. QED
  BY <1>1, LookingFrame

(* A take goes to the next entity, with or without a callback in between.   *)
LEMMA TakeTurns ==
  ASSUME TypeOK, NEW e \in Entities, Working(e)
  PROVE  /\ SetTop(Rest) => Turns("take", Tail(Top.work), Top.stale, Top.cb)
         /\ SetTop([Rest EXCEPT !.pc = "callback", !.cb = e]) =>
              Turns("callback", Tail(Top.work), Top.stale, e)
<1>1. stack # <<>> /\ Top.pc = "take" /\ Top.work # <<>>
  BY DEF Working
<1>2. ASSUME SetTop(Rest)
      PROVE  Turns("take", Tail(Top.work), Top.stale, Top.cb)
  <2>1. Turns(Rest.pc, Rest.work, Rest.stale, Rest.cb)
    BY <1>1, <1>2, RestFrame, TurnsTo
  <2>2. QED
    BY <1>1, <2>1, RestFrame
<1>3. ASSUME SetTop([Rest EXCEPT !.pc = "callback", !.cb = e])
      PROVE  Turns("callback", Tail(Top.work), Top.stale, e)
  <2> DEFINE f == [Rest EXCEPT !.pc = "callback", !.cb = e]
  <2>1. /\ f \in Frames /\ f.pc = "callback" /\ f.work = Tail(Top.work)
        /\ f.stale = Top.stale /\ f.cb = e
    BY <1>1, RestFrame
  <2>2. SetTop(f)
    BY <1>3
  <2> HIDE DEF f
  <2>3. Turns(f.pc, f.work, f.stale, f.cb)
    BY <1>1, <2>1, <2>2, TurnsTo
  <2>4. QED
    BY <2>1, <2>3
<1>4. QED
  BY <1>2, <1>3

LEMMA TickStays ==
  ASSUME TypeOK, Tick
  PROVE  Stays
<1>1. stack \in Seq(Frames) /\ Len(stack) \in Nat /\ DOMAIN stack = 1 .. Len(stack)
  BY DEF TypeOK
<1> DEFINE older(f) == [f EXCEPT !.left = Less(@, -1),
                                 !.wait = IF f.pc = "wait" THEN Less(@, 0) ELSE @]
<1>2. \A i \in DOMAIN stack : stack[i] \in Frames
  BY <1>1, ElementOfSeq
<1>3. \A x \in Int \cup {Unbounded} : \A b \in {0, -1} : Less(x, b) \in Int \cup {Unbounded}
  BY DEF Less
<1>4. ASSUME NEW f \in Frames
      PROVE  /\ older(f) \in Frames /\ older(f).pc = f.pc /\ older(f).work = f.work
             /\ older(f).stale = f.stale /\ older(f).cb = f.cb
  <2>1. f.left \in Int \cup {Unbounded} /\ f.wait \in Int \cup {Unbounded}
    BY DEF Frames
  <2>2. Less(f.left, -1) \in Int \cup {Unbounded} /\ Less(f.wait, 0) \in Int \cup {Unbounded}
    BY <1>3, <2>1
  <2>3. QED
    BY <2>1, <2>2 DEF Frames
<1>5. stack' = [i \in DOMAIN stack |-> older(stack[i])]
  BY DEF Tick
<1> HIDE DEF older
<1>6. stack' = [i \in 1 .. Len(stack) |-> older(stack[i])]
  BY <1>1, <1>5
<1>7. \A i \in 1 .. Len(stack) : older(stack[i]) \in Frames
  BY <1>1, <1>2, <1>4
<1>8. stack' \in Seq(Frames) /\ DOMAIN stack' = DOMAIN stack
  BY <1>1, <1>6, <1>7
<1>9. Len(stack') = Len(stack)
  BY <1>1, <1>8, LenProperties
<1>10. QED
  BY <1>2, <1>4, <1>5, <1>8, <1>9 DEF Stays

LEMMA FillTurns ==
  ASSUME TypeOK, Fill
  PROVE  /\ stack # <<>> /\ Top.pc = "fill"
         /\ stack' \in Seq(Frames) /\ DOMAIN stack' = DOMAIN stack /\ Len(stack') = Len(stack)
         /\ stack'[1].pc = "wait" /\ stack'[1].work = Filled.work /\ stack'[1].cb = Top.cb
         /\ ~stack'[1].stale
         /\ \A i \in DOMAIN stack : i # 1 => stack'[i].pc = stack[i].pc /\ stack'[i].stale
                                             /\ stack'[i].work = stack[i].work
<1>1. stack # <<>> /\ Top.pc = "fill"
  BY DEF Fill
<1>2. /\ Len(stack) \in Nat \ {0} /\ DOMAIN stack = 1 .. Len(stack) /\ 1 \in DOMAIN stack
      /\ Top \in Frames
      /\ \A i \in DOMAIN stack : stack[i] \in Frames
  BY <1>1, TopFacts
<1>3. Filled.work \in Seq(Entities \X Nat)
  BY FilledAgrees DEF Agree
<1> DEFINE wait == IF Top.wait \in Int /\ Top.wait < 0 THEN Unbounded ELSE Top.wait
           work == Filled.work
           top == [Top EXCEPT !.pc = "wait", !.work = work, !.wait = wait, !.stale = FALSE]
           under(f) == [f EXCEPT !.stale = TRUE]
<1>4. wait \in Int \cup {Unbounded}
  BY <1>2 DEF Frames
<1>5. stack' = [i \in DOMAIN stack |-> IF i = 1 THEN top ELSE under(stack[i])]
  BY DEF Fill
<1> HIDE DEF wait, work
<1>6. top \in Frames /\ top.pc = "wait" /\ top.work = work /\ top.cb = Top.cb
      /\ ~top.stale
  BY <1>2, <1>3, <1>4 DEF Frames, work
<1>7. \A f \in Frames : under(f) \in Frames /\ under(f).pc = f.pc /\ under(f).stale
                        /\ under(f).work = f.work
  BY DEF Frames
<1> HIDE DEF top, under
<1> DEFINE elem(i) == IF i = 1 THEN top ELSE under(stack[i])
<1>8. \A i \in 1 .. Len(stack) : elem(i) \in Frames
  BY <1>2, <1>6, <1>7
<1>9. stack' = [i \in 1 .. Len(stack) |-> elem(i)]
  BY <1>2, <1>5
<1>10. stack' \in Seq(Frames) /\ DOMAIN stack' = DOMAIN stack
  BY <1>2, <1>8, <1>9
<1>11. Len(stack') = Len(stack)
  BY <1>2, <1>10, LenProperties
<1>12. stack'[1] = top
  BY <1>2, <1>5
<1>13. \A i \in DOMAIN stack : i # 1 => stack'[i] = under(stack[i])
  BY <1>5
<1>14. QED
  BY <1>1, <1>2, <1>6, <1>7, <1>10, <1>11, <1>12, <1>13 DEF work

LEMMA CallFrame ==
  ASSUME NEW once \in BOOLEAN, NEW d \in Int \cup {Unbounded}
  PROVE  /\ Call(once, d) \in Frames /\ Call(once, d).pc \in {"check", "fill"}
         /\ Call(once, d).work = <<>>
<1> DEFINE pc == IF once THEN "fill" ELSE "check"
<1>1. <<>> \in Seq(Entities \X Nat) /\ Null \in Entities \cup {Null}
  OBVIOUS
<1>2. 0 \in Int \cup {Unbounded} /\ pc \in {"check", "fill"}
  OBVIOUS
<1>3. Call(once, d) = [pc |-> pc, once |-> once, left |-> d, wait |-> 0,
                       work |-> <<>>, cb |-> Null, stale |-> FALSE]
  BY DEF Call
<1> HIDE DEF pc
<1>4. QED
  BY <1>1, <1>2, <1>3 DEF Frames

LEMMA NestTurns ==
  ASSUME TypeOK, Nest
  PROVE  /\ stack # <<>> /\ Top.pc = "callback"
         /\ stack' \in Seq(Frames) /\ Len(stack') = Len(stack) + 1
         /\ DOMAIN stack' = 1 .. Len(stack) + 1
         /\ stack'[1].pc \in {"check", "fill"} /\ stack'[1].work = <<>>
         /\ \A i \in DOMAIN stack' : i # 1 =>
              /\ i - 1 \in DOMAIN stack
              /\ stack'[i].pc = IF i = 2 THEN "nesting" ELSE stack[i - 1].pc
              /\ stack'[i].work = stack[i - 1].work /\ stack'[i].stale = stack[i - 1].stale
<1>1. stack # <<>> /\ Top.pc = "callback"
  BY DEF Nest
<1>2. /\ Len(stack) \in Nat \ {0} /\ DOMAIN stack = 1 .. Len(stack)
      /\ Top \in Frames /\ Top = stack[1]
      /\ \A i \in DOMAIN stack : stack[i] \in Frames
  BY <1>1, TopFacts
<1>3. /\ Tail(stack) \in Seq(Frames) /\ Len(Tail(stack)) = Len(stack) - 1
      /\ \A i \in 1 .. Len(Tail(stack)) : Tail(stack)[i] = stack[i + 1]
  BY <1>1, HeadTailProperties DEF TypeOK
<1> DEFINE under == [Top EXCEPT !.pc = "nesting"]
<1>4. PICK c \in {Call(TRUE, 0)} \cup {Call(FALSE, d) : d \in NestedTimeouts} :
        stack' = <<c, under>> \o Tail(stack)
  BY DEF Nest
<1>5. c \in Frames /\ c.pc \in {"check", "fill"} /\ c.work = <<>>
  <2>1. \A d \in NestedTimeouts : d \in Int \cup {Unbounded}
    BY WaitingAssumption
  <2>2. CASE c = Call(TRUE, 0)
    <3>1. TRUE \in BOOLEAN /\ 0 \in Int \cup {Unbounded}
      OBVIOUS
    <3>2. QED
      BY <2>2, <3>1, CallFrame, Zenon
  <2>3. ASSUME NEW d \in NestedTimeouts, c = Call(FALSE, d)
        PROVE  c \in Frames /\ c.pc \in {"check", "fill"} /\ c.work = <<>>
    <3>1. FALSE \in BOOLEAN /\ d \in Int \cup {Unbounded}
      BY <2>1
    <3>2. QED
      BY <2>3, <3>1, CallFrame, Zenon
  <2>4. QED
    BY <1>4, <2>2, <2>3
<1>6. under \in Frames /\ under.pc = "nesting" /\ under.work = Top.work /\ under.stale = Top.stale
  BY <1>2 DEF Frames
<1> HIDE DEF under
<1> DEFINE two == <<c, under>>
           rest == Tail(stack)
<1>7. two \in Seq(Frames) /\ Len(two) = 2 /\ two[1] = c /\ two[2] = under
  BY <1>5, <1>6
<1>8. stack' = two \o rest /\ rest \in Seq(Frames)
  BY <1>3, <1>4
<1> HIDE DEF two, rest
<1>9. /\ stack' \in Seq(Frames)
      /\ Len(stack') = Len(two) + Len(rest)
      /\ \A i \in 1 .. Len(two) + Len(rest) :
           stack'[i] = IF i <= Len(two) THEN two[i] ELSE rest[i - Len(two)]
  BY <1>7, <1>8, ConcatProperties
<1>10. Len(stack') = Len(stack) + 1 /\ DOMAIN stack' = 1 .. Len(stack) + 1
  BY <1>2, <1>3, <1>7, <1>9, LenProperties DEF rest
<1>11. stack'[1] = c /\ stack'[2] = under
  BY <1>2, <1>7, <1>9, <1>10
<1>12. ASSUME NEW i \in DOMAIN stack', i # 1
       PROVE  /\ i - 1 \in DOMAIN stack
              /\ i # 2 => stack'[i] = stack[i - 1]
  <2>1. i - 1 \in DOMAIN stack
    BY <1>2, <1>10, <1>12
  <2>2. ASSUME i # 2
        PROVE  stack'[i] = stack[i - 1]
    <3>1. stack'[i] = rest[i - 2] /\ i - 2 \in 1 .. Len(rest) /\ (i - 2) + 1 = i - 1
      BY <1>2, <1>3, <1>7, <1>9, <1>10, <1>12, <2>2 DEF rest
    <3>2. QED
      BY <1>3, <3>1 DEF rest
  <2>3. QED
    BY <2>1, <2>2
<1>13. ASSUME NEW i \in DOMAIN stack', i # 1
       PROVE  /\ i - 1 \in DOMAIN stack
              /\ stack'[i].pc = IF i = 2 THEN "nesting" ELSE stack[i - 1].pc
              /\ stack'[i].work = stack[i - 1].work /\ stack'[i].stale = stack[i - 1].stale
  <2>1. CASE i = 2
    BY <1>2, <1>6, <1>11, <1>12, <1>13, <2>1
  <2>2. CASE i # 2
    BY <1>12, <1>13, <2>2
  <2>3. QED
    BY <2>1, <2>2
<1>14. QED
  BY <1>1, <1>5, <1>9, <1>10, <1>11, <1>13

LEMMA StartTurns ==
  ASSUME StartSpin
  PROVE  /\ stack = <<>> /\ stack' \in Seq(Frames) /\ Len(stack') = 1 /\ DOMAIN stack' = {1}
         /\ stack'[1].pc \in {"check", "fill"} /\ stack'[1].work = <<>>
         /\ done' \in {done, FALSE}
<1>1. PICK c \in {Call(TRUE, 0)} \cup {Call(FALSE, d) : d \in Timeouts} : stack' = <<c>>
  BY DEF StartSpin
<1>2. c \in Frames /\ c.pc \in {"check", "fill"} /\ c.work = <<>>
  <2>1. \A d \in Timeouts : d \in Int \cup {Unbounded}
    BY WaitingAssumption
  <2>2. CASE c = Call(TRUE, 0)
    <3>1. TRUE \in BOOLEAN /\ 0 \in Int \cup {Unbounded}
      OBVIOUS
    <3>2. QED
      BY <2>2, <3>1, CallFrame, Zenon
  <2>3. ASSUME NEW d \in Timeouts, c = Call(FALSE, d)
        PROVE  c \in Frames /\ c.pc \in {"check", "fill"} /\ c.work = <<>>
    <3>1. FALSE \in BOOLEAN /\ d \in Int \cup {Unbounded}
      BY <2>1
    <3>2. QED
      BY <2>3, <3>1, CallFrame, Zenon
  <2>4. QED
    BY <1>1, <2>2, <2>3
<1>3. stack = <<>> /\ done' \in {done, FALSE}
  BY DEF StartSpin
<1>4. stack' \in Seq(Frames) /\ Len(stack') = 1 /\ DOMAIN stack' = {1} /\ stack'[1] = c
  BY <1>1, <1>2
<1>5. QED
  BY <1>2, <1>3, <1>4

-------------------------------------------------------------------------------
(* What these do to the invariant                                          *)

StackTyped ==
  /\ stack \in Seq(Frames)
  /\ \A i \in DOMAIN stack : stack[i].pc = "nesting" <=> i > 1

LEMMA TurnsNest ==
  ASSUME TypeOK, CallsNest, NEW p, NEW w, NEW s, NEW c, Turns(p, w, s, c),
         p # "nesting", Once(w),
         p \in {"check", "fill"} => w = <<>>,
         p \notin {"check", "fill"} => Top.pc \notin {"check", "fill"}
  PROVE  StackTyped' /\ CallsNest'
<1>1. /\ Len(stack) \in Nat \ {0} /\ DOMAIN stack = 1 .. Len(stack) /\ 1 \in DOMAIN stack
      /\ Top = stack[1]
  BY TopFacts DEF Turns
<1>2. /\ stack' \in Seq(Frames) /\ DOMAIN stack' = DOMAIN stack
      /\ stack'[1].pc = p /\ stack'[1].work = w
      /\ \A i \in DOMAIN stack : i # 1 => stack'[i] = stack[i]
  BY DEF Turns
<1>3. StackTyped'
  <2>1. \A i \in DOMAIN stack : stack[i].pc = "nesting" <=> i > 1
    BY DEF TypeOK
  <2>2. QED
    BY <1>1, <1>2, <2>1 DEF StackTyped
<1>4. ASSUME NEW i \in DOMAIN stack'
      PROVE  /\ stack'[i].pc \in {"check", "fill"} => stack'[i].work = <<>>
             /\ Once(stack'[i].work)
             /\ stack'[i].pc \notin {"check", "fill"} =>
                  \A j \in DOMAIN stack' : j > i => stack'[j].stale
  <2>1. \A j \in DOMAIN stack' : j > i => j \in DOMAIN stack /\ stack'[j] = stack[j]
    BY <1>1, <1>2
  <2>2. CASE i = 1
    BY <1>1, <1>2, <2>1, <2>2 DEF CallsNest
  <2>3. CASE i # 1
    BY <1>2, <1>4, <2>1, <2>3 DEF CallsNest
  <2>4. QED
    BY <2>2, <2>3
<1>5. CallsNest'
  BY <1>4 DEF CallsNest, Once
<1>6. QED
  BY <1>3, <1>5

LEMMA PopsNest ==
  ASSUME TypeOK, CallsNest, Pops
  PROVE  StackTyped' /\ CallsNest'
<1>1. Len(stack) \in Nat \ {0} /\ DOMAIN stack = 1 .. Len(stack)
  BY TopFacts DEF Pops
<1>2. \A i \in DOMAIN stack : stack[i].pc = "nesting" <=> i > 1
  BY DEF TypeOK
<1>3. \A i \in DOMAIN stack' :
        /\ i + 1 \in DOMAIN stack /\ i \in Nat \ {0}
        /\ stack'[i].pc = IF i = 1 THEN "after" ELSE stack[i + 1].pc
        /\ stack'[i].work = stack[i + 1].work /\ stack'[i].stale = stack[i + 1].stale
  BY <1>1 DEF Pops
<1>4. StackTyped'
  <2>1. stack' \in Seq(Frames)
    BY DEF Pops
  <2>2. QED
    BY <1>2, <1>3, <2>1 DEF StackTyped
<1>5. ASSUME NEW i \in DOMAIN stack'
      PROVE  /\ stack'[i].pc \in {"check", "fill"} => stack'[i].work = <<>>
             /\ Once(stack'[i].work)
             /\ \A j \in DOMAIN stack' : j > i => stack'[j].stale
  <2>1. stack[i + 1].pc = "nesting" /\ i + 1 \in DOMAIN stack
    BY <1>2, <1>3, <1>5
  <2>2. stack'[i].pc \notin {"check", "fill"}
    BY <1>3, <1>5, <2>1
  <2>3. Once(stack'[i].work)
    BY <1>3, <1>5, <2>1 DEF CallsNest
  <2>4. ASSUME NEW j \in DOMAIN stack', j > i
        PROVE  stack'[j].stale
    <3>1. j + 1 \in DOMAIN stack /\ j + 1 > i + 1 /\ stack'[j].stale = stack[j + 1].stale
      BY <1>3, <1>5, <2>4
    <3>2. QED
      BY <2>1, <3>1 DEF CallsNest
  <2>5. QED
    BY <2>2, <2>3, <2>4
<1>6. CallsNest'
  BY <1>5 DEF CallsNest, Once
<1>7. QED
  BY <1>4, <1>6

LEMMA StaysNest ==
  ASSUME TypeOK, CallsNest, Stays
  PROVE  StackTyped' /\ CallsNest'
<1>1. StackTyped'
  BY DEF StackTyped, Stays, TypeOK
<1>2. CallsNest'
  BY DEF CallsNest, Stays, Once
<1>3. QED
  BY <1>1, <1>2

(* The call that runs is the only one that may be waiting.                  *)
LEMMA NobodyWaits ==
  ASSUME StackTyped', stack' # <<>> => stack'[1].pc # "wait"
  PROVE  WaitsOnItsWork'
<1>1. \A i \in DOMAIN stack' : stack'[i].pc # "wait"
  <2>1. SUFFICES ASSUME NEW i \in DOMAIN stack'
                 PROVE  stack'[i].pc # "wait"
    OBVIOUS
  <2>2. stack' # <<>> /\ i \in Nat \ {0} /\ (stack'[i].pc = "nesting" <=> i > 1)
    BY LenProperties DEF StackTyped
  <2>3. QED
    BY <2>2
<1>2. QED
  BY <1>1 DEF WaitsOnItsWork

(* A call that is waiting is the one that runs, the others are stale.       *)
LEMMA OnlyTopWaits ==
  ASSUME TypeOK, CallsNest, stack # <<>>, Top.pc \notin {"check", "fill"}
  PROVE  \A i \in DOMAIN stack : i # 1 => stack[i].stale
<1>1. DOMAIN stack = 1 .. Len(stack) /\ Len(stack) \in Nat \ {0} /\ Top = stack[1]
  BY TopFacts
<1>2. QED
  BY <1>1 DEF CallsNest

(* Other frames go on to speak of the slots as they did.                    *)
LEMMA PopsSpeak ==
  ASSUME WaitingInv, Pops, UNCHANGED <<slots, left, rescheduled>>, owed' \subseteq owed,
         \A g \in owed' : \A m \in DOMAIN Top.work : Top.work[m][1] # g
  PROVE  ReportedTimersAreDue' /\ OwedTriggersAreInWork'
<1>1. Len(stack) \in Nat \ {0} /\ DOMAIN stack = 1 .. Len(stack) /\ Top = stack[1]
  BY TopFacts DEF Pops, WaitingInv
<1>2. /\ DOMAIN stack' = 1 .. Len(stack) - 1
      /\ \A i \in DOMAIN stack' :
           /\ i + 1 \in DOMAIN stack /\ i \in Nat \ {0}
           /\ stack'[i].pc = IF i = 1 THEN "after" ELSE stack[i + 1].pc
           /\ stack'[i].work = stack[i + 1].work /\ stack'[i].stale = stack[i + 1].stale
  BY <1>1 DEF Pops
<1>3. \A i \in DOMAIN stack : i > 1 => stack[i].pc = "nesting"
  BY DEF WaitingInv, TypeOK
<1>4. \A i \in DOMAIN stack' : stack[i + 1].pc \in Passing /\ stack'[i].pc \in Passing
  BY <1>2, <1>3 DEF Passing
<1>5. ReportedTimersAreDue'
  <2>1. \A i \in DOMAIN stack' : ~stack'[i].stale => DueOrReset(i + 1) /\ i + 1 \in DOMAIN stack
    BY <1>2, <1>4 DEF WaitingInv, ReportedTimersAreDue
  <2>2. SUFFICES ASSUME NEW i \in DOMAIN stack', ~stack'[i].stale,
                        NEW m \in DOMAIN stack'[i].work, NEW e \in Timers,
                        e = stack'[i].work[m][1], SlotReady(e, stack'[i].work[m][2])
                 PROVE  left[e] = 0 \/ e \in rescheduled
    BY DEF ReportedTimersAreDue, DueOrReset, SlotReady
  <2>3. DueOrReset(i + 1) /\ stack'[i].work = stack[i + 1].work
    BY <1>2, <2>1, <2>2
  <2>4. QED
    BY <2>2, <2>3 DEF DueOrReset
<1>6. OwedTriggersAreInWork'
  <2>1. SUFFICES ASSUME NEW g \in owed'
                 PROVE  \E i \in DOMAIN stack' : OwedBy(i, g)'
    BY DEF OwedTriggersAreInWork
  <2>2. PICK j \in DOMAIN stack : OwedBy(j, g)
    BY <2>1 DEF WaitingInv, OwedTriggersAreInWork
  <2>3. j # 1
    BY <1>1, <2>1, <2>2 DEF OwedBy
  <2>4. j - 1 \in DOMAIN stack' /\ (j - 1) + 1 = j
    BY <1>1, <1>2, <2>2, <2>3
  <2>5. /\ stack'[j - 1].pc \in Passing /\ ~stack'[j - 1].stale
        /\ stack'[j - 1].work = stack[j].work
    BY <1>2, <1>4, <2>2, <2>4 DEF OwedBy
  <2>6. OwedBy(j - 1, g)'
    BY <2>2, <2>5 DEF OwedBy, SlotReady
  <2>7. QED
    BY <2>4, <2>6
<1>7. QED
  BY <1>5, <1>6

LEMMA StaysSpeak ==
  ASSUME WaitingInv, Stays, UNCHANGED slots, owed' \subseteq owed,
         \A tm \in Timers : left[tm] = 0 \/ tm \in rescheduled
                              => left'[tm] = 0 \/ tm \in rescheduled'
  PROVE  WaitsOnItsWork' /\ ReportedTimersAreDue' /\ OwedTriggersAreInWork'
<1>1. WaitsOnItsWork'
  <2>1. \A i \in DOMAIN stack' : stack'[i].pc = "wait" =>
          /\ owed' = {} /\ ~stack'[i].stale
          /\ Placed(slots, stack'[i].work) /\ Complete(slots, stack'[i].work)
    BY DEF Stays, WaitingInv, WaitsOnItsWork
  <2>2. QED
    BY <2>1 DEF WaitsOnItsWork
<1>2. ReportedTimersAreDue'
  <2>1. \A i \in DOMAIN stack' : stack'[i].pc \in Passing /\ ~stack'[i].stale => DueOrReset(i)
    BY DEF Stays, WaitingInv, ReportedTimersAreDue
  <2>2. QED
    BY <2>1 DEF Stays, ReportedTimersAreDue, DueOrReset, SlotReady
<1>3. OwedTriggersAreInWork'
  <2>1. SUFFICES ASSUME NEW g \in owed'
                 PROVE  \E i \in DOMAIN stack' : OwedBy(i, g)'
    BY DEF OwedTriggersAreInWork
  <2>2. PICK j \in DOMAIN stack : OwedBy(j, g)
    BY <2>1 DEF WaitingInv, OwedTriggersAreInWork
  <2>3. OwedBy(j, g)' /\ j \in DOMAIN stack'
    BY <2>2 DEF OwedBy, SlotReady, Stays
  <2>4. QED
    BY <2>3
<1>4. QED
  BY <1>1, <1>2, <1>3

(* A pass goes on: what it has still to look at is what it had, perhaps     *)
(* without the first, which no longer matters.                              *)
LEMMA TurnsSpeak ==
  ASSUME WaitingInv, NEW p, NEW w, NEW s, NEW c, Turns(p, w, s, c), NEW d \in {0, 1},
         UNCHANGED <<slots, rescheduled>>, owed' \subseteq owed,
         p \in Passing, p # "nesting", Top.pc \in Passing, s = Top.stale,
         DOMAIN w = {m \in Nat \ {0} : m + d \in DOMAIN Top.work},
         \A m \in DOMAIN w : w[m] = Top.work[m + d],
         \A tm \in Timers : left'[tm] = left[tm] \/ \A m \in DOMAIN w : w[m][1] # tm,
         \A i \in DOMAIN stack : i # 1 => left' = left \/ stack[i].stale,
         d = 1 => \A g \in owed' : ~(Top.work[1][1] = g /\ SlotReady(g, Top.work[1][2]))
  PROVE  ReportedTimersAreDue' /\ OwedTriggersAreInWork'
<1>1. /\ Len(stack) \in Nat \ {0} /\ DOMAIN stack = 1 .. Len(stack) /\ 1 \in DOMAIN stack
      /\ Top = stack[1] /\ Top \in Frames
  BY TopFacts DEF Turns, WaitingInv
<1>2. /\ DOMAIN stack' = DOMAIN stack
      /\ stack'[1].pc = p /\ stack'[1].work = w /\ stack'[1].stale = s
      /\ \A i \in DOMAIN stack : i # 1 => stack'[i] = stack[i]
  BY DEF Turns
<1>3. ASSUME NEW i \in DOMAIN stack', stack'[i].pc \in Passing, ~stack'[i].stale,
             NEW m \in DOMAIN stack'[i].work, NEW e \in Timers,
             e = stack'[i].work[m][1], SlotReady(e, stack'[i].work[m][2])
      PROVE  left'[e] = 0 \/ e \in rescheduled'
  <2>1. CASE i = 1
    <3>1. w[m][1] = e /\ m + d \in DOMAIN Top.work /\ w[m] = Top.work[m + d] /\ m \in DOMAIN w
      BY <1>2, <1>3, <2>1
    <3>2. DueOrReset(1)
      BY <1>1, <1>2, <1>3, <2>1 DEF WaitingInv, ReportedTimersAreDue
    <3>3. left[e] = 0 \/ e \in rescheduled
      BY <1>1, <1>2, <1>3, <2>1, <3>1, <3>2 DEF DueOrReset
    <3>4. QED
      BY <1>3, <3>1, <3>3
  <2>2. CASE i # 1
    <3>1. stack'[i] = stack[i] /\ left' = left
      BY <1>2, <1>3, <2>2
    <3>2. DueOrReset(i)
      BY <1>2, <1>3, <3>1 DEF WaitingInv, ReportedTimersAreDue
    <3>3. QED
      BY <1>3, <3>1, <3>2 DEF DueOrReset
  <2>3. QED
    BY <2>1, <2>2
<1>4. ReportedTimersAreDue'
  BY <1>3 DEF ReportedTimersAreDue, DueOrReset, SlotReady
<1>5. OwedTriggersAreInWork'
  <2>1. SUFFICES ASSUME NEW g \in owed'
                 PROVE  \E i \in DOMAIN stack' : OwedBy(i, g)'
    BY DEF OwedTriggersAreInWork
  <2>2. PICK j \in DOMAIN stack : OwedBy(j, g)
    BY <2>1 DEF WaitingInv, OwedTriggersAreInWork
  <2>3. CASE j # 1
    <3>1. OwedBy(j, g)'
      BY <1>2, <2>2, <2>3 DEF OwedBy, SlotReady
    <3>2. QED
      BY <1>2, <3>1
  <2>4. CASE j = 1
    <3>1. PICK m \in DOMAIN Top.work : Top.work[m][1] = g /\ SlotReady(g, Top.work[m][2])
      BY <1>1, <2>2, <2>4 DEF OwedBy
    <3>2. Top.work \in Seq(Entities \X Nat)
      BY <1>1 DEF Frames
    <3>3. m \in Nat \ {0}
      BY <3>1, <3>2
    <3>4. d = 1 => m # 1
      BY <2>1, <3>1
    <3>5. m - d \in DOMAIN w /\ (m - d) + d = m
      BY <3>1, <3>3, <3>4
    <3>6. w[m - d] = Top.work[m]
      BY <3>5
    <3>7. stack'[1].work[m - d][1] = g /\ SlotReady(g, stack'[1].work[m - d][2])
      BY <1>2, <3>1, <3>6
    <3>8. stack'[1].pc \in Passing /\ ~stack'[1].stale /\ m - d \in DOMAIN stack'[1].work
      BY <1>1, <1>2, <2>2, <2>4, <3>5 DEF OwedBy
    <3>9. OwedBy(1, g)'
      BY <3>7, <3>8 DEF OwedBy, SlotReady
    <3>10. QED
      BY <1>1, <1>2, <3>9
  <2>5. QED
    BY <2>3, <2>4
<1>6. QED
  BY <1>4, <1>5

(* The loop of spinUntilComplete goes round.                                *)
LEMMA RoundSpeak ==
  ASSUME WaitingInv, NEW p \in {"check", "fill"}, NEW w, NEW s, NEW c, Turns(p, w, s, c),
         UNCHANGED <<slots, left, rescheduled, owed>>,
         Top.work = <<>>
  PROVE  ReportedTimersAreDue' /\ OwedTriggersAreInWork'
<1>1. Len(stack) \in Nat \ {0} /\ DOMAIN stack = 1 .. Len(stack) /\ Top = stack[1]
  BY TopFacts DEF Turns, WaitingInv
<1>2. /\ DOMAIN stack' = DOMAIN stack /\ stack'[1].pc = p
      /\ \A i \in DOMAIN stack : i # 1 => stack'[i] = stack[i]
  BY DEF Turns
<1>3. ReportedTimersAreDue'
  <2>1. ASSUME NEW i \in DOMAIN stack', stack'[i].pc \in Passing, ~stack'[i].stale
        PROVE  i # 1 /\ stack'[i] = stack[i] /\ DueOrReset(i)
    BY <1>2, <2>1 DEF Passing, WaitingInv, ReportedTimersAreDue
  <2>2. QED
    BY <2>1 DEF ReportedTimersAreDue, DueOrReset, SlotReady
<1>4. OwedTriggersAreInWork'
  <2>1. SUFFICES ASSUME NEW g \in owed'
                 PROVE  \E i \in DOMAIN stack' : OwedBy(i, g)'
    BY DEF OwedTriggersAreInWork
  <2>2. PICK j \in DOMAIN stack : OwedBy(j, g)
    BY <2>1 DEF WaitingInv, OwedTriggersAreInWork
  <2>3. j # 1
    BY <1>1, <2>2 DEF OwedBy
  <2>4. OwedBy(j, g)' /\ j \in DOMAIN stack'
    BY <1>2, <2>2, <2>3 DEF OwedBy, SlotReady
  <2>5. QED
    BY <2>4
<1>5. QED
  BY <1>3, <1>4

(* Around a wait the other passes are stale: those that go on say nothing,  *)
(* and what the wait reports is in the work of the one that goes on.        *)
LEMMA ReportSpeaks ==
  ASSUME WaitingInv, stack # <<>>, Top.pc = "wait", NEW ready \in SUBSET InSlots,
         \A e \in ready : ReadyNow(e), Report(ready),
         \/ Turns("take", Top.work, Top.stale, Top.cb)
         \/ owed' = {} /\ (Pops \/ Turns("check", <<>>, FALSE, Top.cb))
  PROVE  ReportedTimersAreDue' /\ OwedTriggersAreInWork'
<1>1. /\ Len(stack) \in Nat \ {0} /\ DOMAIN stack = 1 .. Len(stack) /\ 1 \in DOMAIN stack
      /\ Top = stack[1]
  BY TopFacts DEF WaitingInv
<1>2. \A i \in DOMAIN stack : i # 1 => stack[i].stale
  BY OnlyTopWaits DEF WaitingInv
<1>3. owed = {} /\ ~Top.stale /\ Placed(slots, Top.work) /\ Complete(slots, Top.work)
  BY <1>1 DEF WaitingInv, WaitsOnItsWork
<1>4. /\ slots' = [k \in Kinds |->
                    [i \in DOMAIN slots[k] |->
                      IF slots[k][i] \in ready THEN slots[k][i] ELSE Null]]
      /\ left' = left
  BY DEF Report
<1>5. CASE Turns("take", Top.work, Top.stale, Top.cb)
  <2>1. /\ DOMAIN stack' = DOMAIN stack /\ stack'[1].work = Top.work /\ stack'[1].pc = "take"
        /\ stack'[1].stale = Top.stale
        /\ \A i \in DOMAIN stack : i # 1 => stack'[i] = stack[i]
    BY <1>5 DEF Turns
  <2>2. \A i \in DOMAIN stack' : ~stack'[i].stale => i = 1
    BY <1>2, <2>1
  <2>3. ASSUME NEW m \in DOMAIN Top.work, NEW e \in Timers, e = Top.work[m][1],
               Top.work[m][2] \in DOMAIN slots'[KindOf(e)],
               slots'[KindOf(e)][Top.work[m][2]] # Null
        PROVE  left'[e] = 0
    <3>1. KindOf(e) \in Kinds
      BY KindFacts
    <3>2. Top.work[m][2] \in DOMAIN slots[KindOf(e)] /\ slots[KindOf(e)][Top.work[m][2]] = e
      BY <1>3, <2>3 DEF Placed
    <3>3. e \in ready
      BY <1>4, <2>3, <3>1, <3>2
    <3>4. e \notin triggered /\ e \notin Clients
      BY <2>3, KindFacts DEF WaitingInv, TypeOK
    <3>5. QED
      BY <1>4, <3>3, <3>4 DEF ReadyNow
  <2>4. ReportedTimersAreDue'
    BY <2>1, <2>2, <2>3 DEF ReportedTimersAreDue, DueOrReset, SlotReady
  <2>5. ASSUME NEW g \in owed'
        PROVE  \E m \in DOMAIN Top.work :
                 /\ Top.work[m][1] = g
                 /\ Top.work[m][2] \in DOMAIN slots'[KindOf(g)]
                 /\ slots'[KindOf(g)][Top.work[m][2]] # Null
    <3>1. g \in ready /\ g \in Guards
      BY <1>3, <2>5 DEF Report
    <3>2. PICK k \in Kinds : \E i \in DOMAIN slots[k] : slots[k][i] = g
      BY <3>1 DEF InSlots
    <3>3. PICK i \in DOMAIN slots[k] : slots[k][i] = g
      BY <3>2
    <3>4. PICK m \in DOMAIN Top.work : Top.work[m] = <<slots[k][i], i>> /\ KindOf(slots[k][i]) = k
      BY <1>3, <3>2, <3>3 DEF Complete
    <3>5. Top.work[m][1] = g /\ Top.work[m][2] = i /\ KindOf(g) = k
      BY <3>3, <3>4
    <3>6. i \in DOMAIN slots'[k] /\ slots'[k][i] = g
      BY <1>4, <3>1, <3>2, <3>3
    <3>7. g # Null
      BY <3>1, KindFacts DEF Entities
    <3>8. QED
      BY <3>5, <3>6, <3>7
  <2>6. stack'[1].pc \in Passing /\ ~stack'[1].stale
    BY <1>3, <2>1 DEF Passing
  <2>7. OwedTriggersAreInWork'
    BY <1>1, <2>1, <2>5, <2>6 DEF OwedTriggersAreInWork, OwedBy, SlotReady
  <2>8. QED
    BY <2>4, <2>7
<1>6. CASE owed' = {} /\ Pops
  <2>1. \A i \in DOMAIN stack' : stack'[i].stale
    BY <1>1, <1>2, <1>6 DEF Pops
  <2>2. QED
    BY <1>6, <2>1 DEF ReportedTimersAreDue, OwedTriggersAreInWork
<1>7. CASE owed' = {} /\ Turns("check", <<>>, FALSE, Top.cb)
  <2>1. \A i \in DOMAIN stack' : stack'[i].pc \in Passing => stack'[i].stale
    BY <1>1, <1>2, <1>7 DEF Turns, Passing
  <2>2. QED
    BY <1>7, <2>1 DEF ReportedTimersAreDue, OwedTriggersAreInWork
<1>8. QED
  BY <1>5, <1>6, <1>7

-------------------------------------------------------------------------------
(* The steps                                                               *)

StackInv ==
  StackTyped /\ CallsNest /\ WaitsOnItsWork /\ ReportedTimersAreDue /\ OwedTriggersAreInWork

LEMMA StartKeeps ==
  ASSUME WaitingInv, StartSpin
  PROVE  StackInv'
<1>1. /\ stack = <<>> /\ stack' \in Seq(Frames) /\ Len(stack') = 1 /\ DOMAIN stack' = {1}
      /\ stack'[1].pc \in {"check", "fill"} /\ stack'[1].work = <<>>
  BY StartTurns
<1>2. owed' = {}
  BY <1>1 DEF StartSpin, history, WaitingInv, OwedTriggersAreInWork
<1>3. StackTyped'
  BY <1>1 DEF StackTyped
<1>4. CallsNest'
  BY <1>1 DEF CallsNest, Once
<1>5. WaitsOnItsWork'
  BY <1>1 DEF WaitsOnItsWork
<1>6. ReportedTimersAreDue' /\ OwedTriggersAreInWork'
  BY <1>1, <1>2 DEF ReportedTimersAreDue, OwedTriggersAreInWork, Passing
<1>7. QED
  BY <1>3, <1>4, <1>5, <1>6 DEF StackInv

LEMMA NestKeeps ==
  ASSUME WaitingInv, Nest
  PROVE  StackInv'
<1>1. /\ stack # <<>> /\ Top.pc = "callback"
      /\ stack' \in Seq(Frames) /\ DOMAIN stack' = 1 .. Len(stack) + 1
      /\ stack'[1].pc \in {"check", "fill"} /\ stack'[1].work = <<>>
      /\ \A i \in DOMAIN stack' : i # 1 =>
           /\ i - 1 \in DOMAIN stack
           /\ stack'[i].pc = IF i = 2 THEN "nesting" ELSE stack[i - 1].pc
           /\ stack'[i].work = stack[i - 1].work /\ stack'[i].stale = stack[i - 1].stale
  BY NestTurns DEF WaitingInv
<1>2. Len(stack) \in Nat \ {0} /\ DOMAIN stack = 1 .. Len(stack) /\ Top = stack[1]
  BY <1>1, TopFacts DEF WaitingInv
<1>3. \A i \in DOMAIN stack : stack[i].pc = "nesting" <=> i > 1
  BY DEF WaitingInv, TypeOK
<1>4. \A i \in DOMAIN stack' : i \in Nat \ {0} /\ (i # 1 => stack'[i].pc = "nesting")
  BY <1>1, <1>2, <1>3
<1>5. StackTyped'
  BY <1>1, <1>4 DEF StackTyped
<1>6. \A i \in DOMAIN stack : stack[i].pc \notin {"check", "fill"} /\ stack[i].pc \in Passing
  BY <1>1, <1>2, <1>3 DEF Passing
<1>7. CallsNest'
  <2>1. ASSUME NEW i \in DOMAIN stack', i # 1
        PROVE  /\ stack'[i].pc \notin {"check", "fill"} /\ Once(stack'[i].work)
               /\ \A j \in DOMAIN stack' : j > i => stack'[j].stale
    <3>1. i - 1 \in DOMAIN stack /\ Once(stack'[i].work)
      BY <1>1, <2>1 DEF WaitingInv, CallsNest
    <3>2. ASSUME NEW j \in DOMAIN stack', j > i
          PROVE  stack'[j].stale
      <4>1. j - 1 \in DOMAIN stack /\ j - 1 > i - 1 /\ stack'[j].stale = stack[j - 1].stale
        BY <1>1, <1>4, <2>1, <3>2
      <4>2. QED
        BY <1>6, <3>1, <4>1 DEF WaitingInv, CallsNest
    <3>3. QED
      BY <1>4, <2>1, <3>1, <3>2
  <2>2. Once(<<>>)
    BY DEF Once
  <2>3. QED
    BY <1>1, <2>1, <2>2 DEF CallsNest, Once
<1>8. WaitsOnItsWork'
  BY <1>1, <1>5, NobodyWaits
<1>9. UNCHANGED <<slots, left, rescheduled, owed>>
  BY DEF Nest, world, history
<1>10. ReportedTimersAreDue'
  <2>1. \A i \in DOMAIN stack' : stack'[i].pc \in Passing /\ ~stack'[i].stale =>
          /\ i # 1 /\ DueOrReset(i - 1)
          /\ stack'[i].work = stack[i - 1].work
    BY <1>1, <1>6 DEF WaitingInv, ReportedTimersAreDue, Passing
  <2>2. QED
    BY <1>9, <2>1 DEF ReportedTimersAreDue, DueOrReset, SlotReady
<1>11. OwedTriggersAreInWork'
  <2>1. SUFFICES ASSUME NEW g \in owed'
                 PROVE  \E i \in DOMAIN stack' : OwedBy(i, g)'
    BY DEF OwedTriggersAreInWork
  <2>2. PICK j \in DOMAIN stack : OwedBy(j, g)
    BY <1>9, <2>1 DEF WaitingInv, OwedTriggersAreInWork
  <2>3. j + 1 \in DOMAIN stack' /\ j + 1 # 1 /\ (j + 1) - 1 = j
    BY <1>1, <1>2
  <2>4. stack'[j + 1].work = stack[j].work /\ stack'[j + 1].stale = stack[j].stale
    BY <1>1, <2>3
  <2>5. stack'[j + 1].pc \in Passing
    BY <1>4, <2>3 DEF Passing
  <2>6. OwedBy(j + 1, g)'
    BY <1>9, <2>2, <2>4, <2>5 DEF OwedBy, SlotReady
  <2>7. QED
    BY <2>3, <2>6
<1>12. QED
  BY <1>5, <1>7, <1>8, <1>10, <1>11 DEF StackInv

LEMMA FillKeeps ==
  ASSUME WaitingInv, Fill
  PROVE  StackInv'
<1>1. /\ stack # <<>> /\ Top.pc = "fill"
      /\ stack' \in Seq(Frames) /\ DOMAIN stack' = DOMAIN stack /\ Len(stack') = Len(stack)
      /\ stack'[1].pc = "wait" /\ stack'[1].work = Filled.work /\ ~stack'[1].stale
      /\ \A i \in DOMAIN stack : i # 1 => stack'[i].pc = stack[i].pc /\ stack'[i].stale
                                          /\ stack'[i].work = stack[i].work
  BY FillTurns DEF WaitingInv
<1>2. Len(stack) \in Nat \ {0} /\ DOMAIN stack = 1 .. Len(stack) /\ Top = stack[1]
  BY <1>1, TopFacts DEF WaitingInv
<1>3. \A i \in DOMAIN stack : stack[i].pc = "nesting" <=> i > 1
  BY DEF WaitingInv, TypeOK
<1>4. StackTyped'
  BY <1>1, <1>2, <1>3 DEF StackTyped
<1>5. /\ Once(Filled.work) /\ Placed(Filled.slots, Filled.work)
      /\ Complete(Filled.slots, Filled.work)
  BY FilledAgrees DEF Agree
<1>6. CallsNest'
  <2>1. \A i \in DOMAIN stack' : i # 1 => stack'[i].pc = "nesting" /\ Once(stack'[i].work)
                                          /\ stack'[i].stale
    BY <1>1, <1>2, <1>3 DEF WaitingInv, CallsNest
  <2>2. \A i, j \in DOMAIN stack' : j > i => j # 1
    BY <1>1, <1>2
  <2>3. \A i \in DOMAIN stack' :
          /\ stack'[i].pc \notin {"check", "fill"} /\ Once(stack'[i].work)
          /\ \A j \in DOMAIN stack' : j > i => stack'[j].stale
    BY <1>1, <1>5, <2>1, <2>2
  <2>4. QED
    BY <2>3 DEF CallsNest, Once
<1>7. owed' = {}
  <2>1. CASE Len(stack) > 1
    BY <2>1 DEF Fill
  <2>2. CASE ~(Len(stack) > 1)
    <3>1. owed' = owed /\ \A i \in DOMAIN stack : i = 1
      BY <1>2, <2>2 DEF Fill
    <3>2. QED
      BY <1>1, <1>2, <3>1 DEF WaitingInv, OwedTriggersAreInWork, OwedBy, Passing
  <2>3. QED
    BY <2>1, <2>2
<1>8. slots' = Filled.slots
  BY DEF Fill
<1>9. WaitsOnItsWork'
  <2>1. \A i \in DOMAIN stack' : stack'[i].pc = "wait" => i = 1
    BY <1>1, <1>2, <1>3
  <2>2. QED
    BY <1>1, <1>5, <1>7, <1>8, <2>1 DEF WaitsOnItsWork
<1>10. ReportedTimersAreDue' /\ OwedTriggersAreInWork'
  BY <1>1, <1>7 DEF ReportedTimersAreDue, OwedTriggersAreInWork, Passing
<1>11. QED
  BY <1>4, <1>6, <1>9, <1>10 DEF StackInv

LEMMA CheckKeeps ==
  ASSUME WaitingInv, Check
  PROVE  StackInv'
<1>1. stack # <<>> /\ Top.pc = "check" /\ UNCHANGED <<slots, left, rescheduled, owed>>
  BY DEF Check, world, history
<1>2. 1 \in DOMAIN stack /\ Top = stack[1]
  BY <1>1, TopFacts DEF WaitingInv
<1>3. Top.work = <<>> /\ Once(Top.work)
  BY <1>1, <1>2 DEF WaitingInv, CallsNest
<1>4. CASE Pops
  <2>1. StackTyped' /\ CallsNest'
    BY <1>4, PopsNest DEF WaitingInv
  <2>2. ReportedTimersAreDue' /\ OwedTriggersAreInWork'
    BY <1>1, <1>3, <1>4, PopsSpeak
  <2>3. stack' # <<>> => stack'[1].pc # "wait"
    BY <1>4 DEF Pops
  <2>4. QED
    BY <2>1, <2>2, <2>3, NobodyWaits DEF StackInv
<1>5. CASE Turns("fill", Top.work, Top.stale, Top.cb)
  <2>1. StackTyped' /\ CallsNest'
    BY <1>3, <1>5, TurnsNest DEF WaitingInv
  <2>2. ReportedTimersAreDue' /\ OwedTriggersAreInWork'
    BY <1>1, <1>3, <1>5, RoundSpeak
  <2>3. stack'[1].pc # "wait"
    BY <1>5 DEF Turns
  <2>4. QED
    BY <2>1, <2>2, <2>3, NobodyWaits DEF StackInv
<1>6. QED
  BY <1>4, <1>5, CheckTurns DEF WaitingInv

LEMMA EndPassKeeps ==
  ASSUME WaitingInv, EndPass
  PROVE  StackInv'
<1>1. /\ stack # <<>> /\ Top.pc = "take" /\ Top.work = <<>>
      /\ UNCHANGED <<slots, left, rescheduled, owed>>
  BY DEF EndPass, world, history
<1>2. Top \in Frames
  BY <1>1, TopFacts DEF WaitingInv
<1>3. AfterPass(Top)
  BY DEF EndPass
<1>4. Once(<<>>)
  BY DEF Once
<1>5. CASE Pops
  <2>1. StackTyped' /\ CallsNest'
    BY <1>5, PopsNest DEF WaitingInv
  <2>2. ReportedTimersAreDue' /\ OwedTriggersAreInWork'
    BY <1>1, <1>5, PopsSpeak
  <2>3. stack' # <<>> => stack'[1].pc # "wait"
    BY <1>5 DEF Pops
  <2>4. QED
    BY <2>1, <2>2, <2>3, NobodyWaits DEF StackInv
<1>6. CASE Turns("check", <<>>, FALSE, Top.cb)
  <2>1. StackTyped' /\ CallsNest'
    BY <1>4, <1>6, TurnsNest DEF WaitingInv
  <2>2. ReportedTimersAreDue' /\ OwedTriggersAreInWork'
    BY <1>1, <1>6, RoundSpeak
  <2>3. stack'[1].pc # "wait"
    BY <1>6 DEF Turns
  <2>4. QED
    BY <2>1, <2>2, <2>3, NobodyWaits DEF StackInv
<1>7. QED
  BY <1>1, <1>2, <1>3, <1>5, <1>6, AfterPassTurns DEF WaitingInv

LEMMA RaisesKeeps ==
  ASSUME WaitingInv, CallbackRaises \/ \E e \in Entities : TakeRaises(e)
  PROVE  StackInv'
<1>1. stack # <<>> /\ Pop /\ UNCHANGED <<slots, left, rescheduled>>
  BY DEF CallbackRaises, TakeRaises, Working, Abandon, world
<1>2. Pops
  BY <1>1, PopsTo DEF WaitingInv
<1>3. owed' \subseteq owed /\ \A g \in owed' : \A m \in DOMAIN Top.work : Top.work[m][1] # g
  BY DEF CallbackRaises, TakeRaises, Abandon
<1>4. StackTyped' /\ CallsNest'
  BY <1>2, PopsNest DEF WaitingInv
<1>5. ReportedTimersAreDue' /\ OwedTriggersAreInWork'
  BY <1>1, <1>2, <1>3, PopsSpeak
<1>6. stack' # <<>> => stack'[1].pc # "wait"
  BY <1>2 DEF Pops
<1>7. QED
  BY <1>4, <1>5, <1>6, NobodyWaits DEF StackInv

(* A wait ends, one way or another.                                         *)
LEMMA WaitEndKeeps ==
  ASSUME WaitingInv, stack # <<>>, Top.pc = "wait", NEW ready \in SUBSET InSlots,
         \A e \in ready : ReadyNow(e), Report(ready),
         \/ SetTop(Looking)
         \/ AfterPass(Looking) /\ (~ok \/ ready = {})
  PROVE  StackInv'
<1>1. 1 \in DOMAIN stack /\ Top = stack[1]
  BY TopFacts DEF WaitingInv
<1>2. owed = {} /\ Once(Top.work)
  BY <1>1 DEF WaitingInv, WaitsOnItsWork, CallsNest
<1>3. /\ Looking \in Frames /\ Looking.pc = "take" /\ Looking.work = Top.work
      /\ Looking.stale = Top.stale /\ Looking.cb = Top.cb
  BY LookingFrame DEF WaitingInv
<1>4. Once(<<>>)
  BY DEF Once
<1>5. CASE SetTop(Looking)
  <2>1. Turns("take", Top.work, Top.stale, Top.cb)
    BY <1>5, Looks DEF WaitingInv
  <2>2. StackTyped' /\ CallsNest'
    BY <1>2, <2>1, TurnsNest DEF WaitingInv
  <2>3. ReportedTimersAreDue' /\ OwedTriggersAreInWork'
    BY <2>1, ReportSpeaks
  <2>4. stack'[1].pc # "wait"
    BY <2>1 DEF Turns
  <2>5. QED
    BY <2>2, <2>3, <2>4, NobodyWaits DEF StackInv
<1>6. CASE AfterPass(Looking) /\ (~ok \/ ready = {})
  <2>1. Pops \/ Turns("check", <<>>, FALSE, Top.cb)
    BY <1>3, <1>6, AfterPassTurns DEF WaitingInv
  <2>2. owed' = {}
    BY <1>2, <1>6 DEF Report
  <2>3. ReportedTimersAreDue' /\ OwedTriggersAreInWork'
    BY <2>1, <2>2, ReportSpeaks
  <2>4. StackTyped' /\ CallsNest'
    <3>1. CASE Pops
      BY <3>1, PopsNest DEF WaitingInv
    <3>2. CASE Turns("check", <<>>, FALSE, Top.cb)
      BY <1>4, <3>2, TurnsNest DEF WaitingInv
    <3>3. QED
      BY <2>1, <3>1, <3>2
  <2>5. stack' # <<>> => stack'[1].pc # "wait"
    BY <2>1 DEF Pops, Turns
  <2>6. QED
    BY <2>3, <2>4, <2>5, NobodyWaits DEF StackInv
<1>7. QED
  BY <1>5, <1>6

LEMMA WaitsKeep ==
  ASSUME WaitingInv, WaitReady \/ WaitTimesOut \/ Interrupted
  PROVE  StackInv'
<1>1. CASE WaitReady
  <2> DEFINE ready == {e \in InSlots : ReadyNow(e)}
  <2>1. ready \in SUBSET InSlots /\ \A e \in ready : ReadyNow(e)
    OBVIOUS
  <2>2. stack # <<>> /\ Top.pc = "wait" /\ Report(ready)
    BY <1>1 DEF WaitReady
  <2>3. SetTop(Looking) \/ (AfterPass(Looking) /\ ~ok)
    BY <1>1 DEF WaitReady
  <2> HIDE DEF ready
  <2>4. QED
    BY <2>1, <2>2, <2>3, WaitEndKeeps
<1>2. CASE WaitTimesOut \/ Interrupted
  <2>1. {} \in SUBSET InSlots /\ \A e \in {} : ReadyNow(e)
    OBVIOUS
  <2>2. /\ stack # <<>> /\ Top.pc = "wait" /\ Report({})
        /\ SetTop(Looking) \/ AfterPass(Looking)
    BY <1>2 DEF WaitTimesOut, Interrupted
  <2>3. QED
    BY <2>1, <2>2, WaitEndKeeps
<1>3. QED
  BY <1>1, <1>2

(* A pass goes to its next entity.                                          *)
LEMMA TailFacts ==
  ASSUME WaitingInv, NEW e \in Entities, Working(e)
  PROVE  /\ stack # <<>> /\ Top.pc = "take" /\ Top.work # <<>>
         /\ 1 \in DOMAIN Top.work /\ Head(Top.work) = Top.work[1] /\ Top.work[1][1] = e
         /\ DOMAIN Tail(Top.work) = {m \in Nat \ {0} : m + 1 \in DOMAIN Top.work}
         /\ \A m \in DOMAIN Tail(Top.work) : Tail(Top.work)[m] = Top.work[m + 1]
         /\ \A m \in DOMAIN Tail(Top.work) : Tail(Top.work)[m][1] # e
         /\ Once(Tail(Top.work))
<1>1. stack # <<>> /\ Top.pc = "take" /\ Top.work # <<>> /\ Head(Top.work)[1] = e
  BY DEF Working
<1>2. 1 \in DOMAIN stack /\ Top = stack[1] /\ Top \in Frames
  BY <1>1, TopFacts DEF WaitingInv
<1> DEFINE w == Top.work
<1>3. w \in Seq(Entities \X Nat) /\ Once(w)
  BY <1>2 DEF Frames, WaitingInv, CallsNest
<1>4. w # <<>>
  BY <1>1
<1> HIDE DEF w
<1>5. /\ Len(w) \in Nat \ {0} /\ DOMAIN w = 1 .. Len(w) /\ Head(w) = w[1]
  BY <1>3, <1>4
<1>6. /\ Tail(w) \in Seq(Entities \X Nat) /\ Len(Tail(w)) = Len(w) - 1
      /\ \A m \in 1 .. Len(Tail(w)) : Tail(w)[m] = w[m + 1]
  BY <1>3, <1>4, HeadTailProperties
<1>7. DOMAIN Tail(w) = 1 .. Len(w) - 1
  BY <1>6, LenProperties
<1>8. /\ DOMAIN Tail(w) = {m \in Nat \ {0} : m + 1 \in DOMAIN w}
      /\ \A m \in DOMAIN Tail(w) : Tail(w)[m] = w[m + 1]
  BY <1>5, <1>6, <1>7
<1>9. \A m \in DOMAIN Tail(w) : m + 1 \in DOMAIN w /\ m + 1 # 1
  BY <1>5, <1>7
<1>10. \A m \in DOMAIN Tail(w) : Tail(w)[m][1] # w[1][1]
  BY <1>3, <1>5, <1>8, <1>9 DEF Once
<1>11. Once(Tail(w))
  <2>1. \A m, n \in DOMAIN Tail(w) : m + 1 = n + 1 => m = n
    BY <1>7
  <2>2. QED
    BY <1>3, <1>8, <1>9, <2>1 DEF Once
<1>12. QED
  BY <1>1, <1>5, <1>8, <1>10, <1>11 DEF w

LEMMA TakesKeep ==
  ASSUME WaitingInv, NEW e \in Entities, Working(e), NEW p, NEW c,
         \/ p = "take" /\ SetTop(Rest)
         \/ p = "callback" /\ SetTop([Rest EXCEPT !.pc = "callback", !.cb = e]),
         UNCHANGED <<slots, rescheduled>>, owed' \subseteq owed,
         \A tm \in Timers : left'[tm] = left[tm] \/ tm = e,
         \A g \in owed' : ~(g = e /\ SlotReady(g, Top.work[1][2]))
  PROVE  StackInv'
<1>1. /\ stack # <<>> /\ Top.pc = "take" /\ Top.work # <<>>
      /\ 1 \in DOMAIN Top.work /\ Top.work[1][1] = e
      /\ DOMAIN Tail(Top.work) = {m \in Nat \ {0} : m + 1 \in DOMAIN Top.work}
      /\ \A m \in DOMAIN Tail(Top.work) : Tail(Top.work)[m] = Top.work[m + 1]
      /\ \A m \in DOMAIN Tail(Top.work) : Tail(Top.work)[m][1] # e
      /\ Once(Tail(Top.work))
  BY TailFacts
<1>2. PICK cb : Turns(p, Tail(Top.work), Top.stale, cb)
  BY TakeTurns DEF WaitingInv
<1>3. p \in {"take", "callback"}
  OBVIOUS
<1>4. StackTyped' /\ CallsNest'
  BY <1>1, <1>2, <1>3, TurnsNest DEF WaitingInv
<1>5. \A i \in DOMAIN stack : i # 1 => stack[i].stale
  BY <1>1, OnlyTopWaits DEF WaitingInv
<1>6. ReportedTimersAreDue' /\ OwedTriggersAreInWork'
  <2> DEFINE w == Tail(Top.work)
  <2>1. /\ p \in Passing /\ p # "nesting" /\ Top.pc \in Passing
        /\ \A g \in owed' : ~(Top.work[1][1] = g /\ SlotReady(g, Top.work[1][2]))
        /\ \A tm \in Timers : left'[tm] = left[tm] \/ \A m \in DOMAIN w : w[m][1] # tm
        /\ 1 \in {0, 1}
    BY <1>1, <1>3 DEF Passing
  <2>2. Turns(p, w, Top.stale, cb)
    BY <1>2
  <2>3. /\ DOMAIN w = {m \in Nat \ {0} : m + 1 \in DOMAIN Top.work}
        /\ \A m \in DOMAIN w : w[m] = Top.work[m + 1]
    BY <1>1
  <2> HIDE DEF w
  <2>4. QED
    BY <1>5, <2>1, <2>2, <2>3, TurnsSpeak
<1>7. stack'[1].pc # "wait"
  BY <1>2, <1>3 DEF Turns
<1>8. QED
  BY <1>4, <1>6, <1>7, NobodyWaits DEF StackInv

LEMMA SkipKeeps ==
  ASSUME WaitingInv, NEW e \in Entities, Skip(e)
  PROVE  StackInv'
<1>1. /\ Working(e) /\ SetTop(Rest) /\ UNCHANGED <<slots, rescheduled, owed, left>>
      /\ SlotReady(e, Head(Top.work)[2]) => e \in canceled \cup Clients
  BY DEF Skip, world, history
<1>2. Head(Top.work) = Top.work[1]
  BY <1>1, TailFacts
<1>3. \A g \in owed' : ~(g = e /\ SlotReady(g, Top.work[1][2]))
  <2>1. \A g \in owed : g \notin canceled \cup Clients
    BY KindFacts DEF WaitingInv, TypeOK
  <2>2. QED
    BY <1>1, <1>2, <2>1
<1>4. QED
  BY <1>1, <1>3, TakesKeep

LEMMA TakeTimerKeeps ==
  ASSUME WaitingInv, NEW tm \in Timers, TakeTimer(tm)
  PROVE  StackInv'
<1>1. /\ Working(tm) /\ SetTop([Rest EXCEPT !.pc = "callback", !.cb = tm])
      /\ UNCHANGED <<slots, rescheduled, owed>>
      /\ \E n \in NextDue(tm) : left' = [left EXCEPT ![tm] = n]
  BY DEF TakeTimer, history
<1>2. \A t \in Timers : left'[t] = left[t] \/ t = tm
  BY <1>1 DEF WaitingInv, TypeOK
<1>3. tm \in Entities /\ \A g \in owed' : g # tm
  BY <1>1, KindFacts DEF WaitingInv, TypeOK, Entities
<1>4. QED
  BY <1>1, <1>2, <1>3, TakesKeep

LEMMA TakeGuardKeeps ==
  ASSUME WaitingInv, NEW g \in Guards, TakeGuard(g)
  PROVE  StackInv'
<1>1. /\ Working(g) /\ SetTop([Rest EXCEPT !.pc = "callback", !.cb = g])
      /\ UNCHANGED <<slots, rescheduled, left>> /\ owed' = owed \ {g}
  BY DEF TakeGuard, world
<1>2. g \in Entities
  BY DEF Entities
<1>3. QED
  BY <1>1, <1>2, TakesKeep

LEMMA TakeResponseKeeps ==
  ASSUME WaitingInv, NEW c \in Clients, TakeResponse(c)
  PROVE  StackInv'
<1>1. /\ Working(c) /\ SetTop([Rest EXCEPT !.pc = "callback", !.cb = c])
      /\ UNCHANGED <<slots, rescheduled, left, owed>>
  BY DEF TakeResponse, history
<1>2. c \in Entities /\ \A g \in owed' : g # c
  BY <1>1, KindFacts DEF WaitingInv, TypeOK, Entities
<1>3. QED
  BY <1>1, <1>2, TakesKeep

LEMMA EndCallbackKeeps ==
  ASSUME WaitingInv, EndCallback
  PROVE  StackInv'
<1>1. /\ stack # <<>> /\ Top.pc \in {"callback", "after"} /\ SetTop(GoOn(Top))
      /\ UNCHANGED <<slots, rescheduled, left, owed>>
  BY DEF EndCallback, world, history
<1>2. 1 \in DOMAIN stack /\ Top = stack[1] /\ Top \in Frames
  BY <1>1, TopFacts DEF WaitingInv
<1>3. /\ GoOn(Top) \in Frames /\ GoOn(Top).pc = "take" /\ GoOn(Top).work = Top.work
      /\ GoOn(Top).stale = Top.stale /\ GoOn(Top).cb = Null
  BY <1>1, GoOnFrame DEF WaitingInv
<1>4. Turns(GoOn(Top).pc, GoOn(Top).work, GoOn(Top).stale, GoOn(Top).cb)
  BY <1>1, <1>3, TurnsTo DEF WaitingInv
<1> DEFINE w == Top.work
           st == Top.stale
<1>5. Turns("take", w, st, Null)
  BY <1>3, <1>4
<1>6. Once(w) /\ w \in Seq(Entities \X Nat)
  BY <1>2 DEF WaitingInv, CallsNest, Frames
<1>7. /\ DOMAIN w = {m \in Nat \ {0} : m + 0 \in DOMAIN Top.work}
      /\ \A m \in DOMAIN w : w[m] = Top.work[m + 0]
  BY <1>6
<1>8. Top.pc \notin {"check", "fill"} /\ Top.pc \in Passing
  BY <1>1 DEF Passing
<1>9. StackTyped' /\ CallsNest'
  BY <1>5, <1>6, <1>8, TurnsNest DEF WaitingInv
<1>10. ReportedTimersAreDue' /\ OwedTriggersAreInWork'
  <2>0. PICK d \in {0}, p \in {"take"}, c \in {Null} : TRUE
    OBVIOUS
  <2>1. /\ d \in {0, 1} /\ d # 1 /\ p \in Passing /\ p # "nesting" /\ st = Top.stale
        /\ owed' \subseteq owed
        /\ \A tm \in Timers : left'[tm] = left[tm] \/ \A m \in DOMAIN w : w[m][1] # tm
        /\ DOMAIN w = {m \in Nat \ {0} : m + d \in DOMAIN Top.work}
        /\ \A m \in DOMAIN w : w[m] = Top.work[m + d]
    BY <1>1, <1>7, <2>0 DEF Passing
  <2>2. Turns(p, w, st, c)
    BY <1>5, <2>0
  <2>3. \A i \in DOMAIN stack : i # 1 => stack[i].stale
    BY <1>1, <1>8, OnlyTopWaits DEF WaitingInv
  <2>4. /\ UNCHANGED <<slots, rescheduled>>
        /\ d = 1 => \A g \in owed' : ~(Top.work[1][1] = g /\ SlotReady(g, Top.work[1][2]))
        /\ \A i \in DOMAIN stack : i # 1 => left' = left \/ stack[i].stale
    BY <1>1, <2>1
  <2> HIDE DEF w, st
  <2>5. QED
    BY <1>8, <2>1, <2>2, <2>3, <2>4, TurnsSpeak, ZenonT(60)
<1>11. stack'[1].pc # "wait"
  BY <1>5 DEF Turns
<1>12. QED
  BY <1>9, <1>10, <1>11, NobodyWaits DEF StackInv

(* What others do, and time.                                                *)
LEMMA AsideKeeps ==
  ASSUME WaitingInv, Stays, UNCHANGED slots, owed' \subseteq owed,
         \A tm \in Timers : left[tm] = 0 \/ tm \in rescheduled
                              => left'[tm] = 0 \/ tm \in rescheduled'
  PROVE  StackInv'
<1>1. StackTyped' /\ CallsNest'
  BY StaysNest DEF WaitingInv
<1>2. QED
  BY <1>1, StaysSpeak DEF StackInv

LEMMA OthersKeep ==
  ASSUME WaitingInv,
         \/ \E tm \in Steered : Reset(tm) \/ Cancel(tm) \/ Destroy(tm)
         \/ \E g \in Guards : Trigger(g)
         \/ Arrive \/ Shutdown \/ UNCHANGED vars
  PROVE  StackInv'
<1>1. UNCHANGED <<stack, slots>> /\ owed' \subseteq owed
  BY DEF Reset, Cancel, Destroy, Trigger, Arrive, Shutdown, vars, history
<1>2. Stays
  BY <1>1 DEF Stays, WaitingInv, TypeOK
<1>3. \A tm \in Timers : left[tm] = 0 \/ tm \in rescheduled
                           => left'[tm] = 0 \/ tm \in rescheduled'
  <2>1. CASE \E tm \in Steered : Reset(tm)
    BY <2>1, WaitingAssumption DEF Reset, WaitingInv, TypeOK
  <2>2. CASE ~\E tm \in Steered : Reset(tm)
    BY <2>2 DEF Cancel, Destroy, Trigger, Arrive, Shutdown, vars, world, history
  <2>3. QED
    BY <2>1, <2>2
<1>4. QED
  BY <1>1, <1>2, <1>3, AsideKeeps

LEMMA TickKeeps ==
  ASSUME WaitingInv, Tick
  PROVE  StackInv'
<1>1. Stays /\ UNCHANGED slots /\ owed' = owed /\ rescheduled' = rescheduled
  BY TickStays DEF Tick, history, WaitingInv
<1>2. \A tm \in Timers : left[tm] = 0 => left'[tm] = 0
  <2>1. left' = [tm \in Timers |-> Less(left[tm], 0)]
    BY DEF Tick
  <2>2. Less(0, 0) = 0
    BY DEF Less
  <2>3. QED
    BY <2>1, <2>2
<1>3. QED
  BY <1>1, <1>2, AsideKeeps


-------------------------------------------------------------------------------
(* The invariant                                                           *)

DataTyped ==
  /\ left \in [Timers -> Nat]
  /\ canceled \subseteq Timers /\ gone \subseteq Timers /\ triggered \subseteq Guards
  /\ owed \subseteq Guards /\ rescheduled \subseteq Timers
  /\ {queued, done, ok} \subseteq BOOLEAN
  /\ slots \in [Kinds -> Seq(Entities \cup {Null})]

LEMMA FilledSlots == Filled.slots \in [Kinds -> Seq(Entities \cup {Null})]
<1>1. Filled.slots \in [Kinds -> Seq(Entities)]
  BY FilledAgrees DEF Agree
<1>2. \A s \in Seq(Entities) : s \in Seq(Entities \cup {Null})
  OBVIOUS
<1>3. QED
  BY <1>1, <1>2

LEMMA ReportTypes ==
  ASSUME DataTyped, NEW ready \in SUBSET InSlots, Report(ready)
  PROVE  DataTyped'
<1> DEFINE kept(s) == [i \in DOMAIN s |-> IF s[i] \in ready THEN s[i] ELSE Null]
<1>1. \A s \in Seq(Entities \cup {Null}) : kept(s) \in Seq(Entities \cup {Null})
  <2>1. SUFFICES ASSUME NEW s \in Seq(Entities \cup {Null})
                 PROVE  kept(s) \in Seq(Entities \cup {Null})
    OBVIOUS
  <2>2. Len(s) \in Nat /\ DOMAIN s = 1 .. Len(s)
    BY LenProperties
  <2>3. \A i \in DOMAIN s : s[i] \in Entities \cup {Null}
    OBVIOUS
  <2>4. QED
    BY <2>2, <2>3
<1>2. slots' = [k \in Kinds |-> kept(slots[k])]
  BY DEF Report
<1> HIDE DEF kept
<1>3. slots' \in [Kinds -> Seq(Entities \cup {Null})]
  BY <1>1, <1>2 DEF DataTyped
<1>4. owed' \subseteq Guards /\ rescheduled' = {} /\ triggered' \subseteq Guards
  BY DEF Report, DataTyped
<1>5. QED
  BY <1>3, <1>4 DEF Report, DataTyped

LEMMA DataStep ==
  ASSUME DataTyped, [Next]_vars
  PROVE  DataTyped'
<1>1. CASE StartSpin
  BY <1>1 DEF StartSpin, world, history, DataTyped
<1>2. CASE Nest \/ Check \/ EndCallback \/ EndPass \/ \E e \in Entities : Skip(e)
  BY <1>2 DEF Nest, Check, EndCallback, EndPass, Skip, world, history, DataTyped
<1>3. CASE CallbackRaises \/ \E e \in Entities : TakeRaises(e)
  BY <1>3 DEF CallbackRaises, TakeRaises, Abandon, world, DataTyped
<1>4. CASE Fill
  <2>1. slots' = Filled.slots /\ owed' \subseteq owed /\ UNCHANGED <<world, done, rescheduled>>
    BY <1>4 DEF Fill
  <2>2. QED
    BY <2>1, FilledSlots DEF DataTyped, world
<1>5. CASE WaitReady
  <2> DEFINE ready == {e \in InSlots : ReadyNow(e)}
  <2>1. ready \in SUBSET InSlots /\ Report(ready)
    BY <1>5 DEF WaitReady
  <2> HIDE DEF ready
  <2>2. QED
    BY <2>1, ReportTypes
<1>6. CASE WaitTimesOut \/ Interrupted
  <2>1. {} \in SUBSET InSlots /\ Report({})
    BY <1>6 DEF WaitTimesOut, Interrupted
  <2>2. QED
    BY <2>1, ReportTypes
<1>7. ASSUME NEW tm \in Timers, TakeTimer(tm)
      PROVE  DataTyped'
  <2>1. PICK n \in NextDue(tm) : left' = [left EXCEPT ![tm] = n]
    BY <1>7 DEF TakeTimer
  <2>2. left[tm] \in Nat /\ Period[tm] \in Nat
    BY WaitingAssumption DEF DataTyped
  <2>3. n \in Nat
    BY <2>1, <2>2 DEF NextDue
  <2>4. left' \in [Timers -> Nat]
    BY <2>1, <2>3 DEF DataTyped
  <2>5. QED
    BY <1>7, <2>4 DEF TakeTimer, history, DataTyped
<1>8. CASE \E g \in Guards : TakeGuard(g)
  BY <1>8 DEF TakeGuard, world, DataTyped
<1>9. CASE \E c \in Clients : TakeResponse(c)
  BY <1>9 DEF TakeResponse, history, DataTyped
<1>10. ASSUME NEW tm \in Steered, Reset(tm)
       PROVE  DataTyped'
  <2>1. tm \in Timers /\ Period[tm] \in Nat
    BY WaitingAssumption
  <2>2. left' \in [Timers -> Nat] /\ canceled' \subseteq Timers /\ rescheduled' \subseteq Timers
    BY <1>10, <2>1 DEF Reset, DataTyped
  <2>3. QED
    BY <1>10, <2>2 DEF Reset, DataTyped
<1>11. CASE \E tm \in Steered : Cancel(tm) \/ Destroy(tm)
  BY <1>11, WaitingAssumption DEF Cancel, Destroy, history, DataTyped
<1>12. CASE (\E g \in Guards : Trigger(g)) \/ Arrive \/ Shutdown
  BY <1>12 DEF Trigger, Arrive, Shutdown, history, DataTyped
<1>13. CASE Tick
  <2>1. left' = [tm \in Timers |-> Less(left[tm], 0)]
    BY <1>13 DEF Tick
  <2>2. \A n \in Nat : Less(n, 0) \in Nat
    BY DEF Less
  <2>3. left' \in [Timers -> Nat]
    BY <2>1, <2>2 DEF DataTyped
  <2>4. QED
    BY <1>13, <2>3 DEF Tick, history, DataTyped
<1>14. CASE UNCHANGED vars
  BY <1>14 DEF vars, world, history, DataTyped
<1>15. QED
  BY <1>1, <1>2, <1>3, <1>4, <1>5, <1>6, <1>7, <1>8, <1>9, <1>10, <1>11, <1>12, <1>13, <1>14
     DEF Next, Spinner, Environment

LEMMA WaitingInit ==
  ASSUME Init
  PROVE  WaitingInv
<1>1. left \in [Timers -> Nat]
  BY WaitingAssumption DEF Init
<1>2. slots \in [Kinds -> Seq(Entities \cup {Null})] /\ stack \in Seq(Frames) /\ DOMAIN stack = {}
  BY DEF Init
<1>3. TypeOK
  BY <1>1, <1>2 DEF Init, TypeOK
<1>4. CallsNest /\ WaitsOnItsWork /\ ReportedTimersAreDue
  BY <1>2 DEF CallsNest, WaitsOnItsWork, ReportedTimersAreDue
<1>5. OwedTriggersAreInWork
  BY DEF Init, OwedTriggersAreInWork
<1>6. QED
  BY <1>3, <1>4, <1>5 DEF WaitingInv

LEMMA WaitingStep ==
  ASSUME WaitingInv, [Next]_vars
  PROVE  WaitingInv'
<1>1. StackInv'
  <2>1. CASE StartSpin \/ Nest \/ Check \/ Fill \/ EndPass \/ EndCallback \/ CallbackRaises
    BY <2>1, StartKeeps, NestKeeps, CheckKeeps, FillKeeps, EndPassKeeps, EndCallbackKeeps, RaisesKeeps
  <2>2. CASE WaitReady \/ WaitTimesOut \/ Interrupted
    BY <2>2, WaitsKeep
  <2>3. CASE \E e \in Entities : Skip(e) \/ TakeRaises(e)
    BY <2>3, SkipKeeps, RaisesKeeps
  <2>4. CASE \E tm \in Timers : TakeTimer(tm)
    BY <2>4, TakeTimerKeeps
  <2>5. CASE \E g \in Guards : TakeGuard(g)
    BY <2>5, TakeGuardKeeps
  <2>6. CASE \E c \in Clients : TakeResponse(c)
    BY <2>6, TakeResponseKeeps
  <2>7. CASE \/ \E tm \in Steered : Reset(tm) \/ Cancel(tm) \/ Destroy(tm)
             \/ \E g \in Guards : Trigger(g)
             \/ Arrive \/ Shutdown \/ UNCHANGED vars
    BY <2>7, OthersKeep
  <2>8. CASE Tick
    BY <2>8, TickKeeps
  <2>9. QED
    BY <2>1, <2>2, <2>3, <2>4, <2>5, <2>6, <2>7, <2>8 DEF Next, Spinner, Environment
<1>2. DataTyped'
  <2>1. DataTyped
    BY DEF WaitingInv, TypeOK, DataTyped
  <2>2. QED
    BY <2>1, DataStep
<1>3. TypeOK'
  BY <1>1, <1>2 DEF StackInv, StackTyped, DataTyped, TypeOK
<1>4. QED
  BY <1>1, <1>3 DEF StackInv, WaitingInv

LEMMA WaitingInvariance == Spec => []WaitingInv
<1>1. Init => WaitingInv
  BY WaitingInit
<1>2. WaitingInv /\ [Next]_vars => WaitingInv'
  BY WaitingStep
<1>3. QED
  BY <1>1, <1>2, PTL DEF Spec

-------------------------------------------------------------------------------
(* The calls of spin inside one another stand on the stack in their order:  *)
(* every call below the innermost one waits for the callback that made the  *)
(* call above it (Executor.lean:195-287).                                   *)
THEOREM CallsAreStacked == Spec => []TypeOK
<1>1. WaitingInv => TypeOK
  BY DEF WaitingInv
<1>2. QED
  BY <1>1, WaitingInvariance, PTL

(* A trigger that a wait has reported, and cleared, belongs to a guard      *)
(* condition that some pass has still to look at, unless a nested spin, an  *)
(* exception or a shutdown has come in between (Executor.lean:104,          *)
(* 221-230).                                                                *)
THEOREM ReportedTriggersGetTheirAction == Spec => []ReportedTriggersAreHandled
<1>1. WaitingInv => ReportedTriggersAreHandled
  BY DEF WaitingInv, OwedTriggersAreInWork, OwedBy, ReportedTriggersAreHandled
<1>2. QED
  BY <1>1, WaitingInvariance, PTL

(* The callback of a timer begins with its take, and no other step.         *)
Quiet ==
  stack # <<>> /\ stack' # <<>> /\ Len(stack) = Len(stack') =>
    \A tm \in Timers : Head(stack').cb = tm => Top.cb = tm

LEMMA QuietTurns ==
  ASSUME TypeOK, NEW p, NEW w, NEW s, NEW c, Turns(p, w, s, c), c = Top.cb \/ c \notin Timers
  PROVE  Quiet
<1>1. Head(stack') = stack'[1] /\ stack'[1].cb = c
  BY DEF Turns
<1>2. QED
  BY <1>1 DEF Quiet

LEMMA QuietPops ==
  ASSUME TypeOK, Pops
  PROVE  Quiet
<1>1. Len(stack) \in Nat /\ Len(stack') = Len(stack) - 1
  BY DEF TypeOK, Pops
<1>2. QED
  BY <1>1 DEF Quiet

LEMMA QuietAfterPass ==
  ASSUME TypeOK, stack # <<>>, NEW f \in Frames, f.cb = Top.cb, AfterPass(f)
  PROVE  Quiet
<1>1. Pops \/ Turns("check", <<>>, FALSE, f.cb)
  BY AfterPassTurns
<1>2. QED
  BY <1>1, QuietPops, QuietTurns

LEMMA QuietStays ==
  ASSUME TypeOK, Stays
  PROVE  Quiet
<1>1. SUFFICES ASSUME stack # <<>>, stack' # <<>>
               PROVE  \A tm \in Timers : Head(stack').cb = tm => Top.cb = tm
  BY DEF Quiet
<1>2. 1 \in DOMAIN stack /\ Top = stack[1]
  BY <1>1, TopFacts
<1>3. Head(stack') = stack'[1]
  BY <1>1 DEF Stays
<1>4. QED
  BY <1>2, <1>3 DEF Stays

LEMMA OthersAreQuiet ==
  ASSUME TypeOK, [Next]_vars, \A tm \in Timers : ~TakeTimer(tm)
  PROVE  Quiet
<1>1. Null \notin Timers /\ \A g \in Guards \cup Clients : g \notin Timers
  BY KindFacts DEF Entities
<1>2. CASE StartSpin
  BY <1>2 DEF StartSpin, Quiet
<1>3. CASE Nest
  <2>1. Len(stack') = Len(stack) + 1 /\ Len(stack) \in Nat
    BY <1>3, NestTurns DEF TypeOK
  <2>2. QED
    BY <2>1 DEF Quiet
<1>4. CASE Check
  BY <1>4, CheckTurns, QuietPops, QuietTurns
<1>5. CASE Fill
  <2>1. /\ stack' \in Seq(Frames) /\ stack'[1].cb = Top.cb
    BY <1>5, FillTurns
  <2>2. stack' # <<>> => Head(stack') = stack'[1]
    BY <2>1
  <2>3. QED
    BY <2>1, <2>2 DEF Quiet
<1>6. CASE WaitReady \/ WaitTimesOut \/ Interrupted
  <2>1. stack # <<>> /\ (SetTop(Looking) \/ AfterPass(Looking))
    BY <1>6 DEF WaitReady, WaitTimesOut, Interrupted
  <2>2. Looking \in Frames /\ Looking.cb = Top.cb
    BY <2>1, LookingFrame
  <2>3. CASE SetTop(Looking)
    <3>1. Turns("take", Top.work, Top.stale, Top.cb)
      BY <2>1, <2>3, Looks
    <3>2. QED
      BY <3>1, QuietTurns
  <2>4. CASE AfterPass(Looking)
    BY <2>1, <2>2, <2>4, QuietAfterPass
  <2>5. QED
    BY <2>1, <2>3, <2>4
<1>7. CASE EndCallback
  <2>1. stack # <<>> /\ SetTop(GoOn(Top))
    BY <1>7 DEF EndCallback
  <2>2. GoOn(Top) \in Frames /\ GoOn(Top).cb = Null
    BY <2>1, GoOnFrame
  <2>3. Turns(GoOn(Top).pc, GoOn(Top).work, GoOn(Top).stale, Null)
    BY <2>1, <2>2, TurnsTo
  <2>4. QED
    BY <1>1, <2>3, QuietTurns
<1>8. CASE CallbackRaises \/ \E e \in Entities : TakeRaises(e)
  BY <1>8, PopsTo, QuietPops DEF CallbackRaises, TakeRaises, Working, Abandon
<1>9. CASE EndPass
  <2>1. stack # <<>> /\ AfterPass(Top)
    BY <1>9 DEF EndPass
  <2>2. Top \in Frames
    BY <2>1, TopFacts
  <2>3. QED
    BY <2>1, <2>2, QuietAfterPass
<1>10. ASSUME NEW e \in Entities, Skip(e)
       PROVE  Quiet
  <2>1. Working(e) /\ SetTop(Rest)
    BY <1>10 DEF Skip
  <2>2. Turns("take", Tail(Top.work), Top.stale, Top.cb)
    BY <2>1, TakeTurns
  <2>3. QED
    BY <2>2, QuietTurns
<1>11. ASSUME NEW g \in Guards \cup Clients, TakeGuard(g) \/ TakeResponse(g)
       PROVE  Quiet
  <2>1. g \in Entities /\ Working(g) /\ SetTop([Rest EXCEPT !.pc = "callback", !.cb = g])
    BY <1>11 DEF TakeGuard, TakeResponse, Entities
  <2>2. Turns("callback", Tail(Top.work), Top.stale, g)
    BY <2>1, TakeTurns
  <2>3. QED
    BY <1>1, <2>2, QuietTurns
<1>12. CASE \/ \E tm \in Steered : Reset(tm) \/ Cancel(tm) \/ Destroy(tm)
            \/ \E g \in Guards : Trigger(g)
            \/ Arrive \/ Shutdown \/ UNCHANGED vars
  BY <1>12 DEF Quiet, Top, Reset, Cancel, Destroy, Trigger, Arrive, Shutdown, vars
<1>13. CASE Tick
  BY <1>13, TickStays, QuietStays
<1>14. \A c \in Clients : c \in Entities
  BY DEF Entities
<1>15. QED
  BY <1>2, <1>3, <1>4, <1>5, <1>6, <1>7, <1>8, <1>9, <1>10, <1>11, <1>12, <1>13, <1>14
     DEF Next, Spinner, Environment

LEMMA TakenTimersAreDue ==
  ASSUME WaitingInv, NEW tm \in Timers, TakeTimer(tm)
  PROVE  /\ tm \notin canceled \cup gone
         /\ left[tm] = 0 \/ tm \in rescheduled \/ Top.stale
         /\ \A t \in Timers : CallbackBegins(t) => t = tm
<1>1. /\ Working(tm) /\ SlotReady(tm, Head(Top.work)[2]) /\ tm \notin canceled \cup gone
      /\ SetTop([Rest EXCEPT !.pc = "callback", !.cb = tm])
  BY DEF TakeTimer
<1>2. tm \in Entities
  BY DEF Entities
<1>3. /\ stack # <<>> /\ Top.pc = "take"
      /\ 1 \in DOMAIN Top.work /\ Head(Top.work) = Top.work[1] /\ Top.work[1][1] = tm
  BY <1>1, <1>2, TailFacts
<1>4. 1 \in DOMAIN stack /\ Top = stack[1]
  BY <1>3, TopFacts DEF WaitingInv
<1>5. Top.stale \/ DueOrReset(1)
  BY <1>3, <1>4 DEF WaitingInv, ReportedTimersAreDue, Passing
<1>6. DueOrReset(1) => left[tm] = 0 \/ tm \in rescheduled
  BY <1>1, <1>3, <1>4 DEF DueOrReset
<1>7. ASSUME NEW t \in Timers, CallbackBegins(t)
      PROVE  t = tm
  <2>1. Turns("callback", Tail(Top.work), Top.stale, tm)
    BY <1>1, <1>2, TakeTurns DEF WaitingInv
  <2>2. Head(stack') = stack'[1] /\ stack'[1].cb = tm
    BY <2>1 DEF Turns
  <2>3. QED
    BY <1>7, <2>2 DEF CallbackBegins
<1>8. QED
  BY <1>1, <1>5, <1>6, <1>7

(* The callback of a timer starts only if the timer is neither cancelled    *)
(* nor destroyed, and only once it is due, or was reset since the wait, or  *)
(* in a pass that a nested spin has run over, whatever other threads,       *)
(* callbacks and nested spins do meanwhile (Executor.lean:58,               *)
(* WaitSet.lean:45-46).                                                     *)
THEOREM TimersAreCalledWhenDue == Spec => TimersFireWhenDue
<1> DEFINE Due == \A tm \in Timers : CallbackBegins(tm) =>
                    /\ tm \notin canceled \cup gone
                    /\ left[tm] = 0 \/ tm \in rescheduled \/ Top.stale
<1>1. ASSUME WaitingInv, [Next]_vars
      PROVE  Due
  <2>1. CASE \E tm \in Timers : TakeTimer(tm)
    BY <1>1, <2>1, TakenTimersAreDue
  <2>2. CASE \A tm \in Timers : ~TakeTimer(tm)
    <3>1. Quiet
      BY <1>1, <2>2, OthersAreQuiet DEF WaitingInv
    <3>2. QED
      BY <3>1 DEF Quiet, CallbackBegins
  <2>3. QED
    BY <2>1, <2>2
<1>2. WaitingInv /\ [Next]_vars => [Due]_vars
  BY <1>1
<1>3. QED
  BY <1>2, WaitingInvariance, PTL DEF Spec, TimersFireWhenDue
===============================================================================
