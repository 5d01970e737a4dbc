--------------------------- MODULE EntryPointsProofs ---------------------------
(***************************************************************************)
(* For any threads, each calling any of the functions: what a call         *)
(* acquires comes back whatever fails, no exception has an older call's    *)
(* message, no message is mixed with another, and no lookup misses the     *)
(* overrides that are there.                                               *)
(*                                                                         *)
(* A program is good if it is so far and stays so by each of its steps.    *)
(* That is shown for each function, from its end backwards; that the       *)
(* machine runs good programs is the invariant.                            *)
(***************************************************************************)
EXTENDS EntryPoints, Integers, SequenceTheorems, TLAPS

-------------------------------------------------------------------------------
(* Programs                                                                *)

(* The kind of a program's next step.                                       *)
Kind(p) == IF p = <<>> THEN "over" ELSE Head(p).do
Ends == {"answer", "fail", "raise"}
Releases == {"free", "fini", "fini_or_skip"}
Looked(p) == SubSeq(p, 5, Len(p))

(* A thread has before it the program p of the function f, has acquired o,  *)
(* may have left an error in the error state if e, and has its message in   *)
(* the buffer if l.                                                         *)
Config(f, p, o, e, l) == [f |-> f, p |-> p, o |-> o, e |-> e, l |-> l]

(* What may not be wrong now.                                               *)
Sound(c) ==
  LET s == Head(c.p)
  IN  /\ c.p # <<>>
      /\ s.uses \subseteq c.o
      /\ s.do \in Ends =>
           /\ Tail(c.p) = <<>>
           /\ c.o \ s.uses \subseteq IF c.f = "nodeNames" THEN {"namespaces"} ELSE {}
      /\ s.do \in {"answer", "fail"} => ~c.e \/ c.f \in LeavesItsError
      /\ s.reads => c.l

(* Where it goes from here, if nothing fails ...                            *)
Onward(c) ==
  LET s == Head(c.p)
  IN  [f |-> c.f, p |-> Tail(c.p),
       o |-> IF s.do = "work" THEN c.o \cup s.gets
             ELSE IF s.do \in Releases THEN c.o \ s.uses ELSE c.o,
       e |-> c.e /\ s.do # "reset",
       l |-> IF s.do = "work" THEN c.l \/ s.fills
             ELSE IF s.do \in Releases THEN c.l /\ s.uses # {"msg"} ELSE c.l]

(* ... and otherwise.                                                       *)
Aside(c) ==
  LET s == Head(c.p)
  IN  IF s.do \in {"work", "get"}
      THEN {Config(c.f, r, c.o, c.e \/ s.sets, c.l) : r \in s.else}
      ELSE IF s.do = "fini_or_skip"
      THEN {Config(c.f, Tail(Tail(c.p)), c.o \ s.uses, c.e, c.l)}
      ELSE IF s.do = "look" THEN {Config(c.f, Looked(c.p), c.o, c.e, c.l)}
      ELSE {}

Follow(c) == IF Kind(c.p) \in Ends THEN {} ELSE {Onward(c)} \cup Aside(c)

(* The steps of Overridden come in their order.                             *)
Ordered(c) ==
  /\ Kind(c.p) = "look" => Kind(Tail(c.p)) = "mark" /\ Kind(Looked(c.p)) = "get"
  /\ \A d \in Follow(c) :
       /\ Kind(d.p) = "mark" => Kind(c.p) = "look"
       /\ Kind(d.p) = "fetch" <=> Kind(c.p) = "mark"
       /\ Kind(d.p) = "store" <=> Kind(c.p) = "fetch"
       /\ Kind(d.p) = "get" => Kind(c.p) \in {"look", "store"}

(* Configurations each of which is as it should be and leads to others of   *)
(* them.                                                                    *)
Closed(S) == \A c \in S : Sound(c) /\ Ordered(c) /\ Follow(c) \subseteq S

Good(c) == \E S : c \in S /\ Closed(S)

(* What holds of a good program holds wherever it goes.                     *)
LEMMA GoodGoesOn ==
  ASSUME NEW c, Good(c)
  PROVE  Sound(c) /\ Ordered(c) /\ \A d \in Follow(c) : Good(d)
  BY DEF Good, Closed

(* A program is good if its step is sound and it goes on as good ones do.   *)
LEMMA GoodBegins ==
  ASSUME NEW c, Sound(c), Ordered(c), \A d \in Follow(c) : Good(d)
  PROVE  Good(c)
<1> DEFINE Witness(d) == CHOOSE S : d \in S /\ Closed(S)
           S == {c} \cup UNION {Witness(d) : d \in Follow(c)}
<1>1. \A d \in Follow(c) : d \in Witness(d) /\ Closed(Witness(d))
  BY DEF Good
<1> HIDE DEF Witness
<1>2. Closed(S)
  <2>1. SUFFICES ASSUME NEW x \in S
                 PROVE  Sound(x) /\ Ordered(x) /\ Follow(x) \subseteq S
    BY DEF Closed
  <2>2. CASE x = c
    BY <1>1, <2>2
  <2>3. CASE x # c
    <3>1. PICK d \in Follow(c) : x \in Witness(d)
      BY <2>1, <2>3
    <3>2. Sound(x) /\ Ordered(x) /\ Follow(x) \subseteq Witness(d)
      BY <1>1, <3>1 DEF Closed
    <3>3. QED
      BY <3>1, <3>2
  <2>4. QED
    BY <2>2, <2>3
<1>3. QED
  BY <1>2 DEF Good

-------------------------------------------------------------------------------
(* A program as a step and the rest.  It is a sequence of whatever.         *)

IsProgram(p) == \E S : p \in Seq(S)
Then(s, q) == <<s>> \o q
End == <<>>

(* The first step and the rest.                                             *)
LEMMA ThenIs ==
  ASSUME NEW s, NEW q, IsProgram(q)
  PROVE  /\ IsProgram(Then(s, q))
         /\ Then(s, q) # <<>> /\ Head(Then(s, q)) = s /\ Tail(Then(s, q)) = q
<1>1. PICK S : q \in Seq(S)
  BY DEF IsProgram
<1>2. q \in Seq(S \cup {s}) /\ <<s>> \in Seq(S \cup {s})
  BY <1>1
<1>3. Then(s, q) \in Seq(S \cup {s})
  BY <1>2 DEF Then
<1>4. QED
  BY <1>2, <1>3 DEF IsProgram, Then

LEMMA EndIs == IsProgram(End)
<1>1. End \in Seq({})
  BY DEF End
<1>2. QED
  BY <1>1 DEF IsProgram

-------------------------------------------------------------------------------
(* What each step does                                                     *)

(* A program that may begin whatever the error state and the buffer hold    *)
(* ("loud"), unless the error state has an error of this call ("quiet"),    *)
(* and if moreover the buffer has its message ("full").                     *)
Plain(p) == IsProgram(p) /\ Kind(p) \notin {"mark", "fetch", "store", "get"}
Allows(m, e, l) == (m # "loud" => ~e) /\ (m = "full" => l)
Fine(m, f, p, o) ==
  Plain(p) /\ \A e, l \in BOOLEAN : Allows(m, e, l) => Good(Config(f, p, o, e, l))

(* What a configuration is made of.                                         *)
LEMMA ConfigFields ==
  ASSUME NEW f, NEW p, NEW o, NEW e, NEW l
  PROVE  LET c == Config(f, p, o, e, l)
         IN  c.f = f /\ c.p = p /\ c.o = o /\ c.e = e /\ c.l = l
  BY DEF Config

(* A step that may fail: good if what follows it is, and each way out.      *)
LEMMA Works ==
  ASSUME NEW m \in {"loud", "quiet", "full"}, NEW n, NEW f, NEW p, NEW q, NEW o, NEW o2, NEW s,
         IsProgram(p), p # <<>>, Head(p) = s, Tail(p) = q,
         s.do = "work", s.uses \subseteq o, s.reads => m = "full",
         {s.sets, s.fills} \subseteq BOOLEAN,
         \A x : x \in o2 <=> x \in o \/ x \in s.gets,
         n = m \/ (s.fills /\ m = "quiet" /\ n = "full"), Fine(n, f, q, o2),
         \A r \in s.else : Fine(IF s.sets THEN "loud" ELSE m, f, r, o)
  PROVE  Fine(m, f, p, o)
<1>1. SUFFICES ASSUME NEW e \in BOOLEAN, NEW l \in BOOLEAN, Allows(m, e, l)
               PROVE  Good(Config(f, p, o, e, l))
  BY DEF Fine, Plain, Kind
<1> DEFINE c == Config(f, p, o, e, l)
           d == Config(f, q, o2, e, l \/ s.fills)
<1>2. c.f = f /\ c.p = p /\ c.o = o /\ c.e = e /\ c.l = l
  BY ConfigFields
<1>3. Kind(p) = "work"
  BY DEF Kind
<1>4. Sound(c)
  BY <1>1, <1>2 DEF Sound, Allows, Ends
<1>5. Onward(c) = d
  <2>1. (c.e /\ s.do # "reset") = e
    BY <1>2
  <2>2. o2 = o \cup s.gets
    OBVIOUS
  <2>3. Onward(c) = [f |-> f, p |-> q, o |-> o2, e |-> e, l |-> l \/ s.fills]
    BY <1>2, <2>1, <2>2 DEF Onward
  <2>4. QED
    BY <2>3 DEF Config
<1>6. Aside(c) = {Config(f, r, o, e \/ s.sets, l) : r \in s.else}
  BY <1>2 DEF Aside
<1>7. Follow(c) = {d} \cup {Config(f, r, o, e \/ s.sets, l) : r \in s.else}
  BY <1>2, <1>3, <1>5, <1>6 DEF Follow, Ends
<1>8. Good(d) /\ d.p = q /\ Plain(q)
  <2> DEFINE l2 == l \/ s.fills
  <2>1. l2 \in BOOLEAN /\ e \in BOOLEAN /\ Allows(n, e, l2)
    BY <1>1 DEF Allows
  <2> HIDE DEF l2
  <2>2. Good(Config(f, q, o2, e, l2)) /\ Plain(q)
    BY <2>1 DEF Fine
  <2>3. QED
    BY <2>2, ConfigFields DEF l2
<1>9. ASSUME NEW r \in s.else
      PROVE  LET x == Config(f, r, o, e \/ s.sets, l) IN Good(x) /\ x.p = r /\ Plain(r)
  BY <1>1, ConfigFields DEF Fine, Allows
<1> HIDE DEF c, d
<1>10. \A x \in Follow(c) : Good(x) /\ Plain(x.p)
  BY <1>7, <1>8, <1>9
<1>11. Ordered(c)
  BY <1>2, <1>3, <1>10 DEF Ordered, Plain
<1>12. QED
  BY <1>4, <1>10, <1>11, GoodBegins DEF c

(* A release.                                                               *)
LEMMA Frees ==
  ASSUME NEW m \in {"loud", "quiet", "full"}, NEW f, NEW p, NEW q, NEW o, NEW o2, NEW s,
         IsProgram(p), p # <<>>, Head(p) = s, Tail(p) = q,
         s.do \in {"free", "fini"}, s.uses \subseteq o, ~s.reads,
         \A x : x \in o2 <=> x \in o /\ x \notin s.uses, Fine(m, f, q, o2),
         m = "full" => s.uses # {"msg"}
  PROVE  Fine(m, f, p, o)
<1>1. SUFFICES ASSUME NEW e \in BOOLEAN, NEW l \in BOOLEAN, Allows(m, e, l)
               PROVE  Good(Config(f, p, o, e, l))
  BY DEF Fine, Plain, Kind
<1> DEFINE c == Config(f, p, o, e, l)
           d == Config(f, q, o2, e, l /\ s.uses # {"msg"})
<1>2. c.f = f /\ c.p = p /\ c.o = o /\ c.e = e /\ c.l = l
  BY ConfigFields
<1>3. Kind(p) \in {"free", "fini"}
  BY DEF Kind
<1>4. Sound(c)
  BY <1>1, <1>2 DEF Sound, Allows, Ends
<1>5. Onward(c) = d
  <2>1. (c.e /\ s.do # "reset") = e
    BY <1>2
  <2>2. o2 = o \ s.uses
    OBVIOUS
  <2>3. Onward(c) = [f |-> f, p |-> q, o |-> o2, e |-> e, l |-> l /\ s.uses # {"msg"}]
    BY <1>2, <2>1, <2>2 DEF Onward, Releases
  <2>4. QED
    BY <2>3 DEF Config
<1>6. Aside(c) = {}
  BY <1>2 DEF Aside
<1>7. Follow(c) = {d}
  BY <1>2, <1>3, <1>5, <1>6 DEF Follow, Ends
<1>8. Good(d) /\ d.p = q /\ Plain(q)
  <2> DEFINE l2 == l /\ s.uses # {"msg"}
  <2>1. l2 \in BOOLEAN /\ e \in BOOLEAN /\ Allows(m, e, l2)
    BY <1>1 DEF Allows
  <2> HIDE DEF l2
  <2>2. Good(Config(f, q, o2, e, l2)) /\ Plain(q)
    BY <2>1 DEF Fine
  <2>3. QED
    BY <2>2, ConfigFields DEF l2
<1> HIDE DEF c, d
<1>9. Ordered(c)
  BY <1>2, <1>3, <1>7, <1>8 DEF Ordered, Plain
<1>10. QED
  BY <1>4, <1>7, <1>8, <1>9, GoodBegins DEF c

(* An end, when nothing is left that is not given to the answer.            *)
LEMMA EndsWell ==
  ASSUME NEW m \in {"loud", "quiet", "full"}, NEW f, NEW p, NEW o, NEW s,
         IsProgram(p), p # <<>>, Head(p) = s, Tail(p) = <<>>,
         s.do \in Ends, s.uses \subseteq o, ~s.reads,
         o \ s.uses \subseteq IF f = "nodeNames" THEN {"namespaces"} ELSE {},
         s.do = "raise" \/ m # "loud" \/ f \in LeavesItsError
  PROVE  Fine(m, f, p, o)
<1>1. SUFFICES ASSUME NEW e \in BOOLEAN, NEW l \in BOOLEAN, Allows(m, e, l)
               PROVE  Good(Config(f, p, o, e, l))
  BY DEF Fine, Plain, Kind, Ends
<1> DEFINE c == Config(f, p, o, e, l)
<1>2. c.f = f /\ c.p = p /\ c.o = o /\ c.e = e /\ c.l = l
  BY ConfigFields
<1>3. Kind(p) \in Ends
  BY DEF Kind
<1>4. Sound(c)
  BY <1>1, <1>2 DEF Sound, Allows, Ends
<1>5. Follow(c) = {}
  BY <1>2, <1>3 DEF Follow
<1> HIDE DEF c
<1>6. Ordered(c)
  BY <1>2, <1>3, <1>5 DEF Ordered, Ends
<1>7. QED
  BY <1>4, <1>5, <1>6, GoodBegins DEF c

(* After a reset the error state has no error of the call.                  *)
LEMMA Resets ==
  ASSUME NEW m \in {"loud", "quiet", "full"}, NEW f, NEW p, NEW q, NEW o, NEW s,
         IsProgram(p), p # <<>>, Head(p) = s, Tail(p) = q,
         s.do = "reset", s.uses = {}, ~s.reads, Fine("quiet", f, q, o)
  PROVE  Fine(m, f, p, o)
<1>1. SUFFICES ASSUME NEW e \in BOOLEAN, NEW l \in BOOLEAN, Allows(m, e, l)
               PROVE  Good(Config(f, p, o, e, l))
  BY DEF Fine, Plain, Kind
<1>0. PICK no \in BOOLEAN : ~no
  OBVIOUS
<1> DEFINE c == Config(f, p, o, e, l)
           d == Config(f, q, o, no, l)
<1>2. c.f = f /\ c.p = p /\ c.o = o /\ c.e = e /\ c.l = l
  BY ConfigFields
<1>3. Kind(p) = "reset"
  BY DEF Kind
<1>4. Sound(c)
  BY <1>1, <1>2 DEF Sound, Allows, Ends
<1>5. Onward(c) = d
  <2>1. (c.e /\ s.do # "reset") = no
    BY <1>0, <1>2
  <2>2. Onward(c) = [f |-> f, p |-> q, o |-> o, e |-> no, l |-> l]
    BY <1>2, <2>1 DEF Onward, Releases
  <2>3. QED
    BY <2>2 DEF Config
<1>6. Aside(c) = {}
  BY <1>2 DEF Aside
<1>7. Follow(c) = {d}
  BY <1>2, <1>3, <1>5, <1>6 DEF Follow, Ends
<1>8. Good(d) /\ d.p = q /\ Plain(q)
  <2>1. Allows("quiet", no, l)
    BY <1>0 DEF Allows
  <2>2. Good(Config(f, q, o, no, l)) /\ Plain(q)
    BY <1>0, <1>1, <2>1 DEF Fine
  <2>3. QED
    BY <2>2, ConfigFields
<1> HIDE DEF c, d
<1>9. Ordered(c)
  BY <1>2, <1>3, <1>7, <1>8 DEF Ordered, Plain
<1>10. QED
  BY <1>4, <1>7, <1>8, <1>9, GoodBegins DEF c

(* The fields of each kind of step.                                         *)
LEMMA Fields ==
  /\ \A g, u, r : LET s == Need(g, u, r)
                  IN  /\ s.do = "work" /\ s.gets = g /\ s.uses = u /\ s.else = {r}
                      /\ s.sets = FALSE /\ s.fills = FALSE /\ s.reads = FALSE
  /\ \A g, u, r : LET s == Fills(Need(g, u, r))
                  IN  /\ s.do = "work" /\ s.gets = g /\ s.uses = u /\ s.else = {r}
                      /\ s.sets = FALSE /\ s.fills = TRUE /\ s.reads = FALSE
  /\ \A g, u, r : LET s == Reads(Need(g, u, r))
                  IN  /\ s.do = "work" /\ s.gets = g /\ s.uses = u /\ s.else = {r}
                      /\ s.sets = FALSE /\ s.fills = FALSE /\ s.reads = TRUE
  /\ \A g, u, rs : LET s == Rcl(g, u, rs)
                   IN  /\ s.do = "work" /\ s.gets = g /\ s.uses = u /\ s.else = rs
                       /\ s.sets = TRUE /\ s.fills = FALSE /\ s.reads = FALSE
  /\ \A g, u, rs : LET s == Fills(Rcl(g, u, rs))
                   IN  /\ s.do = "work" /\ s.gets = g /\ s.uses = u /\ s.else = rs
                       /\ s.sets = TRUE /\ s.fills = TRUE /\ s.reads = FALSE
  /\ \A g, u, rs : LET s == Reads(Rcl(g, u, rs))
                   IN  /\ s.do = "work" /\ s.gets = g /\ s.uses = u /\ s.else = rs
                       /\ s.sets = TRUE /\ s.fills = FALSE /\ s.reads = TRUE
  /\ \A g : LET s == Make(g)
            IN  /\ s.do = "work" /\ s.gets = g /\ s.uses = {} /\ s.else = {}
                /\ s.sets = FALSE /\ s.fills = FALSE /\ s.reads = FALSE
  /\ \A r : LET s == Or(r)
            IN  /\ s.do = "work" /\ s.gets = {} /\ s.uses = {} /\ s.else = {r}
                /\ s.sets = FALSE /\ s.fills = FALSE /\ s.reads = FALSE
  /\ \A r : Free(r).do = "free" /\ Free(r).uses = {r} /\ Free(r).reads = FALSE
  /\ \A r : Fini(r).do = "fini" /\ Fini(r).uses = {r} /\ Fini(r).reads = FALSE
  /\ Reset.do = "reset" /\ Reset.uses = {} /\ Reset.reads = FALSE
  /\ Raise.do = "raise" /\ Raise.uses = {} /\ Raise.reads = FALSE
  /\ Fail.do = "fail" /\ Fail.uses = {} /\ Fail.reads = FALSE
  /\ Answer.do = "answer" /\ Answer.uses = {} /\ Answer.reads = FALSE
  /\ \A rs : Give(rs).do = "answer" /\ Give(rs).uses = rs /\ Give(rs).reads = FALSE
<1> USE DEF Step
<1>1. /\ \A r : Free(r).do = "free" /\ Free(r).uses = {r} /\ Free(r).reads = FALSE
      /\ \A r : Fini(r).do = "fini" /\ Fini(r).uses = {r} /\ Fini(r).reads = FALSE
      /\ Reset.do = "reset" /\ Reset.uses = {} /\ Reset.reads = FALSE
      /\ Raise.do = "raise" /\ Raise.uses = {} /\ Raise.reads = FALSE
      /\ Fail.do = "fail" /\ Fail.uses = {} /\ Fail.reads = FALSE
      /\ Answer.do = "answer" /\ Answer.uses = {} /\ Answer.reads = FALSE
      /\ \A rs : Give(rs).do = "answer" /\ Give(rs).uses = rs /\ Give(rs).reads = FALSE
  BY DEF Free, Fini, Reset, Raise, Fail, Answer, Give
<1>2. /\ \A g, u, r : LET s == Need(g, u, r)
                      IN  /\ s.do = "work" /\ s.gets = g /\ s.uses = u /\ s.else = {r}
                          /\ s.sets = FALSE /\ s.fills = FALSE /\ s.reads = FALSE
      /\ \A g, u, rs : LET s == Rcl(g, u, rs)
                       IN  /\ s.do = "work" /\ s.gets = g /\ s.uses = u /\ s.else = rs
                           /\ s.sets = TRUE /\ s.fills = FALSE /\ s.reads = FALSE
      /\ \A g : LET s == Make(g)
                IN  /\ s.do = "work" /\ s.gets = g /\ s.uses = {} /\ s.else = {}
                    /\ s.sets = FALSE /\ s.fills = FALSE /\ s.reads = FALSE
      /\ \A r : LET s == Or(r)
                IN  /\ s.do = "work" /\ s.gets = {} /\ s.uses = {} /\ s.else = {r}
                    /\ s.sets = FALSE /\ s.fills = FALSE /\ s.reads = FALSE
  BY DEF Need, Rcl, Make, Or
<1>3. /\ \A g, u, r : LET s == Fills(Need(g, u, r))
                      IN  /\ s.do = "work" /\ s.gets = g /\ s.uses = u /\ s.else = {r}
                          /\ s.sets = FALSE /\ s.fills = TRUE /\ s.reads = FALSE
      /\ \A g, u, r : LET s == Reads(Need(g, u, r))
                      IN  /\ s.do = "work" /\ s.gets = g /\ s.uses = u /\ s.else = {r}
                          /\ s.sets = FALSE /\ s.fills = FALSE /\ s.reads = TRUE
  BY DEF Need, Fills, Reads
<1>4. /\ \A g, u, rs : LET s == Fills(Rcl(g, u, rs))
                       IN  /\ s.do = "work" /\ s.gets = g /\ s.uses = u /\ s.else = rs
                           /\ s.sets = TRUE /\ s.fills = TRUE /\ s.reads = FALSE
      /\ \A g, u, rs : LET s == Reads(Rcl(g, u, rs))
                       IN  /\ s.do = "work" /\ s.gets = g /\ s.uses = u /\ s.else = rs
                           /\ s.sets = TRUE /\ s.fills = FALSE /\ s.reads = TRUE
  BY DEF Rcl, Fills, Reads
<1>5. QED
  BY <1>1, <1>2, <1>3, <1>4


-------------------------------------------------------------------------------
(* The rules: what a program is if the rest of it is fine.                  *)

Gain(o, g) == o \cup g
Lose(o, r) == o \ {r}

(* Sets by their elements, which is all that the rules use of them.         *)
LEMMA Gained == \A o, g, x : x \in Gain(o, g) <=> x \in o \/ x \in g
  BY DEF Gain

LEMMA Lost == \A o, r, x : x \in Lose(o, r) <=> x \in o /\ x # r
  BY DEF Lose

(* A step of work, given what its fields say.                               *)
LEMMA WorkRule ==
  ASSUME NEW m \in {"quiet", "full"}, NEW n \in {"quiet", "full"},
         NEW f, NEW q, NEW o, NEW g, NEW s, s.do = "work", s.gets = g, s.uses \subseteq o,
         {s.sets, s.fills} \subseteq BOOLEAN, s.reads => m = "full",
         n = m \/ (s.fills /\ m = "quiet" /\ n = "full"), Fine(n, f, q, Gain(o, g)),
         \A r \in s.else : Fine(IF s.sets THEN "loud" ELSE m, f, r, o)
  PROVE  Fine(m, f, Then(s, q), o)
<1> DEFINE p == Then(s, q)
           o2 == Gain(o, g)
<1>1. IsProgram(p) /\ p # <<>> /\ Head(p) = s /\ Tail(p) = q
  BY ThenIs DEF Fine, Plain
<1>2. (\A x : x \in o2 <=> x \in o \/ x \in s.gets) /\ Fine(n, f, q, o2)
  BY Gained
<1> HIDE DEF p, o2
<1>3. Fine(m, f, p, o)
  BY <1>1, <1>2, Works
<1>4. QED
  BY <1>3 DEF p

(* What fails without an rcl error.                                         *)
LEMMA NeedRule ==
  ASSUME NEW m \in {"quiet", "full"}, NEW f, NEW q, NEW o, NEW g, NEW u, NEW r,
         u \subseteq o, Fine(m, f, q, Gain(o, g)), Fine(m, f, r, o)
  PROVE  Fine(m, f, Then(Need(g, u, r), q), o)
<1> DEFINE s == Need(g, u, r)
<1>1. /\ s.do = "work" /\ s.gets = g /\ s.uses = u /\ s.else = {r}
      /\ s.sets = FALSE /\ s.fills = FALSE /\ s.reads = FALSE
  BY Fields
<1> HIDE DEF s
<1>2. Fine(m, f, Then(s, q), o)
  BY <1>1, WorkRule
<1>3. QED
  BY <1>2 DEF s

LEMMA FillsNeedRule ==
  ASSUME NEW f, NEW q, NEW o, NEW g, NEW u, NEW r,
         u \subseteq o, Fine("full", f, q, Gain(o, g)), Fine("quiet", f, r, o)
  PROVE  Fine("quiet", f, Then(Fills(Need(g, u, r)), q), o)
<1> DEFINE s == Fills(Need(g, u, r))
<1>1. /\ s.do = "work" /\ s.gets = g /\ s.uses = u /\ s.else = {r}
      /\ s.sets = FALSE /\ s.fills = TRUE /\ s.reads = FALSE
  BY Fields
<1> HIDE DEF s
<1>2. Fine("quiet", f, Then(s, q), o)
  BY <1>1, WorkRule
<1>3. QED
  BY <1>2 DEF s

LEMMA ReadsNeedRule ==
  ASSUME NEW f, NEW q, NEW o, NEW g, NEW u, NEW r,
         u \subseteq o, Fine("full", f, q, Gain(o, g)), Fine("full", f, r, o)
  PROVE  Fine("full", f, Then(Reads(Need(g, u, r)), q), o)
<1> DEFINE s == Reads(Need(g, u, r))
<1>1. /\ s.do = "work" /\ s.gets = g /\ s.uses = u /\ s.else = {r}
      /\ s.sets = FALSE /\ s.fills = FALSE /\ s.reads = TRUE
  BY Fields
<1> HIDE DEF s
<1>2. Fine("full", f, Then(s, q), o)
  BY <1>1, WorkRule
<1>3. QED
  BY <1>2 DEF s

(* A call of rcl.                                                           *)
LEMMA RclRule ==
  ASSUME NEW m \in {"quiet", "full"}, NEW f, NEW q, NEW o, NEW g, NEW u, NEW rs,
         u \subseteq o, Fine(m, f, q, Gain(o, g)), \A r \in rs : Fine("loud", f, r, o)
  PROVE  Fine(m, f, Then(Rcl(g, u, rs), q), o)
<1> DEFINE s == Rcl(g, u, rs)
<1>1. /\ s.do = "work" /\ s.gets = g /\ s.uses = u /\ s.else = rs
      /\ s.sets = TRUE /\ s.fills = FALSE /\ s.reads = FALSE
  BY Fields
<1> HIDE DEF s
<1>2. Fine(m, f, Then(s, q), o)
  BY <1>1, WorkRule
<1>3. QED
  BY <1>2 DEF s

LEMMA FillsRclRule ==
  ASSUME NEW f, NEW q, NEW o, NEW g, NEW u, NEW rs,
         u \subseteq o, Fine("full", f, q, Gain(o, g)), \A r \in rs : Fine("loud", f, r, o)
  PROVE  Fine("quiet", f, Then(Fills(Rcl(g, u, rs)), q), o)
<1> DEFINE s == Fills(Rcl(g, u, rs))
<1>1. /\ s.do = "work" /\ s.gets = g /\ s.uses = u /\ s.else = rs
      /\ s.sets = TRUE /\ s.fills = TRUE /\ s.reads = FALSE
  BY Fields
<1> HIDE DEF s
<1>2. Fine("quiet", f, Then(s, q), o)
  BY <1>1, WorkRule
<1>3. QED
  BY <1>2 DEF s

LEMMA ReadsRclRule ==
  ASSUME NEW f, NEW q, NEW o, NEW g, NEW u, NEW rs,
         u \subseteq o, Fine("full", f, q, Gain(o, g)), \A r \in rs : Fine("loud", f, r, o)
  PROVE  Fine("full", f, Then(Reads(Rcl(g, u, rs)), q), o)
<1> DEFINE s == Reads(Rcl(g, u, rs))
<1>1. /\ s.do = "work" /\ s.gets = g /\ s.uses = u /\ s.else = rs
      /\ s.sets = TRUE /\ s.fills = FALSE /\ s.reads = TRUE
  BY Fields
<1> HIDE DEF s
<1>2. Fine("full", f, Then(s, q), o)
  BY <1>1, WorkRule
<1>3. QED
  BY <1>2 DEF s

(* What cannot fail, and a branch.                                          *)
LEMMA MakeRule ==
  ASSUME NEW f, NEW q, NEW o, NEW g,
         Fine("quiet", f, q, Gain(o, g))
  PROVE  Fine("quiet", f, Then(Make(g), q), o)
<1> DEFINE s == Make(g)
<1>1. /\ s.do = "work" /\ s.gets = g /\ s.uses = {} /\ s.else = {}
      /\ s.sets = FALSE /\ s.fills = FALSE /\ s.reads = FALSE
  BY Fields
<1> HIDE DEF s
<1>2. Fine("quiet", f, Then(s, q), o)
  BY <1>1, WorkRule
<1>3. QED
  BY <1>2 DEF s

LEMMA OrRule ==
  ASSUME NEW f, NEW q, NEW o, NEW r,
         Fine("quiet", f, q, o), Fine("quiet", f, r, o)
  PROVE  Fine("quiet", f, Then(Or(r), q), o)
<1> DEFINE s == Or(r)
<1>1. /\ s.do = "work" /\ s.gets = {} /\ s.uses = {} /\ s.else = {r}
      /\ s.sets = FALSE /\ s.fills = FALSE /\ s.reads = FALSE
  BY Fields
<1>2. Fine("quiet", f, q, Gain(o, {}))
  <2>1. Gain(o, {}) = o
    BY DEF Gain
  <2>2. QED
    BY <2>1
<1> HIDE DEF s
<1>3. Fine("quiet", f, Then(s, q), o)
  BY <1>1, <1>2, WorkRule
<1>4. QED
  BY <1>3 DEF s

(* A release.  The message stays where it is when something else goes.      *)
LEMMA ReleaseRule ==
  ASSUME NEW m \in {"loud", "quiet", "full"}, NEW f, NEW q, NEW o, NEW r, NEW s,
         s.do \in {"free", "fini"}, s.uses = {r}, ~s.reads,
         m = "full" => r # "msg", r \in o, Fine(m, f, q, Lose(o, r))
  PROVE  Fine(m, f, Then(s, q), o)
<1> DEFINE p == Then(s, q)
           o2 == Lose(o, r)
<1>1. IsProgram(p) /\ p # <<>> /\ Head(p) = s /\ Tail(p) = q
  BY ThenIs DEF Fine, Plain
<1>2. (\A x : x \in o2 <=> x \in o /\ x \notin s.uses) /\ Fine(m, f, q, o2)
  BY Lost
<1> HIDE DEF p, o2
<1>3. m = "full" => s.uses # {"msg"}
  OBVIOUS
<1>4. Fine(m, f, p, o)
  BY <1>1, <1>2, <1>3, Frees
<1>5. QED
  BY <1>4 DEF p

LEMMA FreeRule ==
  ASSUME NEW m \in {"loud", "quiet"}, NEW f, NEW q, NEW o, NEW r,
         r \in o, Fine(m, f, q, Lose(o, r))
  PROVE  Fine(m, f, Then(Free(r), q), o)
  BY Fields, ReleaseRule

LEMMA FiniRule ==
  ASSUME NEW m \in {"loud", "quiet"}, NEW f, NEW q, NEW o, NEW r,
         r \in o, Fine(m, f, q, Lose(o, r))
  PROVE  Fine(m, f, Then(Fini(r), q), o)
  BY Fields, ReleaseRule

LEMMA FullFiniRule ==
  ASSUME NEW f, NEW q, NEW o, NEW r, r # "msg", r \in o, Fine("full", f, q, Lose(o, r))
  PROVE  Fine("full", f, Then(Fini(r), q), o)
  BY Fields, ReleaseRule

(* What is fine in any case is so in this one.                              *)
LEMMA FullRule ==
  ASSUME NEW f, NEW p, NEW o, Fine("quiet", f, p, o)
  PROVE  Fine("full", f, p, o)
  BY DEF Fine, Allows

LEMMA ResetRule ==
  ASSUME NEW m \in {"loud", "quiet"}, NEW f, NEW q, NEW o, Fine("quiet", f, q, o)
  PROVE  Fine(m, f, Then(Reset, q), o)
<1> DEFINE s == Reset
           p == Then(s, q)
<1>1. s.do = "reset" /\ s.uses = {} /\ s.reads = FALSE
  BY Fields
<1>2. IsProgram(p) /\ p # <<>> /\ Head(p) = s /\ Tail(p) = q
  BY ThenIs DEF Fine, Plain
<1> HIDE DEF s, p
<1>3. Fine(m, f, p, o)
  BY <1>1, <1>2, Resets
<1>4. QED
  BY <1>3 DEF p, s

(* The ends, with nothing left but what goes into the answer.               *)
LEMMA GiveRule ==
  ASSUME NEW f, NEW o, NEW rs, rs \subseteq o, o \subseteq rs
  PROVE  Fine("quiet", f, Then(Give(rs), End), o)
<1> DEFINE s == Give(rs)
           p == Then(s, End)
<1>1. s.do = "answer" /\ s.uses = rs /\ s.reads = FALSE
  BY Fields
<1>2. IsProgram(p) /\ p # <<>> /\ Head(p) = s /\ Tail(p) = <<>>
  BY ThenIs, EndIs DEF End
<1> HIDE DEF s, p
<1>3. s.uses \subseteq o /\ o \ s.uses \subseteq IF f = "nodeNames" THEN {"namespaces"} ELSE {}
  BY <1>1
<1>4. Fine("quiet", f, p, o)
  BY <1>1, <1>2, <1>3, EndsWell DEF Ends
<1>5. QED
  BY <1>4 DEF p, s

LEMMA EndRule ==
  ASSUME NEW m \in {"loud", "quiet"}, NEW f, NEW o, NEW s \in {Answer, Fail, Raise},
         \A x \in o : f = "nodeNames" /\ x = "namespaces",
         s = Raise \/ m = "quiet" \/ f \in LeavesItsError
  PROVE  Fine(m, f, Then(s, End), o)
<1> DEFINE p == Then(s, End)
<1>1. s.do \in Ends /\ s.uses = {} /\ s.reads = FALSE /\ (s = Raise => s.do = "raise")
  BY Fields DEF Ends
<1>2. IsProgram(p) /\ p # <<>> /\ Head(p) = s /\ Tail(p) = <<>>
  BY ThenIs, EndIs DEF End
<1> HIDE DEF p
<1>3. s.uses \subseteq o /\ o \ s.uses \subseteq IF f = "nodeNames" THEN {"namespaces"} ELSE {}
  BY <1>1
<1>4. Fine(m, f, p, o)
  BY <1>1, <1>2, <1>3, EndsWell
<1>5. QED
  BY <1>4 DEF p


-------------------------------------------------------------------------------
(* A program as it is written, and step by step.                            *)

LEMMA Len1 == ASSUME NEW a PROVE <<a>> = Then(a, End)
  BY DEF Then, End

LEMMA Len2 == ASSUME NEW a, NEW b PROVE <<a, b>> = Then(a, Then(b, End))
<1>1. <<a, b>> = Then(a, <<b>>)
  <2>1. <<a>> \in Seq({a, b}) /\ <<b>> \in Seq({a, b}) /\ <<a, b>> \in Seq({a, b})
    OBVIOUS
  <2>2. <<a>> \o <<b>> \in Seq({a, b}) /\ Len(<<a>> \o <<b>>) = 2
    BY <2>1
  <2>3. (<<a>> \o <<b>>)[1] = a /\ (<<a>> \o <<b>>)[2] = b
    BY <2>1
  <2>4. \A i \in 1..2 : <<a, b>>[i] = (<<a>> \o <<b>>)[i]
    <3>1. <<a, b>>[1] = a /\ <<a, b>>[2] = b
      OBVIOUS
    <3>2. 1..2 = {1, 2}
      OBVIOUS
    <3>3. QED
      BY <2>3, <3>1, <3>2
  <2>5. Len(<<a, b>>) = 2
    OBVIOUS
  <2>6. QED
    BY <2>1, <2>2, <2>4, <2>5, SeqEqual DEF Then
<1>2. QED
  BY <1>1, Len1

LEMMA Len3 ==
  ASSUME NEW a, NEW b, NEW c
  PROVE  <<a, b, c>> =
           Then(a, Then(b, Then(c, End)))
<1>1. <<a, b, c>> = Then(a, <<b, c>>)
  BY DEF Then
<1>2. QED
  BY <1>1, Len2

LEMMA Len4 ==
  ASSUME NEW a, NEW b, NEW c, NEW d
  PROVE  <<a, b, c, d>> =
           Then(a, Then(b, Then(c, Then(d, End))))
<1>1. <<a, b, c, d>> = Then(a, <<b, c, d>>)
  BY DEF Then
<1>2. QED
  BY <1>1, Len3

LEMMA Len5 ==
  ASSUME NEW a, NEW b, NEW c, NEW d, NEW e
  PROVE  <<a, b, c, d, e>> =
           Then(a, Then(b, Then(c, Then(d, Then(e, End)))))
<1>1. <<a, b, c, d, e>> = Then(a, <<b, c, d, e>>)
  BY DEF Then
<1>2. QED
  BY <1>1, Len4

LEMMA Len6 ==
  ASSUME NEW a, NEW b, NEW c, NEW d, NEW e, NEW f
  PROVE  <<a, b, c, d, e, f>> =
           Then(a, Then(b, Then(c, Then(d, Then(e, Then(f, End))))))
<1>1. <<a, b, c, d, e, f>> = Then(a, <<b, c, d, e, f>>)
  BY DEF Then
<1>2. QED
  BY <1>1, Len5

LEMMA Len7 ==
  ASSUME NEW a, NEW b, NEW c, NEW d, NEW e, NEW f, NEW g
  PROVE  <<a, b, c, d, e, f, g>> =
           Then(a, Then(b, Then(c, Then(d,
                Then(e, Then(f, Then(g, End)))))))
<1>1. <<a, b, c, d, e, f, g>> = Then(a, <<b, c, d, e, f, g>>)
  BY DEF Then
<1>2. QED
  BY <1>1, Len6

LEMMA Len8 ==
  ASSUME NEW a, NEW b, NEW c, NEW d, NEW e, NEW f, NEW g, NEW h
  PROVE  <<a, b, c, d, e, f, g, h>> =
           Then(a, Then(b, Then(c, Then(d,
                Then(e, Then(f, Then(g, Then(h, End))))))))
<1>1. <<a, b, c, d, e, f, g, h>> = Then(a, <<b, c, d, e, f, g, h>>)
  BY DEF Then
<1>2. QED
  BY <1>1, Len7

LEMMA Len9 ==
  ASSUME NEW a, NEW b, NEW c, NEW d, NEW e, NEW f, NEW g, NEW h, NEW i
  PROVE  <<a, b, c, d, e, f, g, h, i>> =
           Then(a, Then(b, Then(c, Then(d,
             Then(e, Then(f, Then(g, Then(h, Then(i, End)))))))))
<1>1. <<a, b, c, d, e, f, g, h, i>> = Then(a, <<b, c, d, e, f, g, h, i>>)
  BY DEF Then
<1>2. QED
  BY <1>1, Len8

LEMMA Len10 ==
  ASSUME NEW a, NEW b, NEW c, NEW d, NEW e, NEW f, NEW g, NEW h, NEW i, NEW j
  PROVE  <<a, b, c, d, e, f, g, h, i, j>> =
           Then(a, Then(b, Then(c, Then(d,
             Then(e, Then(f, Then(g, Then(h, Then(i, Then(j, End))))))))))
<1>1. <<a, b, c, d, e, f, g, h, i, j>> = Then(a, <<b, c, d, e, f, g, h, i, j>>)
  BY DEF Then
<1>2. QED
  BY <1>1, Len9

Join(p, q) == p \o q

LEMMA OntoEnd ==
  ASSUME NEW q, IsProgram(q)
  PROVE  Join(End, q) = q
<1>1. PICK S : q \in Seq(S)
  BY DEF IsProgram
<1>2. QED
  BY <1>1 DEF End, Join

(* Programs joined step by step.                                            *)
LEMMA OntoThen ==
  ASSUME NEW s, NEW p, NEW q, IsProgram(p), IsProgram(q)
  PROVE  Join(Then(s, p), q) = Then(s, Join(p, q)) /\ IsProgram(Join(p, q))
<1>1. PICK S : q \in Seq(S)
  BY DEF IsProgram
<1>2. PICK T : p \in Seq(T)
  BY DEF IsProgram
<1>3. p \in Seq(S \cup T \cup {s}) /\ q \in Seq(S \cup T \cup {s}) /\ <<s>> \in Seq(S \cup T \cup {s})
  BY <1>1, <1>2
<1>4. (<<s>> \o p) \o q = <<s>> \o (p \o q) /\ p \o q \in Seq(S \cup T \cup {s})
  BY <1>3, ConcatAssociative, ConcatProperties
<1>5. QED
  BY <1>4 DEF Then, Join, IsProgram

LEMMA Ahead == \A s, q : Join(<<s>>, q) = Then(s, q)
  BY DEF Then, Join

-------------------------------------------------------------------------------
(* The functions, each from its end backwards: what its failures go on with *)
(* step by step, the program step by step, and the rules.                   *)

(* A check of the arguments, before anything is acquired.                   *)
LEMMA TestRule ==
  ASSUME NEW f, NEW q, Fine("quiet", f, q, {})
  PROVE  Fine("quiet", f, Then(Test, q), {})
<1>1. Fine("quiet", f, Then(Fail, End), {})
  BY EndRule
<1>2. Test = Need({}, {}, Then(Fail, End))
  BY Len1 DEF Test
<1>3. QED
  BY <1>1, <1>2, Gained, NeedRule

LEMMA QueryFine ==
  ASSUME NEW f
  PROVE  Fine("quiet", f, Query, {})
<1>1. <<Raise>> = Then(Raise, End)
  BY Len1
<1>2. Query =
         Then(Test,
         Then(Rcl({}, {}, {Then(Raise, End)}),
         Then(Answer, End)))
  BY <1>1, Len3 DEF Query
<1>3. QED
  BY <1>2, Gained, RclRule, TestRule, EndRule

LEMMA TakingFine ==
  ASSUME NEW f
  PROVE  Fine("quiet", f, Taking, {})
<1>1. /\ <<Fail>> = Then(Fail, End)
      /\ <<Free("msg"), Reset, Answer>> = Then(Free("msg"), Then(Reset, Then(Answer, End)))
      /\ <<Free("msg"), Raise>> = Then(Free("msg"), Then(Raise, End))
      /\ <<Free("msg"), Fail>> = Then(Free("msg"), Then(Fail, End))
  BY Len1, Len2, Len3
<1>2. Taking =
         Then(Test,
         Then(Need({"msg"}, {}, Then(Fail, End)),
         Then(Fills(Rcl({}, {"msg"},
                {Then(Free("msg"), Then(Reset, Then(Answer, End))), Then(Free("msg"), Then(Raise, End))})),
         Then(Reads(Need({}, {"msg"}, Then(Free("msg"), Then(Fail, End)))),
         Then(Free("msg"),
         Then(Answer, End))))))
  BY <1>1, Len6 DEF Taking
<1>3. QED
  BY <1>2, Gained, Lost, NeedRule, ReadsNeedRule, FillsRclRule, TestRule,
     FreeRule, ResetRule, EndRule, FullRule

LEMMA EventTakeFine ==
  ASSUME NEW f
  PROVE  Fine("quiet", f, EventTake, {})
<1>1. /\ <<Reset, Answer>> = Then(Reset, Then(Answer, End))
      /\ <<Raise>> = Then(Raise, End)
  BY Len1, Len2
<1>2. EventTake =
         Then(Test,
         Then(Rcl({}, {}, {Then(Reset, Then(Answer, End)), Then(Raise, End)}),
         Then(Answer, End)))
  BY <1>1, Len3 DEF EventTake
<1>3. QED
  BY <1>2, Gained, RclRule, TestRule, ResetRule, EndRule

LEMMA DeserializeFine ==
  ASSUME NEW f
  PROVE  Fine("quiet", f, Deserialize, {})
<1> DEFINE a == Rcl({"bytes"}, {}, {<<Raise>>})
           b == Need({"buf"}, {}, <<Fini("bytes"), Fail>>)
           c == Need({"msg"}, {"buf"}, <<Free("buf"), Fini("bytes"), Fail>>)
           d == Fills(Rcl({}, {"msg", "buf", "bytes"},
                     {<<Fini("bytes"), Free("msg"), Free("buf"), Raise>>}))
           e == Reads(Need({}, {"msg", "buf"}, <<Free("msg"), Free("buf"), Fail>>))
<1>1. /\ <<Raise>> = Then(Raise, End)
      /\ <<Fini("bytes"), Fail>> = Then(Fini("bytes"), Then(Fail, End))
      /\ <<Free("buf"), Fini("bytes"), Fail>> =
             Then(Free("buf"), Then(Fini("bytes"), Then(Fail, End)))
      /\ <<Fini("bytes"), Free("msg"), Free("buf"), Raise>> =
             Then(Fini("bytes"), Then(Free("msg"), Then(Free("buf"), Then(Raise, End))))
      /\ <<Free("msg"), Free("buf"), Fail>> =
             Then(Free("msg"), Then(Free("buf"), Then(Fail, End)))
  BY Len1, Len2, Len3, Len4
<1>2. /\ a = Rcl({"bytes"}, {}, {Then(Raise, End)})
      /\ b = Need({"buf"}, {}, Then(Fini("bytes"), Then(Fail, End)))
      /\ c = Need({"msg"}, {"buf"}, Then(Free("buf"), Then(Fini("bytes"), Then(Fail, End))))
      /\ d = Fills(Rcl({}, {"msg", "buf", "bytes"},
                  {Then(Fini("bytes"), Then(Free("msg"), Then(Free("buf"), Then(Raise, End))))}))
      /\ e = Reads(Need({}, {"msg", "buf"}, Then(Free("msg"),
                  Then(Free("buf"), Then(Fail, End)))))
  BY <1>1
<1>3. Deserialize = <<Test, a, b, c, d, Fini("bytes"), e, Free("msg"), Free("buf"), Answer>>
  BY DEF Deserialize
<1> HIDE DEF a, b, c, d, e
<1>4. Deserialize =
        Then(Test, Then(a, Then(b, Then(c, Then(d,
        Then(Fini("bytes"), Then(e, Then(Free("msg"), Then(Free("buf"), Then(Answer, End))))))))))
  BY <1>3, Len10
<1>5. QED
  BY <1>2, <1>4, Gained, Lost, NeedRule, ReadsNeedRule, RclRule,
     FillsRclRule, TestRule, FreeRule, FiniRule, FullFiniRule, EndRule,
     FullRule

LEMMA CreateWithBufferFine ==
  ASSUME NEW f
  PROVE  Fine("quiet", f, CreateWithBuffer, {})
<1> DEFINE a == Need({"handle"}, {}, <<Fail>>)
           b == Need({"cache"}, {"handle"}, <<Fini("handle"), Fail>>)
           c == Rcl({}, {"handle", "cache"}, {<<Free("cache"), Fini("handle"), Raise>>})
<1>1. /\ <<Fail>> = Then(Fail, End)
      /\ <<Fini("handle"), Fail>> = Then(Fini("handle"), Then(Fail, End))
      /\ <<Free("cache"), Fini("handle"), Raise>> =
             Then(Free("cache"), Then(Fini("handle"), Then(Raise, End)))
  BY Len1, Len2, Len3
<1>2. /\ a = Need({"handle"}, {}, Then(Fail, End))
      /\ b = Need({"cache"}, {"handle"}, Then(Fini("handle"), Then(Fail, End)))
      /\ c = Rcl({}, {"handle", "cache"}, {Then(Free("cache"),
                  Then(Fini("handle"), Then(Raise, End)))})
  BY <1>1
<1>3. CreateWithBuffer = <<Test, Test, a, b, c, Give({"handle", "cache"})>>
  BY DEF CreateWithBuffer
<1> HIDE DEF a, b, c
<1>4. CreateWithBuffer =
        Then(Test, Then(Test, Then(a, Then(b,
        Then(c, Then(Give({"handle", "cache"}), End))))))
  BY <1>3, Len6
<1>5. QED
  BY <1>2, <1>4, Gained, Lost, NeedRule, RclRule, TestRule, FreeRule,
     FiniRule, EndRule, GiveRule

LEMMA TimerCreateFine ==
  ASSUME NEW f
  PROVE  Fine("quiet", f, TimerCreate, {})
<1> DEFINE a == Need({"handle", "clock"}, {}, <<Fail>>)
           b == Rcl({}, {"handle", "clock"}, {<<Fini("handle"), Free("clock"), Raise>>})
<1>1. /\ <<Fail>> = Then(Fail, End)
      /\ <<Fini("handle"), Free("clock"), Raise>> =
             Then(Fini("handle"), Then(Free("clock"), Then(Raise, End)))
  BY Len1, Len3
<1>2. /\ a = Need({"handle", "clock"}, {}, Then(Fail, End))
      /\ b = Rcl({}, {"handle", "clock"}, {Then(Fini("handle"),
                  Then(Free("clock"), Then(Raise, End)))})
  BY <1>1
<1>3. TimerCreate = <<Test, Test, a, b, Give({"handle", "clock"})>>
  BY DEF TimerCreate
<1> HIDE DEF a, b
<1>4. TimerCreate =
        Then(Test, Then(Test, Then(a,
        Then(b, Then(Give({"handle", "clock"}), End)))))
  BY <1>3, Len5
<1>5. QED
  BY <1>2, <1>4, Gained, Lost, NeedRule, RclRule, TestRule, FreeRule,
     FiniRule, EndRule, GiveRule

LEMMA QosCreateFine ==
  ASSUME NEW f
  PROVE  Fine("quiet", f, QosCreate, {})
<1>1. <<Fail>> = Then(Fail, End)
  BY Len1
<1>2. QosCreate =
         Then(Need({"handle"}, {}, Then(Fail, End)),
         Then(Give({"handle"}), End))
  BY <1>1, Len2 DEF QosCreate
<1>3. QED
  BY <1>2, Gained, NeedRule, EndRule, GiveRule

LEMMA ContextInitFine ==
  ASSUME NEW f
  PROVE  Fine("quiet", f, ContextInit, {})
<1> DEFINE a == Need({"handle"}, {}, <<Fail>>)
           b == Rcl({"options"}, {"handle"}, {<<Fini("handle"), Raise>>})
           c == Rcl({}, {"options"}, {<<Fini("handle"), Fini("options"), Raise>>})
           d == Need({"argv"}, {}, <<Fini("handle"), Fini("options"), Fail>>)
           e == Rcl({}, {"handle", "options", "argv"},
                     {<<Free("argv"), Fini("handle"), Fini("options"), Raise>>})
           g == Rcl({}, {"handle"}, {<<Reset, Give({"handle", "options"})>>})
<1>1. /\ <<Fail>> = Then(Fail, End)
      /\ <<Fini("handle"), Raise>> = Then(Fini("handle"), Then(Raise, End))
      /\ <<Fini("handle"), Fini("options"), Raise>> =
             Then(Fini("handle"), Then(Fini("options"), Then(Raise, End)))
      /\ <<Fini("handle"), Fini("options"), Fail>> =
             Then(Fini("handle"), Then(Fini("options"), Then(Fail, End)))
      /\ <<Free("argv"), Fini("handle"), Fini("options"), Raise>> =
             Then(Free("argv"), Then(Fini("handle"), Then(Fini("options"), Then(Raise, End))))
      /\ <<Reset, Give({"handle", "options"})>> =
             Then(Reset, Then(Give({"handle", "options"}), End))
  BY Len1, Len2, Len3, Len4
<1>2. /\ a = Need({"handle"}, {}, Then(Fail, End))
      /\ b = Rcl({"options"}, {"handle"}, {Then(Fini("handle"), Then(Raise, End))})
      /\ c = Rcl({}, {"options"}, {Then(Fini("handle"),
                  Then(Fini("options"), Then(Raise, End)))})
      /\ d = Need({"argv"}, {}, Then(Fini("handle"),
                  Then(Fini("options"), Then(Fail, End))))
      /\ e = Rcl({}, {"handle", "options", "argv"},
                  {Then(Free("argv"), Then(Fini("handle"), Then(Fini("options"), Then(Raise, End))))})
      /\ g = Rcl({}, {"handle"}, {Then(Reset, Then(Give({"handle", "options"}), End))})
  BY <1>1
<1>3. ContextInit = <<a, b, c, d, e, Free("argv"), g, Give({"handle", "options"})>>
  BY DEF ContextInit
<1> HIDE DEF a, b, c, d, e, g
<1>4. ContextInit =
        Then(a, Then(b, Then(c, Then(d, Then(e,
        Then(Free("argv"), Then(g, Then(Give({"handle", "options"}), End))))))))
  BY <1>3, Len8
<1>5. QED
  BY <1>2, <1>4, Gained, Lost, NeedRule, RclRule, FreeRule, FiniRule,
     ResetRule, EndRule, GiveRule

LEMMA RmwImplementationIdentifierFine ==
  ASSUME NEW f
  PROVE  Fine("quiet", f, RmwImplementationIdentifier, {})
<1>1. RmwImplementationIdentifier = Then(Test, Then(Answer, End))
  BY Len2 DEF RmwImplementationIdentifier
<1>2. QED
  BY <1>1, Gained, TestRule, EndRule

LEMMA RemoveRosArgumentsFine ==
  ASSUME NEW f
  PROVE  Fine("quiet", f, RemoveRosArguments, {})
<1> DEFINE a == Need({"argv"}, {}, <<Fail>>)
           b == Rcl({"parsed"}, {"argv"}, {<<Free("argv"), Raise>>})
           c == Rcl({"nonros"}, {"argv", "parsed"},
                     {<<Free("argv"), Fini("parsed"), Raise>>})
<1>1. /\ <<Fail>> = Then(Fail, End)
      /\ <<Free("argv"), Raise>> = Then(Free("argv"), Then(Raise, End))
      /\ <<Free("argv"), Fini("parsed"), Raise>> =
             Then(Free("argv"), Then(Fini("parsed"), Then(Raise, End)))
  BY Len1, Len2, Len3
<1>2. /\ a = Need({"argv"}, {}, Then(Fail, End))
      /\ b = Rcl({"parsed"}, {"argv"}, {Then(Free("argv"), Then(Raise, End))})
      /\ c = Rcl({"nonros"}, {"argv", "parsed"},
                  {Then(Free("argv"), Then(Fini("parsed"), Then(Raise, End)))})
  BY <1>1
<1>3. RemoveRosArguments = <<a, b, c, Free("argv"), Fini("parsed"), Free("nonros"), Answer>>
  BY DEF RemoveRosArguments
<1> HIDE DEF a, b, c
<1>4. RemoveRosArguments =
        Then(a, Then(b, Then(c, Then(Free("argv"), Then(Fini("parsed"),
        Then(Free("nonros"), Then(Answer, End)))))))
  BY <1>3, Len7
<1>5. QED
  BY <1>2, <1>4, Gained, Lost, NeedRule, RclRule, FreeRule, FiniRule, EndRule

LEMMA ExpandTopicNameFine ==
  ASSUME NEW f \in LeavesItsError
  PROVE  Fine("quiet", f, ExpandTopicName, {})
<1> DEFINE a == Rcl({"subs"}, {}, {<<Reset, Fail>>})
           b == Rcl({}, {"subs"}, {<<Fini("subs"), Fail>>})
           c == Rcl({"expanded"}, {"subs"}, {<<Fini("subs"), Raise>>})
<1>1. /\ <<Reset, Fail>> = Then(Reset, Then(Fail, End))
      /\ <<Fini("subs"), Fail>> = Then(Fini("subs"), Then(Fail, End))
      /\ <<Fini("subs"), Raise>> = Then(Fini("subs"), Then(Raise, End))
  BY Len2
<1>2. /\ a = Rcl({"subs"}, {}, {Then(Reset, Then(Fail, End))})
      /\ b = Rcl({}, {"subs"}, {Then(Fini("subs"), Then(Fail, End))})
      /\ c = Rcl({"expanded"}, {"subs"}, {Then(Fini("subs"), Then(Raise, End))})
  BY <1>1
<1>3. ExpandTopicName = <<a, b, c, Fini("subs"), Free("expanded"), Answer>>
  BY DEF ExpandTopicName
<1> HIDE DEF a, b, c
<1>4. ExpandTopicName =
        Then(a, Then(b, Then(c, Then(Fini("subs"),
        Then(Free("expanded"), Then(Answer, End))))))
  BY <1>3, Len6
<1>5. QED
  BY <1>2, <1>4, Gained, Lost, RclRule, FreeRule, FiniRule, ResetRule,
     EndRule

LEMMA ValidateFullTopicNameFine ==
  ASSUME NEW f \in LeavesItsError
  PROVE  Fine("quiet", f, ValidateFullTopicName, {})
<1>1. <<Answer>> = Then(Answer, End)
  BY Len1
<1>2. ValidateFullTopicName =
         Then(Rcl({}, {}, {Then(Answer, End)}),
         Then(Answer, End))
  BY <1>1, Len2 DEF ValidateFullTopicName
<1>3. QED
  BY <1>2, Gained, RclRule, EndRule

LEMMA ValidateTopicNameFine ==
  ASSUME NEW f
  PROVE  Fine("quiet", f, ValidateTopicName, {})
<1>1. <<Reset, Answer>> = Then(Reset, Then(Answer, End))
  BY Len2
<1>2. ValidateTopicName =
         Then(Rcl({}, {}, {Then(Reset, Then(Answer, End))}),
         Then(Answer, End))
  BY <1>1, Len2 DEF ValidateTopicName
<1>3. QED
  BY <1>2, Gained, RclRule, ResetRule, EndRule

LEMMA NodeGetterFine ==
  ASSUME NEW f \in LeavesItsError
  PROVE  Fine("quiet", f, NodeGetter, {})
<1>1. <<Fail>> = Then(Fail, End)
  BY Len1
<1>2. NodeGetter =
         Then(Test,
         Then(Rcl({}, {}, {Then(Fail, End)}),
         Then(Answer, End)))
  BY <1>1, Len3 DEF NodeGetter
<1>3. QED
  BY <1>2, Gained, RclRule, TestRule, EndRule

LEMMA NamedFine ==
  ASSUME NEW f \in LeavesItsError
  PROVE  Fine("quiet", f, Named, {})
<1>1. <<Answer>> = Then(Answer, End)
  BY Len1
<1>2. Named =
         Then(Test,
         Then(Rcl({}, {}, {Then(Answer, End)}),
         Then(Answer, End)))
  BY <1>1, Len3 DEF Named
<1>3. QED
  BY <1>2, Gained, RclRule, TestRule, EndRule

LEMMA GuardTriggerFine ==
  ASSUME NEW f
  PROVE  Fine("quiet", f, GuardTrigger, {})
<1>1. /\ <<Answer>> = Then(Answer, End)
      /\ <<Raise>> = Then(Raise, End)
  BY Len1
<1>2. GuardTrigger =
         Then(Need({}, {}, Then(Answer, End)),
         Then(Rcl({}, {}, {Then(Raise, End)}),
         Then(Answer, End)))
  BY <1>1, Len3 DEF GuardTrigger
<1>3. QED
  BY <1>2, Gained, NeedRule, RclRule, EndRule

LEMMA ClockStateFine ==
  ASSUME NEW f
  PROVE  Fine("quiet", f, ClockState, {})
<1>1. ClockState = Then(Answer, End)
  BY Len1 DEF ClockState
<1>2. QED
  BY <1>1, EndRule

LEMMA LoggingInitializeFine ==
  ASSUME NEW f \in LeavesItsError
  PROVE  Fine("quiet", f, LoggingInitialize, {})
<1>1. <<Fail>> = Then(Fail, End)
  BY Len1
<1>2. LoggingInitialize =
         Then(Rcl({}, {}, {Then(Fail, End)}),
         Then(Answer, End))
  BY <1>1, Len2 DEF LoggingInitialize
<1>3. QED
  BY <1>2, Gained, RclRule, EndRule

LEMMA LoggerLevelFine ==
  ASSUME NEW f
  PROVE  Fine("quiet", f, LoggerLevel, {})
<1>1. /\ <<Reset, Fail>> = Then(Reset, Then(Fail, End))
      /\ <<Reset, Answer>> = Then(Reset, Then(Answer, End))
  BY Len2
<1>2. LoggerLevel =
         Then(Rcl({}, {}, {Then(Reset, Then(Fail, End)), Then(Reset, Then(Answer, End))}),
         Then(Answer, End))
  BY <1>1, Len2 DEF LoggerLevel
<1>3. QED
  BY <1>2, Gained, RclRule, ResetRule, EndRule

(* A message converted into a buffer of the call's own, for what follows.   *)
LEMMA ConvertedRule ==
  ASSUME NEW f, NEW q,
         \A o : (\A x : x \in o <=> x \in {"msg", "buf"}) => Fine("full", f, q, o)
  PROVE  Fine("quiet", f, Join(Converted, q), {}) /\ IsProgram(Converted)
<1> DEFINE a == Need({"buf"}, {}, <<Fail>>)
           b == Need({"msg"}, {"buf"}, <<Free("buf"), Fail>>)
           c == Fills(Need({}, {"msg", "buf"}, <<Free("msg"), Free("buf"), Fail>>))
<1>1. /\ <<Fail>> = Then(Fail, End)
      /\ <<Free("buf"), Fail>> = Then(Free("buf"), Then(Fail, End))
      /\ <<Free("msg"), Free("buf"), Fail>> =
             Then(Free("msg"), Then(Free("buf"), Then(Fail, End)))
  BY Len1, Len2, Len3
<1>2. /\ a = Need({"buf"}, {}, Then(Fail, End))
      /\ b = Need({"msg"}, {"buf"}, Then(Free("buf"), Then(Fail, End)))
      /\ c = Fills(Need({}, {"msg", "buf"}, Then(Free("msg"), Then(Free("buf"), Then(Fail, End)))))
  BY <1>1
<1>3. Converted = <<a, b, c>>
  BY DEF Converted
<1> HIDE DEF a, b, c
<1>4. Converted = Then(a, Then(b, Then(c, End)))
  BY <1>3, Len3
<1>5. IsProgram(q)
  BY DEF Fine, Plain
<1>6. Join(Converted, q) = Then(a, Then(b, Then(c, q))) /\ IsProgram(Converted)
  BY <1>4, <1>5, OntoThen, OntoEnd, ThenIs, EndIs
<1>7. Fine("quiet", f, Then(a, Then(b, Then(c, q))), {})
  BY <1>2, Gained, Lost, NeedRule, FillsNeedRule, FreeRule, EndRule, FullRule
<1>8. QED
  BY <1>6, <1>7

LEMMA SendingFine ==
  ASSUME NEW f
  PROVE  Fine("quiet", f, Sending, {})
<1> DEFINE a == Reads(Rcl({}, {"msg", "buf"}, {<<Free("msg"), Free("buf"), Raise>>}))
           rest == <<a, Free("msg"), Free("buf"), Answer>>
<1>1. <<Free("msg"), Free("buf"), Raise>> =
          Then(Free("msg"), Then(Free("buf"), Then(Raise, End)))
  BY Len3
<1>2. a = Reads(Rcl({}, {"msg", "buf"}, {Then(Free("msg"), Then(Free("buf"), Then(Raise, End)))}))
  BY <1>1
<1>3. Sending = Join(Converted, rest)
  BY DEF Sending, Join
<1> HIDE DEF a
<1>4. rest = Then(a, Then(Free("msg"), Then(Free("buf"), Then(Answer, End))))
  BY Len4
<1> HIDE DEF rest
<1>5. ASSUME NEW o, \A x : x \in o <=> x \in {"msg", "buf"}
      PROVE  Fine("full", f, rest, o)
  BY <1>2, <1>4, <1>5, Gained, Lost, ReadsRclRule, FreeRule, EndRule, FullRule
<1>6. QED
  BY <1>3, <1>5, ConvertedRule

LEMMA SerializeFine ==
  ASSUME NEW f
  PROVE  Fine("quiet", f, Serialize, {})
<1> DEFINE a == Rcl({"bytes"}, {}, {<<Free("msg"), Free("buf"), Raise>>})
           b == Reads(Rcl({}, {"msg", "buf", "bytes"},
                          {<<Free("msg"), Free("buf"), Fini("bytes"), Raise>>}))
           rest == <<a, b, Free("msg"), Free("buf"), Fini("bytes"), Answer>>
<1>1. /\ <<Free("msg"), Free("buf"), Raise>> =
             Then(Free("msg"), Then(Free("buf"), Then(Raise, End)))
      /\ <<Free("msg"), Free("buf"), Fini("bytes"), Raise>> =
           Then(Free("msg"), Then(Free("buf"), Then(Fini("bytes"), Then(Raise, End))))
  BY Len3, Len4
<1>2. /\ a = Rcl({"bytes"}, {}, {Then(Free("msg"), Then(Free("buf"), Then(Raise, End)))})
      /\ b = Reads(Rcl({}, {"msg", "buf", "bytes"},
               {Then(Free("msg"), Then(Free("buf"), Then(Fini("bytes"), Then(Raise, End))))}))
  BY <1>1
<1>3. Serialize = Join(Join(<<Test>>, Converted), rest)
  BY DEF Serialize, Join
<1> HIDE DEF a, b
<1>4. rest =
        Then(a, Then(b, Then(Free("msg"), Then(Free("buf"), Then(Fini("bytes"), Then(Answer, End))))))
  BY Len6
<1> HIDE DEF rest
<1>5. ASSUME NEW o, \A x : x \in o <=> x \in {"msg", "buf"}
      PROVE  Fine("full", f, rest, o)
  BY <1>2, <1>4, <1>5, Gained, Lost, RclRule, ReadsRclRule, FreeRule, FiniRule, EndRule, FullRule
<1>6. Fine("quiet", f, Join(Converted, rest), {}) /\ IsProgram(Converted)
  BY <1>5, ConvertedRule
<1>7. IsProgram(rest)
  BY <1>4, ThenIs, EndIs
<1>8. Serialize = Join(Then(Test, Converted), rest)
  BY <1>3, Ahead
<1>9. Serialize = Then(Test, Join(Converted, rest))
  BY <1>6, <1>7, <1>8, OntoThen, OntoEnd
<1>10. QED
  BY <1>6, <1>9, TestRule

(* After the checks of the arguments.                                       *)
LEMMA AfterTests ==
  ASSUME NEW f, NEW q, Fine("quiet", f, q, {})
  PROVE  /\ Fine("quiet", f, Join(<<Test>>, q), {})
         /\ Fine("quiet", f, Join(<<Test, Test>>, q), {})
<1>1. Join(<<Test>>, q) = Then(Test, q)
  BY Ahead
<1>2. Join(<<Test, Test>>, q) = Join(Then(Test, Then(Test, End)), q)
  BY Len2
<1>3. Join(<<Test, Test>>, q) = Then(Test, Then(Test, q))
  BY <1>2, OntoThen, OntoEnd, ThenIs, EndIs DEF Fine, Plain
<1>4. QED
  BY <1>1, <1>3, TestRule

LEMMA CreateFine ==
  ASSUME NEW f
  PROVE  Fine("quiet", f, Create, {})
<1> DEFINE a == Need({"handle"}, {}, <<Fail>>)
           b == Rcl({}, {"handle"}, {Join(<<Fini("handle")>>, <<Raise>>)})
           c == Give({"handle"})
<1>1. /\ <<Fail>> = Then(Fail, End)
      /\ Join(<<Fini("handle")>>, <<Raise>>) = Then(Fini("handle"), Then(Raise, End))
  BY Len1, Ahead
<1>2. /\ a = Need({"handle"}, {}, Then(Fail, End))
      /\ b = Rcl({}, {"handle"}, {Then(Fini("handle"), Then(Raise, End))})
  BY <1>1
<1>3. Create = Join(<<a, b>>, <<c>>)
  BY DEF Create, Creating, Join
<1> HIDE DEF a, b
<1>4. Create = Join(Then(a, Then(b, End)), Then(c, End))
  BY <1>3, Len1, Len2
<1>5. Create = Then(a, Then(b, Then(c, End)))
  BY <1>4, OntoThen, OntoEnd, ThenIs, EndIs
<1>6. QED
  BY <1>2, <1>5, Gained, Lost, NeedRule, RclRule, FiniRule, GiveRule, EndRule

(* What the application gives back, released.                               *)
LEMMA EndingIs ==
  ASSUME NEW rs, NEW p, IsProgram(p)
  PROVE  Ending(rs, p) = Then(Make(rs), Join(p, Then(Answer, End)))
<1>1. Ending(rs, p) = Join(Join(<<Make(rs)>>, p), <<Answer>>)
  BY DEF Ending, Join
<1>2. Ending(rs, p) = Join(Then(Make(rs), p), Then(Answer, End))
  BY <1>1, Ahead, Len1
<1>3. QED
  BY <1>2, OntoThen, ThenIs, EndIs

LEMMA PublisherFiniFine ==
  ASSUME NEW f
  PROVE  Fine("quiet", f, PublisherFini, {})
<1>1. PublisherFini = Ending({"handle"},
        Then(Fini("handle"), End))
  BY Len1 DEF PublisherFini
<1>2. Join(Then(Fini("handle"), End), Then(Answer, End)) =
        Then(Fini("handle"), Then(Answer, End))
  BY OntoThen, OntoEnd, ThenIs, EndIs
<1>3. PublisherFini = Then(Make({"handle"}),
        Then(Fini("handle"), Then(Answer, End)))
  BY <1>1, <1>2, EndingIs, ThenIs, EndIs
<1>4. QED
  BY <1>3, Gained, Lost, MakeRule, FiniRule, EndRule

LEMMA SubscriptionFiniFine ==
  ASSUME NEW f
  PROVE  Fine("quiet", f, SubscriptionFini, {})
<1>1. SubscriptionFini = Ending({"handle", "cache"},
        Then(Free("cache"), Then(Fini("handle"), End)))
  BY Len2 DEF SubscriptionFini
<1>2. Join(Then(Free("cache"), Then(Fini("handle"), End)), Then(Answer, End)) =
        Then(Free("cache"), Then(Fini("handle"), Then(Answer, End)))
  BY OntoThen, OntoEnd, ThenIs, EndIs
<1>3. SubscriptionFini = Then(Make({"handle", "cache"}),
        Then(Free("cache"), Then(Fini("handle"), Then(Answer, End))))
  BY <1>1, <1>2, EndingIs, ThenIs, EndIs
<1>4. QED
  BY <1>3, Gained, Lost, MakeRule, FreeRule, FiniRule, EndRule

LEMMA TimerFiniFine ==
  ASSUME NEW f
  PROVE  Fine("quiet", f, TimerFini, {})
<1>1. TimerFini = Ending({"handle", "clock"},
        Then(Fini("handle"), Then(Free("clock"), End)))
  BY Len2 DEF TimerFini
<1>2. Join(Then(Fini("handle"), Then(Free("clock"), End)), Then(Answer, End)) =
        Then(Fini("handle"), Then(Free("clock"), Then(Answer, End)))
  BY OntoThen, OntoEnd, ThenIs, EndIs
<1>3. TimerFini = Then(Make({"handle", "clock"}),
        Then(Fini("handle"), Then(Free("clock"), Then(Answer, End))))
  BY <1>1, <1>2, EndingIs, ThenIs, EndIs
<1>4. QED
  BY <1>3, Gained, Lost, MakeRule, FreeRule, FiniRule, EndRule

LEMMA ContextFiniFine ==
  ASSUME NEW f
  PROVE  Fine("quiet", f, ContextFini, {})
<1>1. ContextFini = Ending({"params", "rcl", "handle", "options"},
        Then(Free("params"), Then(Fini("rcl"), Then(Fini("handle"), Then(Fini("options"), End)))))
  BY Len4 DEF ContextFini
<1>2. Join(Then(Free("params"), Then(Fini("rcl"), Then(Fini("handle"), Then(Fini("options"), End)))),
             Then(Answer, End)) =
        Then(Free("params"), Then(Fini("rcl"), Then(Fini("handle"), Then(Fini("options"), Then(Answer, End)))))
  BY OntoThen, OntoEnd, ThenIs, EndIs
<1>3. ContextFini = Then(Make({"params", "rcl", "handle", "options"}),
        Then(Free("params"), Then(Fini("rcl"), Then(Fini("handle"), Then(Fini("options"), Then(Answer, End))))))
  BY <1>1, <1>2, EndingIs, ThenIs, EndIs
<1>4. QED
  BY <1>3, Gained, Lost, MakeRule, FreeRule, FiniRule, EndRule

LEMMA NodeFiniFine ==
  ASSUME NEW f
  PROVE  Fine("quiet", f, NodeFini, {})
<1>1. NodeFini = Ending({"handle", "rosout"},
        Then(Fini("rosout"), Then(Fini("handle"), End)))
  BY Len2 DEF NodeFini
<1>2. Join(Then(Fini("rosout"), Then(Fini("handle"), End)), Then(Answer, End)) =
        Then(Fini("rosout"), Then(Fini("handle"), Then(Answer, End)))
  BY OntoThen, OntoEnd, ThenIs, EndIs
<1>3. NodeFini = Then(Make({"handle", "rosout"}),
        Then(Fini("rosout"), Then(Fini("handle"), Then(Answer, End))))
  BY <1>1, <1>2, EndingIs, ThenIs, EndIs
<1>4. QED
  BY <1>3, Gained, Lost, MakeRule, FiniRule, EndRule

LEMMA NamesAndTypesFine ==
  ASSUME NEW f
  PROVE  Fine("quiet", f, NamesAndTypes, {})
<1> DEFINE rest == Then(Fini("nt"), Then(Answer, End))
           a == Rcl({"nt"}, {}, {<<Raise>>})
           b == Need({"joined"}, {"nt"}, rest)
<1>1. <<Fini("nt"), Answer>> = rest /\ <<Raise>> = Then(Raise, End)
  BY Len1, Len2
<1>2. a = Rcl({"nt"}, {}, {Then(Raise, End)})
  BY <1>1
<1>3. NamesAndTypes = Join(<<Test, a>>, Join(<<b, Free("joined")>>, rest))
  BY <1>1 DEF NamesAndTypes, JoinTypes, Join
<1>4. IsProgram(rest)
  BY ThenIs, EndIs
<1> HIDE DEF a, b, rest
<1>5. NamesAndTypes =
        Join(Then(Test, Then(a, End)), Join(Then(b, Then(Free("joined"), End)), rest))
  BY <1>3, Len2
<1>6. Join(Then(b, Then(Free("joined"), End)), rest) = Then(b, Then(Free("joined"), rest))
  BY <1>4, OntoThen, OntoEnd, ThenIs, EndIs
<1>7. NamesAndTypes = Then(Test, Then(a, Then(b, Then(Free("joined"), rest))))
  BY <1>4, <1>5, <1>6, OntoThen, OntoEnd, ThenIs, EndIs
<1>8. QED
  BY <1>2, <1>7, Gained, Lost, NeedRule, RclRule, TestRule, FreeRule, FiniRule, EndRule
     DEF b, rest

(* A node.                                                                  *)
LEMMA NodeInitIs ==
  ASSUME NEW given, NEW ends, ends = IF given = {} THEN <<>> ELSE <<Fini("arguments")>>
  PROVE  NodeInit(given) =
           Join(Join(<<Need({"handle"}, {}, Join(ends, <<Fail>>)),
                       Rcl({}, {"handle"} \cup given, {Join(ends, <<Fini("handle"), Raise>>)})>>,
                     ends),
                <<Rcl({}, {"handle"}, {<<Reset, Give({"handle"})>>}), Give({"handle"})>>)
  BY DEF NodeInit, Join

LEMMA NodeInitFine ==
  ASSUME NEW f
  PROVE  Fine("quiet", f, NodeInit({}), {})
<1> DEFINE x == Join(<<>>, <<Fail>>)
           y == Join(<<>>, <<Fini("handle"), Raise>>)
           z == <<Reset, Give({"handle"})>>
           a == Need({"handle"}, {}, x)
           b == Rcl({}, {"handle"} \cup {}, {y})
           c == Rcl({}, {"handle"}, {z})
           d == Give({"handle"})
<1>1. x = Join(End, Then(Fail, End)) /\ y = Join(End, Then(Fini("handle"), Then(Raise, End)))
  BY Len1, Len2 DEF End
<1>2. /\ x = Then(Fail, End) /\ y = Then(Fini("handle"), Then(Raise, End))
      /\ z = Then(Reset, Then(d, End))
  BY <1>1, Len2, OntoEnd, ThenIs, EndIs
<1>3. NodeInit({}) = Join(Join(<<a, b>>, <<>>), <<c, d>>)
  BY NodeInitIs
<1> HIDE DEF x, y, z
<1>4. /\ a = Need({"handle"}, {}, Then(Fail, End))
      /\ b = Rcl({}, {"handle"} \cup {}, {Then(Fini("handle"), Then(Raise, End))})
      /\ c = Rcl({}, {"handle"}, {Then(Reset, Then(d, End))})
  BY <1>2
<1> HIDE DEF a, b, c
<1>5. NodeInit({}) = Join(Join(Then(a, Then(b, End)), End), Then(c, Then(d, End)))
  BY <1>3, Len2 DEF End
<1>6. NodeInit({}) = Then(a, Then(b, Then(c, Then(d, End))))
  BY <1>5, OntoThen, OntoEnd, ThenIs, EndIs
<1>7. QED
  BY <1>4, <1>6, Gained, Lost, NeedRule, RclRule, FiniRule, ResetRule, EndRule, GiveRule

LEMMA NodeInitWithArgumentsFine ==
  ASSUME NEW f, NEW o, \A x : x \in o <=> x = "arguments"
  PROVE  Fine("quiet", f, NodeInit({"arguments"}), o)
<1> DEFINE e == <<Fini("arguments")>>
           x == Join(e, <<Fail>>)
           y == Join(e, <<Fini("handle"), Raise>>)
           z == <<Reset, Give({"handle"})>>
           a == Need({"handle"}, {}, x)
           b == Rcl({}, {"handle"} \cup {"arguments"}, {y})
           c == Rcl({}, {"handle"}, {z})
           d == Give({"handle"})
<1>1. x = Join(e, Then(Fail, End)) /\ y = Join(e, Then(Fini("handle"), Then(Raise, End)))
  BY Len1, Len2
<1>2. /\ x = Then(Fini("arguments"), Then(Fail, End))
      /\ y = Then(Fini("arguments"), Then(Fini("handle"), Then(Raise, End)))
      /\ z = Then(Reset, Then(d, End))
  BY <1>1, Len2, Ahead
<1>3. NodeInit({"arguments"}) = Join(Join(<<a, b>>, e), <<c, d>>)
  BY NodeInitIs
<1> HIDE DEF x, y, z
<1>4. /\ a = Need({"handle"}, {}, Then(Fini("arguments"), Then(Fail, End)))
      /\ b = Rcl({}, {"handle"} \cup {"arguments"},
                 {Then(Fini("arguments"), Then(Fini("handle"), Then(Raise, End)))})
      /\ c = Rcl({}, {"handle"}, {Then(Reset, Then(d, End))})
  BY <1>2
<1> HIDE DEF a, b, c
<1>5. NodeInit({"arguments"}) =
        Join(Join(Then(a, Then(b, End)), Then(Fini("arguments"), End)), Then(c, Then(d, End)))
  BY <1>3, Len1, Len2
<1>6. NodeInit({"arguments"}) = Then(a, Then(b, Then(Fini("arguments"), Then(c, Then(d, End)))))
  BY <1>5, OntoThen, OntoEnd, ThenIs, EndIs
<1>7. QED
  BY <1>4, <1>6, Gained, Lost, NeedRule, RclRule, FiniRule, ResetRule, EndRule, GiveRule

LEMMA NodeCreateFine ==
  ASSUME NEW f
  PROVE  Fine("quiet", f, NodeCreate, {})
<1> DEFINE none == NodeInit({})
           some == NodeInit({"arguments"})
           x == <<Fail>>
           y == <<Free("argv"), Raise>>
           a == Or(none)
           b == Need({"argv"}, {}, x)
           c == Rcl({"arguments"}, {"argv"}, {y})
<1>1. x = Then(Fail, End) /\ y = Then(Free("argv"), Then(Raise, End))
  BY Len1, Len2
<1>2. NodeCreate = Join(<<Test, a, b, c, Free("argv")>>, some)
  BY DEF NodeCreate, Join
<1>3. /\ Fine("quiet", f, none, {})
      /\ \A o : (\A i : i \in o <=> i = "arguments") => Fine("quiet", f, some, o)
  BY NodeInitFine, NodeInitWithArgumentsFine
<1> HIDE DEF none, some, x, y
<1>4. /\ b = Need({"argv"}, {}, Then(Fail, End))
      /\ c = Rcl({"arguments"}, {"argv"}, {Then(Free("argv"), Then(Raise, End))})
  BY <1>1
<1>5. IsProgram(some)
  <2>1. Fine("quiet", f, some, {"arguments"})
    BY <1>3
  <2>2. QED
    BY <2>1 DEF Fine, Plain
<1>6. a = Or(none)
  OBVIOUS
<1> HIDE DEF a, b, c
<1>7. NodeCreate = Join(Then(Test, Then(a, Then(b, Then(c, Then(Free("argv"), End))))), some)
  BY <1>2, Len5
<1>8. NodeCreate = Then(Test, Then(a, Then(b, Then(c, Then(Free("argv"), some)))))
  BY <1>5, <1>7, OntoThen, OntoEnd, ThenIs, EndIs
<1>9. QED
  BY <1>3, <1>4, <1>6, <1>8, Gained, Lost, NeedRule, RclRule, TestRule, OrRule, FreeRule, EndRule

(* The end of an object of rcl, which may skip the next step.               *)
LEMMA SkipRule ==
  ASSUME NEW f, NEW q, NEW o, NEW r, NEW t, r \in o,
         Fine("quiet", f, Then(t, q), Lose(o, r)), Fine("quiet", f, q, Lose(o, r))
  PROVE  Fine("quiet", f, Then(FiniElseSkip(r), Then(t, q)), o)
<1> DEFINE s == FiniElseSkip(r)
           q1 == Then(t, q)
           p == Then(s, q1)
           o2 == Lose(o, r)
<1>1. s.do = "fini_or_skip" /\ s.uses = {r} /\ s.reads = FALSE /\ o2 = o \ s.uses
  BY DEF FiniElseSkip, Step, Lose
<1>2. IsProgram(p) /\ p # <<>> /\ Head(p) = s /\ Tail(p) = q1 /\ Tail(q1) = q
  BY ThenIs DEF Fine, Plain
<1>3. Fine("quiet", f, q1, o2) /\ Fine("quiet", f, q, o2)
  OBVIOUS
<1> HIDE DEF s, q1, p, o2
<1>4. ASSUME NEW e \in BOOLEAN, NEW l \in BOOLEAN, Allows("quiet", e, l)
      PROVE  Good(Config(f, p, o, e, l))
  <2> DEFINE c == Config(f, p, o, e, l)
             l2 == l /\ s.uses # {"msg"}
  <2>1. c.f = f /\ c.p = p /\ c.o = o /\ c.e = e /\ c.l = l
    BY ConfigFields
  <2>2. Kind(p) = "fini_or_skip"
    BY <1>1, <1>2 DEF Kind
  <2>3. Sound(c)
    BY <1>1, <1>2, <2>1 DEF Sound, Ends
  <2>4. Onward(c) = Config(f, q1, o2, e, l2)
    <3>1. (c.e /\ s.do # "reset") = e
      BY <1>1, <2>1
    <3>2. Onward(c) = [f |-> f, p |-> q1, o |-> o2, e |-> e, l |-> l2]
      BY <1>1, <1>2, <2>1, <3>1 DEF Onward, Releases
    <3>3. QED
      BY <3>2 DEF Config
  <2>5. Aside(c) = {Config(f, q, o2, e, l)}
    BY <1>1, <1>2, <2>1 DEF Aside
  <2>6. Follow(c) = {Config(f, q1, o2, e, l2), Config(f, q, o2, e, l)}
    BY <1>2, <2>1, <2>2, <2>4, <2>5 DEF Follow, Ends
  <2>7. l2 \in BOOLEAN /\ Allows("quiet", e, l2)
    BY <1>4 DEF Allows
  <2> HIDE DEF c, l2
  <2>8. \A d \in Follow(c) : Good(d) /\ Plain(d.p)
    <3>1. Good(Config(f, q1, o2, e, l2)) /\ Plain(q1)
      BY <1>3, <1>4, <2>7 DEF Fine
    <3>2. Good(Config(f, q, o2, e, l)) /\ Plain(q)
      BY <1>3, <1>4 DEF Fine
    <3>3. QED
      BY <2>6, <3>1, <3>2, ConfigFields
  <2>9. Ordered(c)
    BY <2>1, <2>2, <2>8 DEF Ordered, Plain
  <2>10. QED
    BY <2>3, <2>8, <2>9, GoodBegins DEF c
<1>5. Plain(p)
  BY <1>1, <1>2 DEF Plain, Kind
<1>6. Fine("quiet", f, p, o)
  BY <1>4, <1>5 DEF Fine
<1>7. QED
  BY <1>6 DEF p, s, q1

(* The one function that can lose something.                                *)
LEMMA NodeNamesFine ==
  Fine("quiet", "nodeNames", NodeNames, {})
<1> DEFINE ends == <<FiniElseSkip("names"), Fini("namespaces"), Answer>>
           x == <<Raise>>
           a == Rcl({"names", "namespaces"}, {}, {x})
           b == Need({"full"}, {"names", "namespaces"}, ends)
<1>1. /\ x = Then(Raise, End)
      /\ ends = Then(FiniElseSkip("names"), Then(Fini("namespaces"), Then(Answer, End)))
  BY Len1, Len3
<1>2. NodeNames = Join(<<Test, a, b, Free("full")>>, ends)
  BY DEF NodeNames, Join
<1> HIDE DEF x, ends
<1>3. /\ a = Rcl({"names", "namespaces"}, {}, {Then(Raise, End)})
      /\ b = Need({"full"}, {"names", "namespaces"}, ends)
  BY <1>1
<1> HIDE DEF a, b
<1>4. NodeNames = Join(Then(Test, Then(a, Then(b, Then(Free("full"), End)))), ends)
  BY <1>2, Len4
<1>5. NodeNames = Then(Test, Then(a, Then(b, Then(Free("full"), ends))))
  BY <1>1, <1>4, OntoThen, OntoEnd, ThenIs, EndIs
<1>6. ASSUME NEW o, \A i : i \in o <=> i \in {"names", "namespaces"}
      PROVE  Fine("quiet", "nodeNames", ends, o)
  BY <1>1, <1>6, Lost, SkipRule, FiniRule, EndRule
<1>7. QED
  BY <1>3, <1>5, <1>6, Gained, Lost, NeedRule, RclRule, TestRule, FreeRule, EndRule

-------------------------------------------------------------------------------
(* The overrides of a context.                                              *)

From(p, k) == SubSeq(p, k, Len(p))

(* What remains of a program after some steps.                              *)
LEMMA Dropped ==
  ASSUME NEW s, NEW p, IsProgram(p), NEW k \in Nat \ {0}
  PROVE  From(Then(s, p), k + 1) = From(p, k)
<1>1. PICK S : p \in Seq(S)
  BY DEF IsProgram
<1>2. p \in Seq(S \cup {s}) /\ <<s>> \in Seq(S \cup {s})
  BY <1>1
<1> DEFINE w == <<s>> \o p
<1>3. w \in Seq(S \cup {s}) /\ Len(w) = Len(p) + 1 /\ \A i \in 1..Len(p) : w[i + 1] = p[i]
  BY <1>2
<1>4. Len(p) \in Nat
  BY <1>2
<1> HIDE DEF w
<1> DEFINE u == SubSeq(w, k + 1, Len(w))
           v == SubSeq(p, k, Len(p))
<1>5. u = [i \in 1..((Len(p) + 1) - (k + 1) + 1) |-> w[i + (k + 1) - 1]]
  BY <1>3, <1>4
<1>6. v = [i \in 1..(Len(p) - k + 1) |-> p[i + k - 1]]
  BY <1>4
<1>7. ASSUME NEW i \in 1..(Len(p) - k + 1)
      PROVE  w[i + (k + 1) - 1] = p[i + k - 1]
  <2>1. i + k - 1 \in 1..Len(p) /\ i + (k + 1) - 1 = (i + k - 1) + 1
    BY <1>4
  <2>2. QED
    BY <1>3, <2>1
<1>8. (Len(p) + 1) - (k + 1) + 1 = Len(p) - k + 1
  BY <1>4
<1>9. QED
  BY <1>5, <1>6, <1>7, <1>8 DEF w, Then, From

LEMMA LookedIs ==
  ASSUME NEW a, NEW b, NEW c, NEW d, NEW q, IsProgram(q)
  PROVE  Looked(Then(a, Then(b, Then(c, Then(d, q))))) = q
<1> DEFINE p1 == Then(d, q)
           p2 == Then(c, p1)
           p3 == Then(b, p2)
           p4 == Then(a, p3)
<1>1. IsProgram(p1) /\ IsProgram(p2) /\ IsProgram(p3)
  BY ThenIs
<1>2. From(q, 1) = q
  BY DEF IsProgram, From
<1>3. From(p1, 1 + 1) = q
  BY <1>2, Dropped
<1>4. From(p1, 2) = q
  BY <1>3
<1> HIDE DEF p1
<1>5. From(p2, 2 + 1) = q
  BY <1>1, <1>4, Dropped
<1>6. From(p2, 3) = q
  BY <1>5
<1> HIDE DEF p2
<1>7. From(p3, 3 + 1) = q
  BY <1>1, <1>6, Dropped
<1>8. From(p3, 4) = q
  BY <1>7
<1> HIDE DEF p3
<1>9. From(p4, 4 + 1) = q
  BY <1>1, <1>8, Dropped
<1>10. Looked(p4) = q
  BY <1>9 DEF Looked, From
<1>11. QED
  BY <1>10 DEF p1, p2, p3

(* One of the steps between the look and the get.                           *)
LEMMA Passes ==
  ASSUME NEW f, NEW q, NEW l \in BOOLEAN, NEW e \in BOOLEAN, NEW s,
         s.do \in {"mark", "fetch", "store"}, s.uses = {}, ~s.reads,
         IsProgram(q), Good(Config(f, q, {}, e, l)),
         Kind(q) = "fetch" <=> s.do = "mark", Kind(q) = "store" <=> s.do = "fetch",
         Kind(q) = "get" => s.do = "store", Kind(q) # "mark"
  PROVE  Good(Config(f, Then(s, q), {}, e, l)) /\ Kind(Then(s, q)) = s.do
<1> DEFINE p == Then(s, q)
           o == {}
           c == Config(f, p, o, e, l)
           d == Config(f, q, o, e, l)
<1>1. c.f = f /\ c.p = p /\ c.o = o /\ c.e = e /\ c.l = l
  BY ConfigFields
<1>2. IsProgram(p) /\ p # <<>> /\ Head(p) = s /\ Tail(p) = q
  BY ThenIs
<1>3. Good(d) /\ d.p = q
  BY ConfigFields
<1> HIDE DEF p, o
<1>4. Kind(p) = s.do
  BY <1>2 DEF Kind
<1>5. Sound(c)
  BY <1>1, <1>2 DEF Sound, Ends
<1>6. Onward(c) = d
  <2>1. (c.e /\ s.do # "reset") = e
    BY <1>1
  <2>2. Onward(c) = [f |-> f, p |-> q, o |-> o, e |-> e, l |-> l]
    BY <1>1, <1>2, <2>1 DEF Onward, Releases
  <2>3. QED
    BY <2>2 DEF Config
<1>7. Aside(c) = {}
  BY <1>1, <1>2 DEF Aside
<1>8. Follow(c) = {d}
  BY <1>1, <1>2, <1>4, <1>6, <1>7 DEF Follow, Ends
<1> HIDE DEF c, d
<1>9. Ordered(c)
  BY <1>1, <1>3, <1>4, <1>8 DEF Ordered
<1>10. Good(c)
  BY <1>3, <1>5, <1>8, <1>9, GoodBegins
<1>11. QED
  BY <1>4, <1>10 DEF c, p, o

(* A lookup is fine if its two ends are.                                    *)
LEMMA OverriddenFine ==
  ASSUME NEW f, NEW absent, NEW present,
         Fine("quiet", f, absent, {}), Fine("quiet", f, present, {})
  PROVE  Fine("quiet", f, Overridden(absent, present), {})
<1> DEFINE look == [Step EXCEPT !.do = "look"]
           mark == [Step EXCEPT !.do = "mark"]
           fetch == [Step EXCEPT !.do = "fetch"]
           store == [Step EXCEPT !.do = "store"]
           get == [Step EXCEPT !.do = "get", !.else = {absent}]
           a == Need({}, {}, absent)
           o == {}
           p5 == Then(get, present)
           p4 == Then(store, p5)
           p3 == Then(fetch, p4)
           p2 == Then(mark, p3)
           p1 == Then(look, p2)
<1>1. /\ look.do = "look" /\ look.uses = {} /\ look.reads = FALSE /\ look.sets = FALSE
      /\ mark.do = "mark" /\ mark.uses = {} /\ mark.reads = FALSE
      /\ fetch.do = "fetch" /\ fetch.uses = {} /\ fetch.reads = FALSE
      /\ store.do = "store" /\ store.uses = {} /\ store.reads = FALSE
      /\ get.do = "get" /\ get.uses = {} /\ get.reads = FALSE
      /\ get.sets = FALSE /\ get.else = {absent}
  BY DEF Step
<1>2. Overridden(absent, present) = Join(<<a, look, mark, fetch, store, get>>, present)
  BY DEF Overridden, Join
<1> HIDE DEF a, look, mark, fetch, store, get, o
<1>3. Overridden(absent, present) =
        Join(Then(a, Then(look, Then(mark, Then(fetch, Then(store, Then(get, End)))))), present)
  BY <1>2, Len6
<1>4. IsProgram(present)
  BY DEF Fine, Plain
<1>5. Overridden(absent, present) = Then(a, p1)
  BY <1>3, <1>4, OntoThen, OntoEnd, ThenIs, EndIs
<1>6. IsProgram(p5) /\ IsProgram(p4) /\ IsProgram(p3) /\ IsProgram(p2) /\ IsProgram(p1)
  BY <1>4, ThenIs
<1>7. Looked(p1) = p5
  BY <1>6, LookedIs
<1>8. Fine("quiet", f, absent, o) /\ Fine("quiet", f, present, o)
  BY DEF o
<1>9. ASSUME NEW l \in BOOLEAN, NEW e \in BOOLEAN, ~e
      PROVE  Good(Config(f, p1, o, e, l)) /\ Kind(p1) = "look"
  <2>1. Good(Config(f, p5, o, e, l)) /\ Kind(p5) = "get"
    <3> DEFINE c == Config(f, p5, o, e, l)
    <3>1. c.f = f /\ c.p = p5 /\ c.o = o /\ c.e = e /\ c.l = l
      BY ConfigFields
    <3>2. p5 # <<>> /\ Head(p5) = get /\ Tail(p5) = present
      BY <1>4, ThenIs
    <3> HIDE DEF p5
    <3>3. Kind(p5) = "get"
      BY <1>1, <3>2 DEF Kind
    <3>4. Sound(c)
      BY <1>1, <3>1, <3>2 DEF Sound, Ends
    <3>5. Onward(c) = Config(f, present, o, e, l)
      <4>1. (c.e /\ get.do # "reset") = e
        BY <1>1, <3>1
      <4>2. Onward(c) = [f |-> f, p |-> present, o |-> o, e |-> e, l |-> l]
        BY <1>1, <3>1, <3>2, <4>1 DEF Onward, Releases
      <4>3. QED
        BY <4>2 DEF Config
    <3>6. Aside(c) = {Config(f, absent, o, e, l)}
      <4>1. (c.e \/ get.sets) = e
        BY <1>1, <3>1
      <4>2. Aside(c) = {Config(f, r, o, c.e \/ get.sets, l) : r \in {absent}}
        BY <1>1, <3>1, <3>2 DEF Aside
      <4>3. QED
        BY <4>1, <4>2
    <3>7. Follow(c) = {Config(f, present, o, e, l), Config(f, absent, o, e, l)}
      BY <3>1, <3>2, <3>3, <3>5, <3>6 DEF Follow, Ends
    <3>8. Allows("quiet", e, l)
      BY <1>9 DEF Allows
    <3> HIDE DEF c
    <3>9. \A d \in Follow(c) : Good(d) /\ Plain(d.p)
      <4>1. Good(Config(f, present, o, e, l)) /\ Plain(present)
        BY <1>8, <1>9, <3>8 DEF Fine
      <4>2. Good(Config(f, absent, o, e, l)) /\ Plain(absent)
        BY <1>8, <1>9, <3>8 DEF Fine
      <4>3. QED
        BY <3>7, <4>1, <4>2, ConfigFields
    <3>10. Ordered(c)
      BY <3>1, <3>3, <3>9 DEF Ordered, Plain
    <3>11. QED
      BY <3>3, <3>4, <3>9, <3>10, GoodBegins DEF c
  <2>2. Good(Config(f, p4, o, e, l)) /\ Kind(p4) = "store"
    BY <1>1, <1>6, <1>9, <2>1, Passes DEF o
  <2>3. Good(Config(f, p3, o, e, l)) /\ Kind(p3) = "fetch"
    BY <1>1, <1>6, <1>9, <2>2, Passes DEF o
  <2>4. Good(Config(f, p2, o, e, l)) /\ Kind(p2) = "mark"
    BY <1>1, <1>6, <1>9, <2>3, Passes DEF o
  <2> DEFINE c == Config(f, p1, o, e, l)
  <2>5. c.f = f /\ c.p = p1 /\ c.o = o /\ c.e = e /\ c.l = l
    BY ConfigFields
  <2>6. p1 # <<>> /\ Head(p1) = look /\ Tail(p1) = p2
    BY <1>6, ThenIs
  <2> HIDE DEF p1, p2, p5
  <2>7. Kind(p1) = "look"
    BY <1>1, <2>6 DEF Kind
  <2>8. Sound(c)
    BY <1>1, <2>5, <2>6 DEF Sound, Ends
  <2>9. Onward(c) = Config(f, p2, o, e, l)
    <3>1. (c.e /\ look.do # "reset") = e
      BY <1>1, <2>5
    <3>2. Onward(c) = [f |-> f, p |-> p2, o |-> o, e |-> e, l |-> l]
      BY <1>1, <2>5, <2>6, <3>1 DEF Onward, Releases
    <3>3. QED
      BY <3>2 DEF Config
  <2>10. Aside(c) = {Config(f, p5, o, e, l)}
    BY <1>1, <1>7, <2>5, <2>6 DEF Aside
  <2>11. Follow(c) = {Config(f, p2, o, e, l), Config(f, p5, o, e, l)}
    BY <2>5, <2>6, <2>7, <2>9, <2>10 DEF Follow, Ends
  <2> HIDE DEF c
  <2>12. \A d \in Follow(c) : Good(d) /\ Kind(d.p) \in {"mark", "get"}
    BY <2>1, <2>4, <2>11, ConfigFields
  <2>13. Ordered(c)
    BY <1>7, <2>1, <2>4, <2>5, <2>6, <2>7, <2>12 DEF Ordered
  <2>14. QED
    BY <2>7, <2>8, <2>12, <2>13, GoodBegins DEF c
<1>10. PICK no \in BOOLEAN : ~no
  OBVIOUS
<1>11. Kind(p1) = "look"
  BY <1>9, <1>10
<1> HIDE DEF p1
<1>12. Fine("quiet", f, p1, o)
  BY <1>6, <1>9, <1>11 DEF Fine, Plain, Allows
<1>13. QED
  BY <1>5, <1>8, <1>12, Gained, NeedRule DEF a, o

(* The four that ask for a number or a name.                                *)
LEMMA OverridesFine ==
  ASSUME NEW f
  PROVE  /\ Fine("quiet", f, OverrideCount, {})
         /\ Fine("quiet", f, OverrideNodeCount, {})
         /\ Fine("quiet", f, OverrideName, {})
         /\ Fine("quiet", f, OverrideNodeName, {})
<1>1. /\ <<Answer>> = Then(Answer, End) /\ <<Fail>> = Then(Fail, End)
      /\ <<Test, Answer>> = Then(Test, Then(Answer, End))
  BY Len1, Len2
<1>2. /\ Fine("quiet", f, Then(Answer, End), {}) /\ Fine("quiet", f, Then(Fail, End), {})
      /\ Fine("quiet", f, Then(Test, Then(Answer, End)), {})
  BY TestRule, EndRule
<1>3. /\ Fine("quiet", f, <<Answer>>, {}) /\ Fine("quiet", f, <<Fail>>, {})
      /\ Fine("quiet", f, <<Test, Answer>>, {})
  BY <1>1, <1>2
<1>4. QED
  BY <1>3, OverriddenFine DEF OverrideCount, OverrideNodeCount, OverrideName, OverrideNodeName

(* The one that makes the members of a value.                               *)
LEMMA OverrideValueFine ==
  ASSUME NEW f
  PROVE  Fine("quiet", f, OverrideValue, {})
<1> DEFINE x == <<Give({"members", "own"})>>
           a == Or(x)
           absent == <<Fail>>
           present == <<Test, Test, Make({"members", "own"}), a, Free("own"), Make({"own"}),
                        Give({"members", "own"})>>
<1>1. x = Then(Give({"members", "own"}), End) /\ absent = Then(Fail, End)
  BY Len1
<1>2. OverrideValue = Overridden(absent, present)
  BY DEF OverrideValue
<1> HIDE DEF x, absent
<1>3. a = Or(Then(Give({"members", "own"}), End))
  BY <1>1
<1> HIDE DEF a
<1>4. present = Then(Test, Then(Test, Then(Make({"members", "own"}), Then(a, Then(Free("own"),
                Then(Make({"own"}), Then(Give({"members", "own"}), End)))))))
  BY Len7
<1> HIDE DEF present
<1>5. Fine("quiet", f, present, {})
  BY <1>3, <1>4, Gained, Lost, TestRule, MakeRule, OrRule, FreeRule, GiveRule
<1>6. Fine("quiet", f, absent, {})
  BY <1>1, EndRule
<1>7. QED
  BY <1>2, <1>5, <1>6, OverriddenFine

-------------------------------------------------------------------------------
(* All of them.                                                             *)

(* The functions by name.                                                   *)
LEMMA FunctionsAre ==
  Functions =
    {"publish", "sendRequest", "sendResponse", "take", "takeResponse",
     "takeRequest", "eventTake", "timerCall", "waitSetWait", "serialize",
     "deserialize", "publisherCreate", "guardConditionCreate", "eventCreate",
     "waitSetCreate", "clockCreate", "subscriptionCreate", "clientCreate",
     "serviceCreate", "timerCreate", "qosCreate", "contextInit",
     "nodeCreate", "publisherFini", "clockFini", "eventFini", "waitSetFini",
     "subscriptionFini", "clientFini", "serviceFini", "timerFini",
     "contextFini", "nodeFini", "rmwImplementationIdentifier",
     "removeRosArguments", "expandTopicName", "validateFullTopicName",
     "validateNodeName", "validateNamespace", "nodeIsValid",
     "validateTopicName", "namesAndTypes", "nodeNames", "nodeGetter",
     "publisherTopicName", "subscriptionTopicName", "serviceName",
     "graphCounts", "publisherQuery", "subscriptionQuery",
     "serviceIsAvailable", "contextDomainId", "timerIsReady", "timerControl",
     "clockNow", "clockOverride", "waitSetUpdate", "waitSetAdd",
     "guardTrigger", "clockState", "loggingInitialize", "loggerLevel",
     "overrideNodeCount", "overrideCount", "overrideNodeName",
     "overrideName", "overrideValue"}
  BY DEF Functions, Body

(* Each begins with nothing acquired and no error of its own.               *)
LEMMA BodiesFine == \A f \in Functions : Fine("quiet", f, Body[f], {})
<1>1. \A f \in {"publish", "sendRequest"} :
       Fine("quiet", f, Body[f], {})
  <2>1. /\ Body["publish"] = Join(<<Test>>, Sending)
        /\ Body["sendRequest"] = Join(<<Test>>, Sending)
    BY DEF Body, Publish, SendRequest, Join
  <2>2. QED
    BY <2>1, SendingFine, AfterTests
<1>2. Fine("quiet", "sendResponse", Body["sendResponse"], {})
  <2>1. Body["sendResponse"] = Join(<<Test, Test>>, Sending)
    BY DEF Body, SendResponse, Join
  <2>2. QED
    BY <2>1, SendingFine, AfterTests
<1>3. \A f \in {"take", "takeResponse", "takeRequest"} :
       Fine("quiet", f, Body[f], {})
  <2>1. /\ Body["take"] = Taking
        /\ Body["takeResponse"] = Taking
        /\ Body["takeRequest"] = Taking
    BY DEF Body, Take, TakeResponse, TakeRequest
  <2>2. QED
    BY <2>1, TakingFine
<1>4. \A f \in {"eventTake", "timerCall", "waitSetWait"} :
       Fine("quiet", f, Body[f], {})
  <2>1. /\ Body["eventTake"] = EventTake
        /\ Body["timerCall"] = EventTake
        /\ Body["waitSetWait"] = EventTake
    BY DEF Body, TimerCall, WaitSetWait
  <2>2. QED
    BY <2>1, EventTakeFine
<1>5. Fine("quiet", "serialize", Body["serialize"], {})
  <2>1. Body["serialize"] = Serialize
    BY DEF Body
  <2>2. QED
    BY <2>1, SerializeFine
<1>6. Fine("quiet", "deserialize", Body["deserialize"], {})
  <2>1. Body["deserialize"] = Deserialize
    BY DEF Body
  <2>2. QED
    BY <2>1, DeserializeFine
<1>7. Fine("quiet", "publisherCreate", Body["publisherCreate"], {})
  <2>1. Body["publisherCreate"] = Join(<<Test, Test>>, Create)
    BY DEF Body, PublisherCreate, Join
  <2>2. QED
    BY <2>1, CreateFine, AfterTests
<1>8. \A f \in {"guardConditionCreate", "eventCreate", "waitSetCreate"} :
       Fine("quiet", f, Body[f], {})
  <2>1. /\ Body["guardConditionCreate"] = Join(<<Test>>, Create)
        /\ Body["eventCreate"] = Join(<<Test>>, Create)
        /\ Body["waitSetCreate"] = Join(<<Test>>, Create)
    BY DEF Body, GuardConditionCreate, EventCreate, WaitSetCreate, Join
  <2>2. QED
    BY <2>1, CreateFine, AfterTests
<1>9. Fine("quiet", "clockCreate", Body["clockCreate"], {})
  <2>1. Body["clockCreate"] = Create
    BY DEF Body, ClockCreate
  <2>2. QED
    BY <2>1, CreateFine
<1>10. \A f \in {"subscriptionCreate", "clientCreate", "serviceCreate"} :
       Fine("quiet", f, Body[f], {})
  <2>1. /\ Body["subscriptionCreate"] = CreateWithBuffer
        /\ Body["clientCreate"] = CreateWithBuffer
        /\ Body["serviceCreate"] = CreateWithBuffer
    BY DEF Body, SubscriptionCreate, ClientCreate, ServiceCreate
  <2>2. QED
    BY <2>1, CreateWithBufferFine
<1>11. Fine("quiet", "timerCreate", Body["timerCreate"], {})
  <2>1. Body["timerCreate"] = TimerCreate
    BY DEF Body
  <2>2. QED
    BY <2>1, TimerCreateFine
<1>12. Fine("quiet", "qosCreate", Body["qosCreate"], {})
  <2>1. Body["qosCreate"] = QosCreate
    BY DEF Body
  <2>2. QED
    BY <2>1, QosCreateFine
<1>13. Fine("quiet", "contextInit", Body["contextInit"], {})
  <2>1. Body["contextInit"] = ContextInit
    BY DEF Body
  <2>2. QED
    BY <2>1, ContextInitFine
<1>14. Fine("quiet", "nodeCreate", Body["nodeCreate"], {})
  <2>1. Body["nodeCreate"] = NodeCreate
    BY DEF Body
  <2>2. QED
    BY <2>1, NodeCreateFine
<1>15. \A f \in {"publisherFini", "clockFini", "eventFini", "waitSetFini"} :
       Fine("quiet", f, Body[f], {})
  <2>1. /\ Body["publisherFini"] = PublisherFini
        /\ Body["clockFini"] = PublisherFini
        /\ Body["eventFini"] = PublisherFini
        /\ Body["waitSetFini"] = PublisherFini
    BY DEF Body, ClockFini, EventFini, WaitSetFini
  <2>2. QED
    BY <2>1, PublisherFiniFine
<1>16. \A f \in {"subscriptionFini", "clientFini", "serviceFini"} :
       Fine("quiet", f, Body[f], {})
  <2>1. /\ Body["subscriptionFini"] = SubscriptionFini
        /\ Body["clientFini"] = SubscriptionFini
        /\ Body["serviceFini"] = SubscriptionFini
    BY DEF Body, ClientFini, ServiceFini
  <2>2. QED
    BY <2>1, SubscriptionFiniFine
<1>17. Fine("quiet", "timerFini", Body["timerFini"], {})
  <2>1. Body["timerFini"] = TimerFini
    BY DEF Body
  <2>2. QED
    BY <2>1, TimerFiniFine
<1>18. Fine("quiet", "contextFini", Body["contextFini"], {})
  <2>1. Body["contextFini"] = ContextFini
    BY DEF Body
  <2>2. QED
    BY <2>1, ContextFiniFine
<1>19. Fine("quiet", "nodeFini", Body["nodeFini"], {})
  <2>1. Body["nodeFini"] = NodeFini
    BY DEF Body
  <2>2. QED
    BY <2>1, NodeFiniFine
<1>20. Fine("quiet", "rmwImplementationIdentifier", Body["rmwImplementationIdentifier"], {})
  <2>1. Body["rmwImplementationIdentifier"] = RmwImplementationIdentifier
    BY DEF Body
  <2>2. QED
    BY <2>1, RmwImplementationIdentifierFine
<1>21. Fine("quiet", "removeRosArguments", Body["removeRosArguments"], {})
  <2>1. Body["removeRosArguments"] = RemoveRosArguments
    BY DEF Body
  <2>2. QED
    BY <2>1, RemoveRosArgumentsFine
<1>22. Fine("quiet", "expandTopicName", Body["expandTopicName"], {})
  <2>1. Body["expandTopicName"] = ExpandTopicName
    BY DEF Body
  <2>2. QED
    BY <2>1, ExpandTopicNameFine DEF LeavesItsError
<1>23. \A f \in {"validateFullTopicName", "validateNodeName",
               "validateNamespace", "nodeIsValid"} :
       Fine("quiet", f, Body[f], {})
  <2>1. /\ Body["validateFullTopicName"] = ValidateFullTopicName
        /\ Body["validateNodeName"] = ValidateFullTopicName
        /\ Body["validateNamespace"] = ValidateFullTopicName
        /\ Body["nodeIsValid"] = ValidateFullTopicName
    BY DEF Body, ValidateNodeName, ValidateNamespace, NodeIsValid,
       ValidateFullTopicName
  <2>2. QED
    BY <2>1, ValidateFullTopicNameFine DEF LeavesItsError
<1>24. Fine("quiet", "validateTopicName", Body["validateTopicName"], {})
  <2>1. Body["validateTopicName"] = ValidateTopicName
    BY DEF Body
  <2>2. QED
    BY <2>1, ValidateTopicNameFine
<1>25. Fine("quiet", "namesAndTypes", Body["namesAndTypes"], {})
  <2>1. Body["namesAndTypes"] = NamesAndTypes
    BY DEF Body
  <2>2. QED
    BY <2>1, NamesAndTypesFine
<1>26. Fine("quiet", "nodeNames", Body["nodeNames"], {})
  <2>1. Body["nodeNames"] = NodeNames
    BY DEF Body
  <2>2. QED
    BY <2>1, NodeNamesFine
<1>27. Fine("quiet", "nodeGetter", Body["nodeGetter"], {})
  <2>1. Body["nodeGetter"] = NodeGetter
    BY DEF Body
  <2>2. QED
    BY <2>1, NodeGetterFine DEF LeavesItsError
<1>28. \A f \in {"publisherTopicName", "subscriptionTopicName", "serviceName"} :
       Fine("quiet", f, Body[f], {})
  <2>1. /\ Body["publisherTopicName"] = Named
        /\ Body["subscriptionTopicName"] = Named
        /\ Body["serviceName"] = Named
    BY DEF Body, PublisherTopicName, SubscriptionTopicName, ServiceName
  <2>2. QED
    BY <2>1, NamedFine DEF LeavesItsError
<1>29. \A f \in {"graphCounts", "publisherQuery", "subscriptionQuery",
               "serviceIsAvailable", "contextDomainId", "timerIsReady",
               "timerControl", "clockNow", "clockOverride", "waitSetUpdate"} :
       Fine("quiet", f, Body[f], {})
  <2>1. /\ Body["graphCounts"] = Query
        /\ Body["publisherQuery"] = Query
        /\ Body["subscriptionQuery"] = Query
        /\ Body["serviceIsAvailable"] = Query
        /\ Body["contextDomainId"] = Query
        /\ Body["timerIsReady"] = Query
        /\ Body["timerControl"] = Query
        /\ Body["clockNow"] = Query
        /\ Body["clockOverride"] = Query
        /\ Body["waitSetUpdate"] = Query
    BY DEF Body, GraphCounts, PublisherQuery, SubscriptionQuery,
       ServiceIsAvailable, ContextDomainId, TimerIsReady, TimerControl,
       ClockNow, ClockOverride, WaitSetUpdate
  <2>2. QED
    BY <2>1, QueryFine
<1>30. Fine("quiet", "waitSetAdd", Body["waitSetAdd"], {})
  <2>1. Body["waitSetAdd"] = Join(<<Test>>, Query)
    BY DEF Body, WaitSetAdd, Join
  <2>2. QED
    BY <2>1, QueryFine, AfterTests
<1>31. Fine("quiet", "guardTrigger", Body["guardTrigger"], {})
  <2>1. Body["guardTrigger"] = GuardTrigger
    BY DEF Body
  <2>2. QED
    BY <2>1, GuardTriggerFine
<1>32. Fine("quiet", "clockState", Body["clockState"], {})
  <2>1. Body["clockState"] = ClockState
    BY DEF Body
  <2>2. QED
    BY <2>1, ClockStateFine
<1>33. Fine("quiet", "loggingInitialize", Body["loggingInitialize"], {})
  <2>1. Body["loggingInitialize"] = LoggingInitialize
    BY DEF Body
  <2>2. QED
    BY <2>1, LoggingInitializeFine DEF LeavesItsError
<1>34. Fine("quiet", "loggerLevel", Body["loggerLevel"], {})
  <2>1. Body["loggerLevel"] = LoggerLevel
    BY DEF Body
  <2>2. QED
    BY <2>1, LoggerLevelFine
<1>35. Fine("quiet", "overrideNodeCount", Body["overrideNodeCount"], {})
  <2>1. Body["overrideNodeCount"] = OverrideNodeCount
    BY DEF Body
  <2>2. QED
    BY <2>1, OverridesFine
<1>36. Fine("quiet", "overrideCount", Body["overrideCount"], {})
  <2>1. Body["overrideCount"] = OverrideCount
    BY DEF Body
  <2>2. QED
    BY <2>1, OverridesFine
<1>37. Fine("quiet", "overrideNodeName", Body["overrideNodeName"], {})
  <2>1. Body["overrideNodeName"] = OverrideNodeName
    BY DEF Body
  <2>2. QED
    BY <2>1, OverridesFine
<1>38. Fine("quiet", "overrideName", Body["overrideName"], {})
  <2>1. Body["overrideName"] = OverrideName
    BY DEF Body
  <2>2. QED
    BY <2>1, OverridesFine
<1>39. Fine("quiet", "overrideValue", Body["overrideValue"], {})
  <2>1. Body["overrideValue"] = OverrideValue
    BY DEF Body
  <2>2. QED
    BY <2>1, OverrideValueFine
<1>40. QED
  BY FunctionsAre, <1>1, <1>2, <1>3, <1>4, <1>5, <1>6, <1>7, <1>8, <1>9, <1>10,
     <1>11, <1>12, <1>13, <1>14, <1>15, <1>16, <1>17, <1>18, <1>19, <1>20,
     <1>21, <1>22, <1>23, <1>24, <1>25, <1>26, <1>27, <1>28, <1>29, <1>30,
     <1>31, <1>32, <1>33, <1>34, <1>35, <1>36, <1>37, <1>38, <1>39

-------------------------------------------------------------------------------
(* The machine                                                             *)

Shape ==
  /\ DOMAIN fn = Threads /\ DOMAIN todo = Threads /\ DOMAIN own = Threads
  /\ DOMAIN err = Threads /\ DOMAIN told = Threads /\ DOMAIN got = Threads
  /\ DOMAIN content = Threads \cup CachedBuffer

(* What is before a thread is good, whatever is true of its error state and *)
(* of its buffer.                                                           *)
InACall(t) ==
  /\ fn[t] \in Does[t]
  /\ \E e, l \in BOOLEAN :
       /\ Good(Config(fn[t], todo[t], own[t], e, l))
       /\ err[t] = "own" => e
       /\ l => content[BufferOf(t)] = t

BetweenCalls(t) == own[t] = {} /\ err[t] # "own"

Runs(t) ==
  /\ IF todo[t] = <<>> THEN BetweenCalls(t) ELSE InACall(t)
  /\ err[t] # "stray" /\ told[t] # "stray"

Calls == \A t \in Threads : Runs(t)

(* Once the flag is set, the overrides are there or on their way.           *)
Asking(t) == Kind(todo[t]) \in {"fetch", "store"}
Lookups ==
  /\ fetched => overrides # None \/ \E t \in Threads : Asking(t)
  /\ \A t \in Threads :
       /\ Kind(todo[t]) \in {"fetch", "store", "get"} => fetched
       /\ Kind(todo[t]) = "store" => got[t] # None

(* Who has set the flag, and what is left of their answers.                 *)
SetTheFlag ==
  /\ asked \subseteq Threads /\ \A t \in asked : fetched
  /\ \A t \in Threads :
       /\ Kind(todo[t]) = "mark" => t \notin asked
       /\ Kind(todo[t]) \in {"fetch", "store"} => t \in asked
       /\ Kind(todo[t]) # "store" => got[t] = None
Stored ==
  /\ overrides # None => \E t \in asked : ~Asking(t)
  /\ lost => \E t, u \in asked : t # u

Inv == Shape /\ Calls /\ Lookups /\ SetTheFlag /\ Stored

(* What thread t is about to do, by the kind of its program.                *)
LEMMA AtIs ==
  ASSUME NEW t, NEW kinds, "over" \notin kinds
  PROVE  At(t, kinds) <=> Kind(todo[t]) \in kinds
  BY DEF At, Kind

(* No two calls are of one buffer.                                          *)
LEMMA Apart ==
  ASSUME NEW t \in Threads, NEW u \in Threads, t # u,
         fn[t] \in Does[t], fn[u] \in Does[u]
  PROVE  BufferOf(t) # BufferOf(u)
  BY EntryPointsAssumption DEF BufferOf

(* Every call has a buffer.                                                 *)
LEMMA BufferIs ==
  ASSUME NEW t \in Threads
  PROVE  BufferOf(t) \in Threads \cup CachedBuffer
  BY DEF BufferOf

(* A step of one thread leaves the others where they are.                   *)
OthersStay(t) ==
  \A u \in Threads \ {t} :
    /\ fn'[u] = fn[u] /\ todo'[u] = todo[u] /\ own'[u] = own[u]
    /\ err'[u] = err[u] /\ told'[u] = told[u]
    /\ BufferOf(u)' = BufferOf(u)
    /\ InACall(u) => content'[BufferOf(u)] = content[BufferOf(u)]

LEMMA CallsStay ==
  ASSUME Calls, NEW t \in Threads, OthersStay(t), Runs(t)'
  PROVE  Calls'
<1>1. SUFFICES ASSUME NEW u \in Threads \ {t}
               PROVE  Runs(u)'
  BY DEF Calls
<1>2. Runs(u)
  BY DEF Calls
<1>3. CASE todo[u] = <<>>
  BY <1>2, <1>3 DEF OthersStay, Runs, BetweenCalls
<1>4. CASE todo[u] # <<>>
  <2>1. InACall(u)
    BY <1>2, <1>4 DEF Runs
  <2>2. InACall(u)'
    BY <2>1 DEF OthersStay, InACall
  <2>3. QED
    BY <1>2, <1>4, <2>2 DEF OthersStay, Runs
<1>5. QED
  BY <1>3, <1>4

(* The next step of a program, taken by a thread.                           *)
LEMMA Moves ==
  ASSUME NEW t \in Threads, Runs(t), fn'[t] = fn[t], told'[t] = told[t],
         err'[t] # "stray",
         NEW e \in BOOLEAN, NEW l \in BOOLEAN, fn[t] \in Does[t],
         Good(Config(fn[t], todo[t], own[t], e, l)),
         NEW p, NEW o, NEW e2 \in BOOLEAN, NEW l2 \in BOOLEAN,
         Config(fn[t], p, o, e2, l2) \in Follow(Config(fn[t], todo[t], own[t], e, l)),
         todo'[t] = p, own'[t] = o,
         err'[t] = "own" => e2, l2 => content'[BufferOf(t)'] = t
  PROVE  Runs(t)'
<1> DEFINE d == Config(fn[t], p, o, e2, l2)
<1>1. Good(d)
  BY GoodGoesOn
<1>2. p # <<>>
  BY <1>1, GoodGoesOn, ConfigFields DEF Sound
<1>3. QED
  BY <1>1, <1>2 DEF Runs, InACall

(* Where each kind of step leads.                                           *)
LEMMA FollowIs ==
  ASSUME NEW f, NEW p, NEW o, NEW e \in BOOLEAN, NEW l \in BOOLEAN, p # <<>>
  PROVE  LET s == Head(p)
             q == Tail(p)
             next == Follow(Config(f, p, o, e, l))
         IN  /\ s.do = "work" => Config(f, q, o \cup s.gets, e, l \/ s.fills) \in next
             /\ s.do \in {"work", "get"} =>
                  \A r \in s.else : Config(f, r, o, e \/ s.sets, l) \in next
             /\ s.do \in Releases => Config(f, q, o \ s.uses, e, l /\ s.uses # {"msg"}) \in next
             /\ s.do = "fini_or_skip" => Config(f, Tail(q), o \ s.uses, e, l) \in next
             /\ s.do = "reset" => Config(f, q, o, e /\ s.do # "reset", l) \in next
             /\ s.do \in {"look", "mark", "fetch", "store", "get"} => Config(f, q, o, e, l) \in next
             /\ s.do = "look" => Config(f, Looked(p), o, e, l) \in next
<1> DEFINE c == Config(f, p, o, e, l)
           s == Head(p)
           q == Tail(p)
<1>1. c.f = f /\ c.p = p /\ c.o = o /\ c.e = e /\ c.l = l
  BY ConfigFields
<1>2. s.do \notin Ends => Follow(c) = {Onward(c)} \cup Aside(c)
  BY <1>1 DEF Follow, Kind
<1>3. s.do = "work" => Onward(c) = Config(f, q, o \cup s.gets, e, l \/ s.fills)
  <2>1. SUFFICES ASSUME s.do = "work"
                 PROVE  Onward(c) = Config(f, q, o \cup s.gets, e, l \/ s.fills)
    OBVIOUS
  <2>2. (c.e /\ s.do # "reset") = e
    BY <1>1, <2>1
  <2>3. Onward(c) = [f |-> f, p |-> q, o |-> o \cup s.gets, e |-> e, l |-> l \/ s.fills]
    BY <1>1, <2>1, <2>2 DEF Onward
  <2>4. QED
    BY <2>3 DEF Config
<1>4. s.do \in Releases => Onward(c) = Config(f, q, o \ s.uses, e, l /\ s.uses # {"msg"})
  <2>1. SUFFICES ASSUME s.do \in Releases
                 PROVE  Onward(c) = Config(f, q, o \ s.uses, e, l /\ s.uses # {"msg"})
    OBVIOUS
  <2>2. (c.e /\ s.do # "reset") = e
    BY <1>1, <2>1 DEF Releases
  <2>3. Onward(c) = [f |-> f, p |-> q, o |-> o \ s.uses, e |-> e, l |-> l /\ s.uses # {"msg"}]
    BY <1>1, <2>1, <2>2 DEF Onward, Releases
  <2>4. QED
    BY <2>3 DEF Config
<1>5. s.do \in {"reset", "look", "mark", "fetch", "store", "get"} =>
        Onward(c) = Config(f, q, o, e /\ s.do # "reset", l)
  BY <1>1 DEF Onward, Releases, Config
<1>6. s.do \in {"look", "mark", "fetch", "store", "get"} => (e /\ s.do # "reset") = e
  OBVIOUS
<1>7. s.do \in {"work", "get"} => \A r \in s.else : Config(f, r, o, e \/ s.sets, l) \in Aside(c)
  BY <1>1 DEF Aside
<1>8. s.do = "fini_or_skip" => Config(f, Tail(q), o \ s.uses, e, l) \in Aside(c)
  BY <1>1 DEF Aside
<1>9. s.do = "look" => Config(f, Looked(p), o, e, l) \in Aside(c)
  BY <1>1 DEF Aside
<1> HIDE DEF c, s, q
<1>10. /\ s.do \in Releases => s.do \notin Ends
       /\ s.do = "fini_or_skip" => s.do \in Releases
  BY DEF Releases, Ends
<1>11. s.do \in {"work", "get", "reset", "look", "mark", "fetch", "store"} => s.do \notin Ends
  BY DEF Ends
<1>12. s.do = "work" => Config(f, q, o \cup s.gets, e, l \/ s.fills) \in Follow(c)
  BY <1>2, <1>3, <1>11
<1>13. s.do \in {"work", "get"} => \A r \in s.else : Config(f, r, o, e \/ s.sets, l) \in Follow(c)
  BY <1>2, <1>7, <1>11
<1>14. s.do \in Releases => Config(f, q, o \ s.uses, e, l /\ s.uses # {"msg"}) \in Follow(c)
  BY <1>2, <1>4, <1>10
<1>15. s.do = "fini_or_skip" => Config(f, Tail(q), o \ s.uses, e, l) \in Follow(c)
  BY <1>2, <1>8, <1>10
<1>16. s.do = "reset" => Config(f, q, o, e /\ s.do # "reset", l) \in Follow(c)
  BY <1>2, <1>5, <1>11
<1>17. s.do \in {"look", "mark", "fetch", "store", "get"} => Config(f, q, o, e, l) \in Follow(c)
  BY <1>2, <1>5, <1>6, <1>11
<1>18. s.do = "look" => Config(f, Looked(p), o, e, l) \in Follow(c)
  BY <1>2, <1>9, <1>11
<1>19. QED
  BY <1>12, <1>13, <1>14, <1>15, <1>16, <1>17, <1>18 DEF c, s, q

(* A step that is not of a lookup leads to none of its middle.              *)
LEMMA NotALookup ==
  ASSUME NEW c, NEW d \in Follow(c), Good(c), Kind(c.p) \notin {"look", "mark", "fetch", "store"}
  PROVE  Kind(d.p) \notin {"mark", "fetch", "store", "get"}
  BY GoodGoesOn DEF Ordered

LEMMA LookupsStay ==
  ASSUME Lookups, NEW t \in Threads,
         UNCHANGED <<fetched, overrides, got, asked, lost>>,
         \A u \in Threads \ {t} : todo'[u] = todo[u],
         Kind(todo[t]) \notin {"fetch", "store"},
         Kind(todo'[t]) \notin {"fetch", "store"}, Kind(todo'[t]) = "get" => fetched
  PROVE  Lookups'
<1>1. \A u \in Threads : Asking(u) => Asking(u)'
  BY DEF Asking
<1>2. fetched' => overrides' # None \/ \E u \in Threads : Asking(u)'
  BY <1>1 DEF Lookups
<1>3. ASSUME NEW u \in Threads
      PROVE  /\ Kind(todo'[u]) \in {"fetch", "store", "get"} => fetched'
             /\ Kind(todo'[u]) = "store" => got'[u] # None
  BY DEF Lookups
<1>4. QED
  BY <1>2, <1>3 DEF Lookups

LEMMA AskedStay ==
  ASSUME SetTheFlag, Stored, NEW t \in Threads,
         UNCHANGED <<fetched, overrides, got, asked, lost>>,
         \A u \in Threads \ {t} : todo'[u] = todo[u],
         Kind(todo[t]) \notin {"fetch", "store"},
         Kind(todo'[t]) \notin {"fetch", "store"},
         Kind(todo'[t]) = "mark" => ~fetched
  PROVE  SetTheFlag' /\ Stored'
<1>1. \A u \in Threads \ {t} : Kind(todo'[u]) = Kind(todo[u])
  BY DEF Kind
<1>2. ~Asking(t)' /\ \A u \in Threads : ~Asking(u) => ~Asking(u)'
  BY <1>1 DEF Asking
<1>3. SetTheFlag'
  <2>1. asked' \subseteq Threads /\ \A u \in asked' : fetched'
    BY DEF SetTheFlag
  <2>2. ASSUME NEW u \in Threads
        PROVE  /\ Kind(todo'[u]) = "mark" => u \notin asked'
               /\ Kind(todo'[u]) \in {"fetch", "store"} => u \in asked'
               /\ Kind(todo'[u]) # "store" => got'[u] = None
    <3>1. CASE u = t
      BY <3>1 DEF SetTheFlag
    <3>2. CASE u # t
      BY <1>1, <3>2 DEF SetTheFlag
    <3>3. QED
      BY <3>1, <3>2
  <2>3. QED
    BY <2>1, <2>2 DEF SetTheFlag
<1>4. Stored'
  BY <1>2 DEF SetTheFlag, Stored
<1>5. QED
  BY <1>3, <1>4

(* A plain step within a call of thread t.                                  *)
LEMMA InvStays ==
  ASSUME Inv, Shape', NEW t \in Threads, NEW e \in BOOLEAN, NEW l \in BOOLEAN,
         fn[t] \in Does[t], Good(Config(fn[t], todo[t], own[t], e, l)),
         OthersStay(t), fn'[t] = fn[t], told'[t] = told[t], err'[t] # "stray",
         Kind(todo[t]) \notin {"look", "mark", "fetch", "store"},
         UNCHANGED <<fetched, overrides, got, asked, lost>>,
         NEW e2 \in BOOLEAN, NEW l2 \in BOOLEAN,
         Config(fn[t], todo'[t], own'[t], e2, l2)
           \in Follow(Config(fn[t], todo[t], own[t], e, l)),
         err'[t] = "own" => e2, l2 => content'[BufferOf(t)'] = t
  PROVE  Inv'
<1>1. Runs(t)
  BY DEF Inv, Calls
<1>2. Runs(t)'
  BY <1>1, Moves
<1>3. Calls'
  BY <1>2, CallsStay DEF Inv
<1>4. Kind(todo'[t]) \notin {"mark", "fetch", "store", "get"}
  BY NotALookup, ConfigFields
<1>5. Lookups'
  BY <1>4, LookupsStay DEF Inv, OthersStay
<1>6. SetTheFlag' /\ Stored'
  BY <1>4, AskedStay DEF Inv, OthersStay
<1>7. QED
  BY <1>3, <1>5, <1>6 DEF Inv

(* What a thread that is not between calls is in the middle of.             *)
LEMMA InTheMiddle ==
  ASSUME Inv, NEW t \in Threads, Kind(todo[t]) # "over"
  PROVE  /\ todo[t] # <<>> /\ fn[t] \in Does[t] /\ err[t] # "stray"
         /\ Kind(todo[t]) = Now(t).do
         /\ \E e, l \in BOOLEAN :
              /\ Good(Config(fn[t], todo[t], own[t], e, l))
              /\ err[t] = "own" => e
              /\ l => content[BufferOf(t)] = t
  BY DEF Inv, Calls, Runs, InACall, Kind, Now

(* Only the buffer of the thread that steps changes.                        *)
LEMMA OneBuffer ==
  ASSUME NEW t \in Threads, fn[t] \in Does[t], UNCHANGED fn, Shape, NEW x,
         content' = content \/ content' = [content EXCEPT ![BufferOf(t)] = x]
  PROVE  /\ \A u \in Threads \ {t} :
              /\ BufferOf(u)' = BufferOf(u)
              /\ InACall(u) => content'[BufferOf(u)] = content[BufferOf(u)]
         /\ BufferOf(t)' = BufferOf(t)
         /\ content' = [content EXCEPT ![BufferOf(t)] = x] => content'[BufferOf(t)] = x
         /\ DOMAIN content' = DOMAIN content
<1>1. ASSUME NEW u \in Threads PROVE BufferOf(u)' = BufferOf(u)
  BY DEF BufferOf
<1>2. ASSUME NEW u \in Threads \ {t}, InACall(u)
      PROVE  content'[BufferOf(u)] = content[BufferOf(u)]
  <2>1. BufferOf(u) # BufferOf(t)
    BY <1>2, Apart DEF InACall
  <2>2. BufferOf(u) \in DOMAIN content
    BY BufferIs DEF Shape
  <2>3. QED
    BY <2>1, <2>2
<1>3. BufferOf(t) \in DOMAIN content
  BY BufferIs DEF Shape
<1>4. QED
  BY <1>1, <1>2, <1>3

(* What is acquired is before the rest, and a message in its buffer.        *)
LEMMA SucceedStep ==
  ASSUME Inv, NEW t \in Threads, Succeed(t)
  PROVE  Inv'
<1>1. Kind(todo[t]) = "work"
  BY AtIs DEF Succeed
<1>2. PICK e, l \in BOOLEAN :
        /\ Good(Config(fn[t], todo[t], own[t], e, l))
        /\ err[t] = "own" => e
        /\ l => content[BufferOf(t)] = t
  BY <1>1, InTheMiddle
<1>3. todo[t] # <<>> /\ fn[t] \in Does[t] /\ err[t] # "stray" /\ Now(t).do = "work"
  BY <1>1, InTheMiddle
<1>4. /\ todo' = [todo EXCEPT ![t] = Tail(todo[t])]
      /\ own' = [own EXCEPT ![t] = own[t] \cup Now(t).gets]
      /\ content' = IF Now(t).fills THEN [content EXCEPT ![BufferOf(t)] = t] ELSE content
      /\ UNCHANGED <<fn, err, told, fetched, overrides, got, asked, lost>>
  BY DEF Succeed, GoOn, GoTo, copies
<1>5. /\ todo'[t] = Tail(todo[t]) /\ own'[t] = own[t] \cup Now(t).gets
      /\ \A u \in Threads \ {t} : todo'[u] = todo[u] /\ own'[u] = own[u]
      /\ DOMAIN todo' = Threads /\ DOMAIN own' = Threads
  BY <1>4 DEF Inv, Shape
<1>6. Shape /\ (content' = content \/ content' = [content EXCEPT ![BufferOf(t)] = t])
  BY <1>4 DEF Inv
<1>7. /\ \A u \in Threads \ {t} :
           /\ BufferOf(u)' = BufferOf(u)
           /\ InACall(u) => content'[BufferOf(u)] = content[BufferOf(u)]
      /\ BufferOf(t)' = BufferOf(t)
      /\ content' = [content EXCEPT ![BufferOf(t)] = t] => content'[BufferOf(t)] = t
      /\ DOMAIN content' = DOMAIN content
  <2>1. UNCHANGED fn
    BY <1>4
  <2>2. QED
    BY <1>3, <1>6, <2>1, OneBuffer
<1>8. Shape'
  BY <1>4, <1>5, <1>6, <1>7 DEF Shape
<1>9. OthersStay(t)
  BY <1>4, <1>5, <1>7 DEF OthersStay
<1> DEFINE l2 == l \/ Now(t).fills
<1>10. l2 => content'[BufferOf(t)'] = t
  BY <1>2, <1>4, <1>7
<1>11. Config(fn[t], todo'[t], own'[t], e, l2)
         \in Follow(Config(fn[t], todo[t], own[t], e, l))
  BY <1>3, <1>5, FollowIs DEF Now
<1>12. l2 \in BOOLEAN
  OBVIOUS
<1> HIDE DEF l2
<1>13. QED
  BY <1>1, <1>2, <1>3, <1>4, <1>8, <1>9, <1>10, <1>11, <1>12, InvStays

(* A failure goes on with one of its ways out, perhaps with an error set.   *)
LEMMA GoesWrongStep ==
  ASSUME Inv, NEW t \in Threads, GoesWrong(t)
  PROVE  Inv'
<1>1. Kind(todo[t]) = "work"
  BY AtIs DEF GoesWrong
<1>2. PICK e, l \in BOOLEAN :
        /\ Good(Config(fn[t], todo[t], own[t], e, l))
        /\ err[t] = "own" => e
        /\ l => content[BufferOf(t)] = t
  BY <1>1, InTheMiddle
<1>3. todo[t] # <<>> /\ fn[t] \in Does[t] /\ err[t] # "stray" /\ Now(t).do = "work"
  BY <1>1, InTheMiddle
<1>4. PICK r \in Now(t).else : todo' = [todo EXCEPT ![t] = r]
  BY DEF GoesWrong, GoTo
<1>5. /\ err' = err \/ (Now(t).sets /\ err' = [err EXCEPT ![t] = "own"])
      /\ UNCHANGED <<fn, own, told, content, fetched, overrides, got, asked, lost>>
  BY DEF GoesWrong, shared, copies
<1>6. /\ todo'[t] = r /\ DOMAIN todo' = Threads /\ DOMAIN err' = Threads
      /\ \A u \in Threads \ {t} : todo'[u] = todo[u] /\ err'[u] = err[u]
      /\ err'[t] # "stray" /\ (err'[t] = "own" => e \/ Now(t).sets)
  BY <1>2, <1>3, <1>4, <1>5 DEF Inv, Shape
<1>7. Shape'
  BY <1>5, <1>6 DEF Inv, Shape
<1>8. /\ \A u \in Threads : BufferOf(u)' = BufferOf(u)
  BY <1>5 DEF BufferOf
<1>9. OthersStay(t)
  BY <1>5, <1>6, <1>8 DEF OthersStay
<1> DEFINE e2 == e \/ Now(t).sets
<1>10. Config(fn[t], todo'[t], own'[t], e2, l)
         \in Follow(Config(fn[t], todo[t], own[t], e, l))
  BY <1>3, <1>5, <1>6, FollowIs DEF Now
<1>11. e2 \in BOOLEAN /\ (err'[t] = "own" => e2) /\ (l => content'[BufferOf(t)'] = t)
  BY <1>2, <1>5, <1>6, <1>8
<1> HIDE DEF e2
<1>12. UNCHANGED <<fetched, overrides, got, asked, lost>> /\ fn'[t] = fn[t] /\ told'[t] = told[t]
  BY <1>5
<1>13. QED
  BY <1>1, <1>2, <1>3, <1>6, <1>7, <1>9, <1>10, <1>11, <1>12, InvStays

(* A release takes from what the call has, and clears the buffer.           *)
LEMMA ReleaseStep ==
  ASSUME Inv, NEW t \in Threads, Release(t)
  PROVE  Inv'
<1>1. Kind(todo[t]) \in {"free", "fini", "fini_or_skip"}
  BY AtIs DEF Release
<1>2. PICK e, l \in BOOLEAN :
        /\ Good(Config(fn[t], todo[t], own[t], e, l))
        /\ err[t] = "own" => e
        /\ l => content[BufferOf(t)] = t
  BY <1>1, InTheMiddle
<1>3. todo[t] # <<>> /\ fn[t] \in Does[t] /\ err[t] # "stray" /\ Now(t).do = Kind(todo[t])
  BY <1>1, InTheMiddle
<1>4. /\ todo' = [todo EXCEPT ![t] = Tail(todo[t])]
      /\ own' = [own EXCEPT ![t] = own[t] \ Now(t).uses]
      /\ content' = IF Now(t).uses = {"msg"} THEN [content EXCEPT ![BufferOf(t)] = None]
                    ELSE content
      /\ UNCHANGED <<fn, err, told, fetched, overrides, got, asked, lost>>
  BY DEF Release, Let, GoOn, GoTo, copies
<1>5. /\ todo'[t] = Tail(todo[t]) /\ own'[t] = own[t] \ Now(t).uses
      /\ \A u \in Threads \ {t} : todo'[u] = todo[u] /\ own'[u] = own[u]
      /\ DOMAIN todo' = Threads /\ DOMAIN own' = Threads
  BY <1>4 DEF Inv, Shape
<1>6. Shape /\ (content' = content \/ content' = [content EXCEPT ![BufferOf(t)] = None])
  BY <1>4 DEF Inv
<1>7. /\ \A u \in Threads \ {t} :
           /\ BufferOf(u)' = BufferOf(u)
           /\ InACall(u) => content'[BufferOf(u)] = content[BufferOf(u)]
      /\ BufferOf(t)' = BufferOf(t)
      /\ DOMAIN content' = DOMAIN content
  <2>1. UNCHANGED fn
    BY <1>4
  <2>2. QED
    BY <1>3, <1>6, <2>1, OneBuffer
<1>8. Shape'
  BY <1>4, <1>5, <1>6, <1>7 DEF Shape
<1>9. OthersStay(t)
  BY <1>4, <1>5, <1>7 DEF OthersStay
<1> DEFINE l2 == l /\ Now(t).uses # {"msg"}
<1>10. l2 => content'[BufferOf(t)'] = t
  BY <1>2, <1>4, <1>7
<1>11. Config(fn[t], todo'[t], own'[t], e, l2)
         \in Follow(Config(fn[t], todo[t], own[t], e, l))
  <2>1. own'[t] = own[t] \ Now(t).uses /\ Now(t).do \in Releases
    BY <1>1, <1>3, <1>5 DEF Releases
  <2>2. todo'[t] = Tail(todo[t])
    BY <1>5
  <2>3. QED
    BY <1>3, <2>1, <2>2, FollowIs DEF Now
<1>12. l2 \in BOOLEAN
  OBVIOUS
<1> HIDE DEF l2
<1>13. QED
  BY <1>1, <1>2, <1>3, <1>4, <1>8, <1>9, <1>10, <1>11, <1>12, InvStays

(* So does one that fails, and it leaves no error.                          *)
LEMMA ReleaseFailsStep ==
  ASSUME Inv, NEW t \in Threads, ReleaseFails(t)
  PROVE  Inv'
<1>1. Kind(todo[t]) \in {"fini", "fini_or_skip"}
  BY AtIs DEF ReleaseFails
<1>2. PICK e, l \in BOOLEAN :
        /\ Good(Config(fn[t], todo[t], own[t], e, l))
        /\ err[t] = "own" => e
        /\ l => content[BufferOf(t)] = t
  BY <1>1, InTheMiddle
<1>3. todo[t] # <<>> /\ fn[t] \in Does[t] /\ Now(t).do = Kind(todo[t])
  BY <1>1, InTheMiddle
<1>4. /\ \/ todo' = [todo EXCEPT ![t] = Tail(todo[t])]
         \/ Now(t).do = "fini_or_skip" /\ todo' = [todo EXCEPT ![t] = Tail(Tail(todo[t]))]
      /\ own' = [own EXCEPT ![t] = own[t] \ Now(t).uses]
      /\ err' = [err EXCEPT ![t] = None]
      /\ UNCHANGED <<fn, told, content, fetched, overrides, got, asked, lost>>
  BY DEF ReleaseFails, Let, GoOn, GoTo, shared, copies
<1>5. /\ \/ todo'[t] = Tail(todo[t])
         \/ Now(t).do = "fini_or_skip" /\ todo'[t] = Tail(Tail(todo[t]))
      /\ own'[t] = own[t] \ Now(t).uses /\ err'[t] = None
      /\ \A u \in Threads \ {t} : todo'[u] = todo[u] /\ own'[u] = own[u] /\ err'[u] = err[u]
      /\ DOMAIN todo' = Threads /\ DOMAIN own' = Threads /\ DOMAIN err' = Threads
  BY <1>4 DEF Inv, Shape
<1>6. Shape'
  BY <1>4, <1>5 DEF Inv, Shape
<1>7. \A u \in Threads : BufferOf(u)' = BufferOf(u)
  BY <1>4 DEF BufferOf
<1>8. OthersStay(t)
  BY <1>4, <1>5, <1>7 DEF OthersStay
<1>9. err'[t] # "stray" /\ err'[t] # "own"
  BY <1>5, EntryPointsAssumption
<1> DEFINE l2 == l /\ Now(t).uses # {"msg"}
<1>10. /\ l => content'[BufferOf(t)'] = t
       /\ l2 => content'[BufferOf(t)'] = t
       /\ l2 \in BOOLEAN
  BY <1>2, <1>4, <1>7
<1>11. \/ Config(fn[t], todo'[t], own'[t], e, l2)
            \in Follow(Config(fn[t], todo[t], own[t], e, l))
       \/ Config(fn[t], todo'[t], own'[t], e, l)
            \in Follow(Config(fn[t], todo[t], own[t], e, l))
  <2>0. own'[t] = own[t] \ Now(t).uses /\ Now(t).do \in Releases
    BY <1>1, <1>3, <1>5 DEF Releases
  <2>1. CASE todo'[t] = Tail(todo[t])
    BY <1>3, <2>0, <2>1, FollowIs DEF Now
  <2>2. CASE Now(t).do = "fini_or_skip" /\ todo'[t] = Tail(Tail(todo[t]))
    BY <1>3, <2>0, <2>2, FollowIs DEF Now
  <2>3. QED
    BY <1>5, <2>1, <2>2
<1> HIDE DEF l2
<1>12. /\ UNCHANGED <<fetched, overrides, got, asked, lost>> /\ fn'[t] = fn[t] /\ told'[t] = told[t]
       /\ Kind(todo[t]) \notin {"look", "mark", "fetch", "store"}
  BY <1>1, <1>4
<1>13. QED
  BY <1>2, <1>3, <1>6, <1>8, <1>9, <1>10, <1>11, <1>12, InvStays

(* A reset leaves no error.                                                 *)
LEMMA ResetErrorStep ==
  ASSUME Inv, NEW t \in Threads, ResetError(t)
  PROVE  Inv'
<1>1. Kind(todo[t]) = "reset"
  BY AtIs DEF ResetError
<1>2. PICK e, l \in BOOLEAN :
        /\ Good(Config(fn[t], todo[t], own[t], e, l))
        /\ err[t] = "own" => e
        /\ l => content[BufferOf(t)] = t
  BY <1>1, InTheMiddle
<1>3. todo[t] # <<>> /\ fn[t] \in Does[t] /\ Now(t).do = "reset"
  BY <1>1, InTheMiddle
<1>4. /\ todo' = [todo EXCEPT ![t] = Tail(todo[t])]
      /\ err' = [err EXCEPT ![t] = None]
      /\ UNCHANGED <<fn, own, told, content, fetched, overrides, got, asked, lost>>
  BY DEF ResetError, GoOn, GoTo, shared, copies
<1>5. /\ todo'[t] = Tail(todo[t]) /\ err'[t] = None
      /\ \A u \in Threads \ {t} : todo'[u] = todo[u] /\ err'[u] = err[u]
      /\ DOMAIN todo' = Threads /\ DOMAIN err' = Threads
  BY <1>4 DEF Inv, Shape
<1>6. Shape'
  BY <1>4, <1>5 DEF Inv, Shape
<1>7. \A u \in Threads : BufferOf(u)' = BufferOf(u)
  BY <1>4 DEF BufferOf
<1>8. OthersStay(t)
  BY <1>4, <1>5, <1>7 DEF OthersStay
<1>9. err'[t] # "stray" /\ err'[t] # "own"
  BY <1>5, EntryPointsAssumption
<1> DEFINE e2 == e /\ Now(t).do # "reset"
<1>10. Config(fn[t], todo'[t], own'[t], e2, l)
         \in Follow(Config(fn[t], todo[t], own[t], e, l))
  BY <1>3, <1>4, <1>5, FollowIs DEF Now
<1>11. e2 \in BOOLEAN /\ (l => content'[BufferOf(t)'] = t)
  BY <1>2, <1>4, <1>7
<1> HIDE DEF e2
<1>12. UNCHANGED <<fetched, overrides, got, asked, lost>> /\ fn'[t] = fn[t] /\ told'[t] = told[t]
  BY <1>4
<1>13. QED
  BY <1>1, <1>2, <1>3, <1>6, <1>8, <1>9, <1>10, <1>11, <1>12, InvStays

(* A call is over with its program, and leaves no error of its own that is  *)
(* not one of LeavesItsError.                                               *)
LEMMA ReturnKeeps ==
  ASSUME Inv, NEW t \in Threads, Kind(todo[t]) \in Ends, Tail(todo[t]) = <<>>,
         NEW message, NEW e, Return(t, message, e), message # "stray", e # "stray",
         e = "own" => fn[t] \in LeavesItsError
  PROVE  Inv'
<1>1. /\ told' = [told EXCEPT ![t] = message]
      /\ err' = [err EXCEPT ![t] =
                  IF e # "own" THEN e ELSE IF fn[t] \in LeavesItsError THEN "left" ELSE "stray"]
      /\ own' = [own EXCEPT ![t] = {}]
      /\ fn' = [fn EXCEPT ![t] = None]
      /\ todo' = [todo EXCEPT ![t] = <<>>]
      /\ UNCHANGED <<content, fetched, overrides, got, asked, lost>>
  BY DEF Return, GoOn, GoTo, shared, copies
<1>2. /\ told'[t] = message /\ own'[t] = {} /\ todo'[t] = <<>>
      /\ err'[t] = IF e # "own" THEN e ELSE IF fn[t] \in LeavesItsError THEN "left" ELSE "stray"
      /\ \A u \in Threads \ {t} :
           /\ fn'[u] = fn[u] /\ todo'[u] = todo[u] /\ own'[u] = own[u]
           /\ err'[u] = err[u] /\ told'[u] = told[u]
      /\ DOMAIN fn' = Threads /\ DOMAIN todo' = Threads /\ DOMAIN own' = Threads
      /\ DOMAIN err' = Threads /\ DOMAIN told' = Threads
  BY <1>1 DEF Inv, Shape
<1>3. Shape'
  BY <1>1, <1>2 DEF Inv, Shape
<1>4. OthersStay(t)
  BY <1>1, <1>2 DEF OthersStay, BufferOf
<1>5. Runs(t)'
  BY <1>2 DEF Runs, BetweenCalls
<1>6. Lookups'
  <2>1. UNCHANGED <<fetched, overrides, got, asked, lost>> /\ Kind(todo'[t]) = "over"
    BY <1>1, <1>2 DEF Kind
  <2>2. Kind(todo[t]) \notin {"fetch", "store"}
    BY DEF Ends
  <2>3. QED
    BY <1>2, <2>1, <2>2, LookupsStay DEF Inv
<1>7. SetTheFlag' /\ Stored'
  <2>1. UNCHANGED <<fetched, overrides, got, asked, lost>> /\ Kind(todo'[t]) = "over"
    BY <1>1, <1>2 DEF Kind
  <2>2. Kind(todo[t]) \notin {"fetch", "store"}
    BY DEF Ends
  <2>3. QED
    BY <1>2, <2>1, <2>2, AskedStay DEF Inv
<1>8. QED
  BY <1>3, <1>4, <1>5, <1>6, <1>7, CallsStay DEF Inv

(* The three ends of a call.                                                *)
LEMMA EndsStep ==
  ASSUME Inv, NEW t \in Threads, Raises(t) \/ Fails(t) \/ Answers(t)
  PROVE  Inv'
<1>1. /\ Kind(todo[t]) \in Ends
      /\ \/ Kind(todo[t]) = "raise" /\ Return(t, err[t], None)
         \/ Kind(todo[t]) = "fail" /\ Return(t, "plain", err[t])
         \/ Kind(todo[t]) = "answer" /\ Return(t, None, err[t])
  BY AtIs DEF Raises, MkError, Fails, Answers, Ends
<1>2. PICK e, l \in BOOLEAN :
        /\ Good(Config(fn[t], todo[t], own[t], e, l))
        /\ err[t] = "own" => e
  <2>1. Kind(todo[t]) # "over"
    BY <1>1 DEF Ends
  <2>2. QED
    BY <2>1, InTheMiddle
<1>3. err[t] # "stray" /\ Kind(todo[t]) = Now(t).do
  <2>1. Kind(todo[t]) # "over"
    BY <1>1 DEF Ends
  <2>2. QED
    BY <2>1, InTheMiddle
<1>4. /\ Tail(todo[t]) = <<>>
      /\ Kind(todo[t]) \in {"answer", "fail"} => ~e \/ fn[t] \in LeavesItsError
  BY <1>1, <1>2, <1>3, GoodGoesOn, ConfigFields DEF Sound, Now
<1>5. None # "own" /\ None # "stray"
  BY EntryPointsAssumption
<1>6. CASE Kind(todo[t]) = "raise" /\ Return(t, err[t], None)
  BY <1>1, <1>3, <1>4, <1>5, <1>6, ReturnKeeps
<1>7. CASE Kind(todo[t]) = "fail" /\ Return(t, "plain", err[t])
  BY <1>1, <1>2, <1>3, <1>4, <1>7, ReturnKeeps
<1>8. CASE Kind(todo[t]) = "answer" /\ Return(t, None, err[t])
  BY <1>1, <1>2, <1>3, <1>4, <1>5, <1>8, ReturnKeeps
<1>9. QED
  BY <1>1, <1>6, <1>7, <1>8

(* A call begins with the whole program of its function.                    *)
LEMMA EnterStep ==
  ASSUME Inv, NEW t \in Threads, Enter(t)
  PROVE  Inv'
<1>1. PICK f \in Does[t] : fn' = [fn EXCEPT ![t] = f] /\ todo' = [todo EXCEPT ![t] = Body[f]]
  BY DEF Enter
<1>2. /\ todo[t] = <<>> /\ told' = [told EXCEPT ![t] = None]
      /\ UNCHANGED <<own, err, content, fetched, overrides, got, asked, lost>>
  BY DEF Enter, shared, copies
<1>3. /\ fn'[t] = f /\ todo'[t] = Body[f] /\ told'[t] = None
      /\ \A u \in Threads \ {t} : fn'[u] = fn[u] /\ todo'[u] = todo[u] /\ told'[u] = told[u]
      /\ DOMAIN fn' = Threads /\ DOMAIN todo' = Threads /\ DOMAIN told' = Threads
  BY <1>1, <1>2 DEF Inv, Shape
<1>4. Shape'
  BY <1>2, <1>3 DEF Inv, Shape
<1>5. OthersStay(t)
  BY <1>2, <1>3 DEF OthersStay, BufferOf
<1>6. own'[t] = {} /\ err'[t] # "own" /\ err'[t] # "stray"
  BY <1>2 DEF Inv, Calls, Runs, BetweenCalls
<1>7. Fine("quiet", f, Body[f], {})
  <2>1. f \in Functions
    BY EntryPointsAssumption
  <2>2. QED
    BY <2>1, BodiesFine
<1>8. PICK no \in BOOLEAN : ~no
  OBVIOUS
<1>9. Good(Config(f, Body[f], {}, no, no)) /\ Kind(Body[f]) \notin {"mark", "fetch", "store", "get"}
  BY <1>7, <1>8 DEF Fine, Plain, Allows
<1>10. Body[f] # <<>>
  BY <1>9, GoodGoesOn, ConfigFields DEF Sound
<1>11. InACall(t)'
  BY <1>3, <1>6, <1>8, <1>9 DEF InACall
<1>12. Runs(t)'
  BY <1>3, <1>6, <1>10, <1>11, EntryPointsAssumption DEF Runs
<1>13. Lookups'
  <2>1. Kind(todo[t]) = "over" /\ UNCHANGED <<fetched, overrides, got, asked, lost>>
    BY <1>2 DEF Kind
  <2>2. QED
    BY <1>3, <1>9, <2>1, LookupsStay DEF Inv
<1>14. SetTheFlag' /\ Stored'
  <2>1. Kind(todo[t]) = "over" /\ UNCHANGED <<fetched, overrides, got, asked, lost>>
    BY <1>2 DEF Kind
  <2>2. QED
    BY <1>3, <1>9, <2>1, AskedStay DEF Inv
<1>15. QED
  BY <1>4, <1>5, <1>12, <1>13, <1>14, CallsStay DEF Inv

(* A step of a lookup, for its thread and its program.                      *)
LEMMA LooksUp ==
  ASSUME Inv, NEW t \in Threads, Quiet, DOMAIN got' = Threads,
         Kind(todo[t]) \in {"look", "mark", "fetch", "store", "get"}, NEW p,
         \/ p = Tail(todo[t])
         \/ Kind(todo[t]) = "look" /\ p = Looked(todo[t])
         \/ Kind(todo[t]) = "get" /\ p \in Now(t).else,
         GoTo(t, p), err' = err \/ err' = [err EXCEPT ![t] = None]
  PROVE  /\ Shape' /\ Calls'
         /\ todo'[t] = p /\ \A u \in Threads \ {t} : todo'[u] = todo[u]
         /\ Kind(p) = "mark" => Kind(todo[t]) = "look"
         /\ Kind(p) = "fetch" <=> Kind(todo[t]) = "mark"
         /\ Kind(p) = "store" <=> Kind(todo[t]) = "fetch"
         /\ Kind(p) = "get" => Kind(todo[t]) \in {"look", "store"}
         /\ Kind(todo[t]) = "look" =>
              Kind(Tail(todo[t])) = "mark" /\ Kind(Looked(todo[t])) = "get"
<1>1. PICK e, l \in BOOLEAN :
        /\ Good(Config(fn[t], todo[t], own[t], e, l))
        /\ err[t] = "own" => e
        /\ l => content[BufferOf(t)] = t
  BY InTheMiddle
<1>2. todo[t] # <<>> /\ fn[t] \in Does[t] /\ err[t] # "stray" /\ Now(t).do = Kind(todo[t])
  BY InTheMiddle
<1>3. /\ todo' = [todo EXCEPT ![t] = p] /\ UNCHANGED <<fn, own, told, content>>
      /\ err' = err \/ err' = [err EXCEPT ![t] = None]
  BY DEF Quiet, GoTo
<1>4. /\ todo'[t] = p /\ (err'[t] = err[t] \/ err'[t] = None)
      /\ \A u \in Threads \ {t} : todo'[u] = todo[u] /\ err'[u] = err[u]
      /\ DOMAIN todo' = Threads /\ DOMAIN err' = Threads
  BY <1>3 DEF Inv, Shape
<1>5. Shape'
  BY <1>3, <1>4 DEF Inv, Shape
<1>6. \A u \in Threads : BufferOf(u)' = BufferOf(u)
  BY <1>3 DEF BufferOf
<1>7. OthersStay(t)
  BY <1>3, <1>4, <1>6 DEF OthersStay
<1> DEFINE c == Config(fn[t], todo[t], own[t], e, l)
           else == e \/ Now(t).sets
<1>8. PICK e2 \in {e, else} : Config(fn[t], p, own[t], e2, l) \in Follow(c)
  <2>1. CASE p = Tail(todo[t])
    <3>1. Config(fn[t], Tail(todo[t]), own[t], e, l) \in Follow(c)
      <4>1. Head(todo[t]).do \in {"look", "mark", "fetch", "store", "get"} /\ todo[t] # <<>>
        BY <1>2 DEF Now
      <4>2. QED
        BY <4>1, FollowIs
    <3>2. QED
      BY <2>1, <3>1
  <2>2. CASE Kind(todo[t]) = "look" /\ p = Looked(todo[t])
    BY <1>2, <2>2, FollowIs DEF Now
  <2>3. CASE Kind(todo[t]) = "get" /\ p \in Now(t).else
    BY <1>2, <2>3, FollowIs DEF Now
  <2>4. QED
    BY <2>1, <2>2, <2>3
<1>9. e2 \in BOOLEAN /\ (e => e2)
  OBVIOUS
<1>10. err'[t] # "stray" /\ (err'[t] = "own" => e2)
  BY <1>1, <1>2, <1>4, <1>9, EntryPointsAssumption
<1>11. /\ fn'[t] = fn[t] /\ told'[t] = told[t] /\ own'[t] = own[t]
       /\ (l => content'[BufferOf(t)'] = t)
  BY <1>1, <1>3, <1>6
<1>12. c.p = todo[t] /\ Config(fn[t], p, own[t], e2, l).p = p
  BY ConfigFields
<1> HIDE DEF c, else
<1>13. Ordered(c)
  BY <1>1, GoodGoesOn DEF c
<1>14. Runs(t)'
  <2>1. Runs(t)
    BY DEF Inv, Calls
  <2>2. QED
    BY <1>1, <1>2, <1>4, <1>8, <1>9, <1>10, <1>11, <2>1, Moves DEF c
<1>15. Calls'
  BY <1>7, <1>14, CallsStay DEF Inv
<1>16. /\ Kind(p) = "mark" => Kind(todo[t]) = "look"
       /\ Kind(p) = "fetch" <=> Kind(todo[t]) = "mark"
       /\ Kind(p) = "store" <=> Kind(todo[t]) = "fetch"
       /\ Kind(p) = "get" => Kind(todo[t]) \in {"look", "store"}
       /\ Kind(todo[t]) = "look" =>
            Kind(Tail(todo[t])) = "mark" /\ Kind(Looked(todo[t])) = "get"
  BY <1>8, <1>12, <1>13 DEF Ordered
<1>17. QED
  BY <1>4, <1>5, <1>15, <1>16

(* If the flag is set, the steps that ask are passed over.                  *)
LEMMA LookStep ==
  ASSUME Inv, NEW t \in Threads, Look(t)
  PROVE  Inv'
<1>1. Kind(todo[t]) = "look" /\ Quiet /\ UNCHANGED <<err, fetched, overrides, got, asked, lost>>
  BY AtIs DEF Look, copies
<1>2. PICK p : /\ GoTo(t, p)
               /\ \/ p = Looked(todo[t]) /\ fetched
                  \/ p = Tail(todo[t]) /\ ~fetched
  <2>1. CASE fetched
    BY <2>1 DEF Look, Looked
  <2>2. CASE ~fetched
    BY <2>2 DEF Look, GoOn
  <2>3. QED
    BY <2>1, <2>2
<1>3. DOMAIN got' = Threads
  BY <1>1 DEF Inv, Shape
<1>4. /\ Shape' /\ Calls'
      /\ todo'[t] = p /\ \A u \in Threads \ {t} : todo'[u] = todo[u]
      /\ Kind(p) \notin {"fetch", "store"}
      /\ Kind(Tail(todo[t])) = "mark" /\ Kind(Looked(todo[t])) = "get"
  BY <1>1, <1>2, <1>3, LooksUp
<1>5. Kind(p) = "get" => fetched
  BY <1>2, <1>4
<1>6. Lookups'
  BY <1>1, <1>4, <1>5, LookupsStay DEF Inv
<1>7. Kind(p) = "mark" => ~fetched
  BY <1>2, <1>4
<1>8. SetTheFlag' /\ Stored'
  BY <1>1, <1>4, <1>7, AskedStay DEF Inv
<1>9. QED
  BY <1>4, <1>6, <1>8 DEF Inv

(* The flag is set by a thread that is then to ask.                         *)
LEMMA MarkStep ==
  ASSUME Inv, NEW t \in Threads, Mark(t)
  PROVE  Inv'
<1>1. /\ Kind(todo[t]) = "mark" /\ Quiet /\ GoTo(t, Tail(todo[t]))
      /\ fetched' /\ UNCHANGED <<err, overrides, got, lost>> /\ asked' = asked \cup {t}
  BY AtIs DEF Mark, GoOn
<1>2. DOMAIN got' = Threads
  BY <1>1 DEF Inv, Shape
<1>3. /\ Shape' /\ Calls'
      /\ \A u \in Threads \ {t} : todo'[u] = todo[u]
      /\ Kind(todo'[t]) = "fetch"
  <2>1. PICK p : p \in {Tail(todo[t])} /\ GoTo(t, p)
    BY <1>1
  <2>2. QED
    BY <1>1, <1>2, <2>1, LooksUp
<1>4. Lookups'
  BY <1>1, <1>3 DEF Inv, Lookups, Asking
<1>5. SetTheFlag'
  BY <1>1, <1>3 DEF Inv, SetTheFlag
<1>6. Stored'
  <2>1. \A u \in asked : ~Asking(u) => ~Asking(u)' \/ u = t
    BY <1>3 DEF Asking, Inv, SetTheFlag
  <2>2. t \notin asked
    BY <1>1 DEF Inv, SetTheFlag
  <2>3. QED
    BY <1>1, <2>1, <2>2 DEF Inv, Stored
<1>7. QED
  BY <1>3, <1>4, <1>5, <1>6 DEF Inv

(* What it is told, it is then to store.                                    *)
LEMMA FetchStep ==
  ASSUME Inv, NEW t \in Threads, Fetch(t)
  PROVE  Inv'
<1>1. /\ Kind(todo[t]) = "fetch" /\ Quiet /\ GoTo(t, Tail(todo[t]))
      /\ UNCHANGED <<fetched, overrides, asked, lost>>
      /\ err' = err \/ err' = [err EXCEPT ![t] = None]
      /\ got' = [got EXCEPT ![t] = "parsed"] \/ got' = [got EXCEPT ![t] = "refused"]
  BY AtIs DEF Fetch, GoOn
<1>2. /\ DOMAIN got' = Threads /\ got'[t] # None
      /\ \A u \in Threads \ {t} : got'[u] = got[u]
  BY <1>1, EntryPointsAssumption DEF Inv, Shape
<1>3. /\ Shape' /\ Calls'
      /\ \A u \in Threads \ {t} : todo'[u] = todo[u]
      /\ Kind(todo'[t]) = "store"
  <2>1. PICK p : p \in {Tail(todo[t])} /\ GoTo(t, p)
    BY <1>1
  <2>2. QED
    BY <1>1, <1>2, <2>1, LooksUp
<1>4. fetched
  BY <1>1 DEF Inv, Lookups
<1>5. Lookups'
  BY <1>1, <1>2, <1>3, <1>4 DEF Inv, Lookups, Asking
<1>6. SetTheFlag'
  BY <1>1, <1>2, <1>3 DEF Inv, SetTheFlag
<1>7. Stored'
  <2>1. \A u \in asked : ~Asking(u) => ~Asking(u)'
    BY <1>1, <1>3 DEF Asking, Inv, SetTheFlag
  <2>2. QED
    BY <1>1, <2>1 DEF Inv, Stored
<1>8. QED
  BY <1>3, <1>5, <1>6, <1>7 DEF Inv

(* From here on the overrides are there for all.                            *)
LEMMA StoreStep ==
  ASSUME Inv, NEW t \in Threads, Store(t)
  PROVE  Inv'
<1>1. /\ Kind(todo[t]) = "store" /\ Quiet /\ GoTo(t, Tail(todo[t]))
      /\ UNCHANGED <<err, fetched, asked>>
      /\ overrides' = got[t] /\ got' = [got EXCEPT ![t] = None]
      /\ lost' => lost \/ overrides = "parsed"
  BY AtIs DEF Store, StoreGot, GoOn
<1>2. /\ DOMAIN got' = Threads /\ \A u \in Threads \ {t} : got'[u] = got[u]
      /\ got'[t] = None
  BY <1>1 DEF Inv, Shape
<1>3. /\ Shape' /\ Calls'
      /\ \A u \in Threads \ {t} : todo'[u] = todo[u]
      /\ Kind(todo'[t]) \notin {"mark", "fetch", "store"}
  <2>1. PICK p : p \in {Tail(todo[t])} /\ GoTo(t, p)
    BY <1>1
  <2>2. QED
    BY <1>1, <1>2, <2>1, LooksUp
<1>4. fetched /\ overrides' # None
  BY <1>1 DEF Inv, Lookups
<1>5. Lookups'
  BY <1>1, <1>2, <1>3, <1>4 DEF Inv, Lookups
<1>6. SetTheFlag'
  BY <1>1, <1>2, <1>3 DEF Inv, SetTheFlag
<1>7. Stored'
  <2>1. t \in asked /\ Asking(t) /\ ~Asking(t)'
    BY <1>1, <1>3 DEF Inv, SetTheFlag, Asking
  <2>2. ASSUME overrides = "parsed"
        PROVE  \E u, v \in asked : u # v
    <3>1. overrides # None
      BY <2>2, EntryPointsAssumption
    <3>2. PICK u \in asked : ~Asking(u)
      BY <3>1 DEF Inv, Stored
    <3>3. QED
      BY <2>1, <3>2
  <2>3. lost' => \E u, v \in asked' : u # v
    BY <1>1, <2>2 DEF Inv, Stored
  <2>4. QED
    BY <1>1, <2>1, <2>3 DEF Stored
<1>8. QED
  BY <1>3, <1>5, <1>6, <1>7 DEF Inv

(* The lookup goes on with what is stored.                                  *)
LEMMA GetStep ==
  ASSUME Inv, NEW t \in Threads, Get(t)
  PROVE  Inv'
<1>1. Kind(todo[t]) = "get" /\ Quiet /\ UNCHANGED <<err, fetched, overrides, got, asked, lost>>
  BY AtIs DEF Get, copies
<1>2. PICK p : GoTo(t, p) /\ (p = Tail(todo[t]) \/ p \in Now(t).else)
  BY DEF Get, GoOn
<1>3. DOMAIN got' = Threads
  BY <1>1 DEF Inv, Shape
<1>4. /\ Shape' /\ Calls'
      /\ \A u \in Threads \ {t} : todo'[u] = todo[u]
      /\ Kind(todo'[t]) \notin {"mark", "fetch", "store", "get"}
  BY <1>1, <1>2, <1>3, LooksUp
<1>5. Lookups'
  BY <1>1, <1>4, LookupsStay DEF Inv
<1>6. SetTheFlag' /\ Stored'
  BY <1>1, <1>4, AskedStay DEF Inv
<1>7. QED
  BY <1>4, <1>5, <1>6 DEF Inv

(* Nobody is in a call, and nobody has asked.                               *)
LEMMA InvBegins ==
  ASSUME Init
  PROVE  Inv
<1>1. \A t \in Threads :
        /\ todo[t] = <<>> /\ own[t] = {} /\ err[t] = None /\ told[t] = None
        /\ Kind(todo[t]) = "over"
  BY DEF Init, Kind
<1>2. Shape
  BY DEF Init, Shape
<1>3. Calls
  BY <1>1, EntryPointsAssumption DEF Calls, Runs, BetweenCalls
<1>4. Lookups
  BY <1>1 DEF Init, Lookups
<1>5. SetTheFlag /\ Stored
  BY <1>1 DEF Init, SetTheFlag, Stored
<1>6. QED
  BY <1>2, <1>3, <1>4, <1>5 DEF Inv

(* Each step keeps it.                                                      *)
LEMMA InvGoesOn ==
  ASSUME Inv, [Next]_vars
  PROVE  Inv'
<1>1. CASE UNCHANGED vars
  BY <1>1 DEF vars, Inv, Shape, Calls, Runs, BetweenCalls, InACall, BufferOf, Lookups, Asking,
     SetTheFlag, Stored, copies
<1>2. ASSUME NEW t \in Threads, StepOf(t)
      PROVE  Inv'
  <2>1. CASE Enter(t)
    BY <2>1, EnterStep
  <2>2. CASE Succeed(t)
    BY <2>2, SucceedStep
  <2>3. CASE GoesWrong(t)
    BY <2>3, GoesWrongStep
  <2>4. CASE Release(t)
    BY <2>4, ReleaseStep
  <2>5. CASE ReleaseFails(t)
    BY <2>5, ReleaseFailsStep
  <2>6. CASE ResetError(t)
    BY <2>6, ResetErrorStep
  <2>7. CASE Raises(t) \/ Fails(t) \/ Answers(t)
    BY <2>7, EndsStep
  <2>8. CASE Look(t)
    BY <2>8, LookStep
  <2>9. CASE Mark(t)
    BY <2>9, MarkStep
  <2>10. CASE Fetch(t)
    BY <2>10, FetchStep
  <2>11. CASE Store(t)
    BY <2>11, StoreStep
  <2>12. CASE Get(t)
    BY <2>12, GetStep
  <2>13. QED
    BY <1>2, <2>1, <2>2, <2>3, <2>4, <2>5, <2>6, <2>7, <2>8, <2>9, <2>10, <2>11, <2>12
       DEF StepOf
<1>3. QED
  BY <1>1, <1>2 DEF Next

(* The machine runs good programs.                                          *)
THEOREM Invariance == Spec => []Inv
<1>1. Init => Inv
  BY InvBegins
<1>2. Inv /\ [Next]_vars => Inv'
  BY InvGoesOn
<1>3. QED
  BY <1>1, <1>2, PTL DEF Spec

-------------------------------------------------------------------------------
(* What follows                                                            *)

(* What a thread that is in a call is about to do is sound.                 *)
LEMMA NowSound ==
  ASSUME Inv, NEW t \in Threads, todo[t] # <<>>
  PROVE  \E e, l \in BOOLEAN :
           /\ Sound(Config(fn[t], todo[t], own[t], e, l))
           /\ l => content[BufferOf(t)] = t
<1>1. PICK e, l \in BOOLEAN :
        Good(Config(fn[t], todo[t], own[t], e, l)) /\ (l => content[BufferOf(t)] = t)
  BY DEF Inv, Calls, Runs, InACall
<1>2. QED
  BY <1>1, GoodGoesOn

(* Whatever fails, in any number of threads and whichever functions they    *)
(* call: no call of rcl is given what was not acquired or is released, none *)
(* is released twice, and a call returns with nothing left but, in          *)
(* rcllean_graph_node_names, the namespaces (graph.c:99-100).  The copy of  *)
(* the overrides is the context's, and one is lost only if two threads had  *)
(* found that rcl had not been asked (node.c:149-157).                      *)
THEOREM EveryResourceComesBack == Spec => []ResourcesComeBack
<1>1. Inv => ResourcesComeBack
  <2>1. SUFFICES ASSUME Inv, NEW t \in Threads, todo[t] # <<>>
                 PROVE  /\ Now(t).uses \subseteq own[t]
                        /\ At(t, {"answer", "fail", "raise"}) =>
                             /\ own[t] \ Now(t).uses
                                  \subseteq IF fn[t] = "nodeNames" THEN {"namespaces"} ELSE {}
                             /\ got[t] = None
    BY DEF ResourcesComeBack, Inv, Stored
  <2>2. PICK e, l \in BOOLEAN : Sound(Config(fn[t], todo[t], own[t], e, l))
    BY <2>1, NowSound
  <2>3. Kind(todo[t]) = Now(t).do /\ (Kind(todo[t]) # "store" => got[t] = None)
    BY <2>1 DEF Kind, Now, Inv, SetTheFlag
  <2>4. At(t, {"answer", "fail", "raise"}) => got[t] = None
    BY <2>3 DEF At, Now
  <2>5. QED
    BY <2>2, <2>4, ConfigFields DEF Sound, Now, At, Ends
<1>2. QED
  BY <1>1, Invariance, PTL

(* No exception tells what an earlier call of the thread left in the error  *)
(* state of rcl, but for the calls of LeavesItsError, however many calls    *)
(* fail and whichever of their failures set an error.                       *)
THEOREM EveryErrorIsOnesOwn == Spec => []ErrorsAreOnesOwn
<1>1. Inv => ErrorsAreOnesOwn
  BY DEF Inv, Calls, Runs, ErrorsAreOnesOwn
<1>2. QED
  BY <1>1, Invariance, PTL

(* With any number of threads that send, and of entities that are taken     *)
(* from, each on its own thread: a message that is sent or converted to     *)
(* Lean is that of the call.                                                *)
THEOREM NoMessageIsMixed == Spec => []MessagesAreNotMixed
<1>1. Inv => MessagesAreNotMixed
  <2>1. SUFFICES ASSUME Inv, NEW t \in Threads, todo[t] # <<>>, Now(t).reads
                 PROVE  content[BufferOf(t)] = t
    BY DEF MessagesAreNotMixed
  <2>2. PICK e, l \in BOOLEAN :
          /\ Sound(Config(fn[t], todo[t], own[t], e, l))
          /\ l => content[BufferOf(t)] = t
    BY <2>1, NowSound
  <2>3. QED
    BY <2>1, <2>2, ConfigFields DEF Sound, Now
<1>2. QED
  BY <1>1, Invariance, PTL

(* Whichever threads look for overrides at once: the flag, set before the   *)
(* answer of rcl is stored, hides the overrides only while a thread asks    *)
(* for them (node.c:148-150).                                               *)
THEOREM EveryOverrideIsSeen == Spec => []OverridesAreSeen
<1>1. Inv => OverridesAreSeen
  <2>1. SUFFICES ASSUME Inv, NEW t \in Threads, At(t, {"get"}), overrides = None
                 PROVE  \E u \in Threads \ {t} : At(u, {"fetch", "store"})
    BY DEF OverridesAreSeen
  <2>2. Kind(todo[t]) = "get"
    BY <2>1, AtIs
  <2>3. PICK u \in Threads : Asking(u)
    BY <2>1, <2>2 DEF Inv, Lookups
  <2>4. u # t /\ At(u, {"fetch", "store"})
    BY <2>2, <2>3, AtIs DEF Asking
  <2>5. QED
    BY <2>4
<1>2. QED
  BY <1>1, Invariance, PTL
===============================================================================
