--------------------------- MODULE ServiceCallProofs ---------------------------
(***************************************************************************)
(* For any calls, clients, threads and servers: a future is completed by   *)
(* the answer to its own call or by a failure, once, and runs each of its  *)
(* callbacks once, but for those behind one that raises.                   *)
(*                                                                         *)
(* The invariant follows the sequence number: whatever carries one, the    *)
(* pending list, a dispatched completion or a completed future, carries    *)
(* the number of the call whose future it names, and numbers are not       *)
(* given out twice.                                                        *)
(***************************************************************************)
EXTENDS ServiceCall, TLAPS

(* The number that identifies the request of a call.                        *)
RequestOf(k) == <<ClientOf[k], seqOf[k]>>

(* A client gives its numbers out in order, each once.                      *)
NumbersTell ==
  /\ \A k \in Calls : seqOf[k] <= sent[ClientOf[k]]
  /\ \A j, k \in Calls : RequestOf(j) = RequestOf(k) /\ seqOf[k] # 0 => j = k

(* What waits for a response waits for its own.                             *)
PendingKnowTheirNumber ==
  /\ \A t \in Threads : calling[t] # NoCall => seqOf[calling[t]] # 0
  /\ \A c \in Clients : \A p \in pending[c] :
       <<c, p[1]>> = RequestOf(p[2]) /\ p[1] # 0

(* What was dispatched completes the future of the call it answers.         *)
CompletionsKnowTheirCall == \A job \in completing : job[2] = RequestOf(job[1])

CallInv ==
  /\ TypeOK
  /\ NumbersTell
  /\ PendingKnowTheirNumber
  /\ CompletionsKnowTheirCall
  /\ AnswersItsCall

-------------------------------------------------------------------------------
LEMMA CallInit == Init => CallInv
<1> SUFFICES ASSUME Init
             PROVE  CallInv
  OBVIOUS
<1>1. TypeOK
  BY CallAssumption DEF Init, TypeOK
<1>2. NumbersTell
  BY CallAssumption DEF Init, NumbersTell
<1>3. PendingKnowTheirNumber /\ CompletionsKnowTheirCall
  BY DEF Init, PendingKnowTheirNumber, CompletionsKnowTheirCall
<1>4. AnswersItsCall
  BY DEF Init, AnswersItsCall
<1>5. QED
  BY <1>1, <1>2, <1>3, <1>4 DEF CallInv

(* What changes when the callbacks that one completion has to run do.       *)
LEMMA DueUpdate ==
  ASSUME NEW f \in [Walkers -> [Calls -> SUBSET Nat]], NEW who \in Walkers, NEW k \in Calls,
         NEW todo \in SUBSET Nat, NEW g, g = [f EXCEPT ![who][k] = todo]
  PROVE  /\ g \in [Walkers -> [Calls -> SUBSET Nat]]
         /\ g[who][k] = todo
         /\ \A w \in Walkers : w # who => g[w][k] = f[w][k]
         /\ \A w \in Walkers : \A j \in Calls \ {k} : g[w][j] = f[w][j]
  OBVIOUS

(* Completing a future sets its value, unless it has one, and makes its     *)
(* callbacks due.                                                           *)
LEMMA CompleteType ==
  ASSUME TypeOK, NEW k \in Calls, NEW outcome \in Requests \cup {Failed},
         NEW who \in Walkers, Complete(k, outcome, who)
  PROVE  /\ value' \in [Calls -> Requests \cup {NotYet, Failed}]
         /\ callbacks' \in [Calls -> SUBSET Nat]
         /\ due' \in [Walkers -> [Calls -> SUBSET Nat]]
         /\ UNCHANGED <<asked, ran, raised>>
         /\ \A j \in Calls : value'[j] # value[j] => j = k /\ value'[j] = outcome
<1>1. CASE value[k] # NotYet
  BY <1>1 DEF Complete, TypeOK, future
<1>2. CASE value[k] = NotYet
  <2>1. callbacks[k] \in SUBSET Nat /\ due' = [due EXCEPT ![who][k] = callbacks[k]]
    BY <1>2 DEF Complete, TypeOK
  <2>2. due' \in [Walkers -> [Calls -> SUBSET Nat]]
    BY <2>1, DueUpdate DEF TypeOK
  <2>3. /\ value' = [value EXCEPT ![k] = outcome]
        /\ callbacks' = [callbacks EXCEPT ![k] = {}]
        /\ UNCHANGED <<asked, ran, raised>>
    BY <1>2 DEF Complete
  <2>4. value \in [Calls -> Requests \cup {NotYet, Failed}] /\ callbacks \in [Calls -> SUBSET Nat]
    BY DEF TypeOK
  <2>5. QED
    BY <2>2, <2>3, <2>4
<1>3. QED
  BY <1>1, <1>2

(* The types.                                                               *)
LEMMA TypeStep == TypeOK /\ [Next]_vars => TypeOK'
<1> SUFFICES ASSUME TypeOK, [Next]_vars
             PROVE  TypeOK'
  OBVIOUS
<1> USE CallAssumption DEF network, future
<1>1. ASSUME NEW t \in Threads, NEW k \in Calls, SendRequest(t, k)
      PROVE  TypeOK'
  <2>1. /\ sent' \in [Clients -> Nat]
        /\ sent'[ClientOf[k]] \in Nat \ {0}
        /\ seqOf' \in [Calls -> Nat]
        /\ calling' \in [Threads -> Calls \cup {NoCall}]
    BY <1>1 DEF SendRequest, TypeOK
  <2>2. <<ClientOf[k], sent'[ClientOf[k]]>> \in Requests
    BY <2>1 DEF Requests
  <2>3. queued' \in [Servers -> SUBSET Requests]
    <3> DEFINE new(s, matched) ==
                 IF s \in matched THEN {<<ClientOf[k], sent'[ClientOf[k]]>>} ELSE {}
    <3>1. PICK matched \in SUBSET Servers :
            queued' = [s \in Servers |-> queued[s] \cup new(s, matched)]
      BY <1>1 DEF SendRequest
    <3>2. \A s \in Servers : new(s, matched) \subseteq Requests
      BY <2>2
    <3> HIDE DEF new
    <3>3. QED
      BY <3>1, <3>2 DEF TypeOK
  <2>4. QED
    BY <1>1, <2>1, <2>3 DEF SendRequest, TypeOK
<1>2. ASSUME NEW t \in Threads, RecordPending(t)
      PROVE  TypeOK'
  <2>1. calling[t] \in Calls
    BY <1>2 DEF RecordPending, TypeOK
  <2>2. pending' \in [Clients -> SUBSET (Nat \X Calls)]
    BY <1>2, <2>1 DEF RecordPending, TypeOK
  <2>3. QED
    BY <1>2, <2>2 DEF RecordPending, TypeOK
<1>3. ASSUME NEW s \in Servers, Server(s)
      PROVE  TypeOK'
  <2>1. PICK r \in queued[s] \cup handling[s] :
          TakeRequest(s, r) \/ SendResponse(s, r) \/ HandlerRaises(s, r)
    BY <1>3 DEF Server
  <2>2. r \in Requests /\ r[1] \in Clients
    BY DEF TypeOK, Requests
  <2>3. CASE TakeRequest(s, r) \/ HandlerRaises(s, r)
    <3>1. queued' \in [Servers -> SUBSET Requests] /\ handling' \in [Servers -> SUBSET Requests]
      <4>1. queued \in [Servers -> SUBSET Requests] /\ handling \in [Servers -> SUBSET Requests]
        BY DEF TypeOK
      <4>2. /\ queued' = queued \/ queued' = [queued EXCEPT ![s] = @ \ {r}]
            /\ \/ handling' = [handling EXCEPT ![s] = @ \cup {r}]
               \/ handling' = [handling EXCEPT ![s] = @ \ {r}]
        BY <2>3 DEF TakeRequest, HandlerRaises
      <4>3. QED
        BY <2>2, <4>1, <4>2
    <3>2. QED
      BY <2>3, <3>1 DEF TakeRequest, HandlerRaises, TypeOK
  <2>4. CASE SendResponse(s, r)
    BY <2>2, <2>4 DEF SendResponse, TypeOK
  <2>5. QED
    BY <2>1, <2>3, <2>4
<1>4. ASSUME NEW t \in Threads, NEW k \in Calls, OnComplete(t, k)
      PROVE  TypeOK'
  <2>1. asked[k] \in Nat /\ asked' = [asked EXCEPT ![k] = asked[k] + 1]
    BY <1>4 DEF OnComplete, TypeOK
  <2>2. asked'[k] \in Nat /\ asked' \in [Calls -> Nat]
    BY <2>1 DEF TypeOK
  <2>3. "caller" \in Walkers
    BY DEF Walkers
  <2>4. callbacks' \in [Calls -> SUBSET Nat] /\ due' \in [Walkers -> [Calls -> SUBSET Nat]]
    <3>1. callbacks \in [Calls -> SUBSET Nat] /\ due \in [Walkers -> [Calls -> SUBSET Nat]]
      BY DEF TypeOK
    <3>2. \/ callbacks' = [callbacks EXCEPT ![k] = @ \cup {asked'[k]}] /\ due' = due
          \/ due' = [due EXCEPT !["caller"][k] = {asked'[k]}] /\ callbacks' = callbacks
      BY <1>4 DEF OnComplete
    <3>3. {asked'[k]} \in SUBSET Nat
      BY <2>2
    <3>4. CASE callbacks' = [callbacks EXCEPT ![k] = @ \cup {asked'[k]}] /\ due' = due
      BY <3>1, <3>3, <3>4
    <3>5. CASE due' = [due EXCEPT !["caller"][k] = {asked'[k]}] /\ callbacks' = callbacks
      BY <2>3, <3>1, <3>3, <3>5, DueUpdate
    <3>6. QED
      BY <3>2, <3>4, <3>5
  <2>5. QED
    BY <1>4, <2>2, <2>4 DEF OnComplete, TypeOK
<1>5. ASSUME NEW k \in Calls, NEW who \in Walkers, RunCallback(k, who)
      PROVE  TypeOK'
  <2>1. PICK cb \in due[who][k] :
          /\ ran' = [ran EXCEPT ![k] = @ \cup {cb}]
          /\ \/ due' = [due EXCEPT ![who][k] = @ \ {cb}] /\ UNCHANGED raised
             \/ /\ due' = [due EXCEPT ![who][k] = {}]
                /\ raised' = [raised EXCEPT ![k] = @ \cup {cb}]
          /\ spinning' \in {spinning, NoCall}
    BY <1>5 DEF RunCallback
  <2>2. due[who][k] \subseteq Nat /\ cb \in Nat
    BY <2>1 DEF TypeOK
  <2>3. due' \in [Walkers -> [Calls -> SUBSET Nat]]
    <3>1. due \in [Walkers -> [Calls -> SUBSET Nat]]
      BY DEF TypeOK
    <3>2. /\ due[who][k] \ {cb} \in SUBSET Nat /\ {} \in SUBSET Nat
          /\ \/ due' = [due EXCEPT ![who][k] = due[who][k] \ {cb}]
             \/ due' = [due EXCEPT ![who][k] = {}]
      BY <2>1, <2>2
    <3>3. QED
      BY <3>1, <3>2, DueUpdate
  <2>4. ran' \in [Calls -> SUBSET Nat] /\ raised' \in [Calls -> SUBSET Nat]
    <3>1. ran \in [Calls -> SUBSET Nat] /\ raised \in [Calls -> SUBSET Nat]
      BY DEF TypeOK
    <3>2. /\ ran' = [ran EXCEPT ![k] = @ \cup {cb}]
          /\ raised' = raised \/ raised' = [raised EXCEPT ![k] = @ \cup {cb}]
      BY <2>1
    <3>3. QED
      BY <2>2, <3>1, <3>2
  <2>5. spinning' \in Calls \cup {NoCall, Forever}
    BY <2>1 DEF TypeOK
  <2>6. QED
    BY <1>5, <2>3, <2>4, <2>5 DEF RunCallback, TypeOK
<1>6. ASSUME NEW t \in Threads, NEW k \in Calls, Fail(t, k)
      PROVE  TypeOK'
  <2>1. "caller" \in Walkers
    BY DEF Walkers
  <2>2. QED
    BY <1>6, <2>1, CompleteType DEF Fail, TypeOK
<1>7. ASSUME NEW goal \in Calls \cup {Forever}, StartSpin(goal)
      PROVE  TypeOK'
  BY <1>7 DEF StartSpin, TypeOK
<1>8. CASE StopSpin
  BY <1>8 DEF StopSpin, TypeOK
<1>9. ASSUME NEW c \in Clients, TakeResponse(c)
      PROVE  TypeOK'
  <2>1. PICK response \in responses[c] :
          /\ taken' = response[1]
          /\ responses' = [responses EXCEPT ![c] = @ \ {response}]
          /\ answered' = answered \cup {k \in Calls : <<ClientOf[k], seqOf[k]>> = response[1]}
    BY <1>9 DEF TakeResponse
  <2>2. response[1] \in Requests
    BY DEF TypeOK
  <2>3. QED
    BY <1>9, <2>1, <2>2 DEF TakeResponse, TypeOK
<1>10. CASE Match
  <2>1. taken \in Requests /\ taken[1] \in Clients
    BY <1>10 DEF Match, TypeOK, Requests
  <2>2. Dispatched(Waiting(taken[1], taken[2])) \subseteq Calls \X Requests
    BY <2>1 DEF Dispatched, Waiting, TypeOK
  <2>3. QED
    BY <1>10, <2>1, <2>2 DEF Match, Remove, TypeOK
<1>11. ASSUME NEW job \in completing, RunCompletion(job)
       PROVE  TypeOK'
  <2>1. job[1] \in Calls /\ job[2] \in Requests /\ "executor" \in Walkers
    BY DEF TypeOK, Walkers
  <2>2. QED
    BY <1>11, <2>1, CompleteType DEF RunCompletion, TypeOK
<1>12. CASE UNCHANGED vars
  BY <1>12 DEF vars, TypeOK
<1>13. QED
  BY <1>1, <1>2, <1>3, <1>4, <1>5, <1>6, <1>7, <1>8, <1>9, <1>10, <1>11, <1>12
     DEF Next, Caller, Executor, Walkers

-------------------------------------------------------------------------------
(* Completing a future with the answer to its call, or with a failure,      *)
(* keeps AnswersItsCall.                                                    *)
LEMMA CompleteAnswers ==
  ASSUME TypeOK, AnswersItsCall, NEW k \in Calls, NEW outcome \in Requests \cup {Failed},
         outcome \in {RequestOf(k), Failed}, NEW who \in Walkers, Complete(k, outcome, who),
         seqOf' = seqOf
  PROVE  AnswersItsCall'
  BY CompleteType DEF AnswersItsCall, RequestOf

LEMMA CallStep == CallInv /\ [Next]_vars => CallInv'
<1> SUFFICES ASSUME CallInv, [Next]_vars
             PROVE  NumbersTell' /\ PendingKnowTheirNumber' /\ CompletionsKnowTheirCall'
                      /\ AnswersItsCall'
  BY TypeStep DEF CallInv
<1> USE CallAssumption DEF CallInv, network, future
(* Only a send gives out a number.                                          *)
<1> DEFINE Same == UNCHANGED <<sent, seqOf>>
<1>1. Same => NumbersTell'
  BY DEF NumbersTell, RequestOf
<1>2. Same /\ UNCHANGED <<calling, pending>> => PendingKnowTheirNumber'
  BY DEF PendingKnowTheirNumber, RequestOf
<1>3. Same /\ UNCHANGED completing => CompletionsKnowTheirCall'
  BY DEF CompletionsKnowTheirCall, RequestOf
<1>4. Same /\ UNCHANGED value => AnswersItsCall'
  BY DEF AnswersItsCall
<1>5. ASSUME NEW t \in Threads, NEW k \in Calls, SendRequest(t, k)
      PROVE  NumbersTell' /\ PendingKnowTheirNumber' /\ CompletionsKnowTheirCall'
               /\ AnswersItsCall'
  <2>1. /\ seqOf[k] = 0
        /\ sent' = [sent EXCEPT ![ClientOf[k]] = @ + 1]
        /\ seqOf' = [seqOf EXCEPT ![k] = sent[ClientOf[k]] + 1]
        /\ calling' = [calling EXCEPT ![t] = k]
        /\ UNCHANGED <<pending, completing, value>>
    BY <1>5 DEF SendRequest, TypeOK
  <2>2. \A j \in Calls : seqOf[j] # 0 => seqOf'[j] = seqOf[j]
    BY <2>1 DEF TypeOK
  <2>3. \A j \in Calls : seqOf[j] <= sent[ClientOf[j]] /\ sent[ClientOf[j]] \in Nat
                              /\ seqOf[j] \in Nat
    BY DEF NumbersTell, TypeOK
  <2>4. \A j \in Calls : seqOf'[j] <= sent'[ClientOf[j]]
    BY <2>1, <2>3 DEF TypeOK
  <2>5. \A i, j \in Calls : RequestOf(i)' = RequestOf(j)' /\ seqOf'[j] # 0 => i = j
    <3>1. \A j \in Calls : ClientOf[j] = ClientOf[k] /\ j # k => seqOf'[j] # seqOf'[k]
      BY <2>1, <2>3 DEF TypeOK
    <3>2. \A i, j \in Calls : i # k /\ j # k /\ RequestOf(i)' = RequestOf(j)' /\ seqOf'[j] # 0
                               => i = j
      BY <2>1 DEF NumbersTell, RequestOf, TypeOK
    <3>3. QED
      BY <3>1, <3>2 DEF RequestOf
  <2>6. PendingKnowTheirNumber'
    <3>1. \A u \in Threads : calling'[u] # NoCall => seqOf'[calling'[u]] # 0
      BY <2>1, <2>2 DEF PendingKnowTheirNumber, TypeOK
    <3>2. \A c \in Clients : \A p \in pending[c] : p[2] \in Calls
      BY DEF TypeOK
    <3>3. QED
      BY <2>1, <2>2, <3>1, <3>2 DEF PendingKnowTheirNumber, RequestOf
  <2>7. CompletionsKnowTheirCall'
    <3>1. \A job \in completing : job[1] \in Calls /\ job[2][2] # 0
      BY DEF TypeOK, Requests
    <3>2. QED
      BY <2>1, <2>2, <3>1 DEF CompletionsKnowTheirCall, RequestOf
  <2>8. AnswersItsCall'
    <3>1. \A j \in Calls : value[j] \notin {NotYet, Failed} => value[j][2] # 0
      BY DEF TypeOK, Requests
    <3>2. QED
      BY <2>1, <2>2, <3>1 DEF AnswersItsCall
  <2>9. QED
    BY <2>4, <2>5, <2>6, <2>7, <2>8 DEF NumbersTell
<1>6. ASSUME NEW t \in Threads, RecordPending(t)
      PROVE  NumbersTell' /\ PendingKnowTheirNumber' /\ CompletionsKnowTheirCall'
               /\ AnswersItsCall'
  <2>1. /\ calling[t] \in Calls /\ seqOf[calling[t]] # 0
        /\ ClientOf[calling[t]] \in Clients
    BY <1>6 DEF RecordPending, TypeOK, PendingKnowTheirNumber
  <2>2. PendingKnowTheirNumber'
    BY <1>6, <2>1 DEF RecordPending, PendingKnowTheirNumber, RequestOf, TypeOK
  <2>3. QED
    BY <1>1, <1>3, <1>4, <1>6, <2>2 DEF RecordPending
<1>7. CASE Match
  <2>1. taken \in Requests
    BY <1>7 DEF Match, TypeOK
  <2>2. \A p \in Waiting(taken[1], taken[2]) : taken = RequestOf(p[2])
    BY <2>1 DEF Waiting, PendingKnowTheirNumber, Requests
  <2>3. CompletionsKnowTheirCall'
    BY <1>7, <2>2 DEF Match, Dispatched, CompletionsKnowTheirCall, RequestOf
  <2>4. PendingKnowTheirNumber'
    BY <1>7, <2>1 DEF Match, Remove, PendingKnowTheirNumber, RequestOf, TypeOK, Requests
  <2>5. QED
    BY <1>1, <1>4, <1>7, <2>3, <2>4 DEF Match
<1>8. ASSUME NEW job \in completing, RunCompletion(job)
      PROVE  NumbersTell' /\ PendingKnowTheirNumber' /\ CompletionsKnowTheirCall'
               /\ AnswersItsCall'
  <2>1. job[1] \in Calls /\ job[2] \in Requests /\ job[2] = RequestOf(job[1])
    BY DEF TypeOK, CompletionsKnowTheirCall
  <2>2. AnswersItsCall'
    BY <1>8, <2>1, CompleteAnswers DEF RunCompletion, Walkers
  <2>3. CompletionsKnowTheirCall'
    BY <1>8 DEF RunCompletion, CompletionsKnowTheirCall, RequestOf
  <2>4. QED
    BY <1>1, <1>2, <1>8, <2>2, <2>3 DEF RunCompletion
<1>9. ASSUME NEW t \in Threads, NEW k \in Calls, Fail(t, k)
      PROVE  NumbersTell' /\ PendingKnowTheirNumber' /\ CompletionsKnowTheirCall'
               /\ AnswersItsCall'
  BY <1>1, <1>2, <1>3, <1>9, CompleteAnswers DEF Fail, Walkers
<1>10. ASSUME NEW t \in Threads, NEW k \in Calls, OnComplete(t, k)
       PROVE  Same /\ UNCHANGED <<calling, pending, completing, value>>
  BY <1>10 DEF OnComplete
<1>11. ASSUME NEW s \in Servers, Server(s)
       PROVE  Same /\ UNCHANGED <<calling, pending, completing, value>>
  BY <1>11 DEF Server, TakeRequest, SendResponse, HandlerRaises
<1>12. ASSUME NEW k \in Calls, NEW who \in Walkers, RunCallback(k, who)
       PROVE  Same /\ UNCHANGED <<calling, pending, completing, value>>
  BY <1>12 DEF RunCallback
<1>13. ASSUME \/ \E goal \in Calls \cup {Forever} : StartSpin(goal)
              \/ StopSpin
              \/ \E c \in Clients : TakeResponse(c)
              \/ UNCHANGED vars
       PROVE  Same /\ UNCHANGED <<calling, pending, completing, value>>
  BY <1>13 DEF StartSpin, StopSpin, TakeResponse, vars
<1>14. QED
  BY <1>1, <1>2, <1>3, <1>4, <1>5, <1>6, <1>7, <1>8, <1>9, <1>10, <1>11, <1>12, <1>13
     DEF Next, Caller, Executor, Walkers

LEMMA Invariance == Spec => []CallInv
  BY CallInit, CallStep, PTL DEF Spec

(* "Several calls may be in flight; a response carries the number of its    *)
(* request" (Client.pending): a future gets the answer to its own call,     *)
(* whatever order and however often the servers answer.                     *)
THEOREM AnswersAreOwn == Spec => []AnswersItsCall
<1>1. CallInv => AnswersItsCall
  BY DEF CallInv
<1>2. QED
  BY <1>1, Invariance, PTL

(* "A second completion is ignored" (Future.complete), whoever completed    *)
(* the future first.                                                        *)
THEOREM FuturesAreAssignedOnce == Spec => AssignedOnce
<1> DEFINE Kept == \A k \in Calls : value[k] # NotYet => value'[k] = value[k]
<1>1. ASSUME CallInv, Next
      PROVE  Kept
  <2>1. ASSUME NEW k \in Calls, NEW outcome \in Requests \cup {Failed}, NEW who \in Walkers,
               Complete(k, outcome, who)
        PROVE  Kept
    BY <1>1, <2>1 DEF CallInv, TypeOK, Complete, future
  <2>2. ASSUME NEW job \in completing, RunCompletion(job)
        PROVE  Kept
    <3>1. job[1] \in Calls /\ job[2] \in Requests
      BY <1>1 DEF CallInv, TypeOK
    <3>2. QED
      BY <2>1, <2>2, <3>1 DEF RunCompletion, Walkers
  <2>3. ASSUME NEW t \in Threads, NEW k \in Calls, Fail(t, k)
        PROVE  Kept
    BY <2>1, <2>3 DEF Fail, Walkers
  <2>4. ASSUME NEW t \in Threads, NEW k \in Calls, SendRequest(t, k) \/ OnComplete(t, k)
        PROVE  value' = value
    BY <2>4 DEF SendRequest, OnComplete, future
  <2>5. ASSUME NEW s \in Servers, Server(s)
        PROVE  value' = value
    BY <2>5 DEF Server, TakeRequest, SendResponse, HandlerRaises, future
  <2>6. ASSUME \/ \E t \in Threads : RecordPending(t)
               \/ \E goal \in Calls \cup {Forever} : StartSpin(goal)
               \/ StopSpin
               \/ \E c \in Clients : TakeResponse(c)
               \/ Match
               \/ \E k \in Calls, who \in Walkers : RunCallback(k, who)
        PROVE  value' = value
    BY <2>6 DEF RecordPending, StartSpin, StopSpin, TakeResponse, Match, RunCallback, future
  <2>7. QED
    BY <1>1, <2>2, <2>3, <2>4, <2>5, <2>6 DEF Next, Caller, Executor, Walkers
<1>2. CallInv /\ [Next]_vars => [Kept]_vars
  BY <1>1
<1>3. QED
  BY <1>2, Invariance, PTL DEF Spec, AssignedOnce

(* The callbacks of a future are those given to it, and none ran or is about *)
(* to run before the value arrived.                                         *)
CallbackInv ==
  \A k \in Calls :
    /\ callbacks[k] \cup ran[k] \cup raised[k] \subseteq 1 .. asked[k]
    /\ due["executor"][k] \cup due["caller"][k] \subseteq 1 .. asked[k]
    /\ value[k] = NotYet => ran[k] \cup due["executor"][k] \cup due["caller"][k] = {}

RunOnceInv == CallbacksRunOnce /\ CallbackInv

(* A completion makes due what the future holds, and the future holds       *)
(* nothing from then on.                                                    *)
LEMMA CompleteRuns ==
  ASSUME TypeOK, RunOnceInv, NEW k \in Calls, NEW outcome \in Requests \cup {Failed},
         NEW who \in Walkers, Complete(k, outcome, who)
  PROVE  RunOnceInv'
<1> USE DEF RunOnceInv, CallbacksRunOnce, CallbackInv
<1>1. CASE value[k] # NotYet
  BY <1>1 DEF Complete, future
<1>2. CASE value[k] = NotYet
  <2>1. /\ value'[k] = outcome /\ outcome # NotYet
        /\ callbacks'[k] = {} /\ due'[who][k] = callbacks[k]
        /\ \A w \in Walkers : w # who => due'[w][k] = due[w][k]
        /\ UNCHANGED <<asked, ran, raised>>
    BY <1>2, CallAssumption DEF Complete, TypeOK, Requests
  <2>2. \A j \in Calls \ {k} : /\ value'[j] = value[j] /\ callbacks'[j] = callbacks[j]
                               /\ \A w \in Walkers : due'[w][j] = due[w][j]
    <3>1. \A j \in Calls \ {k} : value'[j] = value[j] /\ callbacks'[j] = callbacks[j]
      BY <1>2 DEF Complete, TypeOK
    <3>2. due' = [due EXCEPT ![who][k] = callbacks[k]] /\ callbacks[k] \in SUBSET Nat
      BY <1>2 DEF Complete, TypeOK
    <3>3. \A w \in Walkers : \A j \in Calls \ {k} : due'[w][j] = due[w][j]
      BY <3>2, DueUpdate DEF TypeOK
    <3>4. QED
      BY <3>1, <3>3
  <2>3. {who} \subseteq Walkers /\ Walkers = {"executor", "caller"}
    BY DEF Walkers
  <2>4. ran[k] = {} /\ due["executor"][k] = {} /\ due["caller"][k] = {}
    BY <1>2
  <2>5. due'["executor"][k] \cup due'["caller"][k] = callbacks[k]
        /\ due'["executor"][k] \cap due'["caller"][k] = {}
    BY <2>1, <2>3, <2>4
  <2>6. CallbackInv'
    BY <2>1, <2>2, <2>3, <2>5
  <2>7. CallbacksRunOnce'
    BY <2>1, <2>2, <2>3, <2>4, <2>5
  <2>8. QED
    BY <2>6, <2>7
<1>3. QED
  BY <1>1, <1>2

(* A callback that raises leaves behind only those registered after it.     *)
LEMMA CallbackRuns ==
  ASSUME TypeOK, RunOnceInv, NEW k \in Calls, NEW who \in Walkers, RunCallback(k, who)
  PROVE  RunOnceInv'
<1> USE DEF RunOnceInv, CallbacksRunOnce, CallbackInv
<1>1. PICK cb \in due[who][k] :
        /\ \A later \in due[who][k] : cb <= later
        /\ ran' = [ran EXCEPT ![k] = @ \cup {cb}]
        /\ \/ due' = [due EXCEPT ![who][k] = @ \ {cb}] /\ UNCHANGED raised
           \/ /\ due' = [due EXCEPT ![who][k] = {}]
              /\ raised' = [raised EXCEPT ![k] = @ \cup {cb}]
        /\ UNCHANGED <<asked, callbacks, value>>
  BY DEF RunCallback
<1>2. Walkers = {"executor", "caller"} /\ due[who][k] \subseteq Nat /\ asked[k] \in Nat
  BY DEF Walkers, TypeOK
<1>3. /\ ran'[k] = ran[k] \cup {cb}
      /\ \A w \in Walkers : w # who => due'[w][k] = due[w][k]
      /\ \A j \in Calls \ {k} :
           ran'[j] = ran[j] /\ raised'[j] = raised[j] /\ \A w \in Walkers : due'[w][j] = due[w][j]
  <2>1. /\ due[who][k] \ {cb} \in SUBSET Nat /\ {} \in SUBSET Nat
        /\ due \in [Walkers -> [Calls -> SUBSET Nat]]
        /\ \/ due' = [due EXCEPT ![who][k] = due[who][k] \ {cb}]
           \/ due' = [due EXCEPT ![who][k] = {}]
    BY <1>1, <1>2 DEF TypeOK
  <2>2. /\ \A w \in Walkers : w # who => due'[w][k] = due[w][k]
        /\ \A w \in Walkers : \A j \in Calls \ {k} : due'[w][j] = due[w][j]
    BY <2>1, DueUpdate
  <2>3. /\ ran'[k] = ran[k] \cup {cb}
        /\ \A j \in Calls \ {k} : ran'[j] = ran[j] /\ raised'[j] = raised[j]
    BY <1>1 DEF TypeOK
  <2>4. QED
    BY <2>2, <2>3
<1>4. \/ due'[who][k] = due[who][k] \ {cb} /\ raised'[k] = raised[k]
      \/ due'[who][k] = {} /\ raised'[k] = raised[k] \cup {cb}
  BY <1>1 DEF TypeOK
<1>5. \A later \in due[who][k] \ due'[who][k] : later = cb \/ \E e \in raised'[k] : e < later
  BY <1>1, <1>2, <1>4
<1>6. value[k] # NotYet
  BY <1>1, <1>2
<1>7. due'[who][k] \subseteq due[who][k] /\ cb \notin due'[who][k] /\ raised[k] \subseteq raised'[k]
  BY <1>1, <1>4
<1>8. \A j \in Calls \ {k} :
        /\ value'[j] # NotYet => callbacks'[j] = {}
        /\ ran'[j] \cap (callbacks'[j] \cup due'["executor"][j] \cup due'["caller"][j]) = {}
        /\ due'["executor"][j] \cap due'["caller"][j] = {}
        /\ \A c \in 1 .. asked'[j] :
             \/ c \in callbacks'[j] \cup due'["executor"][j] \cup due'["caller"][j] \cup ran'[j]
             \/ \E earlier \in raised'[j] : earlier < c
  BY <1>1, <1>2, <1>3
<1>9. CallbacksRunOnce'
  <2>1. callbacks'[k] = {} /\ callbacks[k] = {}
    BY <1>1, <1>6
  <2>2. /\ ran'[k] \cap (callbacks'[k] \cup due'["executor"][k] \cup due'["caller"][k]) = {}
        /\ due'["executor"][k] \cap due'["caller"][k] = {}
    BY <1>1, <1>2, <1>3, <1>7, <2>1
  <2>3. ASSUME NEW c \in 1 .. asked[k]
        PROVE  \/ c \in due'["executor"][k] \cup due'["caller"][k] \cup ran'[k]
               \/ \E earlier \in raised'[k] : earlier < c
    <3>1. \/ c \in due["executor"][k] \cup due["caller"][k] \cup ran[k]
          \/ \E earlier \in raised[k] : earlier < c
      BY <2>1
    <3>2. CASE c \in due[who][k] \ due'[who][k]
      BY <1>3, <1>5, <3>2
    <3>3. CASE c \notin due[who][k] \ due'[who][k]
      BY <1>2, <1>3, <1>7, <3>1, <3>3
    <3>4. QED
      BY <3>2, <3>3
  <2>4. QED
    BY <1>1, <1>8, <2>1, <2>2, <2>3
<1>10. CallbackInv'
  BY <1>1, <1>2, <1>3, <1>4, <1>6, <1>7
<1>11. QED
  BY <1>9, <1>10

(* Every callback given to a future runs once, however the completion, by   *)
(* the executor or by Future.fail, and the onComplete meet; only those      *)
(* behind one that raises may be lost (Future.lean).                        *)
THEOREM CallbacksAreRunOnce == Spec => []CallbacksRunOnce
<1>1. ASSUME TypeOK, RunOnceInv, Next
      PROVE  RunOnceInv'
  <2> USE DEF network
  <2>1. ASSUME NEW job \in completing, RunCompletion(job)
        PROVE  RunOnceInv'
    <3>1. job[1] \in Calls /\ job[2] \in Requests
      BY <1>1 DEF TypeOK
    <3>2. QED
      BY <1>1, <2>1, <3>1, CompleteRuns DEF RunCompletion, Walkers
  <2>2. ASSUME NEW t \in Threads, NEW k \in Calls, Fail(t, k)
        PROVE  RunOnceInv'
    BY <1>1, <2>2, CompleteRuns DEF Fail, Walkers
  <2>3. ASSUME NEW t \in Threads, NEW k \in Calls, OnComplete(t, k)
        PROVE  RunOnceInv'
    <3> USE DEF RunOnceInv, CallbacksRunOnce, CallbackInv
    <3>1. /\ due["caller"][k] = {} /\ asked[k] \in Nat /\ asked'[k] = asked[k] + 1
          /\ UNCHANGED <<value, ran, raised>>
          /\ \A j \in Calls \ {k} : asked'[j] = asked[j]
      BY <1>1, <2>3 DEF OnComplete, Free, TypeOK
    <3>2. 1 .. asked'[k] = (1 .. asked[k]) \cup {asked'[k]} /\ asked'[k] \notin 1 .. asked[k]
      BY <3>1
    <3>3. CASE value[k] = NotYet
      <4>1. /\ callbacks'[k] = callbacks[k] \cup {asked'[k]} /\ UNCHANGED due
            /\ \A j \in Calls \ {k} : callbacks'[j] = callbacks[j]
        BY <1>1, <2>3, <3>3 DEF OnComplete, TypeOK
      <4>2. QED
        BY <1>1, <3>1, <3>2, <3>3, <4>1
    <3>4. CASE value[k] # NotYet
      <4>1. /\ due'["caller"][k] = {asked'[k]} /\ due'["executor"][k] = due["executor"][k]
            /\ UNCHANGED callbacks
            /\ \A j \in Calls \ {k} : /\ due'["caller"][j] = due["caller"][j]
                                      /\ due'["executor"][j] = due["executor"][j]
        BY <1>1, <2>3, <3>4 DEF OnComplete, TypeOK, Walkers
      <4>2. QED
        BY <1>1, <3>1, <3>2, <3>4, <4>1
    <3>5. QED
      BY <3>3, <3>4
  <2>4. ASSUME NEW k \in Calls, NEW who \in Walkers, RunCallback(k, who)
        PROVE  RunOnceInv'
    BY <1>1, <2>4, CallbackRuns
  <2>5. ASSUME UNCHANGED future
        PROVE  RunOnceInv'
    BY <1>1, <2>5 DEF RunOnceInv, CallbacksRunOnce, CallbackInv, future
  <2>6. ASSUME NEW t \in Threads, NEW k \in Calls, SendRequest(t, k)
        PROVE  UNCHANGED future
    BY <2>6 DEF SendRequest
  <2>7. ASSUME NEW s \in Servers, Server(s)
        PROVE  UNCHANGED future
    BY <2>7 DEF Server, TakeRequest, SendResponse, HandlerRaises
  <2>8. ASSUME \/ \E t \in Threads : RecordPending(t)
               \/ \E goal \in Calls \cup {Forever} : StartSpin(goal)
               \/ StopSpin
               \/ \E c \in Clients : TakeResponse(c)
               \/ Match
        PROVE  UNCHANGED future
    BY <2>8 DEF RecordPending, StartSpin, StopSpin, TakeResponse, Match
  <2>9. QED
    BY <1>1, <2>1, <2>2, <2>3, <2>4, <2>5, <2>6, <2>7, <2>8
       DEF Next, Caller, Executor, Walkers
<1>2. TypeOK /\ RunOnceInv /\ [Next]_vars => RunOnceInv'
  <2>1. ASSUME TypeOK, RunOnceInv, UNCHANGED vars
        PROVE  RunOnceInv'
    BY <2>1 DEF vars, future, RunOnceInv, CallbacksRunOnce, CallbackInv
  <2>2. QED
    BY <1>1, <2>1
<1>3. CallInv => TypeOK
  BY DEF CallInv
<1>4. Init => RunOnceInv
  BY DEF Init, RunOnceInv, CallbacksRunOnce, CallbackInv, Walkers
<1>5. RunOnceInv => CallbacksRunOnce
  BY DEF RunOnceInv
<1>6. QED
  BY <1>2, <1>3, <1>4, <1>5, Invariance, PTL DEF Spec
===============================================================================
