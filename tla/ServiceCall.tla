----------------------------- MODULE ServiceCall ------------------------------
(***************************************************************************)
(* A service call from Client.call to the callbacks of its Future.         *)
(*                                                                         *)
(* Threads call; the servers, possibly several for one service name,       *)
(* answer in any order or not at all; one executor thread takes the        *)
(* responses, matches them with the pending calls by sequence number and   *)
(* dispatches the completion of the future.  Every modify and modifyGet of *)
(* an IO.Ref is atomic and is one step; what lies between two of them is   *)
(* where other threads come in.                                            *)
(***************************************************************************)
EXTENDS Naturals, FiniteSets

CONSTANTS
  Calls,         \* the calls made, each with the future it returns
  Clients,
  ClientOf,      \* the client of each call
  Threads,
  CallerOf,      \* the thread that makes each call
  Spinner,       \* the thread that spins the executor
  Servers,
  Reentrant,     \* spin is multi-threaded and the clients' group reentrant
  MaxCallbacks,  \* bound: onComplete calls on each future
  NoCall, Forever, NoResponse, NotYet, Failed

ASSUME CallAssumption ==
  /\ ClientOf \in [Calls -> Clients]
  /\ CallerOf \in [Calls -> Threads]
  /\ Spinner \in Threads
  /\ Reentrant \in BOOLEAN
  /\ MaxCallbacks \in [Calls -> Nat]
  /\ NoCall # Forever /\ {NoCall, Forever} \cap Calls = {}
  /\ NoResponse \notin Clients \X Nat
  /\ NotYet # Failed /\ {NotYet, Failed} \cap (Clients \X Nat) = {}

VARIABLES
  sent,        \* the last sequence number rcl gave out, of each client
  seqOf,       \* the sequence number of each call; 0 before it is sent
  calling,     \* the call each thread has sent and not recorded as pending
  queued,      \* requests in the queue of each server
  handling,    \* requests its handler works on
  responses,   \* responses in the queue of each client
  spinning,    \* the call spun on, or Forever, or NoCall
  taken,       \* the response between the take and the look-up
  pending,     \* of each client, pairs of a sequence number and a future
  completing,  \* completions dispatched and not run
  value,       \* of each future
  asked,       \* of each future, onComplete calls; they number its callbacks
  callbacks,   \* of each future, callbacks it holds
  due,         \* callbacks a completion or onComplete has still to run, and who
  ran, raised, \* of each future, callbacks that ran, and those that raised
  answered     \* calls the executor has taken a response to

future == <<value, asked, callbacks, due, ran, raised>>
network == <<queued, handling, responses>>
vars == <<sent, seqOf, calling, network, spinning, taken, pending, completing, future,
          answered>>

(* A request, and the response to it, is identified by a client, which      *)
(* stands for the writer GUID of the header, and a sequence number.         *)
Requests == Clients \X (Nat \ {0})

(* Who completes a future: an executor, or the caller with Future.fail.     *)
Walkers == {"executor", "caller"}

Init ==
  /\ sent = [c \in Clients |-> 0]
  /\ seqOf = [k \in Calls |-> 0]
  /\ calling = [t \in Threads |-> NoCall]
  /\ queued = [s \in Servers |-> {}]
  /\ handling = [s \in Servers |-> {}]
  /\ responses = [c \in Clients |-> {}]
  /\ spinning = NoCall
  /\ taken = NoResponse
  /\ pending = [c \in Clients |-> {}]
  /\ completing = {}
  /\ value = [k \in Calls |-> NotYet]
  /\ asked = [k \in Calls |-> 0]
  /\ callbacks = [k \in Calls |-> {}]
  /\ due = [who \in Walkers |-> [k \in Calls |-> {}]]
  /\ ran = [k \in Calls |-> {}]
  /\ raised = [k \in Calls |-> {}]
  /\ answered = {}

(* The thread is in application code. *)
Free(t) ==
  /\ calling[t] = NoCall
  /\ t = Spinner => spinning = NoCall
  /\ \A k \in Calls : CallerOf[k] = t => due["caller"][k] = {}

Returned(k) == seqOf[k] # 0 /\ calling[CallerOf[k]] # k

-------------------------------------------------------------------------------
(* Client.call                                                             *)

(* FFI.clientSendRequest; the request reaches the servers discovered so far. *)
SendRequest(t, k) ==
  LET c == ClientOf[k]
  IN  /\ CallerOf[k] = t
      /\ Free(t)
      /\ seqOf[k] = 0
      /\ sent' = [sent EXCEPT ![c] = @ + 1]
      /\ seqOf' = [seqOf EXCEPT ![k] = sent'[c]]
      /\ calling' = [calling EXCEPT ![t] = k]
      /\ \E matched \in SUBSET Servers :
           queued' = [s \in Servers |-> queued[s] \cup
                                        (IF s \in matched THEN {<<c, sent'[c]>>} ELSE {})]
      /\ UNCHANGED <<handling, responses, spinning, taken, pending, completing, future,
                     answered>>

(* cli.pending.modify; the future is returned to the caller. *)
RecordPending(t) ==
  LET k == calling[t]
  IN  /\ k # NoCall
      /\ pending' = [pending EXCEPT ![ClientOf[k]] = @ \cup {<<seqOf[k], k>>}]
      /\ calling' = [calling EXCEPT ![t] = NoCall]
      /\ UNCHANGED <<sent, seqOf, network, spinning, taken, completing, future, answered>>

-------------------------------------------------------------------------------
(* The serving side.                                                       *)

TakeRequest(s, r) ==
  /\ r \in queued[s]
  /\ queued' = [queued EXCEPT ![s] = @ \ {r}]
  /\ handling' = [handling EXCEPT ![s] = @ \cup {r}]
  /\ UNCHANGED <<sent, seqOf, calling, responses, spinning, taken, pending, completing, future,
                 answered>>

(* The handler returned, and the header routes the response. *)
SendResponse(s, r) ==
  /\ r \in handling[s]
  /\ handling' = [handling EXCEPT ![s] = @ \ {r}]
  /\ responses' = [responses EXCEPT ![r[1]] = @ \cup {<<r, s>>}]
  /\ UNCHANGED <<sent, seqOf, calling, queued, spinning, taken, pending, completing, future,
                 answered>>

(* An exception in the handler: nothing is sent. *)
HandlerRaises(s, r) ==
  /\ r \in handling[s]
  /\ handling' = [handling EXCEPT ![s] = @ \ {r}]
  /\ UNCHANGED <<sent, seqOf, calling, queued, responses, spinning, taken, pending,
                 completing, future, answered>>

-------------------------------------------------------------------------------
(* Future                                                                  *)

(* Mutant: a late completion overwrites the first. *)
CompleteAgain(k, outcome, who) ==
  /\ value' = [value EXCEPT ![k] = outcome]
  /\ callbacks' = [callbacks EXCEPT ![k] = {}]
  /\ due' = [due EXCEPT ![who][k] = callbacks[k]]
  /\ UNCHANGED <<asked, ran, raised>>

(* Mutant: the future keeps its callbacks. *)
CompleteAndKeep(k, outcome, who) ==
  /\ value' = [value EXCEPT ![k] = IF @ = NotYet THEN outcome ELSE @]
  /\ due' = [due EXCEPT ![who][k] = callbacks[k]]
  /\ UNCHANGED <<asked, callbacks, ran, raised>>

(* The modifyGet of Future.complete; the callbacks it returns run next. *)
Complete(k, outcome, who) ==
  IF value[k] # NotYet THEN UNCHANGED future
  ELSE /\ value' = [value EXCEPT ![k] = outcome]
       /\ callbacks' = [callbacks EXCEPT ![k] = {}]
       /\ due' = [due EXCEPT ![who][k] = callbacks[k]]
       /\ UNCHANGED <<asked, ran, raised>>

(* for cb in callbacks: in order, and one that raises ends the loop.  The   *)
(* exception is the caller's, or leaves a spin on the spinning thread; a    *)
(* worker logs it.                                                          *)
RunCallback(k, who) ==
  \E cb \in due[who][k] :
    /\ \A later \in due[who][k] : cb <= later
    /\ ran' = [ran EXCEPT ![k] = @ \cup {cb}]
    /\ \/ /\ due' = [due EXCEPT ![who][k] = @ \ {cb}]
          /\ UNCHANGED <<raised, spinning>>
       \/ /\ due' = [due EXCEPT ![who][k] = {}]
          /\ raised' = [raised EXCEPT ![k] = @ \cup {cb}]
          /\ \/ who = "executor" /\ ~(Reentrant /\ spinning = Forever) /\ spinning' = NoCall
             \/ (who = "executor" => spinning = Forever) /\ UNCHANGED spinning
    /\ UNCHANGED <<sent, seqOf, calling, network, taken, pending, completing, value, asked,
                   callbacks, answered>>

OnComplete(t, k) ==
  /\ CallerOf[k] = t
  /\ Free(t)
  /\ Returned(k)
  /\ asked[k] < MaxCallbacks[k]
  /\ asked' = [asked EXCEPT ![k] = @ + 1]
  /\ IF value[k] = NotYet
     THEN callbacks' = [callbacks EXCEPT ![k] = @ \cup {asked'[k]}] /\ UNCHANGED due
     ELSE due' = [due EXCEPT !["caller"][k] = {asked'[k]}] /\ UNCHANGED callbacks
  /\ UNCHANGED <<sent, seqOf, calling, network, spinning, taken, pending, completing, value,
                 ran, raised, answered>>

(* Future.fail, how a timed-out call is reported. *)
Fail(t, k) ==
  /\ CallerOf[k] = t
  /\ Free(t)
  /\ Returned(k)
  /\ Complete(k, Failed, "caller")
  /\ UNCHANGED <<sent, seqOf, calling, network, spinning, taken, pending, completing, answered>>

-------------------------------------------------------------------------------
(* The executor                                                            *)

(* spinUntilComplete or spin *)
StartSpin(goal) ==
  /\ Free(Spinner)
  /\ goal # Forever => CallerOf[goal] = Spinner /\ Returned(goal)
  /\ spinning' = goal
  /\ UNCHANGED <<sent, seqOf, calling, network, taken, pending, completing, future, answered>>

(* No completion is under way on the executor's own thread. *)
BetweenCallbacks ==
  \/ completing = {} /\ \A k \in Calls : due["executor"][k] = {}
  \/ Reentrant /\ spinning = Forever

(* spinUntilComplete returns: the future is done, or the time is up. *)
StopSpin ==
  /\ spinning \in Calls
  /\ taken = NoResponse
  /\ BetweenCallbacks
  /\ spinning' = NoCall
  /\ UNCHANGED <<sent, seqOf, calling, network, taken, pending, completing, future, answered>>

(* FFI.clientTakeResponse *)
TakeResponse(c) ==
  /\ spinning # NoCall
  /\ taken = NoResponse
  /\ BetweenCallbacks
  /\ \E response \in responses[c] :
       /\ taken' = response[1]
       /\ responses' = [responses EXCEPT ![c] = @ \ {response}]
       /\ answered' = answered \cup {k \in Calls : <<ClientOf[k], seqOf[k]>> = response[1]}
  /\ UNCHANGED <<sent, seqOf, calling, queued, handling, spinning, pending, completing, future>>

Waiting(c, n) == {p \in pending[c] : p[1] = n}

Dispatched(waiting) == {<<p[2], taken>> : p \in waiting}

Remove(waiting) ==
  /\ taken # NoResponse
  /\ pending' = [pending EXCEPT ![taken[1]] = @ \ waiting]
  /\ taken' = NoResponse

(* Mutant: responses are taken to come in the order of the calls. *)
MatchInOrder ==
  /\ taken # NoResponse
  /\ LET c == taken[1]
         oldest == {p \in pending[c] : \A q \in pending[c] : p[1] <= q[1]}
     IN  Remove(oldest) /\ completing' = completing \cup Dispatched(oldest)
  /\ UNCHANGED <<sent, seqOf, calling, network, spinning, future, answered>>


(* The modifyGet of takeResponse: a response nobody is waiting for is       *)
(* dropped.                                                                 *)
Match ==
  /\ taken # NoResponse
  /\ LET waiting == Waiting(taken[1], taken[2])
     IN  Remove(waiting) /\ completing' = completing \cup Dispatched(waiting)
  /\ UNCHANGED <<sent, seqOf, calling, network, spinning, future, answered>>

(* The action takeResponse returned runs. *)
RunCompletion(job) ==
  /\ job \in completing
  /\ completing' = completing \ {job}
  /\ Complete(job[1], job[2], "executor")
  /\ UNCHANGED <<sent, seqOf, calling, network, spinning, taken, pending, answered>>

-------------------------------------------------------------------------------
Caller(t) ==
  \E k \in Calls : SendRequest(t, k) \/ OnComplete(t, k) \/ Fail(t, k)

Server(s) ==
  \E r \in queued[s] \cup handling[s] :
    TakeRequest(s, r) \/ SendResponse(s, r) \/ HandlerRaises(s, r)

Executor ==
  \/ \E c \in Clients : TakeResponse(c)
  \/ Match
  \/ \E job \in completing : RunCompletion(job)
  \/ \E k \in Calls : RunCallback(k, "executor")

Next ==
  \/ \E t \in Threads : Caller(t) \/ RecordPending(t)
  \/ \E s \in Servers : Server(s)
  \/ \E goal \in Calls \cup {Forever} : StartSpin(goal)
  \/ StopSpin
  \/ Executor
  \/ \E k \in Calls : RunCallback(k, "caller")

Spec == Init /\ [][Next]_vars

(* A spinning executor takes what arrives and runs what it dispatched, and  *)
(* callbacks end; no server has to answer and no application thread has to  *)
(* call.                                                                    *)
Fairness == WF_vars(Executor)

FairSpec == Spec /\ Fairness

-------------------------------------------------------------------------------
(* Properties.                                                             *)

(* The variables have their types. *)
TypeOK ==
  /\ sent \in [Clients -> Nat]
  /\ seqOf \in [Calls -> Nat]
  /\ calling \in [Threads -> Calls \cup {NoCall}]
  /\ queued \in [Servers -> SUBSET Requests]
  /\ handling \in [Servers -> SUBSET Requests]
  /\ responses \in [Clients -> SUBSET (Requests \X Servers)]
  /\ spinning \in Calls \cup {NoCall, Forever}
  /\ taken \in Requests \cup {NoResponse}
  /\ pending \in [Clients -> SUBSET (Nat \X Calls)]
  /\ completing \subseteq Calls \X Requests
  /\ value \in [Calls -> Requests \cup {NotYet, Failed}]
  /\ asked \in [Calls -> Nat]
  /\ callbacks \in [Calls -> SUBSET Nat]
  /\ due \in [Walkers -> [Calls -> SUBSET Nat]]
  /\ ran \in [Calls -> SUBSET Nat]
  /\ raised \in [Calls -> SUBSET Nat]
  /\ answered \subseteq Calls

(* "Several calls may be in flight; a response carries the number of its    *)
(* request" (Client.pending): whatever order and however often the servers  *)
(* answer, a future gets the answer to its own call.                        *)
AnswersItsCall ==
  \A k \in Calls : value[k] \notin {NotYet, Failed} => value[k] = <<ClientOf[k], seqOf[k]>>

(* "A second completion is ignored, so a late duplicate response cannot     *)
(* overwrite the first" (Future.complete), nor a failure reported by the    *)
(* caller while the response was on its way.                                *)
AssignedOnce == [][\A k \in Calls : value[k] # NotYet => value'[k] = value[k]]_vars

(* A callback runs once, whoever completes the future and however that      *)
(* meets the onComplete: until it ran it is held by the future, which after *)
(* its completion holds none, or about to run.  The one exception is the    *)
(* loop of Future.complete, which a callback that raises ends: those        *)
(* registered after it may be lost.                                         *)
CallbacksRunOnce ==
  \A k \in Calls :
    /\ value[k] # NotYet => callbacks[k] = {}
    /\ ran[k] \cap (callbacks[k] \cup due["executor"][k] \cup due["caller"][k]) = {}
    /\ due["executor"][k] \cap due["caller"][k] = {}
    /\ \A cb \in 1 .. asked[k] :
         \/ cb \in callbacks[k] \cup due["executor"][k] \cup due["caller"][k] \cup ran[k]
         \/ \E earlier \in raised[k] : earlier < cb

(* Not so: "Supply the value, running any callbacks" (Future.complete).     *)
(* Those behind a callback that raises are never run.                       *)
CompletionRunsThemAll ==
  \A k \in Calls : value[k] # NotYet =>
    1 .. asked[k] \subseteq due["executor"][k] \cup due["caller"][k] \cup ran[k]


(* Not so: "The future completes when an executor processes the response"   *)
(* (Client.call).  When another thread spins, a response taken between the  *)
(* send and the push finds nobody waiting and is dropped.                   *)
AnsweredCallsComplete ==
  \A k \in answered : \/ value[k] # NotYet
                      \/ taken = <<ClientOf[k], seqOf[k]>>
                      \/ \E job \in completing : job[1] = k
===============================================================================
