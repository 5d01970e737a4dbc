------------------------------ MODULE EntryPoints ------------------------------
(***************************************************************************)
(* The functions that Lean calls in C, between one rcl call and the next:  *)
(* what each acquires, converts, calls and releases, in which order, and   *)
(* how it tells that one of these failed.  Any step may fail, and so may   *)
(* the release of an object of rcl.                                        *)
(*                                                                         *)
(* A function is the sequence of steps that is left of it.  The threads    *)
(* share the buffers that some entities cache, and a context's parameter   *)
(* overrides; the rcl error state is of one thread, and outlives calls.    *)
(***************************************************************************)
EXTENDS Sequences, FiniteSets

CONSTANTS
  Threads,
  Does,     \* the functions each thread calls
  None

VARIABLES
  fn,         \* what each thread calls
  todo,       \* the steps left of it
  own,        \* what the call has acquired and not released
  err,        \* the rcl error state: None, or which call's message it holds
  told,       \* what the last exception said
  content,    \* of each buffer, the call whose message it holds
  fetched, overrides,  \* of the context: the overrides and whether rcl was asked
  got,        \* what rcl answered to a call that asks
  asked,      \* the threads that found that it was not
  lost        \* whether a copy of the overrides has been overwritten

vars == <<fn, todo, own, err, told, content, fetched, overrides, got, asked, lost>>

-------------------------------------------------------------------------------
(* Steps                                                                   *)

Step == [do |-> "work", gets |-> {}, uses |-> {}, sets |-> FALSE, fills |-> FALSE,
         reads |-> FALSE, else |-> {}]

(* Something that fails without an rcl error, and goes on with `else`.      *)
Need(gets, uses, else) ==
  [Step EXCEPT !.gets = gets, !.uses = uses, !.else = {else}]

(* What cannot fail, and a branch.                                          *)
Make(gets) == [Step EXCEPT !.gets = gets]
Or(rest) == [Step EXCEPT !.else = {rest}]

(* A call of rcl, with the ways to go on after its failures.                *)
Rcl(gets, uses, else) ==
  [Step EXCEPT !.gets = gets, !.uses = uses, !.sets = TRUE, !.else = else]

(* What writes, or reads, the message in the buffer of the call.            *)
Fills(step) == [step EXCEPT !.fills = TRUE]
Reads(step) == [step EXCEPT !.reads = TRUE]

Free(r) == [Step EXCEPT !.do = "free", !.uses = {r}]

(* The end of an object of rcl; the second kind skips the next step if it   *)
(* fails.                                                                   *)
Fini(r) == [Step EXCEPT !.do = "fini", !.uses = {r}]
FiniElseSkip(r) == [Step EXCEPT !.do = "fini_or_skip", !.uses = {r}]

Reset == [Step EXCEPT !.do = "reset"]
Raise == [Step EXCEPT !.do = "raise"]
Fail == [Step EXCEPT !.do = "fail"]
Answer == [Step EXCEPT !.do = "answer"]

(* The answer is a handle, which takes over what was acquired for it.       *)
Give(rs) == [Answer EXCEPT !.uses = rs]

(* A check of the arguments, or that the handle is not destroyed.           *)
Test == Need({}, {}, <<Fail>>)

(* A function that only asks rcl.                                           *)
Query == <<Test, Rcl({}, {}, {<<Raise>>}), Answer>>

-------------------------------------------------------------------------------
(* Messages                                                                *)

(* A buffer of the call's own, with the message converted into it.          *)
Converted == <<
  Need({"buf"}, {}, <<Fail>>),
  Need({"msg"}, {"buf"}, <<Free("buf"), Fail>>),
  Fills(Need({}, {"msg", "buf"}, <<Free("msg"), Free("buf"), Fail>>))>>

Sending == Converted \o <<
  Reads(Rcl({}, {"msg", "buf"}, {<<Free("msg"), Free("buf"), Raise>>})),
  Free("msg"), Free("buf"), Answer>>

Publish == <<Test>> \o Sending
SendRequest == <<Test>> \o Sending
SendResponse == <<Test, Test>> \o Sending

(* The buffer is the entity's, and the queue may be empty.                  *)
Taking == <<
  Test,
  Need({"msg"}, {}, <<Fail>>),
  Fills(Rcl({}, {"msg"}, {<<Free("msg"), Reset, Answer>>, <<Free("msg"), Raise>>})),
  Reads(Need({}, {"msg"}, <<Free("msg"), Fail>>)),
  Free("msg"), Answer>>

Take == Taking
TakeResponse == Taking
TakeRequest == Taking
CachedBuffer == {"take", "takeResponse", "takeRequest"}

EventTake == <<Test, Rcl({}, {}, {<<Reset, Answer>>, <<Raise>>}), Answer>>

(* Mutant: the bytes are not released when they cannot be written.          *)
SerializeInto == <<Test>> \o Converted \o <<
  Rcl({"bytes"}, {}, {<<Free("msg"), Free("buf"), Raise>>}),
  Reads(Rcl({}, {"msg", "buf", "bytes"}, {<<Free("msg"), Free("buf"), Raise>>})),
  Free("msg"), Free("buf"), Fini("bytes"), Answer>>

Serialize == <<Test>> \o Converted \o <<
  Rcl({"bytes"}, {}, {<<Free("msg"), Free("buf"), Raise>>}),
  Reads(Rcl({}, {"msg", "buf", "bytes"},
            {<<Free("msg"), Free("buf"), Fini("bytes"), Raise>>})),
  Free("msg"), Free("buf"), Fini("bytes"), Answer>>

Deserialize == <<
  Test,
  Rcl({"bytes"}, {}, {<<Raise>>}),
  Need({"buf"}, {}, <<Fini("bytes"), Fail>>),
  Need({"msg"}, {"buf"}, <<Free("buf"), Fini("bytes"), Fail>>),
  Fills(Rcl({}, {"msg", "buf", "bytes"},
            {<<Fini("bytes"), Free("msg"), Free("buf"), Raise>>})),
  Fini("bytes"),
  Reads(Need({}, {"msg", "buf"}, <<Free("msg"), Free("buf"), Fail>>)),
  Free("msg"), Free("buf"), Answer>>

-------------------------------------------------------------------------------
(* Handles.  Dropping the handle runs its finalizer, before the exception   *)
(* is made.                                                                *)

Creating(undo) == <<
  Need({"handle"}, {}, <<Fail>>),
  Rcl({}, {"handle"}, {undo \o <<Raise>>})>>

Create == Creating(<<Fini("handle")>>) \o <<Give({"handle"})>>

PublisherCreate == <<Test, Test>> \o Create

(* With the buffer for what will be taken, which the finalizer frees first. *)
CreateWithBuffer == <<
  Test, Test,
  Need({"handle"}, {}, <<Fail>>),
  Need({"cache"}, {"handle"}, <<Fini("handle"), Fail>>),
  Rcl({}, {"handle", "cache"}, {<<Free("cache"), Fini("handle"), Raise>>}),
  Give({"handle", "cache"})>>

SubscriptionCreate == CreateWithBuffer
ClientCreate == CreateWithBuffer
ServiceCreate == CreateWithBuffer

(* The finalizer of a timer gives the clock back last.                      *)
TimerCreate == <<
  Test, Test,
  Need({"handle", "clock"}, {}, <<Fail>>),
  Rcl({}, {"handle", "clock"}, {<<Fini("handle"), Free("clock"), Raise>>}),
  Give({"handle", "clock"})>>

ClockCreate == Create
GuardConditionCreate == <<Test>> \o Create
EventCreate == <<Test>> \o Create
WaitSetCreate == <<Test>> \o Create
QosCreate == <<Need({"handle"}, {}, <<Fail>>), Give({"handle"})>>

(* A context: the finalizer of one that rcl_init refused ends its options   *)
(* too.  A failure to configure logging is only printed.                    *)
ContextInit == <<
  Need({"handle"}, {}, <<Fail>>),
  Rcl({"options"}, {"handle"}, {<<Fini("handle"), Raise>>}),
  Rcl({}, {"options"}, {<<Fini("handle"), Fini("options"), Raise>>}),
  Need({"argv"}, {}, <<Fini("handle"), Fini("options"), Fail>>),
  Rcl({}, {"handle", "options", "argv"},
      {<<Free("argv"), Fini("handle"), Fini("options"), Raise>>}),
  Free("argv"),
  Rcl({}, {"handle"}, {<<Reset, Give({"handle", "options"})>>}),
  Give({"handle", "options"})>>

(* A node, with or without arguments of its own.  Without a /rosout         *)
(* publisher it is still a node.                                            *)
NodeInit(given) ==
  LET ends == IF given = {} THEN <<>> ELSE <<Fini("arguments")>>
  IN  <<Need({"handle"}, {}, ends \o <<Fail>>),
        Rcl({}, {"handle"} \cup given, {ends \o <<Fini("handle"), Raise>>})>>
      \o ends
      \o <<Rcl({}, {"handle"}, {<<Reset, Give({"handle"})>>}), Give({"handle"})>>

NodeCreate == <<
  Test,
  Or(NodeInit({})),
  Need({"argv"}, {}, <<Fail>>),
  Rcl({"arguments"}, {"argv"}, {<<Free("argv"), Raise>>}),
  Free("argv")>> \o NodeInit({"arguments"})

(* The finalizers, of what the application gives back.                      *)
Ending(rs, steps) == <<Make(rs)>> \o steps \o <<Answer>>

PublisherFini == Ending({"handle"}, <<Fini("handle")>>)
SubscriptionFini == Ending({"handle", "cache"}, <<Free("cache"), Fini("handle")>>)
ClientFini == SubscriptionFini
ServiceFini == SubscriptionFini
TimerFini == Ending({"handle", "clock"}, <<Fini("handle"), Free("clock")>>)
ClockFini == PublisherFini
EventFini == PublisherFini
WaitSetFini == PublisherFini

(* The overrides have no owner but the context; the shutdown of one that is *)
(* not shut down may fail too.                                              *)
ContextFini == Ending({"params", "rcl", "handle", "options"},
  <<Free("params"), Fini("rcl"), Fini("handle"), Fini("options")>>)

(* The /rosout publisher goes before the node it belongs to.                *)
NodeFini == Ending({"handle", "rosout"}, <<Fini("rosout"), Fini("handle")>>)

-------------------------------------------------------------------------------
(* Names, arguments, the graph, logging                                    *)

RmwImplementationIdentifier == <<Test, Answer>>

RemoveRosArguments == <<
  Need({"argv"}, {}, <<Fail>>),
  Rcl({"parsed"}, {"argv"}, {<<Free("argv"), Raise>>}),
  Rcl({"nonros"}, {"argv", "parsed"}, {<<Free("argv"), Fini("parsed"), Raise>>}),
  Free("argv"), Fini("parsed"), Free("nonros"), Answer>>

ExpandTopicName == <<
  Rcl({"subs"}, {}, {<<Reset, Fail>>}),
  Rcl({}, {"subs"}, {<<Fini("subs"), Fail>>}),
  Rcl({"expanded"}, {"subs"}, {<<Fini("subs"), Raise>>}),
  Fini("subs"), Free("expanded"), Answer>>

ValidateFullTopicName == <<Rcl({}, {}, {<<Answer>>}), Answer>>
ValidateTopicName == <<Rcl({}, {}, {<<Reset, Answer>>}), Answer>>
ValidateNodeName == <<Rcl({}, {}, {<<Answer>>}), Answer>>
ValidateNamespace == <<Rcl({}, {}, {<<Answer>>}), Answer>>

(* The types of a name, or nothing if there is no memory to join them.      *)
JoinTypes(rest) == <<Need({"joined"}, {"nt"}, rest), Free("joined")>> \o rest

NamesAndTypes ==
  <<Test, Rcl({"nt"}, {}, {<<Raise>>})>> \o JoinTypes(<<Fini("nt"), Answer>>)

NodeNames ==
  LET ends == <<FiniElseSkip("names"), Fini("namespaces"), Answer>>
  IN  <<Test,
        Rcl({"names", "namespaces"}, {}, {<<Raise>>}),
        Need({"full"}, {"names", "namespaces"}, ends),
        Free("full")>> \o ends

(* NULL for a node that rcl finds invalid, which is told in other words.    *)
NodeGetter == <<Test, Rcl({}, {}, {<<Fail>>}), Answer>>

(* rcl_node_is_valid says why not, as an error.                             *)
NodeIsValid == <<Rcl({}, {}, {<<Answer>>}), Answer>>

(* NULL for an entity that rcl finds invalid, which makes an empty name.    *)
Named == <<Test, Rcl({}, {}, {<<Answer>>}), Answer>>
PublisherTopicName == Named
SubscriptionTopicName == Named
ServiceName == Named

GraphCounts == Query
PublisherQuery == Query
SubscriptionQuery == Query
ServiceIsAvailable == Query
ContextDomainId == Query
TimerIsReady == Query
TimerControl == Query
ClockNow == Query
ClockOverride == Query
ClockState == <<Answer>>
WaitSetUpdate == Query
WaitSetAdd == <<Test>> \o Query
GuardTrigger == <<Need({}, {}, <<Answer>>), Rcl({}, {}, {<<Raise>>}), Answer>>

TimerCall == EventTake
WaitSetWait == EventTake

LoggingInitialize == <<Rcl({}, {}, {<<Fail>>}), Answer>>
LoggerLevel == <<Rcl({}, {}, {<<Reset, Fail>>, <<Reset, Answer>>}), Answer>>

-------------------------------------------------------------------------------
(* The parameter overrides of a context, asked of rcl once and kept.  The   *)
(* flag is looked at and set without a lock, and before the answer is.      *)

Overridden(absent, present) == <<
  Need({}, {}, absent),
  [Step EXCEPT !.do = "look"], [Step EXCEPT !.do = "mark"],
  [Step EXCEPT !.do = "fetch"], [Step EXCEPT !.do = "store"],
  [Step EXCEPT !.do = "get", !.else = {absent}]>> \o present

OverrideNodeCount == Overridden(<<Answer>>, <<Answer>>)
OverrideCount == Overridden(<<Answer>>, <<Answer>>)
OverrideNodeName == Overridden(<<Fail>>, <<Test, Answer>>)
OverrideName == Overridden(<<Fail>>, <<Test, Answer>>)

(* All members are made, empty, before the one that is set replaces its     *)
(* own, if that is an object.  The value is returned as the generated code  *)
(* makes it, not as the result of IO that the other functions return: an    *)
(* answer here all the same.                                                *)
OverrideValue == Overridden(<<Fail>>, <<
  Test, Test,
  Make({"members", "own"}), Or(<<Give({"members", "own"})>>), Free("own"),
  Make({"own"}), Give({"members", "own"})>>)

-------------------------------------------------------------------------------
Body == [
  publish |-> Publish, sendRequest |-> SendRequest, sendResponse |-> SendResponse,
  take |-> Take, takeResponse |-> TakeResponse, takeRequest |-> TakeRequest,
  eventTake |-> EventTake, serialize |-> Serialize, deserialize |-> Deserialize,
  publisherCreate |-> PublisherCreate, subscriptionCreate |-> SubscriptionCreate,
  clientCreate |-> ClientCreate, serviceCreate |-> ServiceCreate,
  timerCreate |-> TimerCreate, clockCreate |-> ClockCreate,
  guardConditionCreate |-> GuardConditionCreate, eventCreate |-> EventCreate,
  waitSetCreate |-> WaitSetCreate, qosCreate |-> QosCreate,
  contextInit |-> ContextInit, nodeCreate |-> NodeCreate,
  publisherFini |-> PublisherFini, subscriptionFini |-> SubscriptionFini,
  clientFini |-> ClientFini, serviceFini |-> ServiceFini, timerFini |-> TimerFini,
  clockFini |-> ClockFini, eventFini |-> EventFini, waitSetFini |-> WaitSetFini,
  contextFini |-> ContextFini, nodeFini |-> NodeFini,
  rmwImplementationIdentifier |-> RmwImplementationIdentifier,
  removeRosArguments |-> RemoveRosArguments, expandTopicName |-> ExpandTopicName,
  validateFullTopicName |-> ValidateFullTopicName,
  validateTopicName |-> ValidateTopicName, validateNodeName |-> ValidateNodeName,
  validateNamespace |-> ValidateNamespace, namesAndTypes |-> NamesAndTypes,
  nodeNames |-> NodeNames, nodeGetter |-> NodeGetter, nodeIsValid |-> NodeIsValid,
  publisherTopicName |-> PublisherTopicName,
  subscriptionTopicName |-> SubscriptionTopicName, serviceName |-> ServiceName,
  graphCounts |-> GraphCounts, publisherQuery |-> PublisherQuery,
  subscriptionQuery |-> SubscriptionQuery, serviceIsAvailable |-> ServiceIsAvailable,
  contextDomainId |-> ContextDomainId, timerIsReady |-> TimerIsReady,
  timerControl |-> TimerControl, clockNow |-> ClockNow,
  clockOverride |-> ClockOverride, clockState |-> ClockState,
  waitSetUpdate |-> WaitSetUpdate, waitSetAdd |-> WaitSetAdd,
  guardTrigger |-> GuardTrigger, timerCall |-> TimerCall, waitSetWait |-> WaitSetWait,
  loggingInitialize |-> LoggingInitialize, loggerLevel |-> LoggerLevel,
  overrideNodeCount |-> OverrideNodeCount, overrideCount |-> OverrideCount,
  overrideNodeName |-> OverrideNodeName, overrideName |-> OverrideName,
  overrideValue |-> OverrideValue]

Functions == DOMAIN Body

(* The takes of one entity are on one thread (Executor.lean:40, 270).        *)
ASSUME EntryPointsAssumption ==
  /\ Does \in [Threads -> SUBSET Functions]
  /\ \A t, u \in Threads : t # u => Does[t] \cap Does[u] \cap CachedBuffer = {}
  /\ Threads \cap CachedBuffer = {}
  /\ None \notin {"own", "left", "stray", "plain", "parsed", "refused"}

Init ==
  /\ fn \in [Threads -> {None}] /\ todo = [t \in Threads |-> <<>>]
  /\ own = [t \in Threads |-> {}]
  /\ err = [t \in Threads |-> None] /\ told = [t \in Threads |-> None]
  /\ content = [b \in Threads \cup CachedBuffer |-> None]
  /\ fetched = FALSE /\ overrides = None /\ got = [t \in Threads |-> None]
  /\ asked = {} /\ lost = FALSE

copies == <<fetched, overrides, got, asked, lost>>
shared == <<content, copies>>

(* The calls that may leave the error of a failure behind.                  *)
LeavesItsError ==
  {"expandTopicName", "validateFullTopicName", "validateNodeName", "validateNamespace",
   "nodeGetter", "nodeIsValid", "publisherTopicName", "subscriptionTopicName",
   "serviceName", "loggingInitialize"}

Enter(t) ==
  /\ todo[t] = <<>>
  /\ \E f \in Does[t] : fn' = [fn EXCEPT ![t] = f] /\ todo' = [todo EXCEPT ![t] = Body[f]]
  /\ told' = [told EXCEPT ![t] = None]
  /\ UNCHANGED <<own, err, shared>>

At(t, kinds) == todo[t] # <<>> /\ Head(todo[t]).do \in kinds
Now(t) == Head(todo[t])
GoTo(t, rest) == todo' = [todo EXCEPT ![t] = rest]
GoOn(t) == GoTo(t, Tail(todo[t]))
Let(t, rs) == own' = [own EXCEPT ![t] = @ \ rs]

(* Mutant: the buffer for what is sent is kept, as those for what is taken  *)
(* are.                                                                     *)
KeptBuffer(t) == IF fn[t] \in CachedBuffer THEN fn[t] ELSE CHOOSE u \in Threads : TRUE

BufferOf(t) == IF fn[t] \in CachedBuffer THEN fn[t] ELSE t

Succeed(t) ==
  /\ At(t, {"work"})
  /\ own' = [own EXCEPT ![t] = @ \cup Now(t).gets]
  /\ content' = IF Now(t).fills THEN [content EXCEPT ![BufferOf(t)] = t] ELSE content
  /\ GoOn(t)
  /\ UNCHANGED <<fn, err, told, copies>>

(* A failure of rcl usually, but not always, sets the error state.          *)
GoesWrong(t) ==
  /\ At(t, {"work"})
  /\ \E rest \in Now(t).else : GoTo(t, rest)
  /\ err' \in {err} \cup IF Now(t).sets THEN {[err EXCEPT ![t] = "own"]} ELSE {}
  /\ UNCHANGED <<fn, own, told, shared>>

(* The end of a message clears the buffer it is in.                         *)
Release(t) ==
  /\ At(t, {"free", "fini", "fini_or_skip"})
  /\ Let(t, Now(t).uses)
  /\ content' = IF Now(t).uses = {"msg"} THEN [content EXCEPT ![BufferOf(t)] = None] ELSE content
  /\ GoOn(t)
  /\ UNCHANGED <<fn, err, told, copies>>

(* What rcl says when it cannot end an object is dropped; a second step is  *)
(* skipped by the || of NodeNames.                                          *)
ReleaseFails(t) ==
  /\ At(t, {"fini", "fini_or_skip"})
  /\ Let(t, Now(t).uses)
  /\ err' = [err EXCEPT ![t] = None]
  /\ IF Now(t).do = "fini_or_skip" THEN GoTo(t, Tail(Tail(todo[t]))) ELSE GoOn(t)
  /\ UNCHANGED <<fn, told, shared>>

ResetError(t) ==
  /\ At(t, {"reset"})
  /\ err' = [err EXCEPT ![t] = None]
  /\ GoOn(t)
  /\ UNCHANGED <<fn, own, told, shared>>

(* The call is over.  What the error state holds of it is, for the next     *)
(* calls, the message of another.                                           *)
Return(t, message, e) ==
  /\ told' = [told EXCEPT ![t] = message]
  /\ err' = [err EXCEPT ![t] =
              IF e # "own" THEN e ELSE IF fn[t] \in LeavesItsError THEN "left" ELSE "stray"]
  /\ own' = [own EXCEPT ![t] = {}]
  /\ fn' = [fn EXCEPT ![t] = None]
  /\ GoOn(t)
  /\ UNCHANGED shared

(* Mutant: the error state is read and not reset.                           *)
MkErrorKeeps(t) == Return(t, err[t], err[t])

MkError(t) == Return(t, err[t], None)

Raises(t) == At(t, {"raise"}) /\ MkError(t)

(* A plain message says nothing of the error state, and leaves it.          *)
Fails(t) == At(t, {"fail"}) /\ Return(t, "plain", err[t])

Answers(t) == At(t, {"answer"}) /\ Return(t, None, err[t])

-------------------------------------------------------------------------------
(* The steps of Overridden                                                 *)

Quiet == UNCHANGED <<fn, own, told, content>>

Look(t) ==
  /\ At(t, {"look"})
  /\ IF fetched THEN GoTo(t, SubSeq(todo[t], 5, Len(todo[t]))) ELSE GoOn(t)
  /\ UNCHANGED <<err, copies>> /\ Quiet

Mark(t) ==
  /\ At(t, {"mark"})
  /\ fetched' = TRUE
  /\ asked' = asked \cup {t}
  /\ GoOn(t)
  /\ UNCHANGED <<err, overrides, got, lost>> /\ Quiet

(* What rcl gives is a copy of the call's own.                              *)
Fetch(t) ==
  /\ At(t, {"fetch"})
  /\ \/ got' = [got EXCEPT ![t] = "parsed"] /\ err' = err
     \/ got' = [got EXCEPT ![t] = "refused"] /\ err' = [err EXCEPT ![t] = None]
  /\ GoOn(t)
  /\ UNCHANGED <<fetched, overrides, asked, lost>> /\ Quiet

(* Mutant: the call keeps what it got for itself.                           *)
StoreNothing(t) == overrides' = overrides

StoreGot(t) == overrides' = got[t]

(* A copy that is there already is not freed.                               *)
Store(t) ==
  /\ At(t, {"store"})
  /\ StoreGot(t)
  /\ lost' = (lost \/ overrides = "parsed")
  /\ got' = [got EXCEPT ![t] = None]
  /\ GoOn(t)
  /\ UNCHANGED <<err, fetched, asked>> /\ Quiet

Get(t) ==
  /\ At(t, {"get"})
  /\ IF overrides = "parsed" THEN GoOn(t) ELSE \E rest \in Now(t).else : GoTo(t, rest)
  /\ UNCHANGED <<err, copies>> /\ Quiet

-------------------------------------------------------------------------------
StepOf(t) ==
  \/ Enter(t) \/ Succeed(t) \/ GoesWrong(t) \/ Release(t) \/ ReleaseFails(t)
  \/ ResetError(t) \/ Raises(t) \/ Fails(t) \/ Answers(t)
  \/ Look(t) \/ Mark(t) \/ Fetch(t) \/ Store(t) \/ Get(t)

Next == \E t \in Threads : StepOf(t)

Spec == Init /\ [][Next]_vars

-------------------------------------------------------------------------------
(* Properties                                                              *)

(* Whatever fails, also while cleaning up: nothing is used or released      *)
(* after its release, and when a call returns it has given back all that it *)
(* acquired, or left it with the handle or the context.  Two things are     *)
(* lost: the namespaces, in rcllean_graph_node_names, when the names before *)
(* them cannot be ended (graph.c:99-100), and a copy of the overrides, when *)
(* two threads found that rcl had not been asked (node.c:149-157).          *)
ResourcesComeBack ==
  /\ \A t \in Threads : todo[t] # <<>> =>
       /\ Now(t).uses \subseteq own[t]
       /\ At(t, {"answer", "fail", "raise"}) =>
            /\ own[t] \ Now(t).uses
                 \subseteq IF fn[t] = "nodeNames" THEN {"namespaces"} ELSE {}
            /\ got[t] = None
  /\ lost => \E t, u \in asked : t # u

(* An exception never carries the message of an earlier call (exceptions.c  *)
(* resets what it reads, and what is ignored is reset), except one that a   *)
(* call of LeavesItsError left (names.c:29, 63, 80, 112, node.c:121, 129,   *)
(* logging.c:40, in spite of names.c:93-94).                                *)
ErrorsAreOnesOwn == \A t \in Threads : told[t] # "stray"

(* What is sent is what this call has converted, and what is converted to   *)
(* Lean is what this call has taken, whatever the other threads send        *)
(* (publisher.c:64-65, service.c:118-119).                                  *)
MessagesAreNotMixed ==
  \A t \in Threads : (todo[t] # <<>> /\ Now(t).reads) => content[BufferOf(t)] = t

(* A context's overrides are seen by every lookup, except one that comes    *)
(* while another thread is asking rcl for them (node.c:149-150), and unless *)
(* rcl refused them to one that asked.                                      *)
OverridesAreSeen ==
  \A t \in Threads : (At(t, {"get"}) /\ overrides = None) =>
    \E u \in Threads \ {t} : At(u, {"fetch", "store"})
===============================================================================
