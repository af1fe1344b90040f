--------------------------- MODULE ServiceCallsProofs ---------------------------
(***************************************************************************)
(* Proofs about ServiceCalls, for any number of retries, polls and pages,  *)
(* any threshold and any recovery time: nothing is created behind a        *)
(* caller's back, what the caller of a helper is told is true, and neither *)
(* an operation of a client nor the use of a helper goes on for ever.      *)
(***************************************************************************)
EXTENDS ServiceCalls, SequenceTheorems, TLAPS

Ways == {"breaker", "session", "bare"}
Failures == {"raise", "shrug", "stop", "retry", "gone"}

Requests == [verb : Verbs, effect : Effects, way : Ways, fails : Failures]

(* What would create another object is never sent again by the adapter. *)
SafeRequests == {r \in Requests : r.effect = "create" => ~Resendable(r.verb)}

SafeSequences == {s \in Seq(SafeRequests) : Len(s) > 0}

SafeOperations ==
  [requests : SafeSequences, until : {"failure", "found", "empty", "search"}]

\* Only POST and PATCH are used with any effect; what the other verbs are used for
\* creates no second object.
LEMMA RequestsAreSafe ==
  /\ Get \in SafeRequests /\ MispGet \in SafeRequests
  /\ \A e \in Effects : Post(e) \in SafeRequests /\ Patch(e) \in SafeRequests
  /\ \A e \in Effects \ {"create"} : Put(e) \in SafeRequests /\ Delete(e) \in SafeRequests
  /\ \A f \in Failures : ShuffleGet(f) \in SafeRequests
  /\ SearchIndex \in SafeRequests /\ ElasticIndexExists \in SafeRequests
<1> USE DEF Request, Requests, SafeRequests, Verbs, Effects, Ways, Failures, Resendable
<1>1. Get \in SafeRequests /\ MispGet \in SafeRequests
  BY DEF Get, MispGet, Direct
<1>2. \A e \in Effects : Post(e) \in SafeRequests /\ Patch(e) \in SafeRequests
  BY DEF Post, Patch
<1>3. \A e \in Effects \ {"create"} : Put(e) \in SafeRequests /\ Delete(e) \in SafeRequests
  BY DEF Put, Delete
<1>4. \A f \in Failures : ShuffleGet(f) \in SafeRequests
  BY DEF ShuffleGet, Direct
<1>5. SearchIndex \in SafeRequests /\ ElasticIndexExists \in SafeRequests
  BY DEF SearchIndex, ElasticIndexExists, Direct, Bare
<1> QED BY <1>1, <1>2, <1>3, <1>4, <1>5

\* Catching a failure changes neither the verb nor the effect, and what only asks
\* creates nothing.
LEMMA ShrugIsSafe ==
  \A r \in SafeRequests :
    Shrug(r) \in SafeRequests /\ Stop(r) \in SafeRequests /\ Ask(r) \in SafeRequests
BY DEF Shrug, Stop, Ask, SafeRequests, Requests, Failures, Effects

\* An operation is safe when its requests are.
LEMMA OneIsSafe == \A r \in SafeRequests : One(r) \in SafeOperations
BY DEF One, SafeOperations, SafeSequences

LEMMA UntilIsSafe == \A s \in SafeSequences : Until(s) \in SafeOperations
BY DEF Until, SafeOperations

\* Repeating a request makes a sequence of them.
LEMMA TimesIsSafe ==
  ASSUME NEW n \in Nat \ {0}, NEW r \in SafeRequests
  PROVE  Times(n, r) \in SafeSequences
<1>1. Times(n, r) \in [1..n -> SafeRequests]
  BY DEF Times
<1>2. Times(n, r) \in Seq(SafeRequests)
  BY <1>1
<1>3. Len(Times(n, r)) = n
  BY DEF Times
<1> QED BY <1>2, <1>3 DEF SafeSequences

LEMMA ConcatIsSafe == \A s, t \in SafeSequences : s \o t \in SafeSequences
BY ConcatProperties DEF SafeSequences

\* The requests of every operation of the clients are safe.
LEMMA OperationsAreSafe == Operations \subseteq SafeOperations
<1> USE RequestsAreSafe, ShrugIsSafe, OneIsSafe
<1>1. {"read", "ask", "create", "put", "write", "edit", "delete"} = Effects
  BY DEF Effects
<1>2. \A r \in SafeRequests : <<r>> \in SafeSequences
  BY DEF SafeSequences
<1>3. \A r, q \in SafeRequests : <<r, q>> \in SafeSequences
  BY DEF SafeSequences
<1>4. TheHive \subseteq SafeOperations
  BY <1>1 DEF TheHive, HiveCreateAlert, HiveCreateCase, HiveGetCase, HiveUpdateCase,
     HiveDeleteCase, HiveAddObservable, HiveCreateObservable, HiveListCases,
     HiveSearchCases, HiveCaseObservables, HiveCloseCase, HiveListTasks, HiveVersion,
     HiveHealth
<1>5. CortexWaitForJob \in SafeOperations
  <2>1. Polls + 1 \in Nat \ {0}
    BY ClientsAssumption DEF ClientsAssumption
  <2> QED BY <2>1, TimesIsSafe, UntilIsSafe DEF CortexWaitForJob
<1>6. Cortex \subseteq SafeOperations
  BY <1>1, <1>5 DEF Cortex, CortexListAnalyzers, CortexRunAnalyzer, CortexGetJob,
     CortexJobReport, CortexListJobs, CortexVersion, CortexDefinitions, CortexInstall,
     CortexHealth
<1>7. ASSUME NEW n \in 1..Fetches PROVE MispSearchEvents(n) \in SafeOperations
  <2>1. n \in Nat \ {0}
    BY ClientsAssumption DEF ClientsAssumption
  <2>2. /\ <<Shrug(Post("read")), Stop(Post("read"))>> \in SafeSequences
        /\ Times(n, Stop(Ask(MispGet))) \in SafeSequences
    BY <1>1, <1>3, <2>1, TimesIsSafe
  <2> QED BY <2>2, ConcatIsSafe DEF MispSearchEvents, SafeOperations
<1>8. MispAttributeCount \in SafeOperations
  <2>1. 2 \in Nat \ {0} /\ Stop(Post("read")) \in SafeRequests
    BY <1>1
  <2> QED BY <2>1, TimesIsSafe DEF MispAttributeCount, SafeOperations
<1>9. Misp \subseteq SafeOperations
  BY <1>1, <1>7, <1>8 DEF Misp, MispSearchByTags, MispGetEvent, MispCreateEvent,
     MispUpdateEvent, MispDeleteEvent, MispAddAttribute, MispCreateAttribute,
     MispSighting, MispProposal, MispSearchAttributes, MispListEvents, MispServerInfo,
     MispHealth
<1>10. /\ ShuffleExecutions \in SafeOperations
       /\ ShuffleExecution \in SafeOperations
  <2>1. {"raise", "shrug", "retry"} \subseteq Failures
    BY DEF Failures
  <2>2. \A f \in {"raise", "shrug", "retry"} :
          <<ShuffleGet(f)>> \in SafeSequences /\ Times(2, ShuffleGet(f)) \in SafeSequences
    BY <1>2, <2>1, TimesIsSafe
  <2>3. <<SearchIndex>> \in SafeSequences
    BY <1>2
  <2> QED BY <2>2, <2>3, ConcatIsSafe, UntilIsSafe DEF ShuffleExecutions, ShuffleExecution
<1>11. Shuffle \subseteq SafeOperations
  <2>1. /\ Bare("POST", "create", "raise") \in SafeRequests
        /\ Direct("POST", "write", "shrug") \in SafeRequests
        /\ Direct("DELETE", "delete", "shrug") \in SafeRequests
    BY DEF Bare, Direct, Request, Requests, SafeRequests, Verbs, Effects, Ways, Failures,
       Resendable
  <2> QED
    BY <1>1, <1>10, <2>1 DEF Shuffle, ShuffleSendPayload, ShuffleSendWebhook,
       ShuffleListApps, ShuffleDownloadApps, ShuffleListWorkflows, ShuffleGetWorkflow,
       ShuffleLogin, ShuffleDeleteWorkflow, ShuffleExecute, ShuffleHealth
<1>12. Elastic \subseteq SafeOperations
  <2>1. /\ Direct("DELETE", "delete", "raise") \in SafeRequests
        /\ Direct("DELETE", "delete", "gone") \in SafeRequests
        /\ Direct("POST", "write", "raise") \in SafeRequests
    BY DEF Direct, Request, Requests, SafeRequests, Verbs, Effects, Ways, Failures,
       Resendable
  <2>2. ElasticCreateIndex \in SafeOperations /\ ElasticByAlert \in SafeOperations
    BY <1>1, <1>3, UntilIsSafe DEF ElasticCreateIndex, ElasticByAlert
  <2>3. ElasticScroll \in SafeOperations
    BY <1>1, TimesIsSafe, ClientsAssumption
       DEF ElasticScroll, ClientsAssumption, SafeOperations
  <2> QED
    BY <1>1, <2>1, <2>2, <2>3 DEF Elastic, ElasticRefresh, ElasticMapping, ElasticInfo,
       ElasticIndexDocument, ElasticIndexById, ElasticSearch, ElasticCount, ElasticGet,
       ElasticDelete, ElasticDeleteIndex, ElasticUpdate, ElasticLatest, ElasticBulk,
       ElasticClusterHealth, ElasticHealth
<1> QED BY <1>4, <1>6, <1>9, <1>11, <1>12 DEF Operations

-----------------------------------------------------------------------------
(* Nothing is created twice *)

CallStep ==
  \/ Admit \/ Answered \/ FoundNothing \/ Refused \/ Undelivered \/ Overloaded
  \/ Lost \/ Return \/ Raise

\* A step of an endpoint's request is one of a client's.
LEMMA RequestIsCall == RequestStep => CallStep
BY DEF RequestStep, CallStep

Places == {"idle", "admit", "send", "found", "nothing", "failed"}
Calls == [op : SafeOperations, step : Nat, left : Nat, applied : Nat,
          result : {"none", "ok", "nothing", "error"}]

CallTypes ==
  /\ objects \in Nat /\ creations \in Nat
  /\ call \in Calls /\ call.step \in 1..Len(call.op.requests)
  /\ at \in Places

(* As long as a request is not done, the service holds no object it would  *)
(* create: its creation has been counted and can still happen.             *)
RoomForOne ==
  at \in {"admit", "send"} =>
    /\ Creates(request) => creations > 0
    /\ request.effect = "create" => objects < creations

Duplicates == CallTypes /\ NoHiddenDuplicate /\ RoomForOne

\* The request under way is one of the safe ones.
LEMMA CurrentIsSafe == CallTypes => request \in SafeRequests
<1> SUFFICES ASSUME CallTypes PROVE request \in SafeRequests
  OBVIOUS
<1>1. call.op.requests \in Seq(SafeRequests)
  BY DEF CallTypes, Calls, SafeOperations, SafeSequences
<1> QED BY <1>1, ElementOfSeq DEF CallTypes, request

\* Whatever starts the next request counts what it may create.
LEMMA PrepareKeeps ==
  ASSUME Duplicates, NEW op \in SafeOperations, NEW k \in 1..Len(op.requests),
         Prepare(op, k), objects' = objects
  PROVE  Duplicates'
<1>1. call' \in Calls /\ call'.step = k /\ call'.op = op /\ at' = "admit"
  BY CallAssumption DEF Prepare, CallAssumption, Calls, SafeOperations, SafeSequences
<1>2. request' = op.requests[k]
  BY <1>1 DEF request
<1>3. creations' = IF Creates(request)' THEN creations + 1 ELSE creations
  BY <1>2 DEF Prepare, Creates
<1>4. Creates(request)' <=> request'.effect \in {"create", "put", "write"}
  BY DEF Creates
<1> QED
  BY <1>1, <1>3, <1>4 DEF Duplicates, CallTypes, NoHiddenDuplicate, RoomForOne, Places

\* Neither does the end of an operation change what is held or counted.
LEMMA EndKeeps ==
  ASSUME Duplicates, NEW r \in {"ok", "nothing", "error"}, End(r),
         UNCHANGED <<objects, creations>>
  PROVE  Duplicates'
<1>1. call' \in Calls /\ call'.step = call.step /\ call'.op = call.op /\ at' = "idle"
  BY DEF End, Duplicates, CallTypes, Calls
<1> QED BY <1>1 DEF Duplicates, CallTypes, NoHiddenDuplicate, RoomForOne, Places

LEMMA ContinueKeeps ==
  ASSUME Duplicates, NEW found \in BOOLEAN, Continue(found), objects' = objects
  PROVE  Duplicates'
<1>1. CASE call.step # Len(call.op.requests) /\ Prepare(call.op, call.step + 1)
  <2>1. call.op \in SafeOperations /\ call.step + 1 \in 1..Len(call.op.requests)
    <3>1. Len(call.op.requests) \in Nat
      BY DEF Duplicates, CallTypes, Calls, SafeOperations, SafeSequences
    <3> QED BY <1>1, <3>1 DEF Duplicates, CallTypes, Calls
  <2> QED BY <1>1, <2>1, PrepareKeeps
<1>2. CASE End(IF found THEN "ok" ELSE "nothing") /\ UNCHANGED creations
  BY <1>2, EndKeeps
<1> QED BY <1>1, <1>2 DEF Continue

LEMMA FailedKeeps ==
  ASSUME Duplicates, Failed, objects' = objects
  PROVE  Duplicates'
BY ContinueKeeps, EndKeeps DEF Failed

\* A request that is done leaves no more objects than were asked for.
LEMMA AppliedKeeps ==
  ASSUME CallTypes, NoHiddenDuplicate, RoomForOne, at = "send", Acceptable,
         objects' = ObjectsAfter, creations' = creations
  PROVE  objects' \in Nat /\ NoHiddenDuplicate'
<1>1. request \in SafeRequests
  BY CurrentIsSafe
<1>2. request.effect \in Effects
  BY <1>1 DEF SafeRequests, Requests
<1>3. CASE request.effect = "create"
  BY <1>3 DEF ObjectsAfter, RoomForOne, CallTypes, NoHiddenDuplicate
<1>4. CASE request.effect \in {"put", "write"} /\ objects = 0
  BY <1>4 DEF ObjectsAfter, RoomForOne, Creates, CallTypes, NoHiddenDuplicate
<1>5. CASE request.effect = "delete"
  BY <1>5 DEF ObjectsAfter, Acceptable, Missing, CallTypes, NoHiddenDuplicate
<1>6. CASE /\ request.effect \notin {"create", "delete"}
           /\ ~(request.effect \in {"put", "write"} /\ objects = 0)
  BY <1>6 DEF ObjectsAfter, CallTypes, NoHiddenDuplicate
<1> QED BY <1>3, <1>4, <1>5, <1>6

\* No step of a request, of an endpoint or of a caller breaks the invariant.
LEMMA RequestKeeps == ASSUME Duplicates, CallStep PROVE Duplicates'
<1>1. request \in SafeRequests
  BY CurrentIsSafe DEF Duplicates
<1>2. ASSUME NEW c \in Calls, c.op = call.op, c.step = call.step, Resend(c), at = "send",
             objects' \in Nat, NoHiddenDuplicate', creations' = creations,
             request.effect = "create" /\ Resendable(request.verb) => objects' < creations
      PROVE  Duplicates'
  <2>1. call' \in Calls /\ call'.op = call.op /\ call'.step = call.step
    BY <1>2 DEF Resend, Calls
  <2>2. request' = request
    BY <2>1 DEF request
  <2>3. at' \in {"send", "failed"} /\ (at' = "send" => Resendable(request.verb))
    BY <1>2 DEF Resend
  <2>4. Creates(request)' <=> Creates(request)
    BY <2>2 DEF Creates
  <2> QED
    BY <1>1, <1>2, <2>1, <2>2, <2>3, <2>4
       DEF Duplicates, CallTypes, NoHiddenDuplicate, RoomForOne, Places, SafeRequests
<1>3. CASE Admit
  <2>1. CASE at' = "send" /\ at = "admit" /\ UNCHANGED <<call, creations, objects>>
    BY <2>1 DEF Duplicates, CallTypes, NoHiddenDuplicate, RoomForOne, Places, Creates, request
  <2>2. CASE Failed /\ UNCHANGED objects
    BY <2>2, FailedKeeps
  <2> QED BY <1>3, <2>1, <2>2 DEF Admit
<1>4. CASE Answered
  <2>1. objects' \in Nat /\ NoHiddenDuplicate'
    BY <1>4, AppliedKeeps DEF Answered, Duplicates
  <2>2. call' \in Calls /\ call'.op = call.op /\ call'.step = call.step
    BY <1>4 DEF Answered, Applied, Duplicates, CallTypes, Calls
  <2> QED BY <1>4, <2>1, <2>2 DEF Answered, Duplicates, CallTypes, RoomForOne, Places
<1>5. CASE FoundNothing
  BY <1>5 DEF FoundNothing, Duplicates, CallTypes, NoHiddenDuplicate, RoomForOne, Places
<1>6. CASE Refused
  BY <1>6 DEF Refused, Duplicates, CallTypes, NoHiddenDuplicate, RoomForOne, Places
<1>7. CASE Undelivered
  <2>1. /\ call' \in Calls /\ call'.op = call.op /\ call'.step = call.step
        /\ at' \in {"send", "failed"} /\ at = "send"
    BY <1>7 DEF Undelivered, Duplicates, CallTypes, Calls
  <2>2. request' = request
    BY <2>1 DEF request
  <2> QED
    BY <1>7, <2>1, <2>2
       DEF Undelivered, Duplicates, CallTypes, NoHiddenDuplicate, RoomForOne, Places, Creates
<1>8. CASE Overloaded
  <2>1. request.effect = "create" => objects' < creations
    BY <1>8 DEF Overloaded, Duplicates, RoomForOne
  <2> QED
    BY <1>2, <1>8, <2>1 DEF Overloaded, Duplicates, CallTypes, NoHiddenDuplicate
<1>9. CASE Lost
  <2>1. objects' \in Nat /\ NoHiddenDuplicate'
    BY <1>9, AppliedKeeps DEF Lost, Duplicates
  <2>2. Applied \in Calls /\ Applied.op = call.op /\ Applied.step = call.step
    BY DEF Applied, Duplicates, CallTypes, Calls
  <2> QED BY <1>1, <1>2, <1>9, <2>1, <2>2 DEF Lost, SafeRequests
<1>10. CASE Return
  BY <1>10, ContinueKeeps DEF Return
<1>11. CASE Raise
  BY <1>11, FailedKeeps DEF Raise
<1> QED
  BY <1>3, <1>4, <1>5, <1>6, <1>7, <1>8, <1>9, <1>10, <1>11 DEF CallStep

\* The operations endpoints make are among those of the clients.
LEMMA EndpointsAreSafe == \A e \in Endpoints : e.op \in SafeOperations
<1>1. \A e \in Endpoints : e.op \in Operations
  BY DEF Endpoints, Endpoint, Operations, TheHive, Cortex, Misp, Shuffle, Elastic,
     ElasticLatest, TheHiveListCases, TheHiveGetCase, TheHiveGetObservables, TheHiveGetTasks,
     TheHiveHealthRoute, CortexAnalyzersRoute, CortexJobsRoute, CortexJobRoute,
     CortexReportRoute, CortexHealthRoute, MispAttributesRoute, MispEventsRoute,
     MispEventRoute, MispHealthRoute, ShuffleWorkflowsRoute, ShuffleWorkflowRoute,
     ShuffleExecutionsRoute, ShuffleExecutionRoute, ShuffleHealthRoute,
     ElasticCountRoute, ElasticLatestRoute, ElasticHealthRoute
<1> QED BY <1>1, OperationsAreSafe

LEMMA BeginKeeps ==
  ASSUME Duplicates, NEW op \in SafeOperations, Begin(op)
  PROVE  Duplicates'
<1>1. 1 \in 1..Len(op.requests)
  BY DEF SafeOperations, SafeSequences
<1> QED BY <1>1, PrepareKeeps DEF Begin

\* Nothing is created behind a caller's back, and the place of the call is always
\* that of a request of its operation.
LEMMA DuplicatesInvariant == Init /\ [][Next]_vars => []Duplicates
<1>1. Init => Duplicates
  <2> SUFFICES ASSUME Init PROVE Duplicates
    OBVIOUS
  <2>1. One(Get) \in SafeOperations
    BY OneIsSafe, RequestsAreSafe
  <2>2. Len(One(Get).requests) = 1
    BY DEF One
  <2> QED
    BY <2>1, <2>2 DEF Init, CallInit, None, Duplicates, CallTypes, Calls, Places,
       NoHiddenDuplicate, RoomForOne
<1>2. Duplicates /\ [Next]_vars => Duplicates'
  <2> SUFFICES ASSUME Duplicates, [Next]_vars PROVE Duplicates'
    OBVIOUS
  <2>1. ASSUME UNCHANGED <<objects, creations, call, at>> PROVE Duplicates'
    BY <2>1 DEF Duplicates, CallTypes, NoHiddenDuplicate, RoomForOne, Creates, request
  <2>2. CASE RoutesNext
    <3>1. ASSUME NEW e \in Endpoints, Serve(e) PROVE Duplicates'
      BY <3>1, EndpointsAreSafe, BeginKeeps DEF Serve
    <3>2. ASSUME NEW e \in Endpoints, NotConfigured(e) PROVE Duplicates'
      BY <2>1, <3>2 DEF NotConfigured, callVars
    <3>3. ASSUME NEW op \in Operations, Use(op) PROVE Duplicates'
      BY <3>3, OperationsAreSafe, BeginKeeps DEF Use
    <3>4. CASE RequestStep
      BY <3>4, RequestIsCall, RequestKeeps
    <3>5. CASE Reply
      BY <2>1, <3>5 DEF Reply, callVars
    <3>6. CASE Tick
      BY <2>1, <3>6 DEF Tick
    <3> QED BY <2>2, <3>1, <3>2, <3>3, <3>4, <3>5, <3>6 DEF RoutesNext, ServeStep
  <2>3. CASE Helping \/ Holding
    BY <2>1, <2>3 DEF Helping, Holding, Others, callVars
  <2>4. CASE UNCHANGED vars
    BY <2>1, <2>4 DEF vars, callVars
  <2> QED BY <2>2, <2>3, <2>4 DEF Next, Calling
<1> QED BY <1>1, <1>2, PTL

\* However often requests are sent again, a service never holds more objects than
\* its client has asked for, for any operations, retries and polls.
THEOREM NothingCreatedTwice == Spec => []NoHiddenDuplicate
<1>1. Duplicates => NoHiddenDuplicate
  BY DEF Duplicates
<1> QED BY <1>1, DuplicatesInvariant, PTL DEF Spec

-----------------------------------------------------------------------------
(* Successes, and the breaker *)

(* A guarded request on its way was let through by a breaker that nobody   *)
(* else can have opened meanwhile, and what was found has been done.       *)
Passed == at \in {"send", "found", "nothing", "failed"} /\ Guarded => phase # "open"

FoundIsDone ==
  at = "found" /\ request.effect # "read" => call.applied > 0 \/ request.fails = "gone"

Truthful ==
  /\ CallTypes /\ phase \in {"closed", "open", "half_open"}
  /\ Passed /\ FoundIsDone /\ SuccessIsTrue

\* Only a request that found what it looked for ends an operation with success.
LEMMA ContinueTells ==
  ASSUME CallTypes, NEW found \in BOOLEAN, Continue(found), CallTypes',
         found => request.effect = "read" \/ call.applied > 0 \/ request.fails = "gone"
  PROVE  at' \in {"idle", "admit"} /\ SuccessIsTrue'
<1>1. CASE Prepare(call.op, call.step + 1)
  BY <1>1 DEF Prepare, SuccessIsTrue
<1>2. CASE End(IF found THEN "ok" ELSE "nothing")
  <2>1. /\ call'.op = call.op /\ call'.step = call.step /\ call'.applied = call.applied
        /\ call'.result = (IF found THEN "ok" ELSE "nothing")
    BY <1>2 DEF End, CallTypes, Calls
  <2>2. request' = request
    BY <2>1 DEF request
  <2> QED BY <1>2, <2>1, <2>2 DEF End, SuccessIsTrue
<1> QED BY <1>1, <1>2 DEF Continue

LEMMA FailedTells ==
  ASSUME CallTypes, Failed, CallTypes'
  PROVE  at' \in {"idle", "admit"} /\ SuccessIsTrue'
<1>1. CASE Continue(FALSE)
  BY <1>1, ContinueTells
<1>2. CASE End("error") \/ End("nothing")
  BY <1>2 DEF End, SuccessIsTrue, CallTypes, Calls
<1> QED BY <1>1, <1>2 DEF Failed

\* As long as a request is under way it stays the same.
LEMMA CallStepTells == ASSUME Truthful, CallStep, CallTypes' PROVE Truthful'
<1> USE DEF Truthful
<1>1. ASSUME at' \in {"idle", "admit"}, SuccessIsTrue', phase' \in {"closed", "open", "half_open"}
      PROVE  Truthful'
  BY <1>1 DEF Passed, FoundIsDone
<1>2. ASSUME request' = request, phase' = phase, at = "send", at' # "idle",
             at' = "found" /\ request.effect # "read" =>
               call'.applied > 0 \/ request.fails = "gone"
      PROVE  Truthful'
  BY <1>2 DEF Passed, FoundIsDone, Guarded, SuccessIsTrue
<1>3. CASE Admit
  <2>1. CASE at' = "send" /\ UNCHANGED call /\ (Guarded => phase' # "open")
    <3>1. request' = request /\ phase' \in {"closed", "open", "half_open"}
      BY <1>3, <2>1 DEF request, Admit
    <3> QED BY <2>1, <3>1 DEF Passed, FoundIsDone, SuccessIsTrue, Guarded
  <2>2. CASE Failed /\ UNCHANGED phase
    BY <1>1, <2>2, FailedTells
  <2> QED BY <1>3, <2>1, <2>2 DEF Admit
<1>4. CASE Answered \/ FoundNothing \/ Refused
  <2>1. request' = request
    BY <1>4 DEF Answered, FoundNothing, Refused, Applied, request, CallTypes, Calls
  <2>2. at' = "found" /\ request.effect # "read" => call'.applied > 0 \/ request.fails = "gone"
    BY <1>4 DEF Answered, FoundNothing, Refused, Applied, CallTypes, Calls
  <2> QED
    BY <1>2, <1>4, <2>1, <2>2 DEF Answered, FoundNothing, Refused, breakerVars
<1>5. CASE Undelivered \/ Overloaded \/ Lost
  <2>1. request' = request
    BY <1>5 DEF Undelivered, Overloaded, Lost, Resend, Applied, request, CallTypes, Calls
  <2>2. at' \in {"send", "failed"}
    BY <1>5 DEF Undelivered, Overloaded, Lost, Resend
  <2> QED
    BY <1>2, <1>5, <2>1, <2>2 DEF Undelivered, Overloaded, Lost, breakerVars
<1>6. CASE Return
  <2>1. (at = "found") => request.effect = "read" \/ call.applied > 0 \/ request.fails = "gone"
    BY DEF FoundIsDone
  <2>2. at' \in {"idle", "admit"} /\ SuccessIsTrue'
    BY <1>6, <2>1, ContinueTells DEF Return
  <2>3. phase' \in {"closed", "open", "half_open"}
    BY <1>6 DEF Return, RecordSuccess, breakerVars
  <2> QED BY <1>1, <2>2, <2>3
<1>7. CASE Raise
  <2>1. at' \in {"idle", "admit"} /\ SuccessIsTrue'
    BY <1>7, FailedTells DEF Raise
  <2>2. phase' \in {"closed", "open", "half_open"}
    BY <1>7 DEF Raise, RecordFailure, breakerVars
  <2> QED BY <1>1, <2>1, <2>2
<1> QED BY <1>3, <1>4, <1>5, <1>6, <1>7 DEF CallStep

LEMMA TruthfulInvariant == Init /\ [][Next]_vars => []Truthful
<1>1. Init /\ Duplicates => Truthful
  BY DEF Init, CallInit, None, Duplicates, Truthful, Passed, FoundIsDone, SuccessIsTrue
<1>2. Truthful /\ Duplicates' /\ [Next]_vars => Truthful'
  <2> SUFFICES ASSUME Truthful, Duplicates', [Next]_vars PROVE Truthful'
    OBVIOUS
  <2>1. ASSUME UNCHANGED <<phase, call, at>> PROVE Truthful'
    BY <2>1 DEF Duplicates, Truthful, Passed, FoundIsDone, SuccessIsTrue, Guarded, request
  <2>2. ASSUME NEW op, Begin(op) PROVE Truthful'
    BY <2>2 DEF Begin, Prepare, breakerVars, Duplicates, Truthful, Passed, FoundIsDone,
       SuccessIsTrue
  <2>3. CASE RoutesNext
    <3>1. CASE RequestStep
      BY <3>1, RequestIsCall, CallStepTells DEF Duplicates
    <3>2. CASE UNCHANGED callVars \/ Tick
      BY <2>1, <3>2 DEF callVars, breakerVars, Tick
    <3> QED
      BY <2>2, <2>3, <3>1, <3>2 DEF RoutesNext, ServeStep, Serve, NotConfigured, Use, Reply
  <2>4. CASE UNCHANGED callVars
    BY <2>1, <2>4 DEF callVars, breakerVars
  <2> QED BY <2>3, <2>4 DEF Next, Calling, Helping, Holding, Others, vars
<1> QED BY <1>1, <1>2, DuplicatesInvariant, PTL

\* A client reports nothing as done that the service has not done, or that was to be
\* gone and is, whatever is lost, refused, resent or shrugged at before.
THEOREM SuccessCorrect == Spec => []SuccessIsTrue
<1>1. Truthful => SuccessIsTrue
  BY DEF Truthful
<1> QED BY <1>1, TruthfulInvariant, PTL DEF Spec

\* The requests of a client take its breaker through the steps of its contract, and
\* through no others.
THEOREM BreakerCorrect == Spec => BreakerKept
<1> USE DEF Breaker!Next, Breaker!Succeed, Breaker!Fail, Breaker!Probe, Breaker!ProbeFails,
        Breaker!Tick, breakerVars
<1>1. Truthful /\ [Next]_vars => [Breaker!Next]_breakerVars
  <2> SUFFICES ASSUME Truthful, [Next]_vars PROVE Breaker!Next \/ UNCHANGED breakerVars
    OBVIOUS
  <2>1. CASE CallStep
    <3>1. CASE Admit
      BY <3>1 DEF Admit
    <3>2. CASE Answered \/ FoundNothing \/ Refused \/ Undelivered \/ Overloaded \/ Lost
      BY <3>2 DEF Answered, FoundNothing, Refused, Undelivered, Overloaded, Lost
    <3>3. CASE Return
      BY <3>3 DEF Return, RecordSuccess, Truthful, Passed
    <3>4. CASE Raise
      BY <3>4 DEF Raise, RecordFailure, Truthful, Passed
    <3> QED BY <2>1, <3>1, <3>2, <3>3, <3>4 DEF CallStep
  <2>2. CASE Tick
    BY <2>2 DEF Tick
  <2>3. ASSUME NEW op, Begin(op) PROVE UNCHANGED breakerVars
    BY <2>3 DEF Begin
  <2>4. CASE UNCHANGED callVars
    BY <2>4 DEF callVars
  <2> QED
    BY <2>1, <2>2, <2>3, <2>4, RequestIsCall DEF Next, Calling, Helping, Holding, Others,
       vars, RoutesNext, ServeStep, Serve, NotConfigured, Use, Reply
<1> QED BY <1>1, TruthfulInvariant, PTL DEF Spec, BreakerKept

-----------------------------------------------------------------------------
(* What endpoints show *)

Showing == {"list", "object", "cluster"}

(* An operation that raises when its last request failed.                  *)
Raising(op) ==
  op.until \in {"failure", "found"} /\ op.requests[Len(op.requests)].fails = "raise"

(* Requests whose failure, or whose missing object, is neither a success   *)
(* nor the end of their operation.                                         *)
PlainRequests == {r \in SafeRequests : r.fails \in {"raise", "shrug", "retry"}}

(* An operation that makes one request any answer to which is what it asks.*)
Asking(op) == Len(op.requests) = 1 /\ op.requests[1].effect = "ask"

\* The requests of endpoints are plain.
LEMMA EndpointsArePlain == \A e \in Endpoints : e.op.requests \in Seq(PlainRequests)
<1>1. /\ Get \in PlainRequests /\ Shrug(Ask(Get)) \in PlainRequests
      /\ Post("read") \in PlainRequests
      /\ MispGet \in PlainRequests /\ Shrug(Ask(MispGet)) \in PlainRequests
      /\ SearchIndex \in PlainRequests
      /\ \A f \in {"raise", "shrug", "retry"} : ShuffleGet(f) \in PlainRequests
  <2> USE DEF Request, PlainRequests
  <2>1. "read" \in Effects /\ {"raise", "shrug", "retry"} \subseteq Failures
    BY DEF Effects, Failures
  <2>2. Get \in PlainRequests /\ Post("read") \in PlainRequests /\ MispGet \in PlainRequests
    BY <2>1, RequestsAreSafe DEF Get, Post, MispGet, Direct
  <2>3. \A f \in {"raise", "shrug", "retry"} : ShuffleGet(f) \in PlainRequests
    BY <2>1, RequestsAreSafe DEF ShuffleGet, Direct
  <2>4. SearchIndex \in PlainRequests
    BY RequestsAreSafe DEF SearchIndex, Bare
  <2>5. \A r \in SafeRequests : Shrug(Ask(r)) \in PlainRequests
    BY ShrugIsSafe DEF Shrug, Ask, SafeRequests, Requests
  <2> QED BY <2>2, <2>3, <2>4, <2>5, RequestsAreSafe
<1>2. \A r \in PlainRequests : One(r).requests \in Seq(PlainRequests)
  BY DEF One
<1>3. \A r \in PlainRequests :
        <<r>> \in Seq(PlainRequests) /\ Times(2, r) \in Seq(PlainRequests)
  BY DEF Times
<1>4. /\ ShuffleExecutions.requests \in Seq(PlainRequests)
      /\ ShuffleExecution.requests \in Seq(PlainRequests)
  <2>1. \A q, t \in Seq(PlainRequests) : q \o t \in Seq(PlainRequests)
    BY ConcatProperties
  <2>2. <<SearchIndex>> \in Seq(PlainRequests)
    BY <1>1, <1>3
  <2>3. \A f \in {"raise", "shrug", "retry"} :
          /\ <<ShuffleGet(f)>> \in Seq(PlainRequests)
          /\ Times(2, ShuffleGet(f)) \in Seq(PlainRequests)
    BY <1>1, <1>3
  <2> QED BY <2>1, <2>2, <2>3 DEF ShuffleExecutions, ShuffleExecution, Until
<1>5. \A e \in Endpoints :
        \/ \E r \in {Get, Post("read"), MispGet, Shrug(Ask(Get)), Shrug(Ask(MispGet))} :
              e.op = One(r)
        \/ e.op \in {ShuffleExecutions, ShuffleExecution}
  BY DEF Endpoints, Endpoint, TheHiveListCases, TheHiveGetCase,
     TheHiveGetObservables, TheHiveGetTasks, TheHiveHealthRoute, CortexAnalyzersRoute,
     CortexJobsRoute, CortexJobRoute, CortexReportRoute, CortexHealthRoute,
     MispAttributesRoute, MispEventsRoute, MispEventRoute, MispHealthRoute,
     ShuffleWorkflowsRoute, ShuffleWorkflowRoute, ShuffleExecutionsRoute,
     ShuffleExecutionRoute, ShuffleHealthRoute, ElasticCountRoute, ElasticLatestRoute,
     ElasticHealthRoute, HiveListCases, HiveGetCase, HiveCaseObservables, HiveListTasks,
     HiveHealth, CortexListAnalyzers, CortexListJobs, CortexGetJob, CortexJobReport,
     CortexHealth, MispSearchAttributes, MispListEvents, MispGetEvent, MispHealth,
     ShuffleListWorkflows, ShuffleGetWorkflow, ShuffleHealth, ElasticCount, ElasticLatest,
     ElasticSearch, ElasticClusterHealth
<1> QED BY <1>1, <1>2, <1>4, <1>5

\* An endpoint that shows whether a service can be reached only asks.
LEMMA HealthAsks == \A e \in Endpoints : e.shows = "reachable" => Asking(e.op)
<1>1. Asking(One(Shrug(Ask(Get)))) /\ Asking(One(Shrug(Ask(MispGet))))
  BY DEF Asking, One, Shrug, Ask, Get, MispGet, Direct, Request
<1>2. \A e \in Endpoints :
        e.shows = "reachable" => e.op \in {HiveHealth, CortexHealth, MispHealth, ShuffleHealth}
  BY DEF Endpoints, Endpoint, TheHiveListCases, TheHiveGetCase,
     TheHiveGetObservables, TheHiveGetTasks, TheHiveHealthRoute, CortexAnalyzersRoute,
     CortexJobsRoute, CortexJobRoute, CortexReportRoute, CortexHealthRoute,
     MispAttributesRoute, MispEventsRoute, MispEventRoute, MispHealthRoute,
     ShuffleWorkflowsRoute, ShuffleWorkflowRoute, ShuffleExecutionsRoute,
     ShuffleExecutionRoute, ShuffleHealthRoute, ElasticCountRoute, ElasticLatestRoute,
     ElasticHealthRoute
<1> QED BY <1>1, <1>2 DEF HiveHealth, CortexHealth, MispHealth, ShuffleHealth

\* Whatever shows content makes an operation that raises.
LEMMA EndpointsRaise == \A e \in Endpoints : e.shows \in Showing => Raising(e.op)
<1> DEFINE Plain(e) == \E r \in {Get} \cup {Post("read")} \cup {MispGet} : e.op = One(r)
<1>1. \A r \in {Get} \cup {Post("read")} \cup {MispGet} : Raising(One(r))
  BY DEF Raising, One, Get, Post, MispGet, Direct, Request
<1>2. Raising(ShuffleExecutionsRoute.op)
  <2>1. <<SearchIndex>> \in SafeSequences /\ Times(2, ShuffleGet("retry")) \in SafeSequences
        /\ <<ShuffleGet("raise")>> \in SafeSequences
    BY RequestsAreSafe, TimesIsSafe DEF SafeSequences, Failures
  <2> DEFINE s == <<SearchIndex>> \o Times(2, ShuffleGet("retry"))
  <2>2. s \in Seq(SafeRequests)
    BY <2>1, ConcatProperties DEF SafeSequences
  <2> HIDE DEF s
  <2>3. /\ Len(s \o <<ShuffleGet("raise")>>) = Len(s) + 1
        /\ (s \o <<ShuffleGet("raise")>>)[Len(s) + 1] = ShuffleGet("raise")
    BY <2>1, <2>2, ConcatProperties DEF SafeSequences
  <2> QED
    BY <2>3 DEF Raising, ShuffleExecutionsRoute, Endpoint, ShuffleExecutions, Until, s,
       ShuffleGet, Direct, Request
<1>3. \A e \in Endpoints :
        e.shows \in Showing => Plain(e) \/ e = ShuffleExecutionsRoute
  BY DEF Endpoints, Endpoint, Showing, TheHiveListCases, TheHiveGetCase,
     TheHiveGetObservables, TheHiveGetTasks, TheHiveHealthRoute, CortexAnalyzersRoute,
     CortexJobsRoute, CortexJobRoute, CortexReportRoute, CortexHealthRoute,
     MispAttributesRoute, MispEventsRoute, MispEventRoute, MispHealthRoute,
     ShuffleWorkflowsRoute, ShuffleWorkflowRoute, ShuffleExecutionRoute, ShuffleHealthRoute,
     ElasticCountRoute, ElasticLatestRoute, ElasticHealthRoute, HiveListCases, HiveGetCase,
     HiveCaseObservables, HiveListTasks, CortexListAnalyzers, CortexListJobs, CortexGetJob,
     CortexJobReport, MispSearchAttributes, MispListEvents, MispGetEvent,
     ShuffleListWorkflows, ShuffleGetWorkflow, ElasticCount, ElasticLatest, ElasticSearch,
     ElasticClusterHealth
<1> QED BY <1>1, <1>2, <1>3

\* There are five kinds of endpoints.
LEMMA EndpointsShow == \A e \in Endpoints : e.shows \in Showing \cup {"execution", "reachable"}
BY DEF Endpoints, Endpoint, Showing, TheHiveListCases, TheHiveGetCase,
   TheHiveGetObservables, TheHiveGetTasks, TheHiveHealthRoute, CortexAnalyzersRoute,
   CortexJobsRoute, CortexJobRoute, CortexReportRoute, CortexHealthRoute,
   MispAttributesRoute, MispEventsRoute, MispEventRoute, MispHealthRoute,
   ShuffleWorkflowsRoute, ShuffleWorkflowRoute, ShuffleExecutionsRoute,
   ShuffleExecutionRoute, ShuffleHealthRoute, ElasticCountRoute, ElasticLatestRoute,
   ElasticHealthRoute

(* While an endpoint is served its own operation is under way, and what it *)
(* ended with is what the service said or did not say.                     *)
Unheard == {"silence", "refusal"}

Told ==
  /\ call.result \in {"ok", "nothing", "error"}
  /\ call.result = "ok" => heard = "something"
  /\ call.result = "error" => heard \in Unheard
  /\ call.result = "nothing" /\ route.shows \in Showing => heard = "nothing"
  /\ call.result = "nothing" /\ route.shows = "reachable" => heard \in Unheard

Hearing ==
  /\ route \in Endpoints \cup {NoRoute}
  /\ Served =>
       /\ call.op = route.op
       /\ at = "found" => heard = "something"
       /\ at = "nothing" => heard = "nothing" /\ request.effect = "read"
       /\ at = "failed" => heard \in Unheard
       /\ at = "idle" => Told
  /\ ~configured \/ (route # NoRoute /\ ~Served) => at = "idle"
  /\ AnswersAreHeard

\* An operation that ends has told what its last request heard.
LEMMA RequestHears ==
  ASSUME CallTypes, Hearing, RequestStep, CallTypes'
  PROVE  Hearing'
<1> USE DEF Hearing
<1>1. UNCHANGED <<route, answer>> /\ CallStep /\ at # "idle" /\ configured /\ configured'
  BY RequestIsCall DEF RequestStep, CallStep, Admit, Answered, FoundNothing, Refused,
     Undelivered, Overloaded, Lost, Return, Raise
<1>2. CASE ~Served
  <2>1. route = NoRoute
    BY <1>1, <1>2
  <2> QED BY <1>1, <2>1 DEF Served, AnswersAreHeard
<1>3. CASE Served
  <2>1. route \in Endpoints /\ call.op = route.op /\ Served'
    BY <1>1, <1>3 DEF Served
  <2>2. /\ route.shows \in Showing => Raising(call.op)
        /\ route.shows = "reachable" => Asking(call.op)
    BY <2>1, EndpointsRaise, HealthAsks
  <2>3. request.fails \in {"raise", "shrug", "retry"}
    <3>1. call.op.requests \in Seq(PlainRequests)
      BY <2>1, EndpointsArePlain
    <3> QED BY <3>1, ElementOfSeq DEF CallTypes, request, PlainRequests
  <2> DEFINE Ends == /\ call'.op = call.op /\ at' \in {"idle", "admit"}
                     /\ at' = "idle" => Told'
  <2>4. ASSUME NEW found \in BOOLEAN, Continue(found),
               found => heard' = "something",
               at = "nothing" => heard' = "nothing" /\ request.effect = "read",
               ~found /\ at # "nothing" => heard' \in Unheard /\ request.fails # "raise"
        PROVE  Ends
    <3>1. CASE at' = "admit" /\ call'.op = call.op
      BY <3>1
    <3>2. CASE /\ End(IF found THEN "ok" ELSE "nothing")
               /\ \/ call.step = Len(call.op.requests)
                  \/ call.op.until \in {"found", "empty", "search"} /\ ~Raising(call.op)
                  \/ call.op.until = "found" /\ found
                  \/ at = "nothing" /\ request.fails = "retry"
      <4>1. /\ call'.op = call.op /\ at' = "idle"
            /\ call'.result = (IF found THEN "ok" ELSE "nothing")
        BY <3>2 DEF End, CallTypes, Calls
      <4>2. ~found /\ at # "nothing" => ~Raising(call.op)
        BY <2>4, <3>2 DEF Raising, request
      <4>3. at = "nothing" => ~Asking(call.op)
        BY <2>4 DEF Asking, request, CallTypes
      <4>4. ~found /\ Raising(call.op) => heard' = "nothing"
        BY <2>4, <4>2
      <4>5. ~found /\ Asking(call.op) => heard' \in Unheard
        BY <2>4, <4>3
      <4> QED BY <1>1, <2>2, <2>4, <4>1, <4>4, <4>5 DEF Told
    <3> QED BY <2>4, <3>1, <3>2 DEF Continue, Prepare, Raising
  <2>5. ASSUME Failed, heard' \in Unheard, at # "nothing"
        PROVE  Ends
    <3>1. CASE request.fails # "raise"
      <4>1. Continue(FALSE)
        BY <2>3, <2>5, <3>1 DEF Failed
      <4> QED BY <2>4, <2>5, <3>1, <4>1
    <3>2. CASE request.fails = "raise"
      <4>1. End("error")
        BY <2>5, <3>2 DEF Failed
      <4> QED BY <2>5, <4>1 DEF End, Told, CallTypes, Calls
    <3> QED BY <3>1, <3>2
  <2>6. ASSUME Ends PROVE Hearing'
    BY <1>1, <2>1, <2>6 DEF AnswersAreHeard, Served
  <2>7. ASSUME at = "send", at' \in {"send", "found", "nothing", "failed"}, request' = request,
               call'.op = call.op,
               at' = "found" => heard' = "something",
               at' = "nothing" => heard' = "nothing" /\ request.effect = "read",
               at' = "failed" => heard' \in Unheard
        PROVE  Hearing'
    BY <1>1, <2>1, <2>7 DEF AnswersAreHeard, Served
  <2>8. CASE Admit
    <3>1. heard' = "silence" /\ at = "admit"
      BY <2>8 DEF RequestStep, Admit, Answered, FoundNothing, Refused, Return, Raise
    <3>2. CASE Failed
      BY <2>5, <2>6, <3>1, <3>2 DEF Unheard
    <3>3. CASE at' = "send" /\ UNCHANGED call
      BY <1>1, <2>1, <3>3 DEF AnswersAreHeard, Served
    <3> QED BY <2>8, <3>2, <3>3 DEF Admit
  <2>9. ASSUME \/ Answered /\ heard' = "something"
               \/ FoundNothing /\ heard' = "nothing"
               \/ Refused /\ heard' = "refusal"
        PROVE  Hearing'
    <3>1. request' = request /\ call'.op = call.op /\ at = "send"
      BY <2>9 DEF Answered, FoundNothing, Refused, Applied, request, CallTypes, Calls
    <3>2. CASE Answered /\ heard' = "something"
      BY <2>7, <3>1, <3>2 DEF Answered
    <3>3. CASE FoundNothing /\ heard' = "nothing"
      BY <2>7, <3>1, <3>3 DEF FoundNothing
    <3>4. CASE Refused /\ heard' = "refusal"
      BY <2>3, <2>7, <3>1, <3>4 DEF Refused, Unheard
    <3> QED BY <2>9, <3>2, <3>3, <3>4
  <2>10. CASE (Undelivered \/ Overloaded \/ Lost) /\ heard' = "silence"
    <3>1. /\ request' = request /\ call'.op = call.op /\ at = "send"
          /\ at' \in {"send", "failed"}
      BY <2>10 DEF Undelivered, Overloaded, Lost, Resend, Applied, request, CallTypes, Calls
    <3> QED BY <2>7, <2>10, <3>1 DEF Unheard
  <2>11. CASE (Return \/ Raise) /\ UNCHANGED heard
    <3>1. CASE Return
      BY <1>3, <2>4, <2>6, <2>11, <3>1 DEF Return
    <3>2. CASE Raise
      BY <1>3, <2>5, <2>6, <2>11, <3>2 DEF Raise
    <3> QED BY <2>11, <3>1, <3>2
  <2> QED BY <2>8, <2>9, <2>10, <2>11 DEF RequestStep
<1> QED BY <1>2, <1>3

LEMMA HearingInvariant == Init /\ [][Next]_vars => []Hearing
<1>1. Init => Hearing
  BY DEF Init, CallInit, RoutesInit, Hearing, Served, AnswersAreHeard
<1>2. Duplicates /\ Duplicates' /\ Hearing /\ [Next]_vars => Hearing'
  <2> SUFFICES ASSUME Duplicates, Duplicates', Hearing, [Next]_vars PROVE Hearing'
    OBVIOUS
  <2>1. ASSUME NEW op, NEW e \in Endpoints \cup {NoRoute}, Begin(op), route' = e,
               answer' = "none", configured', e # NoRoute => op = e.op
        PROVE  Hearing'
    <3>1. at' = "admit" /\ call'.op = op
      BY <2>1 DEF Begin, Prepare
    <3> QED BY <2>1, <3>1 DEF Hearing, Served, AnswersAreHeard
  <2>2. ASSUME NEW e \in Endpoints, Serve(e) PROVE Hearing'
    BY <2>1, <2>2 DEF Serve
  <2>3. ASSUME NEW e \in Endpoints, NotConfigured(e) PROVE Hearing'
    BY <2>3 DEF NotConfigured, Hearing, Served, AnswersAreHeard, callVars
  <2>4. ASSUME NEW op \in Operations, Use(op) PROVE Hearing'
    BY <2>1, <2>4 DEF Use
  <2>5. CASE RequestStep
    BY <2>5, RequestHears DEF Duplicates
  <2>6. CASE Reply
    <3>1. Told /\ UNCHANGED <<call, at, route, heard>> /\ at = "idle"
          /\ answer' = Answer(route.shows, call.result)
      BY <2>6 DEF Reply, Hearing, callVars
    <3>2. /\ answer' # "none"
          /\ answer' = "content" => heard = "something"
          /\ answer' = "empty" => heard = "nothing"
          /\ answer' = "reachable" => heard \in {"something", "nothing"}
          /\ answer' \in {"bad_gateway", "unreachable"} => heard \in {"silence", "refusal"}
      <4>1. route.shows \in Showing \cup {"execution", "reachable"}
        <5>1. route \in Endpoints
          BY <2>6 DEF Reply, Served, Hearing
        <5> QED BY <5>1, EndpointsShow
      <4>2. CASE call.result = "ok"
        BY <3>1, <4>1, <4>2 DEF Answer, Told
      <4>3. CASE call.result = "error"
        <5>1. answer' = IF route.shows = "cluster" THEN "unreachable" ELSE "bad_gateway"
          BY <3>1, <4>3 DEF Answer
        <5> QED BY <3>1, <4>3, <5>1 DEF Told, Unheard
      <4>4. CASE call.result = "nothing"
        <5>1. CASE route.shows \in {"execution", "reachable"}
          BY <3>1, <4>4, <5>1 DEF Answer, Told, Unheard
        <5>2. CASE route.shows \in Showing
          BY <3>1, <4>4, <5>2 DEF Answer, Told, Showing
        <5> QED BY <4>1, <5>1, <5>2
      <4> QED BY <3>1, <4>2, <4>3, <4>4 DEF Told
    <3> QED BY <3>1, <3>2 DEF Hearing, Served, AnswersAreHeard
  <2>7. ASSUME UNCHANGED <<call, at, configured, route, answer, heard>> PROVE Hearing'
    BY <2>7 DEF Hearing, Served, AnswersAreHeard, Told, request
  <2>8. CASE Tick /\ UNCHANGED routeVars
    BY <2>7, <2>8 DEF Tick, routeVars
  <2>9. CASE UNCHANGED <<callVars, routeVars>>
    BY <2>7, <2>9 DEF callVars, routeVars
  <2> QED
    BY <2>2, <2>3, <2>4, <2>5, <2>6, <2>8, <2>9
       DEF Next, Calling, Helping, Holding, Others, vars, RoutesNext, ServeStep
<1> QED BY <1>1, <1>2, DuplicatesInvariant, PTL

\* What an endpoint shows as content, as empty or as reachable the service has said,
\* and a bad gateway hides nothing but a refusal, for any operation behind it.
THEOREM AnswersCorrect == Spec => []AnswersAreHeard
<1>1. Hearing => AnswersAreHeard
  BY DEF Hearing
<1> QED BY <1>1, HearingInvariant, PTL DEF Spec

-----------------------------------------------------------------------------
(* What the caller of a helper is told *)

(* A function that is called again has been called at most once more than  *)
(* the limit of the policy, and how the last call ended is what is told.   *)
RetryPart ==
  kind \in {"retry", "again"} =>
    /\ main \in {"start", "caught", "over"}
    /\ main = "start" => tries <= limit /\ outcome = "none"
    /\ main = "caught" => last \in {"retryable", "fatal"} /\ outcome = "none"
    /\ outcome = "value" => last = "value"
    /\ outcome = "retryable" => tries = limit + 1
    /\ outcome = "fatal" => last = "fatal"
    /\ outcome # "rolled_back"

(* The result is kept before completed is set, and stays as it is.         *)
TimeoutPart ==
  kind = "timeout" =>
    /\ main \in {"start", "wait", "cleanup", "over"}
    /\ main = "start" => side = "none"
    /\ main # "over" => outcome = "none"
    /\ tries = (IF side \in {"none", "run"} THEN 0 ELSE 1)
    /\ side \in {"none", "run", "keep", "set", "over"}
    /\ side \in {"keep", "set", "over"} => last \in {"value", "fatal"}
    /\ side \in {"set", "over"} => result = last
    /\ signal <=> side = "over"
    /\ outcome \in {"none", "value", "fatal", "timeout"}
    /\ outcome \in {"value", "fatal"} => signal /\ outcome = result

(* Who is told of a commit is told after it, and no thread commits what    *)
(* was rolled back.                                                        *)
AtomicPart ==
  kind = "atomic" =>
    /\ main \in {"start", "body", "join", "over"}
    /\ main \in {"start", "body"} => side = "none" /\ ~tx.committed /\ ~signal
    /\ main # "over" => outcome = "none"
    /\ outcome = "rolled_back" => side = "none" /\ ~tx.committed /\ tx.operations = 0
    /\ outcome = "value" => tx.committed
    /\ side = "mark" \/ signal => tx.committed
    /\ outcome \in {"none", "value", "rolled_back", "timeout"}

OthersPart ==
  kind \in {"context", "none"} => outcome \in {"none", "value", "timeout", "killed"}

Transactions == [operations : Nat, committed : BOOLEAN, rolledBack : BOOLEAN]

Outcomes ==
  /\ kind \in Kinds \cup {"none"} /\ limit \in Nat /\ tries \in 0..(limit + 1)
  /\ signal \in BOOLEAN /\ tx \in Transactions
  /\ kind \notin {"retry", "again"} => limit = 3
  /\ kind \in {"context", "atomic", "none"} => tries = 0
  /\ RetryPart /\ TimeoutPart /\ AtomicPart /\ OthersPart

LEMMA OutcomesHold == Outcomes => OutcomeIsTrue
BY DEF Outcomes, OutcomeIsTrue, RetryPart, TimeoutPart, AtomicPart, OthersPart, Kinds

\* Each step of a helper keeps what is said of its kind.
LEMMA HelperKeeps == ASSUME Outcomes, ResilienceNext PROVE Outcomes'
<1> USE DEF Outcomes, Tell
<1>1. CASE CallFunction \/ Caught \/ RetryTimeout
  <2>1. kind' = kind /\ limit' = limit /\ kind \in {"retry", "again"}
        /\ UNCHANGED <<signal, tx>>
    BY <1>1 DEF CallFunction, Caught, RetryTimeout, Retrying
  <2>2. RetryPart' /\ tries' \in 0..(limit + 1)
    BY <1>1, <2>1 DEF CallFunction, Caught, RetryTimeout, MayRetry, RetryPart
  <2> QED BY <2>1, <2>2 DEF TimeoutPart, AtomicPart, OthersPart
<1>2. CASE StartThread \/ RunFunction \/ Keep \/ WaitOver \/ CleanUp
  <2>1. kind' = kind /\ limit' = limit /\ kind = "timeout" /\ tx' = tx
    BY <1>2 DEF StartThread, RunFunction, Keep, WaitOver, CleanUp
  <2>2. TimeoutPart' /\ signal' \in BOOLEAN
    <3> USE <2>1 DEF TimeoutPart
    <3>1. CASE StartThread BY <3>1 DEF StartThread
    <3>2. CASE RunFunction BY <3>2 DEF RunFunction
    <3>3. CASE Keep
      <4>1. CASE side = "keep" /\ side' = "set" /\ result' = last /\ UNCHANGED signal
        BY <3>3, <4>1 DEF Keep
      <4>2. CASE side = "set" /\ side' = "over" /\ signal' = TRUE /\ UNCHANGED result
        BY <3>3, <4>2 DEF Keep
      <4> QED BY <3>3, <4>1, <4>2 DEF Keep
    <3>4. CASE WaitOver BY <3>4 DEF WaitOver
    <3>5. CASE CleanUp BY <3>5 DEF CleanUp
    <3> QED BY <1>2, <3>1, <3>2, <3>3, <3>4, <3>5
  <2>3. tries' \in 0..(limit + 1)
    BY <2>1, <2>2 DEF TimeoutPart
  <2> QED BY <2>1, <2>2, <2>3 DEF RetryPart, AtomicPart, OthersPart
<1>3. CASE Enter \/ Execute \/ Rollback \/ Commit \/ CommitThread \/ CommitAside \/ Join
  <2>1. kind' = kind /\ limit' = limit /\ kind = "atomic" /\ tries' = tries
    BY <1>3 DEF Enter, Execute, Rollback, Commit, CommitThread, CommitAside, Join
  <2>2. tx' \in Transactions /\ AtomicPart' /\ signal' \in BOOLEAN
    <3> USE <2>1 DEF AtomicPart, Transactions
    <3>1. CASE Enter BY <3>1 DEF Enter
    <3>2. CASE Execute
      <4>1. PICK n \in {tx.operations + 1, 0} : tx' = [tx EXCEPT !.operations = n]
        BY <3>2 DEF Execute
      <4>2. tx' \in Transactions /\ tx'.committed = tx.committed
        BY <4>1
      <4> QED BY <3>2, <4>2 DEF Execute
    <3>3. CASE Rollback BY <3>3 DEF Rollback
    <3>4. CASE Commit BY <3>4 DEF Commit
    <3>5. CASE CommitThread BY <3>5 DEF CommitThread
    <3>6. CASE CommitAside BY <3>6 DEF CommitAside
    <3>7. CASE Join BY <3>7 DEF Join
    <3> QED BY <1>3, <3>1, <3>2, <3>3, <3>4, <3>5, <3>6, <3>7
  <2> QED BY <2>1, <2>2 DEF RetryPart, TimeoutPart, OthersPart
<1>4. CASE Arm \/ Wake \/ RaiseSignal \/ LeaveBlock \/ Cancel \/ Restore
  <2>1. kind' = kind /\ limit' = limit /\ kind = "context" /\ tries' = tries /\ tx' = tx
    BY <1>4 DEF Arm, Wake, RaiseSignal, LeaveBlock, Cancel, Restore
  <2>2. OthersPart' /\ signal' \in BOOLEAN
    BY <1>4, <2>1 DEF Arm, Wake, RaiseSignal, LeaveBlock, Cancel, Restore, OthersPart
  <2> QED BY <2>1, <2>2 DEF RetryPart, TimeoutPart, AtomicPart
<1> QED BY <1>1, <1>2, <1>3, <1>4 DEF ResilienceNext, CallerStep, ThreadStep

LEMMA OutcomesInvariant == Init /\ [][Next]_vars => []Outcomes
<1>1. Init => Outcomes
  <2> SUFFICES ASSUME Init PROVE Outcomes
    OBVIOUS
  <2>1. limit \in Nat
    BY ResilienceAssumption DEF Init, ResilienceInit, Limit, ResilienceAssumption
  <2>2. kind \in Kinds \cup {"none"} /\ tx \in Transactions /\ signal = FALSE
    BY DEF Init, ResilienceInit, Transactions
  <2>3. main = (IF kind = "none" THEN "over" ELSE "start") /\ side = "none" /\ tries = 0
        /\ outcome = "none" /\ tx.committed = FALSE
    BY DEF Init, ResilienceInit
  <2>4. kind \notin {"retry", "again"} => limit = 3
    BY DEF Init, ResilienceInit
  <2>5. RetryPart /\ AtomicPart /\ OthersPart
    BY <2>1, <2>2, <2>3 DEF RetryPart, AtomicPart, OthersPart
  <2>6. TimeoutPart
    BY <2>2, <2>3 DEF TimeoutPart
  <2>7. tries \in 0..(limit + 1)
    BY ONLY <2>1, <2>3
  <2>8. signal \in BOOLEAN
    BY <2>2
  <2> QED
    BY ONLY <2>1, <2>2, <2>3, <2>4, <2>5, <2>6, <2>7, <2>8 DEF Outcomes
<1>2. Outcomes /\ [Next]_vars => Outcomes'
  <2> SUFFICES ASSUME Outcomes, [Next]_vars PROVE Outcomes'
    OBVIOUS
  <2>1. ASSUME UNCHANGED resilienceVars PROVE Outcomes'
    BY <2>1 DEF resilienceVars, Outcomes, RetryPart, TimeoutPart, AtomicPart, OthersPart
  <2>2. CASE Calling
    BY <2>1, <2>2 DEF Calling
  <2>3. CASE Helping
    BY <2>3, HelperKeeps DEF Helping
  <2>4. CASE Holding \/ UNCHANGED vars
    BY <2>1, <2>4 DEF Holding, Others, vars
  <2> QED BY <2>2, <2>3, <2>4 DEF Next
<1> QED BY <1>1, <1>2, PTL

\* A helper tells its caller of no value that was not returned, of no commit that was
\* not done, and of nothing rolled back that stays, whatever its second thread does
\* and however often a function may be called again.
THEOREM OutcomeCorrect == Spec => []OutcomeIsTrue
BY OutcomesInvariant, OutcomesHold, PTL DEF Spec

-----------------------------------------------------------------------------
(* The key of a session with Shuffle *)

(* What Shuffle accepts since the client was made has been noted, and once *)
(* the probe or the read of the real key is over, so has the client's key. *)
Healing ==
  /\ stored \in Nat /\ kept \in Nat /\ issued \in Nat
  /\ owner \notin {"absent", "new"} =>
       header # NoKey /\ {stored, cached} \ {NoKey} \subseteq seen
  /\ owner \in {"login", "confirm", "held"} /\ ~missed => header \in seen

\* No step of Shuffle, of the setup, of the constructor or of the thread breaks it.
LEMMA SessionKeeps == ASSUME Healing, SessionNext PROVE Healing'
<1> USE DEF Healing, NoKey
<1>1. CASE Issue
  BY <1>1 DEF Issue, clientVars
<1>2. CASE DeleteIndex \/ FillIndex \/ Forget
  BY <1>2 DEF DeleteIndex, FillIndex, Forget, clientVars
<1>3. CASE Construct
  BY <1>3 DEF Construct
<1>4. CASE SetOrgIdHeader
  BY <1>4 DEF SetOrgIdHeader, shuffleVars
<1>5. CASE Probe
  BY <1>5 DEF Probe, Accepts, Warmed
<1>6. CASE FetchRealApikey
  BY <1>6 DEF FetchRealApikey, shuffleVars
<1>7. CASE DoLogin \/ Confirm
  BY <1>7 DEF DoLogin, Confirm, Warmed
<1>8. CASE Close \/ AwaitKeepalive \/ Drop \/ Collect
  BY <1>8 DEF Close, AwaitKeepalive, Drop, Collect, shuffleVars
<1>9. CASE KeepaliveStep
  BY <1>9 DEF KeepaliveStep, KeepaliveWakes, KeepalivePings, Warmed, shuffleVars, clientVars
<1> QED
  BY <1>1, <1>2, <1>3, <1>4, <1>5, <1>6, <1>7, <1>8, <1>9
     DEF SessionNext, SessionStep, Warming

\* A client of Shuffle comes out of its constructor with a key that Shuffle has
\* accepted since, or knows of none, for any number of keys and of failing requests.
THEOREM HealedKeyCorrect == Spec => []HealedKeyIsReal
<1>1. Init => Healing
  BY DEF Init, SessionInit, Healing
<1>2. Healing /\ [Next]_vars => Healing'
  <2> SUFFICES ASSUME Healing, [Next]_vars PROVE Healing'
    OBVIOUS
  <2>1. CASE Holding
    BY <2>1, SessionKeeps DEF Holding
  <2>2. CASE UNCHANGED sessionVars
    BY <2>2 DEF sessionVars, shuffleVars, clientVars, Healing
  <2> QED BY <2>1, <2>2 DEF Next, Calling, Helping, vars
<1>3. Healing => HealedKeyIsReal
  BY DEF Healing, HealedKeyIsReal
<1> QED BY <1>1, <1>2, <1>3, PTL DEF Spec

-----------------------------------------------------------------------------
(* Every call ends *)

(* What an operation still does at most: the requests after this one, each *)
(* with all of its retries, and what is left of this one.                  *)
Later == (Len(call.op.requests) - call.step) * (Retries + 3)
TriesLeft ==
  CASE at = "idle" -> 0
    [] at = "admit" -> Later + call.left + 3
    [] at = "send" -> Later + call.left + 2
    [] OTHER -> Later + 1

Retried == call.left \in 0..Retries

\* What is left is nothing only when the operation has ended.
LEMMA TriesAre ==
  ASSUME CallTypes, Retried
  PROVE  /\ Later \in Nat /\ TriesLeft \in Nat /\ (TriesLeft = 0 <=> at = "idle")
         /\ at # "idle" => TriesLeft > Later
<1>1. Retries \in Nat /\ call.left \in Nat /\ at \in Places
  BY CallAssumption DEF CallAssumption, Retried, CallTypes
<1>2. Later \in Nat
  <2>1. PICK m \in Nat : m = Len(call.op.requests) - call.step
    BY DEF CallTypes, Calls, SafeOperations, SafeSequences
  <2>2. m * (Retries + 3) \in Nat
    BY <1>1
  <2> QED BY <2>1, <2>2 DEF Later
<1> QED BY <1>1, <1>2 DEF TriesLeft, Places

\* The next request has its retries, but one request less comes after it.
LEMMA PrepareNearer ==
  ASSUME CallTypes, Retried, at # "idle", call.step # Len(call.op.requests),
         Prepare(call.op, call.step + 1)
  PROVE  Retried' /\ TriesLeft' < TriesLeft
<1>1. Retries \in Nat /\ call \in Calls
  BY CallAssumption DEF CallAssumption, CallTypes
<1>2. /\ call'.op = call.op /\ call'.step = call.step + 1 /\ call'.left \in {0, Retries}
      /\ at' = "admit"
  BY DEF Prepare
<1>3. PICK m \in Nat : Len(call.op.requests) - call.step = m + 1
  <2>1. Len(call.op.requests) \in Nat
    BY <1>1 DEF Calls, SafeOperations, SafeSequences
  <2> DEFINE n == Len(call.op.requests)
  <2>2. n \in Nat /\ call.step \in 1..n /\ call.step # n
    BY <2>1 DEF CallTypes
  <2> HIDE DEF n
  <2>3. n - call.step - 1 \in Nat /\ n - call.step = (n - call.step - 1) + 1
    BY <2>2
  <2>4. \E m \in Nat : n - call.step = m + 1
    BY <2>3
  <2> QED BY <2>4 DEF n
<1>4. Len(call'.op.requests) - call'.step = m
  <2>1. PICK n \in Nat : n = Len(call.op.requests)
    BY <1>1 DEF Calls, SafeOperations, SafeSequences
  <2>2. call.step \in Nat /\ n - call.step = m + 1
    BY <1>1, <1>3, <2>1 DEF Calls
  <2>3. Len(call'.op.requests) = n /\ call'.step = call.step + 1
    BY <1>2, <2>1
  <2> QED BY <2>2, <2>3
<1>5. (m + 1) * (Retries + 3) = m * (Retries + 3) + Retries + 3 /\ m * (Retries + 3) \in Nat
  BY <1>1
<1>6. Later = Later' + Retries + 3 /\ Later' \in Nat
  BY <1>3, <1>4, <1>5 DEF Later
<1>7. TriesLeft' = Later' + call'.left + 3
  BY <1>2 DEF TriesLeft
<1>8. TriesLeft > Later /\ TriesLeft \in Nat
  BY TriesAre
<1>9. Retried'
  BY <1>1, <1>2 DEF Retried
<1>10. call'.left \in Nat /\ call'.left <= Retries
  BY <1>1, <1>2
<1>11. TriesLeft' < TriesLeft
  <2>1. PICK b \in Nat : b = Later'
    BY <1>6
  <2>2. PICK a \in Nat : a = TriesLeft
    BY <1>8
  <2>3. PICK l \in Nat : l = call'.left /\ l <= Retries
    BY <1>10
  <2>4. a > b + Retries + 3 /\ TriesLeft' = b + l + 3
    BY <1>6, <1>7, <1>8, <2>1, <2>2, <2>3
  <2>5. b + l + 3 <= b + Retries + 3
    BY <1>1, <2>3
  <2>6. b + l + 3 < a
    BY <1>1, <2>4, <2>5
  <2> QED BY <2>2, <2>4, <2>6
<1> QED BY <1>9, <1>11

\* So what ends a request leaves less, whatever it was told.
LEMMA EndNearer ==
  ASSUME CallTypes, Retried, at # "idle", NEW r, End(r)
  PROVE  Retried' /\ TriesLeft' < TriesLeft
<1>1. at' = "idle" /\ call'.left = call.left
  BY DEF End, CallTypes, Calls
<1>2. TriesLeft \in Nat \ {0} /\ TriesLeft' = 0
  BY <1>1, TriesAre DEF TriesLeft
<1> QED BY <1>1, <1>2 DEF Retried

LEMMA ContinueNearer ==
  ASSUME CallTypes, Retried, at # "idle", NEW found, Continue(found)
  PROVE  Retried' /\ TriesLeft' < TriesLeft
BY EndNearer, PrepareNearer DEF Continue

LEMMA FailedNearer ==
  ASSUME CallTypes, Retried, at # "idle", Failed
  PROVE  Retried' /\ TriesLeft' < TriesLeft
BY EndNearer, ContinueNearer DEF Failed

\* A request that is sent again has used one of its retries.
LEMMA ResendNearer ==
  ASSUME CallTypes, Retried, at = "send", NEW c \in {call, Applied},
         \/ Resend(c)
         \/ call.left > 0 /\ call' = [call EXCEPT !.left = @ - 1] /\ UNCHANGED at
         \/ at' \in {"found", "nothing", "failed"} /\ call' = c
  PROVE  Retried' /\ TriesLeft' < TriesLeft
<1>1. Retries \in Nat /\ call \in Calls /\ call.left \in 0..Retries /\ Later \in Nat
  BY TriesAre, CallAssumption DEF CallAssumption, CallTypes, Retried
<1>2. /\ c.op = call.op /\ c.step = call.step /\ c.left = call.left /\ DOMAIN c = DOMAIN call
  BY <1>1 DEF Applied, Calls
<1>3. \/ call.left > 0 /\ call'.left = call.left - 1 /\ at' = "send"
      \/ call'.left = call.left /\ at' \in {"found", "nothing", "failed"}
  BY <1>1, <1>2 DEF Resend, Applied, Calls
<1>4. call'.op = call.op /\ call'.step = call.step
  BY <1>1, <1>2 DEF Resend, Applied, Calls
<1>5. Later' = Later
  BY <1>4 DEF Later
<1>6. TriesLeft = Later + call.left + 2
  BY DEF TriesLeft
<1>7. \/ call.left > 0 /\ TriesLeft' = Later + (call.left - 1) + 2
      \/ TriesLeft' = Later + 1
  BY <1>3, <1>5 DEF TriesLeft
<1>8. TriesLeft' < TriesLeft
  BY <1>1, <1>6, <1>7
<1>9. Retried'
  BY <1>1, <1>3 DEF Retried
<1> QED BY <1>8, <1>9

LEMMA CallStepNearer ==
  ASSUME CallTypes, Retried, CallStep
  PROVE  at # "idle" /\ Retried' /\ TriesLeft' < TriesLeft
<1>1. CASE Admit
  <2>1. at = "admit" /\ at # "idle"
    BY <1>1 DEF Admit
  <2>2. CASE at' = "send" /\ UNCHANGED call
    <3>1. Later' = Later /\ Later \in Nat /\ call.left \in 0..Retries /\ Retries \in Nat
      BY <2>2, TriesAre, CallAssumption DEF Later, Retried, CallAssumption
    <3>2. TriesLeft = Later + call.left + 3 /\ TriesLeft' = Later + call.left + 2
      BY <2>1, <2>2, <3>1 DEF TriesLeft
    <3> QED BY <2>1, <2>2, <3>1, <3>2 DEF Retried
  <2>3. CASE Failed
    BY <2>1, <2>3, FailedNearer
  <2> QED BY <1>1, <2>2, <2>3 DEF Admit
<1>2. CASE Answered \/ FoundNothing \/ Refused \/ Undelivered \/ Overloaded \/ Lost
  <2>1. at = "send" /\ at # "idle"
    BY <1>2 DEF Answered, FoundNothing, Refused, Undelivered, Overloaded, Lost
  <2>2. \E c \in {call, Applied} :
           \/ Resend(c)
           \/ call.left > 0 /\ call' = [call EXCEPT !.left = @ - 1] /\ UNCHANGED at
           \/ at' \in {"found", "nothing", "failed"} /\ call' = c
    BY <1>2 DEF Answered, FoundNothing, Refused, Undelivered, Overloaded, Lost
  <2> QED BY <2>1, <2>2, ResendNearer
<1>3. CASE Return
  BY <1>3, ContinueNearer DEF Return
<1>4. CASE Raise
  BY <1>4, FailedNearer DEF Raise
<1> QED BY <1>1, <1>2, <1>3, <1>4 DEF CallStep

(* An operation of a client comes to an end whatever the service does:     *)
(* each step of it leaves fewer tries, over all its requests and retries,  *)
(* and nothing else that happens gives any back.                           *)
THEOREM TriesRunOut ==
  Spec => /\ [](TriesLeft \in Nat /\ (TriesLeft = 0 <=> at = "idle"))
          /\ [][at # "idle" => IF CallStep THEN TriesLeft' < TriesLeft
                                          ELSE TriesLeft' = TriesLeft]_vars
<1> DEFINE Bounded == TriesLeft \in Nat /\ (TriesLeft = 0 <=> at = "idle")
           Moves == at # "idle" => IF CallStep THEN TriesLeft' < TriesLeft
                                              ELSE TriesLeft' = TriesLeft
<1>1. Init => Retried
  BY CallAssumption DEF Init, CallInit, None, Retried, CallAssumption
<1>2. Duplicates /\ Retried => Bounded
  BY TriesAre DEF Duplicates
<1>3. Duplicates /\ Retried /\ [Next]_vars => Retried' /\ Moves
  <2> SUFFICES ASSUME Duplicates, Retried, [Next]_vars PROVE Retried' /\ Moves
    OBVIOUS
  <2>1. CallStep => at # "idle" /\ Retried' /\ TriesLeft' < TriesLeft
    BY CallStepNearer DEF Duplicates
  <2>2. ASSUME UNCHANGED <<call, at>> PROVE Retried' /\ TriesLeft' = TriesLeft
    BY <2>2 DEF Retried, TriesLeft, Later
  <2>3. ASSUME NEW op, Begin(op) PROVE at = "idle" /\ Retried'
    BY <2>3, CallAssumption DEF Begin, Prepare, Retried, CallAssumption
  <2>4. \/ CallStep \/ UNCHANGED <<call, at>>
        \/ \E op \in Operations \cup {e.op : e \in Endpoints} : Begin(op)
    BY RequestIsCall DEF Next, Calling, RoutesNext, Serve, NotConfigured, Use, ServeStep, Reply,
       Tick, Helping, Holding, Others, callVars, vars
  <2> QED BY <2>1, <2>2, <2>3, <2>4
<1> HIDE DEF Bounded, Moves
<1>4. Spec => []Bounded /\ [][Moves]_vars
  BY <1>1, <1>2, <1>3, DuplicatesInvariant, PTL DEF Spec
<1> QED BY <1>4 DEF Bounded, Moves

-----------------------------------------------------------------------------
(* What the caller of a helper still does at most.                         *)
Rounds == limit + 1 - tries
HelpLeft ==
  CASE main = "over" -> 0
    [] main = "caught" -> 2 * Rounds + 2
    [] main = "start" -> IF Retrying THEN 2 * Rounds + 1 ELSE 4
    [] main \in {"body", "block"} -> 3
    [] main \in {"wait", "exit"} -> 2
    [] main \in {"cleanup", "join", "restore"} -> 1

CallerPlaces ==
  /\ main \in {"over", "caught", "start", "body", "block", "wait", "exit", "cleanup", "join",
               "restore"}
  /\ Retrying => main \in {"start", "caught", "over"}
  /\ main = "caught" => Retrying

\* What is left is nothing only when the caller has been told.
LEMMA HelpIs ==
  ASSUME Outcomes, CallerPlaces
  PROVE  Rounds \in Nat /\ HelpLeft \in Nat /\ (HelpLeft = 0 <=> main = "over")
<1>1. Rounds \in Nat
  BY DEF Outcomes, Rounds
<1>2. PICK k \in Nat : k = 2 * Rounds
  BY <1>1
<1>3. CASE main = "caught"
  <2>1. HelpLeft = k + 2
    BY <1>2, <1>3 DEF HelpLeft
  <2> QED BY <1>1, <1>3, <2>1
<1>4. CASE main = "start"
  <2>1. HelpLeft \in {k + 1, 4}
    BY <1>2, <1>4 DEF HelpLeft
  <2> QED BY <1>1, <1>4, <2>1
<1>5. CASE main \notin {"caught", "start"}
  BY <1>1, <1>5 DEF HelpLeft, CallerPlaces
<1> QED BY <1>3, <1>4, <1>5

\* The caller of a retry or of a time limit goes on to its end.
LEMMA CallerNearer ==
  ASSUME Outcomes, CallerPlaces, CallerStep
  PROVE  main # "over" /\ CallerPlaces' /\ HelpLeft' < HelpLeft
<1> USE DEF Tell
<1>1. ASSUME HelpLeft \in Nat \ {0}, main' = "over" PROVE HelpLeft' < HelpLeft
  <2>1. HelpLeft' = 0
    BY <1>1 DEF HelpLeft
  <2> QED BY <1>1, <2>1
<1>2. HelpLeft \in Nat /\ (HelpLeft = 0 <=> main = "over")
  BY HelpIs
<1>3. CASE CallFunction
  <2>1. Retrying /\ main = "start" /\ tries' = tries + 1 /\ limit' = limit /\ kind' = kind
        /\ main' \in {"over", "caught"}
    BY <1>3 DEF CallFunction
  <2>2. limit \in Nat /\ tries \in Nat /\ tries <= limit
    BY <2>1 DEF Outcomes, RetryPart, Retrying
  <2>3. Rounds' = Rounds - 1 /\ Rounds \in Nat
    BY <2>1, <2>2 DEF Rounds
  <2>4. HelpLeft = 2 * Rounds + 1 /\ HelpLeft' \in {2 * Rounds' + 2, 0}
    BY <2>1 DEF HelpLeft
  <2>5. HelpLeft' < HelpLeft
    BY <2>3, <2>4
  <2> QED BY <2>1, <2>5 DEF CallerPlaces, Retrying
<1>4. CASE Caught
  <2>1. Retrying /\ main = "caught" /\ main' \in {"start", "over"}
        /\ UNCHANGED <<kind, limit, tries>>
    BY <1>4 DEF Caught
  <2>2. Rounds' = Rounds /\ Rounds \in Nat
    BY <2>1, HelpIs DEF Rounds
  <2>3. HelpLeft = 2 * Rounds + 2 /\ HelpLeft' \in {2 * Rounds + 1, 0}
    BY <2>1, <2>2 DEF HelpLeft, Retrying
  <2>4. HelpLeft' < HelpLeft
    BY <2>2, <2>3
  <2> QED BY <2>1, <2>4 DEF CallerPlaces, Retrying
<1>5. CASE RetryTimeout \/ CleanUp \/ Rollback \/ Commit \/ Join \/ Restore
  <2>1. main # "over" /\ main' = "over" /\ kind' = kind
    BY <1>5 DEF RetryTimeout, CleanUp, Rollback, Commit, Join, Restore
  <2> QED BY <1>1, <1>2, <2>1 DEF CallerPlaces, Retrying
<1>6. CASE StartThread \/ Enter \/ Arm
  <2>1. main = "start" /\ main' \in {"wait", "body", "block"} /\ kind' = kind /\ ~Retrying
    BY <1>6 DEF StartThread, Enter, Arm, Retrying
  <2>2. HelpLeft = 4 /\ HelpLeft' \in {2, 3}
    BY <2>1 DEF HelpLeft
  <2> QED BY <2>1, <2>2 DEF CallerPlaces, Retrying
<1>7. CASE WaitOver
  <2>1. main = "wait" /\ main' \in {"over", "cleanup"} /\ kind' = kind /\ ~Retrying
    BY <1>7 DEF WaitOver, Retrying
  <2>2. HelpLeft = 2 /\ HelpLeft' \in {0, 1}
    BY <2>1 DEF HelpLeft
  <2> QED BY <2>1, <2>2 DEF CallerPlaces, Retrying
<1>8. CASE CommitThread \/ LeaveBlock
  <2>1. main \in {"body", "block"} /\ main' \in {"join", "exit"} /\ kind' = kind /\ ~Retrying
    BY <1>8 DEF CommitThread, LeaveBlock, Retrying
  <2>2. HelpLeft = 3 /\ HelpLeft' \in {1, 2}
    BY <2>1 DEF HelpLeft
  <2> QED BY <2>1, <2>2 DEF CallerPlaces, Retrying
<1>9. CASE Cancel
  <2>1. main = "exit" /\ main' = "restore" /\ kind' = kind /\ ~Retrying
    BY <1>9 DEF Cancel, Retrying
  <2>2. HelpLeft = 2 /\ HelpLeft' = 1
    BY <2>1 DEF HelpLeft
  <2> QED BY <2>1, <2>2 DEF CallerPlaces, Retrying
<1> QED BY <1>3, <1>4, <1>5, <1>6, <1>7, <1>8, <1>9 DEF CallerStep

\* The second thread may end what the caller does, but never sends it back.
LEMMA ThreadNearer ==
  ASSUME Outcomes, CallerPlaces, ThreadStep \/ Execute
  PROVE  CallerPlaces' /\ HelpLeft' <= HelpLeft
<1>1. HelpLeft \in Nat /\ (HelpLeft = 0 <=> main = "over")
  BY HelpIs
<1>2. CASE RaiseSignal
  <2>1. kind' = kind /\ ~Retrying /\ main' \in {"over", "exit"}
        /\ (main' = "exit" => main = "block")
    BY <1>2 DEF RaiseSignal, Retrying
  <2>2. main' = "exit" => HelpLeft = 3 /\ HelpLeft' = 2
    BY <2>1 DEF HelpLeft
  <2>3. main' = "over" => HelpLeft' = 0
    BY DEF HelpLeft
  <2> QED BY <1>1, <2>1, <2>2, <2>3 DEF CallerPlaces, Retrying
<1>3. CASE RunFunction \/ Keep \/ CommitAside \/ Wake \/ Execute
  <2>1. UNCHANGED <<kind, main, limit>> /\ (Retrying => UNCHANGED tries) /\ ~Retrying
    BY <1>3 DEF RunFunction, Keep, CommitAside, Wake, Execute, Retrying
  <2>2. main # "caught"
    BY <2>1 DEF CallerPlaces
  <2>3. HelpLeft' = HelpLeft
    BY <2>1, <2>2 DEF HelpLeft, Retrying
  <2> QED BY <1>1, <2>1, <2>3 DEF CallerPlaces, Retrying
<1> QED BY <1>2, <1>3 DEF ThreadStep

(* The caller of a helper is told something after at most 2 (limit + 1)    *)
(* + 1 steps of its own: each leaves fewer, and neither the second thread  *)
(* nor a function that hangs in it gives any back.                         *)
THEOREM HelpersEnd ==
  Spec => /\ [](HelpLeft \in Nat /\ (HelpLeft = 0 <=> main = "over"))
          /\ [][IF CallerStep THEN HelpLeft' < HelpLeft ELSE HelpLeft' <= HelpLeft]_vars
<1> DEFINE Bounded == HelpLeft \in Nat /\ (HelpLeft = 0 <=> main = "over")
           Moves == IF CallerStep THEN HelpLeft' < HelpLeft ELSE HelpLeft' <= HelpLeft
<1>1. Init => CallerPlaces
  BY DEF Init, ResilienceInit, CallerPlaces
<1>2. Outcomes /\ CallerPlaces => Bounded
  BY HelpIs
<1>3. Outcomes /\ CallerPlaces /\ [Next]_vars => CallerPlaces' /\ Moves
  <2> SUFFICES ASSUME Outcomes, CallerPlaces, [Next]_vars PROVE CallerPlaces' /\ Moves
    OBVIOUS
  <2>1. HelpLeft \in Nat
    BY HelpIs
  <2>2. CallerStep => CallerPlaces' /\ HelpLeft' < HelpLeft
    BY CallerNearer
  <2>3. ThreadStep \/ Execute => CallerPlaces' /\ HelpLeft' <= HelpLeft
    BY ThreadNearer
  <2>4. ASSUME UNCHANGED resilienceVars PROVE CallerPlaces' /\ HelpLeft' = HelpLeft
    BY <2>4 DEF resilienceVars, CallerPlaces, HelpLeft, Rounds, Retrying
  <2>5. CallerStep \/ ThreadStep \/ Execute \/ UNCHANGED resilienceVars
    BY DEF Next, Calling, Helping, Holding, ResilienceNext, Others, vars
  <2> QED BY <2>1, <2>2, <2>3, <2>4, <2>5
<1> HIDE DEF Bounded, Moves
<1>4. Spec => []Bounded /\ [][Moves]_vars
  BY <1>1, <1>2, <1>3, OutcomesInvariant, PTL DEF Spec
<1> QED BY <1>4 DEF Bounded, Moves
=================================================================================
