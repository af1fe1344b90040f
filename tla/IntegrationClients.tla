-------------------------- MODULE IntegrationClients --------------------------
(***************************************************************************)
(* The operations of the clients of TheHive, Cortex, MISP, Shuffle and     *)
(* Elasticsearch, as the requests they make.  A request has a verb, an     *)
(* effect on the service, and a way: through the circuit breaker, by the   *)
(* session directly, or bare, without the session's retries.  An operation *)
(* is a sequence of requests and a rule that says when it stops:           *)
(*    "failure"  all requests, one after the other                         *)
(*    "found"    until one of them finds what is looked for                *)
(*    "empty"    until one of them finds nothing                           *)
(*    "search"   the first until it finds, then until one finds nothing    *)
(* A request that is "shrugged" catches its failure and finds nothing, one *)
(* that "stops" also ends the operation there, with nothing; one that is   *)
(* "retried" leaves a failure to the next request and ends the operation   *)
(* with any answer; to one that says "gone" a missing object is as good as *)
(* a deleted one.                                                          *)
(***************************************************************************)
EXTENDS Integers, Sequences

CONSTANTS
  Polls,      \* requests a polling operation makes before its deadline
  Pages,      \* pages a scroll reads at most
  Fetches     \* events a search by attributes fetches at most

ASSUME ClientsAssumption == {Polls, Pages, Fetches} \subseteq Nat \ {0}

Verbs == {"GET", "HEAD", "POST", "PUT", "PATCH", "DELETE"}

(* "create" makes a new object each time, "put" and "write" make a named   *)
(* one ("put" refuses one that exists), "edit" and "delete" need it.  A    *)
(* "read" may find nothing; what is asked for by "ask" any answer gives.   *)
Effects == {"read", "ask", "create", "put", "write", "edit", "delete"}

Request(verb, effect, way, fails) ==
  [verb |-> verb, effect |-> effect, way |-> way, fails |-> fails]

Get == Request("GET", "read", "breaker", "raise")
Post(effect) == Request("POST", effect, "breaker", "raise")
Put(effect) == Request("PUT", effect, "breaker", "raise")
Patch(effect) == Request("PATCH", effect, "breaker", "raise")
Delete(effect) == Request("DELETE", effect, "breaker", "raise")
Direct(verb, effect, fails) == Request(verb, effect, "session", fails)
Bare(verb, effect, fails) == Request(verb, effect, "bare", fails)
Shrug(request) == [request EXCEPT !.fails = "shrug"]
Stop(request) == [request EXCEPT !.fails = "stop"]
Ask(request) == [request EXCEPT !.effect = "ask"]

One(request) == [requests |-> <<request>>, until |-> "failure"]
Until(requests) == [requests |-> requests, until |-> "found"]
Times(n, request) == [k \in 1..n |-> request]

(* TheHive.  search_cases with arguments is a POST, without one a GET. *)
HiveCreateAlert == One(Post("create"))
HiveCreateCase == One(Post("create"))
HiveGetCase == One(Get)
HiveUpdateCase == One(Patch("edit"))
HiveDeleteCase == One(Delete("delete"))
HiveAddObservable == One(Post("create"))
HiveCreateObservable == HiveAddObservable
HiveListCases == One(Get)
HiveSearchCases == One(Post("read"))
HiveCaseObservables == One(Post("read"))
HiveCloseCase == One(Post("edit"))
HiveListTasks == One(Post("read"))
HiveVersion == One(Get)
HiveHealth == One(Shrug(Ask(Get)))

(* Cortex.  wait_for_job polls until the job has ended, and once more when *)
(* the time is over.  An analyzer that is installed already is refused,    *)
(* which the client raises although its docstring calls it a success.      *)
CortexListAnalyzers == One(Post("read"))
CortexRunAnalyzer == One(Post("create"))
CortexGetJob == One(Get)
CortexJobReport == One(Get)
CortexListJobs == One(Get)
CortexWaitForJob == Until(Times(Polls + 1, Get))
CortexVersion == One(Get)
CortexDefinitions == One(Get)
CortexInstall == One(Post("put"))
CortexHealth == One(Shrug(Ask(Get)))

(* MISP overrides get without the breaker; an event is deleted by a POST.  *)
(* Events are searched by value; if that finds none, by the attributes     *)
(* that have it, and each of their events is fetched: if one cannot be,    *)
(* the search has found none.                                              *)
MispGet == Direct("GET", "read", "raise")
MispSearchEvents(events) ==
  [requests |-> <<Shrug(Post("read")), Stop(Post("read"))>>
                  \o Times(events, Stop(Ask(MispGet))),
   until |-> "search"]
MispSearchByTags == One(Post("read"))
MispGetEvent == One(MispGet)
MispCreateEvent == One(Post("create"))
MispUpdateEvent == One(Post("edit"))
MispDeleteEvent == One(Post("delete"))
MispAddAttribute == One(Post("create"))
MispCreateAttribute == One(Post("create"))
MispSighting == One(Post("create"))
MispProposal == One(Post("create"))
MispSearchAttributes == One(Post("read"))
(* Mutant: list_events returns an empty list on an error. *)
MispListEventsOrNone == One(Shrug(MispGet))
MispListEvents == One(MispGet)
MispAttributeCount ==
  [requests |-> Times(2, Stop(Post("read"))), until |-> "failure"]
MispServerInfo == One(MispGet)
MispHealth == One(Shrug(Ask(MispGet)))

(* Shuffle.  An execution is looked for in OpenSearch, then at two paths   *)
(* of the API, then in the list of the workflow.                           *)
ShuffleSendPayload == One(Bare("POST", "create", "raise"))
ShuffleSendWebhook == One(Post("create"))
ShuffleListApps == One(Get)
ShuffleDownloadApps == One(Direct("POST", "write", "shrug"))
ShuffleListWorkflows == One(Get)
ShuffleGetWorkflow == One(Get)
SearchIndex == Bare("GET", "read", "shrug")
ShuffleGet(fails) == Direct("GET", "read", fails)
ShuffleExecutions ==
  Until(<<SearchIndex>> \o Times(2, ShuffleGet("retry")) \o <<ShuffleGet("raise")>>)
ShuffleExecution ==
  Until(<<SearchIndex>> \o Times(2, ShuffleGet("shrug")) \o
        <<SearchIndex>> \o Times(2, ShuffleGet("retry")) \o <<ShuffleGet("shrug")>>)
ShuffleLogin == One(Direct("POST", "write", "shrug"))
ShuffleDeleteWorkflow == One(Direct("DELETE", "delete", "shrug"))
ShuffleExecute == One(Post("create"))
ShuffleHealth == One(Shrug(Ask(Get)))

(* Elasticsearch.  An index is created only when a HEAD does not find it,  *)
(* and a HEAD that fails does not find it.                                 *)
ElasticRefresh == One(Post("read"))
ElasticMapping == One(Get)
ElasticInfo == One(Get)
ElasticIndexExists == Direct("HEAD", "read", "shrug")
ElasticCreateIndex == Until(<<ElasticIndexExists, Put("put")>>)
ElasticIndexDocument == One(Post("create"))
ElasticIndexById == One(Post("write"))
ElasticSearch == One(Post("read"))
ElasticCount == One(Get)
ElasticGet == One(Get)
ElasticDelete == One(Direct("DELETE", "delete", "raise"))
ElasticDeleteIndex == One(Direct("DELETE", "delete", "gone"))
ElasticUpdate == One(Post("edit"))
ElasticLatest == ElasticSearch
ElasticByAlert == Until(<<Post("read"), Post("read")>>)
ElasticBulk == One(Direct("POST", "write", "raise"))
ElasticScroll == [requests |-> Times(Pages, Post("read")), until |-> "empty"]
ElasticClusterHealth == One(Get)
ElasticHealth == One(Shrug(Get))

TheHive == {HiveCreateAlert, HiveCreateCase, HiveGetCase, HiveUpdateCase,
            HiveDeleteCase, HiveAddObservable, HiveCreateObservable, HiveListCases,
            HiveSearchCases, HiveCaseObservables, HiveCloseCase, HiveListTasks,
            HiveVersion, HiveHealth}
Cortex == {CortexListAnalyzers, CortexRunAnalyzer, CortexGetJob, CortexJobReport,
           CortexListJobs, CortexWaitForJob, CortexVersion, CortexDefinitions,
           CortexInstall, CortexHealth}
Misp == {MispSearchByTags, MispGetEvent, MispCreateEvent, MispUpdateEvent,
         MispDeleteEvent, MispAddAttribute, MispCreateAttribute, MispSighting,
         MispProposal, MispSearchAttributes, MispListEvents, MispAttributeCount,
         MispServerInfo, MispHealth} \cup {MispSearchEvents(n) : n \in 1..Fetches}
Shuffle == {ShuffleSendPayload, ShuffleSendWebhook, ShuffleListApps,
            ShuffleDownloadApps, ShuffleListWorkflows, ShuffleGetWorkflow,
            ShuffleExecutions, ShuffleExecution, ShuffleLogin, ShuffleDeleteWorkflow,
            ShuffleExecute, ShuffleHealth}
Elastic == {ElasticRefresh, ElasticMapping, ElasticInfo, ElasticCreateIndex,
            ElasticIndexDocument, ElasticIndexById, ElasticSearch, ElasticCount,
            ElasticGet, ElasticDelete, ElasticDeleteIndex, ElasticUpdate,
            ElasticLatest, ElasticByAlert, ElasticBulk, ElasticScroll,
            ElasticClusterHealth, ElasticHealth}

Operations == TheHive \cup Cortex \cup Misp \cup Shuffle \cup Elastic
===============================================================================
