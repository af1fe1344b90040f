------------------------------ MODULE SoarRoutes ------------------------------
(***************************************************************************)
(* The /soar endpoints of the API: each makes one operation of a client of *)
(* IntegrationClients and answers with what it makes of the result.  The   *)
(* handlers block the event loop, so they are served one at a time; other  *)
(* code uses the clients directly.                                         *)
(***************************************************************************)
EXTENDS ServiceCall

VARIABLES
  configured,  \* the application has the client of the service
  route,       \* the endpoint served last
  answer,      \* its answer, "none" until it has one
  heard        \* what the service said to the last request made, a history

routeVars == <<configured, route, answer, heard>>

Endpoint(op, shows) == [op |-> op, shows |-> shows]

TheHiveListCases == Endpoint(HiveListCases, "list")
TheHiveGetCase == Endpoint(HiveGetCase, "object")
TheHiveGetObservables == Endpoint(HiveCaseObservables, "list")
TheHiveGetTasks == Endpoint(HiveListTasks, "list")
TheHiveHealthRoute == Endpoint(HiveHealth, "reachable")

CortexAnalyzersRoute == Endpoint(CortexListAnalyzers, "list")
CortexJobsRoute == Endpoint(CortexListJobs, "list")
CortexJobRoute == Endpoint(CortexGetJob, "object")
CortexReportRoute == Endpoint(CortexJobReport, "object")
CortexHealthRoute == Endpoint(CortexHealth, "reachable")

MispAttributesRoute == Endpoint(MispSearchAttributes, "list")
MispEventsRoute == Endpoint(MispListEvents, "list")
MispEventRoute == Endpoint(MispGetEvent, "object")
MispHealthRoute == Endpoint(MispHealth, "reachable")

ShuffleWorkflowsRoute == Endpoint(ShuffleListWorkflows, "list")
ShuffleWorkflowRoute == Endpoint(ShuffleGetWorkflow, "object")
ShuffleExecutionsRoute == Endpoint(ShuffleExecutions, "list")
ShuffleExecutionRoute == Endpoint(ShuffleExecution, "execution")
ShuffleHealthRoute == Endpoint(ShuffleHealth, "reachable")

ElasticCountRoute == Endpoint(ElasticCount, "object")
ElasticLatestRoute == Endpoint(ElasticLatest, "list")
ElasticHealthRoute == Endpoint(ElasticClusterHealth, "cluster")

Endpoints ==
  {TheHiveListCases, TheHiveGetCase, TheHiveGetObservables, TheHiveGetTasks,
   TheHiveHealthRoute, CortexAnalyzersRoute, CortexJobsRoute, CortexJobRoute,
   CortexReportRoute, CortexHealthRoute, MispAttributesRoute, MispEventsRoute,
   MispEventRoute, MispHealthRoute, ShuffleWorkflowsRoute, ShuffleWorkflowRoute,
   ShuffleExecutionsRoute, ShuffleExecutionRoute, ShuffleHealthRoute,
   ElasticCountRoute, ElasticLatestRoute, ElasticHealthRoute}

NoRoute == Endpoint(One(Get), "nobody")
Served == route # NoRoute /\ answer = "none"

RoutesInit ==
  /\ configured \in BOOLEAN /\ route = NoRoute /\ answer = "none" /\ heard = "silence"

-----------------------------------------------------------------------------
(* Statuses: 200 with content, with nothing, or with a flag; 404, 502, 503.*)
Answer(shows, result) ==
  CASE result = "ok" -> IF shows \in {"reachable", "cluster"} THEN "reachable" ELSE "content"
    [] result = "error" -> IF shows = "cluster" THEN "unreachable" ELSE "bad_gateway"
    [] result = "nothing" ->
         (CASE shows = "execution" -> "not_found"
            [] shows = "reachable" -> "unreachable"
            [] shows = "cluster" -> "reachable"
            [] OTHER -> "empty")

Serve(e) ==
  /\ ~Served /\ configured /\ Begin(e.op)
  /\ route' = e /\ answer' = "none" /\ heard' = "silence"
  /\ UNCHANGED configured

NotConfigured(e) ==
  /\ ~configured /\ answer' = "unavailable" /\ route' = e
  /\ UNCHANGED <<callVars, configured, heard>>

Use(op) ==
  /\ ~Served /\ configured /\ Begin(op)
  /\ route' = NoRoute /\ answer' = "none" /\ heard' = "silence"
  /\ UNCHANGED configured

RequestStep ==
  /\ \/ Answered /\ heard' = "something"
     \/ FoundNothing /\ heard' = "nothing"
     \/ Refused /\ heard' = "refusal"
     \/ (Admit \/ Undelivered \/ Overloaded \/ Lost) /\ heard' = "silence"
     \/ (Return \/ Raise) /\ UNCHANGED heard
  /\ UNCHANGED <<configured, route, answer>>

Reply ==
  /\ Served /\ at = "idle"
  /\ answer' = Answer(route.shows, call.result)
  /\ UNCHANGED <<callVars, configured, route, heard>>

ServeStep == RequestStep \/ Reply

RoutesNext ==
  \/ \E e \in Endpoints : Serve(e) \/ NotConfigured(e)
  \/ \E op \in Operations : Use(op)
  \/ ServeStep
  \/ Tick /\ UNCHANGED routeVars
===============================================================================
