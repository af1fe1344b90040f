------------------------------ MODULE Playbook ------------------------------
(***************************************************************************)
(* The ransomware playbook as Shuffle runs it: the workflow of             *)
(* workflow_actions.py with the scripts embedded in its nodes, against the *)
(* services it changes (TheHive cases, MISP events, Cortex jobs, the       *)
(* containment API, the Elasticsearch indices).                            *)
(*                                                                         *)
(* An execution is started by a webhook delivery, and the same alert can   *)
(* be delivered more than once.  A node runs when every node with a branch *)
(* into it has a stored result, so independent branches interleave.  A     *)
(* node whose result was lost with its worker is run again.  Nodes without *)
(* an effect (the *_json builders, the verify_* checks, update_inprogress, *)
(* calc_task_title, calc_mttr, build_hive_summary) are part of the node    *)
(* next to them that acts on what they print.                              *)
(***************************************************************************)
EXTENDS Integers, Sequences, FiniteSets

CONSTANTS
    Execs,        \* the executions Shuffle may start
    Alerts,       \* the alerts a SIEM may deliver
    Rejected,     \* those whose severity is missing or out of range
    Profile,      \* what normalize_inputs makes of each of the others
    Known,        \* the alerts whose hash the feeds of MISP hold beforehand
    Deployed,     \* the optional nodes in the workflow that an execution runs
    MaxFaults     \* bound on failed requests, lost results and aborts together

D == INSTANCE CalcDecision

ASSUME RejectedAssumption == Rejected \subseteq Alerts
ASSUME KnownAssumption == Known \subseteq Alerts
ASSUME NoAlertAssumption == "none" \notin Alerts
\* The evidence nodes that only read, and the nodes that add to the case or
\* to a cache and that no script reads.
Watchers    == {"tenzir", "network", "loki"}
Attachments == {"obs_hash", "obs_ip", "task", "redis"}

ASSUME DeployedAssumption ==
    Deployed \in [Execs -> SUBSET (D!Analyzers \cup Watchers \cup Attachments)]
ASSUME MaxFaultsAssumption == MaxFaults \in Nat
ASSUME FeedAssumption == "feed" \notin Execs

VARIABLES
    \* the engine
    alertOf,     \* the execution argument of an execution, "none" at first
    status,      \* "NONE" until it is started, then Shuffle's execution status
    done,        \* the nodes of an execution whose result is stored
    faults,      \* how many faults there were so far
    \* the stored results that scripts read
    caseOf,      \* thehive_create_case.body._id, 0 when there is none
    answer,      \* what each watcher's response held
    match,       \* whether there were attributes in that of misp_search
    taxonomy,    \* for each analyzer, the level in its response's report
    decision,    \* calc_decision.message
    containment, \* containment.message
    notices,     \* what notify_critical and notify_info printed
    \* the services
    cases,       \* TheHive's cases, in the order of their creation
    events,      \* MISP's events: whose hash they hold, and who created them
    job,         \* Cortex's jobs for an execution, one for each analyzer
    contained,   \* the executions whose request the containment API served
    indexed,     \* the identifiers of the documents in soar-alerts
    metrics      \* the documents in soar-metrics

engine   == <<alertOf, status, done, faults>>
evidence == <<answer, match, taxonomy>>
outcome  == <<decision, containment, notices>>
services == <<cases, events, job, contained, indexed, metrics>>
vars == <<engine, caseOf, evidence, outcome, services>>

Statuses == {"NONE", "EXECUTING", "FINISHED", "ABORTED"}

Nodes ==
    {"normalize_inputs", "thehive_create_case", "misp_create", "misp_search",
     "es_index", "calc_decision", "containment",
     "mark_false_positive", "notify_critical", "notify_info", "enrich_case",
     "es_index_metrics"} \cup D!Analyzers \cup Watchers \cup Attachments

Case == [alert : Alerts, by : Execs, falsePositive : BOOLEAN, enriched : BOOLEAN]

MetricsDoc == [id : Alerts, by : Execs, case : Nat, contained : BOOLEAN,
               decision : {"none", "contain", "observe", "garbled"}]

TypeOK ==
    /\ alertOf \in [Execs -> Alerts \cup {"none"}]
    /\ status \in [Execs -> Statuses]
    /\ done \in [Execs -> SUBSET Nodes]
    /\ faults \in 0 .. MaxFaults
    /\ caseOf \in [Execs -> 0 .. Len(cases)]
    /\ answer \in [Execs -> [Watchers -> {"none", "suspicious", "malformed"}]]
    /\ match \in [Execs -> BOOLEAN]
    /\ taxonomy \in [Execs -> [D!Analyzers -> {"none", "info", "malicious"}]]
    /\ decision \in [Execs -> {"none", "contain", "observe", "garbled"}]
    /\ containment \in [Execs -> {"none", "skipped", "ok", "empty"}]
    /\ notices \in [Execs -> SUBSET {"CRITICAL", "INFO"}]
    /\ cases \in Seq(Case)
    /\ events \subseteq [alert : Alerts, by : Execs \cup {"feed"}]
    /\ job \in [Execs -> [D!Analyzers -> {"none", "running", "info", "malicious"}]]
    /\ contained \subseteq Execs
    /\ indexed \subseteq Alerts
    /\ metrics \subseteq MetricsDoc
    /\ \A e \in Execs : status[e] # "NONE" => alertOf[e] \in Alerts

Init ==
    /\ alertOf = [e \in Execs |-> "none"]
    /\ status = [e \in Execs |-> "NONE"]
    /\ done = [e \in Execs |-> {}]
    /\ faults = 0
    /\ caseOf = [e \in Execs |-> 0]
    /\ answer = [e \in Execs |-> [w \in Watchers |-> "none"]]
    /\ match = [e \in Execs |-> FALSE]
    /\ taxonomy = [e \in Execs |-> [a \in D!Analyzers |-> "none"]]
    /\ decision = [e \in Execs |-> "none"]
    /\ containment = [e \in Execs |-> "none"]
    /\ notices = [e \in Execs |-> {}]
    /\ cases = <<>>
    /\ events = [alert : Known, by : {"feed"}]
    /\ job = [e \in Execs |-> [a \in D!Analyzers |-> "none"]]
    /\ contained = {}
    /\ indexed = {}
    /\ metrics = {}

-----------------------------------------------------------------------------
(***************************************************************************)
(* The engine.                                                             *)
(***************************************************************************)

\* The node n of execution e can run: its parents have reported, it has not.
Ready(e, n, parents) ==
    /\ status[e] = "EXECUTING"
    /\ n \notin done[e]
    /\ parents \subseteq done[e]

Fault   == faults < MaxFaults /\ faults' = faults + 1
NoFault == UNCHANGED faults

\* The result of the node reaches the execution's record.
Store(e, n) == done' = [done EXCEPT ![e] = @ \cup {n}]

\* The worker dies with the result.  The node stays unreported, and Orborus
\* picks the stale execution up and has the node run once more.
Lose == Fault /\ UNCHANGED done

\* The service does not do what it is asked, and the node reports that.
Fail(e, n) == Fault /\ Store(e, n)

\* The service does it and the node reports it, or cannot.
Done(e, n) == Store(e, n) /\ NoFault

\* A delivery of the alert by the webhook starts an execution.
Deliver(e) ==
    /\ status[e] = "NONE"
    /\ status' = [status EXCEPT ![e] = "EXECUTING"]
    /\ \E a \in Alerts : alertOf' = [alertOf EXCEPT ![e] = a]
    /\ UNCHANGED <<done, faults, caseOf, evidence, outcome, services>>

\* The execution is given up: the engine stops at a failed node, or the
\* maintenance script aborts every execution that is still EXECUTING.
Abort(e) ==
    /\ status[e] = "EXECUTING"
    /\ Fault
    /\ status' = [status EXCEPT ![e] = "ABORTED"]
    /\ UNCHANGED <<alertOf, done, caseOf, evidence, outcome, services>>

\* normalize_inputs, first node.  A missing or out-of-range severity raises
\* KeyboardInterrupt, which ends the execution.
NormalizeInputs(e) ==
    /\ Ready(e, "normalize_inputs", {})
    /\ IF alertOf[e] \in Rejected
       THEN status' = [status EXCEPT ![e] = "ABORTED"] /\ UNCHANGED done
       ELSE Store(e, "normalize_inputs") /\ UNCHANGED status
    /\ NoFault
    /\ UNCHANGED <<alertOf, caseOf, evidence, outcome, services>>

-----------------------------------------------------------------------------
(***************************************************************************)
(* Case creation and enrichment.                                           *)
(***************************************************************************)
NewCase(e) == [alert |-> alertOf[e], by |-> e,
               falsePositive |-> FALSE, enriched |-> FALSE]

\* build_case_json and thehive_create_case: POST /api/case, unconditionally.
CreateCase(e) ==
    /\ Ready(e, "thehive_create_case", {"normalize_inputs"})
    /\ \/ /\ cases' = Append(cases, NewCase(e))
          /\ \/ /\ Done(e, "thehive_create_case")
                /\ caseOf' = [caseOf EXCEPT ![e] = Len(cases) + 1]
             \/ Lose /\ UNCHANGED caseOf
       \/ Fail(e, "thehive_create_case") /\ UNCHANGED <<cases, caseOf>>
    /\ UNCHANGED <<alertOf, status, evidence, outcome,
                   events, job, contained, indexed, metrics>>

\* The observables, the task and the IoC cache, each with its verify node.
Attach(e, n) ==
    /\ Ready(e, n, {"thehive_create_case"})
    /\ Done(e, n)
    /\ UNCHANGED <<alertOf, status, caseOf, evidence, outcome, services>>

\* tenzir_analyze and tenzir_serve, network_watch, loki_search, each with its
\* verify node, which only warns.  "none" is a failed or an empty answer.
Watch(e, w) ==
    /\ Ready(e, w, {"thehive_create_case"})
    /\ Done(e, w)
    /\ \E a \in {"none", "suspicious", "malformed"} :
          answer' = [answer EXCEPT ![e] = [@ EXCEPT ![w] = a]]
    /\ UNCHANGED <<alertOf, status, caseOf, match, taxonomy, outcome, services>>

\* misp_create: an event with the hash of this very alert is added to MISP.
MispCreate(e) ==
    /\ Ready(e, "misp_create", {"thehive_create_case"})
    /\ \/ /\ events' = events \cup {[alert |-> alertOf[e], by |-> e]}
          /\ Done(e, "misp_create") \/ Lose
       \/ Fail(e, "misp_create") /\ UNCHANGED events
    /\ UNCHANGED <<alertOf, status, caseOf, evidence, outcome,
                   cases, job, contained, indexed, metrics>>

\* misp_search and verify_misp: the attributes that hold the hash.
MispSearch(e) ==
    /\ Ready(e, "misp_search", {"misp_create"})
    /\ \/ /\ Done(e, "misp_search")
          /\ match' = [match EXCEPT ![e] = \E v \in events : v.alert = alertOf[e]]
       \/ Fail(e, "misp_search") /\ UNCHANGED match
    /\ UNCHANGED <<alertOf, status, caseOf, answer, taxonomy, outcome, services>>

\* An analyzer node with its verify node, if it has one: POST .../run answers
\* with a job that was just queued, or with one that is over and its report.
RunAnalyzer(e, a) ==
    /\ Ready(e, a, {"thehive_create_case"})
    /\ \/ /\ Done(e, a)
          /\ job' = [job EXCEPT ![e] = [@ EXCEPT ![a] = "running"]]
          /\ UNCHANGED taxonomy
       \/ /\ Done(e, a)
          /\ \E level \in {"info", "malicious"} :
                /\ job' = [job EXCEPT ![e] = [@ EXCEPT ![a] = level]]
                /\ taxonomy' = [taxonomy EXCEPT ![e] = [@ EXCEPT ![a] = level]]
       \/ Fail(e, a) /\ UNCHANGED <<job, taxonomy>>
    /\ UNCHANGED <<alertOf, status, caseOf, answer, match, outcome,
                   cases, events, contained, indexed, metrics>>

\* Cortex, on its own time, ends a job.
JobEnds(e, a) ==
    /\ job[e][a] = "running"
    /\ \E level \in {"info", "malicious"} :
          job' = [job EXCEPT ![e] = [@ EXCEPT ![a] = level]]
    /\ UNCHANGED <<engine, caseOf, evidence, outcome,
                   cases, events, contained, indexed, metrics>>

\* build_es_json, es_index and verify_es: POST /soar-alerts/_doc/<alert_id>.
EsIndex(e) ==
    /\ Ready(e, "es_index", {"thehive_create_case"})
    /\ \/ /\ indexed' = indexed \cup {alertOf[e]}
          /\ Done(e, "es_index") \/ Lose
       \/ Fail(e, "es_index") /\ UNCHANGED indexed
    /\ UNCHANGED <<alertOf, status, caseOf, evidence, outcome,
                   cases, events, job, contained, metrics>>

-----------------------------------------------------------------------------
(***************************************************************************)
(* Decision and response.                                                  *)
(***************************************************************************)

\* What calc_decision reads of the stored results.
Matches(e) == IF match[e] THEN 1 ELSE 0
Hits(e, w) == IF w \in D!Unwrapped /\ answer[e][w] = "suspicious" THEN 1 ELSE 0

Heard(e, a) ==
    D!ParseTaxonomies(
        [status |-> IF taxonomy[e][a] = "none" THEN "Waiting" ELSE "Success",
         taxonomies |-> {[level |-> taxonomy[e][a], value |-> 0]}])

Evidence(e) ==
    [analyzers |-> [a \in D!Analyzers |-> Heard(e, a)],
     misp |-> Matches(e), tenzir |-> Hits(e, "tenzir"), network |-> Hits(e, "network"),
     loki |-> Hits(e, "loki"), critical |-> Hits(e, "loki")]

\* A port or a counter that int() refuses ends the script with an exception.
Raises(e) ==
    \E w \in {"tenzir", "network"} : answer[e][w] = "malformed"

Evaluation(e) ==
    IF Raises(e) THEN "garbled" ELSE D!Decision(Profile[alertOf[e]], Evidence(e))

\* Mutant of DecisionParents: no branch from verify_misp to calc_decision.
DecisionParentsNoMisp(e) == {"es_index"} \cup Deployed[e]

DecisionParents(e) == {"misp_search", "es_index"} \cup Deployed[e]

CalcDecision(e) ==
    /\ Ready(e, "calc_decision", DecisionParents(e))
    /\ Done(e, "calc_decision")
    /\ decision' = [decision EXCEPT ![e] = Evaluation(e)]
    /\ UNCHANGED <<alertOf, status, caseOf, evidence, containment, notices, services>>

\* The guards of the scripts after calc_decision: a decision that cannot be
\* parsed counts as "observe".
Contain(e) == decision[e] = "contain"
Observe(e) == decision[e] # "contain"

\* containment and update_inprogress.  The request can be served although
\* its answer never comes; then the script logs and prints nothing.
Containment(e) ==
    /\ Ready(e, "containment", {"calc_decision"})
    /\ \/ /\ ~Contain(e)
          /\ Done(e, "containment")
          /\ containment' = [containment EXCEPT ![e] = "skipped"]
          /\ UNCHANGED contained
       \/ /\ Contain(e)
          /\ contained' = contained \cup {e}
          /\ \/ /\ Done(e, "containment")
                /\ containment' = [containment EXCEPT ![e] = "ok"]
             \/ /\ Fail(e, "containment")
                /\ containment' = [containment EXCEPT ![e] = "empty"]
             \/ Lose /\ UNCHANGED containment
       \/ /\ Contain(e)
          /\ Fail(e, "containment")
          /\ containment' = [containment EXCEPT ![e] = "empty"]
          /\ UNCHANGED contained
    /\ UNCHANGED <<alertOf, status, caseOf, evidence, decision, notices,
                   cases, events, job, indexed, metrics>>

\* Mutant of Resolves: the script has no guard, like the branch into it.
ResolvesAlways(e) == caseOf[e] # 0

\* mark_false_positive patches the case of this execution, if it has one.
Resolves(e) == Observe(e) /\ caseOf[e] # 0

MarkFalsePositive(e) ==
    /\ Ready(e, "mark_false_positive", {"calc_decision"})
    /\ \/ /\ Resolves(e)
          /\ cases' = [cases EXCEPT ![caseOf[e]].falsePositive = TRUE]
          /\ Done(e, "mark_false_positive") \/ Lose
       \/ ~Resolves(e) /\ Done(e, "mark_false_positive") /\ UNCHANGED cases
       \/ Resolves(e) /\ Fail(e, "mark_false_positive") /\ UNCHANGED cases
    /\ UNCHANGED <<alertOf, status, caseOf, evidence, outcome,
                   events, job, contained, indexed, metrics>>

\* Mutant of InfoNotice: only a decision that reads "observe" is announced.
InfoNoticeStrict(e) == IF decision[e] = "observe" THEN {"INFO"} ELSE {}

CriticalNotice(e) == IF Contain(e) THEN {"CRITICAL"} ELSE {}
InfoNotice(e)     == IF Observe(e) THEN {"INFO"} ELSE {}

NotifyCritical(e) ==
    /\ Ready(e, "notify_critical", {"containment"})
    /\ Done(e, "notify_critical")
    /\ notices' = [notices EXCEPT ![e] = @ \cup CriticalNotice(e)]
    /\ UNCHANGED <<alertOf, status, caseOf, evidence, decision, containment, services>>

\* Mutant of NotifyInfo: a node that has nothing to do does not report, as
\* with a conditional branch that never evaluates as true.
NotifyInfoConditional(e) ==
    /\ Ready(e, "notify_info", {"mark_false_positive"})
    /\ Observe(e)
    /\ Done(e, "notify_info")
    /\ notices' = [notices EXCEPT ![e] = @ \cup InfoNotice(e)]
    /\ UNCHANGED <<alertOf, status, caseOf, evidence, decision, containment, services>>

NotifyInfo(e) ==
    /\ Ready(e, "notify_info", {"mark_false_positive"})
    /\ Done(e, "notify_info")
    /\ notices' = [notices EXCEPT ![e] = @ \cup InfoNotice(e)]
    /\ UNCHANGED <<alertOf, status, caseOf, evidence, decision, containment, services>>

\* Mutant of ClosingParents: calc_mttr waits for the benign branch only.
ClosingParentsBenign == {"notify_info"}

ClosingParents == {"notify_critical", "notify_info"}

\* calc_mttr, build_hive_summary and enrich_case: PATCH description and tags.
EnrichCase(e) ==
    /\ Ready(e, "enrich_case", ClosingParents)
    /\ \/ /\ caseOf[e] # 0
          /\ cases' = [cases EXCEPT ![caseOf[e]].enriched = TRUE]
          /\ Done(e, "enrich_case") \/ Lose
       \/ caseOf[e] = 0 /\ Done(e, "enrich_case") /\ UNCHANGED cases
       \/ caseOf[e] # 0 /\ Fail(e, "enrich_case") /\ UNCHANGED cases
    /\ UNCHANGED <<alertOf, status, caseOf, evidence, outcome,
                   events, job, contained, indexed, metrics>>

\* build_metrics_json: containment.message could be parsed and is no skip.
Executed(e) == containment[e] = "ok"

Document(e) == [id |-> alertOf[e], by |-> e, case |-> caseOf[e],
                contained |-> Executed(e), decision |-> decision[e]]

\* Mutant of Superseded: the document gets an identifier of its own.
SupersededNone(e) == {}

\* The documents that POST /soar-metrics/_doc/<alert_id> overwrites.
Superseded(e) == {m \in metrics : m.id = alertOf[e]}

\* build_metrics_json and es_index_metrics.  Its result is the last one.
IndexMetrics(e) ==
    /\ Ready(e, "es_index_metrics", {"enrich_case"})
    /\ \/ /\ metrics' = (metrics \ Superseded(e)) \cup {Document(e)}
          /\ \/ /\ Done(e, "es_index_metrics")
                /\ status' = [status EXCEPT ![e] = "FINISHED"]
             \/ Lose /\ UNCHANGED status
       \/ /\ Fail(e, "es_index_metrics")
          /\ status' = [status EXCEPT ![e] = "FINISHED"]
          /\ UNCHANGED metrics
    /\ UNCHANGED <<alertOf, caseOf, evidence, outcome,
                   cases, events, job, contained, indexed>>

-----------------------------------------------------------------------------
Enrich(e) ==
    \/ CreateCase(e)
    \/ \E n \in Deployed[e] \cap Attachments : Attach(e, n)
    \/ \E w \in Deployed[e] \cap Watchers : Watch(e, w)
    \/ \E a \in Deployed[e] \cap D!Analyzers : RunAnalyzer(e, a)
    \/ MispCreate(e) \/ MispSearch(e) \/ EsIndex(e)

Respond(e) ==
    \/ CalcDecision(e) \/ Containment(e) \/ MarkFalsePositive(e)
    \/ NotifyCritical(e) \/ NotifyInfo(e) \/ EnrichCase(e) \/ IndexMetrics(e)

Step(e) == NormalizeInputs(e) \/ Enrich(e) \/ Respond(e)

Next ==
    \E e \in Execs :
        \/ Deliver(e) \/ Abort(e) \/ Step(e)
        \/ \E a \in Deployed[e] \cap D!Analyzers : JobEnds(e, a)

\* While some node is ready, a worker runs one that is.  Nothing
\* obliges a SIEM to deliver, anyone to abort, or Cortex to end a job.
Fairness == WF_vars(\E e \in Execs : Step(e))

Spec == Init /\ [][Next]_vars /\ Fairness

-----------------------------------------------------------------------------
(***************************************************************************)
(* Properties.                                                             *)
(***************************************************************************)

\* Both branches after calc_decision always run, and each node decides alone
\* whether it acts.  Even so, a case that is closed as a false positive never
\* belongs to an execution that had its host contained or announced as such,
\* not even when nodes were run twice.
FalsePositiveUncontained ==
    \A i \in DOMAIN cases : cases[i].falsePositive =>
        /\ cases[i].by \notin contained
        /\ "CRITICAL" \notin notices[cases[i].by]

\* The join in front of calc_decision: no answer that it reads is stored
\* after the decision, so the stored decision is still the one that the
\* stored evidence calls for when the response nodes act on it.
DecisionIsCurrent ==
    \A e \in Execs : decision[e] # "none" => decision[e] = Evaluation(e)

\* A metrics document reports what the response did: containment exactly when
\* the node saw it confirmed, which implies that the API served a request.
\* It is not written while the response is still under way.
MetricsTruthful ==
    \A m \in metrics :
        /\ m.contained <=> containment[m.by] = "ok"
        /\ m.contained => m.by \in contained
        /\ m.decision = decision[m.by]

\* "Use alert_id as document ID for idempotency (prevents duplicates on
\* retries)": re-delivered alerts and re-run nodes leave one document each.
OneMetricsDocPerAlert ==
    \A m1, m2 \in metrics : m1.id = m2.id => m1 = m2

\* A finished execution announced its outcome once: either as critical or as
\* informational, also when the decision could not be read.
ExactlyOneNotice ==
    \A e \in Execs : status[e] = "FINISHED" => Cardinality(notices[e]) = 1

\* Executions that are started end, and a time comes when none is under way:
\* the joins of the workflow cannot wait for a node that has nothing to do on
\* the branch not taken.
Idle == \A e \in Execs : status[e] # "EXECUTING"

ExecutionEnds == ~Idle ~> Idle

-----------------------------------------------------------------------------
(***************************************************************************)
(* What the repository's documents and tests say, and the code does not    *)
(* keep.                                                                   *)
(***************************************************************************)

\* "Duplicate alert should not create duplicate case."
NoDuplicateCase ==
    \A i, j \in DOMAIN cases : cases[i].alert = cases[j].alert => i = j
=============================================================================
