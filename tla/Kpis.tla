---------------------------------- MODULE Kpis ----------------------------------
(***************************************************************************)
(* The analytics of the lab: what the playbook and the timing of nodes     *)
(* write to the metrics index, what the tests write to the log, and the    *)
(* figures that the API, the KPI script and the KPI alerts read from them, *)
(* in any order.  Elasticsearch may be out of reach at any request.        *)
(***************************************************************************)
EXTENDS KpiStatistics

CONSTANTS
    Metrics,    \* documents the playbook writes
    Batches,    \* how many of the same at a time
    Labels,     \* nodes of a workflow
    Loads,      \* of the processor, the memory and the disk, in per cent
    MaxTime,    \* last second of the log, and of the start of a node
    MaxEvents   \* writes to the index and runs in the log

ASSUME KpisAssumption ==
    Batches \subseteq Nat /\ Labels \subseteq Nat /\ IsFiniteSet(Labels)
    /\ MaxTime \in Nat /\ MaxEvents \in Nat

\* A time to respond, here in whole seconds, is negative when the alert says that
\* it was detected later than now (calc_mttr.py:28).
ASSUME MetricsAssumption == \A d \in Metrics : d.mttr.seconds \in Int

VARIABLES
    index,      \* METRICS_INDEX
    log,        \* notify.log
    events,     \* writes so far
    report      \* the answer to the request that was served, until it is read

kpiVars == <<index, log, events, report>>

\* NodeTimingExtractor.index_timings: a document with none of the fields of the
\* playbook's, written anew by every request for the timings of an execution.
Timing == [metric |-> "node_timings", type |-> "unknown", severity |-> 0,
           mttr |-> [form |-> "none", seconds |-> 0], recent |-> TRUE,
           case |-> "none", hashJob |-> "none", ipJob |-> "none", misp |-> "none"]

AllDocuments == Metrics \cup {Timing}
NoReport == [of |-> "none"]

KpiInit ==
    /\ index = [d \in AllDocuments |-> 0] /\ log = {} /\ events = 0 /\ report = NoReport

Event == report = NoReport /\ events < MaxEvents /\ events' = events + 1

-----------------------------------------------------------------------------
(* What is written.                                                        *)

IndexMetrics(d, n) ==
    /\ Event /\ index' = [index EXCEPT ![d] = @ + n] /\ UNCHANGED <<log, report>>

Runs == {r \in [kind : {"alert", "test"}, case : {1, 2}, start : 0..MaxTime,
                end : {Unfinished} \cup 0..MaxTime] :
            /\ r.kind = "alert" => r.case = 1
            /\ r.end # Unfinished => r.start <= r.end}

LogRun(r) == Event /\ log' = log \cup {r} /\ UNCHANGED <<index, report>>

-----------------------------------------------------------------------------
(* What is asked.                                                          *)

Asks(answer) == report = NoReport /\ report' = answer /\ UNCHANGED <<index, log, events>>

\* Whoever asked has read the answer.
TakeAnswer == report # NoReport /\ report' = NoReport /\ UNCHANGED <<index, log, events>>

\* GET /analytics/kpis/aggregated: every document is an alert, of any time.
Aggregated(idx) ==
    IF Documents(idx) = {} THEN [of |-> "aggregated", alerts |-> 0]
    ELSE [of |-> "aggregated", alerts |-> Count(idx, Documents(idx)),
          types |-> ByAlertType(idx), services |-> ByService(idx),
          statistics |-> Statistics(MttrValues(idx))]
AskAggregated == Asks(Aggregated(index)) \/ Asks([of |-> "error"])

\* Of an application in which nothing stores a run of the tests, a case or a
\* backup: the repository counts none, and the coverage is 0.
StoredRuns == <<>>
StoredCoverage == 0

\* GET /analytics/kpis: the times come from the log, and a log that cannot be
\* read gives the figures of none.
Mttr == {Statistics(ExecutionTimes(log)), NoStatistics}
Healths == {Health(load, StoredCoverage) : load \in Loads} \cup {NoHealth}
AskKpis ==
    \E mttr \in Mttr, health \in Healths :
        Asks([of |-> "log", statistics |-> mttr, performance |-> Performance(StoredRuns),
              health |-> health.status])

\* calc_kpis: the numbers of the index; without any, the log, and without a
\* log the script stops.
IndexTimes(idx) == Usable(Values(idx, {d \in Documents(idx) : HasNumber(d)}, Seconds))

FetchEsData(idx) == {IndexTimes(idx), <<>>}
ParseLogData(runs) == ExecutionTimes(runs)

\* The aggregations of a search that may fail; "" is a case that was not made.
NotEnriched == [alerts |-> 0, critical |-> 0, thehive |-> 0]
EnrichFromEs(idx) ==
    LET docs == Documents(idx) IN
    {NotEnriched,
     [alerts   |-> Count(idx, docs),
      critical |-> Count(idx, {d \in docs : d.severity = 3}),
      thehive  |-> Count(idx, {d \in docs : d.case \notin {"none", "empty"}})]}

CalcKpis ==
    \E times \in FetchEsData(index) :
        \/ /\ times # <<>>
           /\ \E more \in EnrichFromEs(index) :
                Asks([of |-> "script", statistics |-> Statistics(times), more |-> more])
        \/ /\ times = <<>> /\ log # {}
           /\ Asks([of |-> "log", statistics |-> Statistics(ParseLogData(log))])
        \/ times = <<>> /\ log = {} /\ Asks([of |-> "exit"])

\* GET /analytics/node-timings of an execution: read, grouped and written.
TimeExecution(offsets) ==
    /\ Event /\ UNCHANGED log
    /\ report' = [of |-> "timings", offsets |-> offsets, groups |-> ParallelGroups(offsets)]
    /\ index' \in {index, [index EXCEPT ![Timing] = @ + 1]}

\* An execution that is not in Shuffle's index, or an index out of reach: 404.
MissExecution == Asks([of |-> "not_found"])

\* GET /analytics/node-timings: what was written so.
AskTimings ==
    \/ Asks([of |-> "executions", count |-> index[Timing]])
    \/ Asks([of |-> "error"])

\* check_all_thresholds, each check with a search of its own that may fail.
Checks(mttr, services, health) ==
    [of |-> "checks", mttr |-> mttr, services |-> services,
     overall |-> Overall({mttr, services, health})]
CheckThresholds ==
    \E mttr \in {MttrStatus(index), "error"}, services \in {ServicesStatus(index), "error"},
       health \in {HealthStatus, "error"} : Asks(Checks(mttr, services, health))

KpiNext ==
    \/ \E d \in Metrics, n \in Batches : IndexMetrics(d, n)
    \/ \E r \in Runs : LogRun(r)
    \/ AskAggregated \/ AskKpis \/ CalcKpis \/ AskTimings \/ MissExecution
    \/ CheckThresholds \/ TakeAnswer
    \/ \E offsets \in [Labels -> 0..MaxTime] : TimeExecution(offsets)

KpiSpec == KpiInit /\ [][KpiNext]_kpiVars

-----------------------------------------------------------------------------
(* Properties.                                                             *)

KpiTypeOK ==
    /\ index \in [AllDocuments -> Nat] /\ log \subseteq Runs /\ events \in 0..MaxEvents
    /\ report.of \in {"none", "aggregated", "error", "log", "script", "exit", "timings",
                      "executions", "not_found", "checks"}

\* A percentile is the least time that as many of the times do not exceed, and
\* the percentiles come in their order between the least and the greatest time
\* (statistical_calculator.py:60).
IsPercentile(v, p, times) ==
    LET upTo(w) == Cardinality({i \in DOMAIN times : times[i] <= w}) IN
    100 * upTo(v) >= p * Len(times) /\ 100 * upTo(v - 1) < p * Len(times)
PercentilesAreRanks ==
    report.of = "aggregated" /\ report.alerts > 0 =>
        LET s == report.statistics
            times == Usable(MttrValues(index))
        IN  times # <<>> =>
                /\ IsPercentile(s.p90, 90, times)
                /\ IsPercentile(s.p95, 95, times)
                /\ IsPercentile(s.p99, 99, times)
                /\ 2 * s.min <= s.p50 /\ s.p50 <= 2 * s.p90
                /\ s.p90 <= s.p95 /\ s.p95 <= s.p99 /\ s.p99 <= s.max

\* The pairing of starts with ends takes no heed of which run they belong to;
\* yet when every run of the kind has ended, within an hour, the times it makes
\* up add to what the runs took, and so the mean over runs that took any time is
\* right, also where runs overlap (statistical_calculator.py:184).
PairingKeepsTheTotal ==
    LET runs == Began(log, IF ByAlerts(log) THEN "alert" ELSE "test") IN
    report.of = "log" /\ report.statistics # NoStatistics /\ runs # {}
      /\ (\A r \in runs : r.end # Unfinished /\ r.end - r.start < Hour) =>
        report.statistics.total = MapThenSumSet(LAMBDA r : r.end - r.start, runs)

\* Nodes of a parallel group started within the window after the first of
\* them, every node that did is in that group, and nodes that started together
\* are never parted (node_timing_extractor.py:178).
GroupsAreBursts ==
    report.of = "timings" =>
        LET off == report.offsets
            first(g) == Min({off[n] : n \in g})
        IN  /\ \A g \in report.groups :
                 g = {n \in DOMAIN off : first(g) <= off[n] /\ off[n] <= first(g) + Window}
            /\ \A a, b \in DOMAIN off :
                 a # b /\ off[a] = off[b] => \E g \in report.groups : {a, b} \subseteq g

\* The checks never come out fine while the mean time to respond of the recent
\* documents with a number is over its limit, or a service fails too often, or
\* a check could not be made (kpi_alerts.py:215).
NoBreachPassesUnseen ==
    report.of = "checks" /\ report.overall = "ok" =>
        LET timed == {d \in Recent(index) : HasNumber(d) /\ d.mttr.seconds # 0} IN
        /\ "error" \notin {report.mttr, report.services}
        /\ Sum(index, timed, Seconds) <= MttrLimit * Count(index, timed)
        /\ \A s \in Integrations :
             20 * Count(index, {d \in Recent(index) : ~Classified(d)[s]})
               <= 3 * Count(index, Recent(index))
=============================================================================
