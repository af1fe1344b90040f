----------------------------- MODULE KpiStatistics -----------------------------
(***************************************************************************)
(* The figures of the analytics, as functions of what is stored:           *)
(* StatisticalCalculator, KPIAnalyzer, NodeTimingExtractor.extract_timings *)
(* and the checks of KPIAlertManager.  Times are whole seconds, a mean is  *)
(* kept as a total and a count, and rounding is left out.  Sorting and     *)
(* selecting are defined here by the places of what is sorted or selected, *)
(* so that they can be reasoned about.                                     *)
(***************************************************************************)
EXTENDS Integers, FiniteSets, Sequences, SequencesExt, FiniteSetsExt, TLC

\* The members of a finite set in an order, given for each those up to it.
InOrder(S, upTo) ==
    LET place == [x \in S |-> Cardinality(upTo[x])] IN
    [k \in 1..Cardinality(S) |-> CHOOSE x \in S : place[x] = k]

\* A stable sort of a sequence, and its elements at some of its places.
Sorted(s) ==
    LET upTo == [i \in DOMAIN s |-> {j \in DOMAIN s : s[j] < s[i] \/ (s[j] = s[i] /\ j <= i)}]
        order == InOrder(DOMAIN s, upTo)
    IN  [k \in DOMAIN s |-> s[order[k]]]
At(s, places) ==
    LET order == InOrder(places, [i \in places |-> {j \in places : j <= i}])
    IN  [k \in 1..Cardinality(places) |-> s[order[k]]]

Total(s) == FoldLeft(+, 0, s)

-----------------------------------------------------------------------------
(* calculate_statistical_metrics.                                          *)

Hour == 3600
Usable(times) == At(times, {i \in DOMAIN times : 0 < times[i] /\ times[i] < Hour})

\* ceil(n * p / 100)
Rank(n, p) == (n * p + 99) \div 100
NearestRankNext(s, p) == s[Min({Rank(Len(s), p), Len(s) - 1}) + 1]
NearestRank(s, p) == s[Max({Min({Rank(Len(s), p) - 1, Len(s) - 1}), 0}) + 1]

\* Twice the median, which may lie between two times.
TwiceMedian(s) == s[(Len(s) + 1) \div 2] + s[Len(s) \div 2 + 1]

NoStatistics == [executions |-> 0, total |-> 0, p50 |-> 0, p90 |-> 0, p95 |-> 0, p99 |-> 0,
                 min |-> 0, max |-> 0]

Statistics(times) ==
    LET s == Sorted(Usable(times)) IN
    IF s = <<>> THEN NoStatistics
    ELSE [executions |-> Len(s), total |-> Total(s), p50 |-> TwiceMedian(s),
          p90 |-> NearestRank(s, 90), p95 |-> NearestRank(s, 95), p99 |-> NearestRank(s, 99),
          min |-> s[1], max |-> s[Len(s)]]

-----------------------------------------------------------------------------
(* calculate_execution_times.  A log is the set of runs it tells of: an    *)
(* alert with its containment, or a test case that starts and ends, maybe  *)
(* several times; what has not ended has no end.                           *)

Unfinished == -1
Began(log, kind) == {r \in log : r.kind = kind}
Finished(log, kind) == {r \in Began(log, kind) : r.end # Unfinished}

\* The times of runs, in the order of time: that of the log, and that into which
\* the times of several keys are sorted.
Starts(runs) == LET s == SetToSeq(runs) IN Sorted([i \in 1..Len(s) |-> s[i].start])
Ends(runs) == LET s == SetToSeq(runs) IN Sorted([i \in 1..Len(s) |-> s[i].end])

\* The i-th start with the i-th end, as far as both go.
Paired(starts, ends) ==
    LET times == [i \in 1..Min({Len(starts), Len(ends)}) |-> ends[i] - starts[i]]
    IN  At(times, {i \in DOMAIN times : times[i] > 0})

AlertContained(log) == Paired(Starts(Began(log, "alert")), Ends(Finished(log, "alert")))

\* The ends key after key instead.
StartedPassedByKey(log) ==
    LET ends(c) == Ends({r \in Finished(log, "test") : r.case = c})
    IN  Paired(Starts(Began(log, "test")), ends(1) \o ends(2))
StartedPassed(log) == Paired(Starts(Began(log, "test")), Ends(Finished(log, "test")))

\* With alerts but without containments, the time from one alert to the next.
InterArrival(log) ==
    LET s == Starts(Began(log, "alert"))
    IN  Usable([i \in 1..(Len(s) - 1) |-> s[i + 1] - s[i]])

ByAlerts(log) == Finished(log, "alert") # {}
ByTests(log) == Finished(log, "test") # {}

ExecutionTimes(log) ==
    IF ByAlerts(log) THEN AlertContained(log)
    ELSE IF ByTests(log) THEN StartedPassed(log)
    ELSE IF Began(log, "alert") # {} THEN InterArrival(log)
    ELSE <<>>

-----------------------------------------------------------------------------
(* calculate_health_score, in tenths of a per cent, of a load in per cent. *)

Health(load, coverage) ==
    LET score == 3 * (100 - load.cpu) + 3 * (100 - load.memory) + 2 * (100 - load.disk)
                   + 2 * coverage
    IN  [score |-> score,
         status |-> IF score >= 800 THEN "excellent" ELSE IF score >= 600 THEN "good"
                    ELSE IF score >= 400 THEN "warning" ELSE "critical"]

\* get_health_score, when the load cannot be read.
NoHealth == [score |-> 0, status |-> "unknown"]

\* calculate_performance_kpis of the runs of a day, each with a status.
Performance(runs) ==
    [tests |-> Len(runs), passed |-> Len(SelectSeq(runs, LAMBDA r : r = "passed"))]

-----------------------------------------------------------------------------
(* A document of the metrics index: its metric_type, the alert type and    *)
(* the severity it states, the MTTR as a number, as the text "MTTR: ..s"   *)
(* inside an object, as another object or not at all, and what it holds    *)
(* for each service.                                                       *)

HasNumber(d) == d.mttr.form = "number"
HasText(d) == d.mttr.form = "text"
Seconds(d) == IF HasNumber(d) \/ HasText(d) THEN d.mttr.seconds ELSE 0

\* An index is a bag of documents; a list of the values of some of them.
Documents(index) == {d \in DOMAIN index : index[d] > 0}
Count(index, docs) == MapThenSumSet(LAMBDA d : index[d], docs)
Values(index, docs, value(_)) ==
    FoldLeft(LAMBDA s, d : s \o [i \in 1..index[d] |-> value(d)], <<>>, SetToSeq(docs))
Sum(index, docs, value(_)) == MapThenSumSet(LAMBDA d : index[d] * value(d), docs)

(* calculate_kpis_by_alert_type.                                           *)

TypesOf(docs) == {d.type : d \in docs}
ByAlertType(index) ==
    [t \in TypesOf(Documents(index)) |->
        LET docs == {d \in Documents(index) : d.type = t} IN
        [count    |-> Count(index, docs),
         timed    |-> Count(index, {d \in docs : Seconds(d) # 0}),
         seconds  |-> Sum(index, docs, Seconds),
         severity |-> Sum(index, docs, LAMBDA d : d.severity),
         critical |-> Count(index, {d \in docs : d.severity = 3})]]

(* calculate_service_integration_kpis.  Any text that is not empty is a    *)
(* success, whatever it says.                                              *)

Integrations == {"thehive", "cortex", "misp", "elasticsearch"}
Success(value) == value \in {"text", "success"}
CortexSuccess(d) == Success(d.hashJob) \/ Success(d.ipJob)
Classified(d) == [thehive |-> Success(d.case), cortex |-> CortexSuccess(d),
                  misp |-> Success(d.misp), elasticsearch |-> TRUE]
ByService(index) ==
    [s \in Integrations |->
        [success |-> Count(index, {d \in Documents(index) : Classified(d)[s]}),
         failure |-> Count(index, {d \in Documents(index) : ~Classified(d)[s]})]]

(* AggregatedKpisUseCase._extract_mttr_values.                             *)

MttrValues(index) ==
    Values(index, {d \in Documents(index) : HasNumber(d) \/ HasText(d)}, Seconds)

-----------------------------------------------------------------------------
(* extract_timings: the nodes of an execution by label, with the seconds   *)
(* after the start of the workflow at which each started, in groups that   *)
(* started together.                                                       *)

Window == 2
ByStart(offsets) ==
    InOrder(DOMAIN offsets,
            [n \in DOMAIN offsets |->
                {m \in DOMAIN offsets :
                    offsets[m] < offsets[n] \/ (offsets[m] = offsets[n] /\ m <= n)}])

Closed(g) == IF Cardinality(g.nodes) > 1 THEN g.done \cup {g.nodes} ELSE g.done

\* One step of the loop over the nodes: a node joins the group under way, or
\* closes it and starts the next one.
JoinChained(offsets, g, n) ==
    IF g.start < 0 \/ offsets[n] - g.start <= Window
      THEN [g EXCEPT !.nodes = @ \cup {n}, !.start = offsets[n]]
      ELSE [done |-> Closed(g), nodes |-> {n}, start |-> offsets[n]]
Join(offsets, g, n) ==
    IF g.start < 0 \/ offsets[n] - g.start <= Window
      THEN [g EXCEPT !.nodes = @ \cup {n}, !.start = IF @ < 0 THEN offsets[n] ELSE @]
      ELSE [done |-> Closed(g), nodes |-> {n}, start |-> offsets[n]]

ParallelGroups(offsets) ==
    Closed(FoldLeft(LAMBDA g, n : Join(offsets, g, n),
                    [done |-> {}, nodes |-> {}, start |-> -1], ByStart(offsets)))

-----------------------------------------------------------------------------
(* KPIAlertManager: the status of each check, "error" for an exception.    *)

MttrLimit == 120
SuccessLimit == 85

Recent(index) == {d \in Documents(index) : d.recent}

\* A number that is not zero, or any object, is a value; the sum over an object
\* is an exception.
MttrTaken(d) == (HasNumber(d) /\ d.mttr.seconds # 0) \/ d.mttr.form \in {"text", "object"}

MttrStatus(index) ==
    LET docs == {d \in Recent(index) : MttrTaken(d)} IN
    IF docs = {} THEN "no_data"
    ELSE IF \E d \in docs : ~HasNumber(d) THEN "error"
    ELSE IF Sum(index, docs, Seconds) > MttrLimit * Count(index, docs) THEN "alert" ELSE "ok"

\* The services whose rate of success is below the limit.
Failing(index) ==
    LET docs == Recent(index) IN
    {s \in Integrations : 100 * Count(index, {d \in docs : Classified(d)[s]})
                        < SuccessLimit * Count(index, docs)}

ServicesStatus(index) ==
    IF Recent(index) = {} THEN "no_data" ELSE IF Failing(index) # {} THEN "alert" ELSE "ok"

\* Nothing writes the documents of metric_type health_score that are asked for.
HealthStatus == "no_data"

OverallLenient(statuses) == IF "alert" \in statuses THEN "alert" ELSE "ok"
Overall(statuses) == IF statuses \subseteq {"ok", "no_data"} THEN "ok" ELSE "alert"
=============================================================================
