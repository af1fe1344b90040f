----------------------------- MODULE MCFigures -----------------------------
(***************************************************************************)
(* Instances of the two parts of the lab that only calculate.              *)
(*                                                                         *)
(* Enrichment: alerts on both sides of every threshold, one with a         *)
(* confidence above 100, one primary and one secondary analyzer, reports   *)
(* of a finished job at each level, one of them above 100, and of a job    *)
(* that is still running, and hit counts below, at and above the caps of   *)
(* the bonuses.  Kpis: documents on either side of the limits, two of them *)
(* with a time that is not a number, one about an alert of long ago, and   *)
(* one about an alert that was detected later than it was responded to.    *)
(* Neither reads what the other writes: a behaviour is one                 *)
(* of either, and not of both interleaved.                                 *)
(***************************************************************************)
EXTENDS Enrichment, Kpis

Alert(c, s, t, m, e) ==
    [confidence |-> c, severity |-> s, type |-> t, mitre |-> m, event |-> e]

MCAlerts ==
    {Alert(0, 1, "other", 0, FALSE), Alert(0, 2, "ransomware", 0, TRUE),
     Alert(150, 3, "other", 0, TRUE), Alert(49, 1, "other", 0, FALSE)}

MCInstalled == {"cortex_hash", "dshield"}

Report(status, level, value) ==
    [status |-> status, taxonomies |-> {[level |-> level, value |-> value],
                                        [level |-> "info", value |-> 0]}]

MCReports ==
    {Report("Success", "malicious", 0), Report("Success", "suspicious", 60),
     Report("Success", "info", 120), Report("Waiting", "malicious", 100)}

MCHits == {2, 12}

Metric(type, severity, form, seconds, recent, case, job) ==
    [metric |-> "workflow_execution", type |-> type, severity |-> severity,
     mttr |-> [form |-> form, seconds |-> seconds], recent |-> recent,
     case |-> case, hashJob |-> "empty", ipJob |-> job, misp |-> "text"]

\* Idle, busy, and full.
MCLoads == {[cpu |-> n, memory |-> n, disk |-> n] : n \in {0, 50, 100}}

MCMetrics ==
    {Metric("ransomware", 3, "number", 60, TRUE, "text", "text"),
     Metric("ransomware", 3, "number", 200, TRUE, "text", "empty"),
     Metric("ransomware", 2, "number", 121, FALSE, "empty", "text"),
     Metric("phishing", 2, "number", 0, TRUE, "text", "text"),
     Metric("phishing", 3, "number", -30, TRUE, "text", "text"),
     Metric("phishing", 3, "text", 90, TRUE, "success", "failed"),
     Metric("phishing", 1, "object", 0, FALSE, "text", "text")}

-----------------------------------------------------------------------------
FiguresInit == Init /\ KpiInit

\* The alert beside which the figures are asked for.
Undecided ==
    alert = Alert(0, 1, "other", 0, FALSE) /\ waiting = Installed \cup Services

FiguresNext ==
    \/ events = 0 /\ report = NoReport /\ Next /\ UNCHANGED kpiVars
    \/ Undecided /\ KpiNext /\ UNCHANGED vars

FiguresSpec == FiguresInit /\ [][FiguresNext]_<<vars, kpiVars>>
=============================================================================
