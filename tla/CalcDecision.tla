---------------------------- MODULE CalcDecision ----------------------------
(***************************************************************************)
(* The scoring function of the playbook: what the embedded script          *)
(* calc_decision.py computes from the normalised alert and from the        *)
(* answers of the enrichment services.  The script is straight-line code   *)
(* over one score and one verdict; here every numbered section of it is    *)
(* one operator.                                                           *)
(*                                                                         *)
(* An alert is a record                                                    *)
(*   confidence : the webhook confidence after int(float(..)), 0 if absent;*)
(*                nothing caps it, nor the scores of the analyzers          *)
(*   severity   : the normalised severity, 1 to 3                          *)
(*   type       : "ransomware", "malware" (which stands for malware,       *)
(*                phishing and intrusion) or "other"                       *)
(*   mitre      : how many of its techniques are in HIGH_RISK_TECHNIQUES   *)
(*   event      : whether event_type contains "ransomware"                 *)
(*                                                                         *)
(* Evidence is a record                                                    *)
(*   analyzers  : for each Cortex analyzer the script reads, the score and *)
(*                verdict of its taxonomies                                *)
(*   misp, tenzir, network, loki : how many indicators each service found  *)
(*   critical   : how many distinct critical patterns Loki matched         *)
(***************************************************************************)
EXTENDS Integers, FiniteSets, FiniteSetsExt

\* The analyzers whose result the script reads.  VirusShare and the
\* dynamically wired analyzers are nodes of the workflow, but are not here.
Analyzers == {"cortex_hash", "cortex_ip", "dshield", "mnemonic_pdns",
              "googledns", "ipapi"}

\* The services whose answer the script finds: an HTTP node hands it on under
\* "body", and the section on Loki looks for "data" beside that.
Unwrapped == {"misp", "tenzir", "network"}

AnalyzerVerdicts == {"unknown", "suspicious", "malicious"}

Larger(x, y)  == IF x >= y THEN x ELSE y
Smaller(x, y) == IF x <= y THEN x ELSE y

-----------------------------------------------------------------------------
\* _parse_cortex_taxonomies.  A report is the answer to POST .../run: a job
\* status and, once the job is over, a set of taxonomies [level, value].
TaxonomyVerdict(levels) ==
    CASE "malicious" \in levels -> "malicious"
      [] "malicious" \notin levels /\ "suspicious" \in levels -> "suspicious"
      [] OTHER -> "unknown"

Unheard == [score |-> 0, verdict |-> "unknown"]

ParseTaxonomies(report) ==
    IF report.status # "Success"
    THEN Unheard
    ELSE [score   |-> Max({0} \cup {t.value : t \in report.taxonomies}),
          verdict |-> TaxonomyVerdict({t.level : t \in report.taxonomies})]

-----------------------------------------------------------------------------
\* score = min(100, score + bonus), which the script only reaches when the
\* source has something to add.
Add(score, bonus) == IF bonus > 0 THEN Smaller(100, score + bonus) ELSE score

SeverityScore(severity) ==
    CASE severity = 2 -> 40
      [] severity = 3 -> 60
      [] OTHER        -> 20

TypeBonus(type) ==
    CASE type = "ransomware" -> 25
      [] type = "malware"    -> 15
      [] OTHER               -> 0

\* Sections 1 to 4: what the alert says of itself.
BaseScore(alert) ==
    Add(Add(Larger(Larger(0, alert.confidence), SeverityScore(alert.severity)),
            TypeBonus(alert.type)),
        10 * alert.mitre)

\* Sections 5 and 5b.  The analyzer scores are not capped.
AnalyzerScore(score, found) ==
    Larger(Larger(Larger(Larger(Larger(Larger(score,
        found["cortex_hash"].score), found["cortex_ip"].score),
        found["dshield"].score), found["mnemonic_pdns"].score),
        found["googledns"].score), found["ipapi"].score)

\* Sections 6 to 10.
\* Mutant of LokiBonus: min(30, ..) is forgotten.
LokiBonusUncapped(n, c) == IF n > 0 THEN 3 * n + 10 * c ELSE 0

MispBonus(n)    == IF n > 0 THEN 15 ELSE 0
EventBonus(ev)  == IF ev THEN 10 ELSE 0
TenzirBonus(n)  == Smaller(25, 5 * n)
NetworkBonus(n) == Smaller(20, 5 * n)
LokiBonus(n, c) == IF n > 0 THEN Smaller(30, 3 * n + 10 * c) ELSE 0

Score(alert, ev) ==
    Add(Add(Add(Add(Add(AnalyzerScore(BaseScore(alert), ev.analyzers),
        MispBonus(ev.misp)), EventBonus(alert.event)),
        TenzirBonus(ev.tenzir)), NetworkBonus(ev.network)),
        LokiBonus(ev.loki, ev.critical))

-----------------------------------------------------------------------------
\* The verdict before the last section: the strongest analyzer verdict, and
\* "suspicious" as soon as another source has found something.
Malicious(ev) == \E a \in Analyzers : ev.analyzers[a].verdict = "malicious"

Suspicious(ev) ==
    \/ \E a \in Analyzers : ev.analyzers[a].verdict = "suspicious"
    \/ ev.misp > 0 \/ ev.tenzir > 0 \/ ev.network > 0
    \/ ev.loki > 0 /\ ev.critical > 0

\* The score decides the verdict only while no source has.
Verdict(alert, ev) ==
    CASE Malicious(ev)                                -> "malicious"
      [] ~Malicious(ev) /\ Suspicious(ev)             -> "suspicious"
      [] ~Malicious(ev) /\ ~Suspicious(ev) /\ Score(alert, ev) >= 80
                                                      -> "malicious"
      [] ~Malicious(ev) /\ ~Suspicious(ev) /\ Score(alert, ev) \in 50 .. 79
                                                      -> "suspicious"
      [] ~Malicious(ev) /\ ~Suspicious(ev) /\ Score(alert, ev) \in 1 .. 49
                                                      -> "safe"
      [] OTHER                                        -> "unknown"

\* Mutant of Decision: the score only counts while it is the verdict's source.
DecisionByVerdict(alert, ev) ==
    IF Verdict(alert, ev) = "malicious" THEN "contain" ELSE "observe"

\* Decision: contain (score>=80 or malicious) | observe
Decision(alert, ev) ==
    IF Score(alert, ev) >= 80 \/ Verdict(alert, ev) = "malicious"
    THEN "contain"
    ELSE "observe"

NoEvidence ==
    [analyzers |-> [a \in Analyzers |-> Unheard],
     misp |-> 0, tenzir |-> 0, network |-> 0, loki |-> 0, critical |-> 0]
=============================================================================
