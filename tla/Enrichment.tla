----------------------------- MODULE Enrichment -----------------------------
(***************************************************************************)
(* Evidence about one alert accumulates: the enrichment nodes of the       *)
(* playbook run in parallel, each service answers at most once and in any  *)
(* order, and a service that is down, or whose answer cannot be parsed,    *)
(* contributes nothing.  calc_decision is a function of what has been      *)
(* heard; this module asks how its outcome moves while evidence arrives.   *)
(***************************************************************************)
EXTENDS CalcDecision

CONSTANTS
    Alerts,      \* the normalised alerts considered
    Installed,   \* the Cortex analyzers that have a node in the workflow
    Reports,     \* the reports an analyzer may give
    Hits         \* how many indicators a service may find, when it finds any

ReportType ==
    [status : STRING, taxonomies : SUBSET [level : STRING, value : Int]]

\* The confidence of an alert and the values of taxonomies are meant to be
\* percentages, but nothing sees to it.
ASSUME AlertsAssumption ==
    Alerts \subseteq [confidence : Int, severity : 1 .. 3,
                      type : {"ransomware", "malware", "other"},
                      mitre : Nat, event : BOOLEAN]
ASSUME InstalledAssumption == Installed \subseteq Analyzers
ASSUME ReportsAssumption ==
    \A r \in Reports : ParseTaxonomies(r) \in
                           [score : Nat, verdict : AnalyzerVerdicts]
ASSUME HitsAssumption == Hits \subseteq Nat \ {0}

VARIABLES
    alert,       \* the alert under analysis
    evidence,    \* what calc_decision would read now
    waiting      \* the services that have not answered

vars == <<alert, evidence, waiting>>

Services == {"misp", "tenzir", "network", "loki"}

EvidenceType ==
    [analyzers : [Analyzers -> [score : Nat, verdict : AnalyzerVerdicts]],
     misp : Nat, tenzir : Nat, network : Nat, loki : Nat, critical : Nat]

TypeOK ==
    /\ alert \in Alerts
    /\ evidence \in EvidenceType
    /\ waiting \subseteq Installed \cup Services

-----------------------------------------------------------------------------
Init ==
    /\ alert \in Alerts
    /\ evidence = NoEvidence
    /\ waiting = Installed \cup Services

\* A Cortex analyzer node gets its answer.
AnalyzerAnswers(a) ==
    /\ a \in waiting \cap Installed
    /\ \E r \in Reports :
          evidence' = [evidence EXCEPT !.analyzers[a] = ParseTaxonomies(r)]
    /\ waiting' = waiting \ {a}
    /\ UNCHANGED alert

\* MISP, Tenzir or the network watcher reports n suspicious items.
ServiceAnswers(s) ==
    /\ s \in waiting \cap {"misp", "tenzir", "network"}
    /\ \E n \in Hits : evidence' = [evidence EXCEPT ![s] = n]
    /\ waiting' = waiting \ {s}
    /\ UNCHANGED alert

\* Loki returns n matching lines, with c distinct critical patterns in them,
\* in a result without an envelope: the script sees nothing in any other.
\* One line may match several patterns and each match counts.
LokiAnswers ==
    /\ "loki" \in waiting
    /\ \E n \in Hits, c \in Hits \cup {0} :
          /\ c <= n
          /\ evidence' = [evidence EXCEPT !.loki = n, !.critical = c]
    /\ waiting' = waiting \ {"loki"}
    /\ UNCHANGED alert

\* A service fails, or finds nothing.
NothingFound(s) ==
    /\ s \in waiting
    /\ waiting' = waiting \ {s}
    /\ UNCHANGED <<alert, evidence>>

Next ==
    \/ \E a \in Installed : AnalyzerAnswers(a)
    \/ \E s \in {"misp", "tenzir", "network"} : ServiceAnswers(s)
    \/ LokiAnswers
    \/ \E s \in Installed \cup Services : NothingFound(s)

Spec == Init /\ [][Next]_vars

-----------------------------------------------------------------------------
\* More evidence never lifts containment: whatever the order in which the
\* services answer, once what has been heard means "contain" nothing heard
\* later turns the decision back, although the verdict can go down (an
\* indicator turns one derived from the score into "suspicious"), and so can
\* a score above 100, which the next bonus cuts to 100.
ContainIsStable ==
    [][Decision(alert, evidence) = "contain"
         => Decision(alert, evidence)' = "contain"]_vars

Found(s) == evidence[s] > 0

\* No single indicator source convicts: as long as no analyzer has anything
\* to say and the alert by itself is worth less than 50, containment needs
\* indicators from at least two of MISP, Tenzir, the network watcher and Loki.
NoSingleServiceConvicts ==
    /\ BaseScore(alert) + EventBonus(alert.event) < 50
    /\ \A a \in Analyzers : evidence.analyzers[a] = Unheard
    /\ Decision(alert, evidence) = "contain"
    => \E s1, s2 \in Services : s1 # s2 /\ Found(s1) /\ Found(s2)
=============================================================================
