---------------------------- MODULE PlaybookProofs ----------------------------
(***************************************************************************)
(* Proofs about Playbook, for any executions, alerts, deployed nodes and   *)
(* number of faults: the type invariant, the safety invariants, and that   *)
(* an execution under way can go on and takes from what is left to it.     *)
(***************************************************************************)
EXTENDS Playbook, FiniteSetTheorems, TLAPS

\* The nodes that every workflow has.
Fixed == {"normalize_inputs", "thehive_create_case", "misp_create", "misp_search",
          "es_index", "calc_decision", "containment", "mark_false_positive",
          "notify_critical", "notify_info", "enrich_case", "es_index_metrics"}

\* The optional nodes are none of the others.
LEMMA OptionalNodes ==
    /\ \A e \in Execs : Deployed[e] \subseteq Nodes \ Fixed
    /\ Fixed \subseteq Nodes
<1>1. \A e \in Execs : Deployed[e] \subseteq D!Analyzers \cup Watchers \cup Attachments
  BY DeployedAssumption DEF DeployedAssumption
<1> QED BY <1>1 DEF Nodes, Fixed, D!Analyzers, Watchers, Attachments

\* What the script makes of its input is one of three messages.
LEMMA EvaluationType == \A e : Evaluation(e) \in {"contain", "observe", "garbled"}
BY DEF Evaluation, D!Decision

\* However a node ends, the record of the engine keeps its type.
LEMMA EngineType ==
    ASSUME TypeOK, NEW e \in Execs, NEW n \in Nodes,
           Done(e, n) \/ Fail(e, n) \/ Lose
    PROVE  done' \in [Execs -> SUBSET Nodes] /\ faults' \in 0 .. MaxFaults
<1>1. done \in [Execs -> SUBSET Nodes] /\ faults \in 0 .. MaxFaults
  BY DEF TypeOK
<1>2. done' \in [Execs -> SUBSET Nodes]
  BY <1>1 DEF Done, Fail, Lose, Store
<1>3. faults' \in 0 .. MaxFaults
  BY <1>1, MaxFaultsAssumption DEF Done, Fail, Lose, Fault, NoFault, MaxFaultsAssumption
<1> QED BY <1>2, <1>3

\* A case keeps its type when one of its flags is set.
LEMMA CaseType ==
    ASSUME NEW s \in Seq(Case), NEW i \in 1 .. Len(s)
    PROVE  /\ [s EXCEPT ![i].falsePositive = TRUE] \in Seq(Case)
           /\ Len([s EXCEPT ![i].falsePositive = TRUE]) = Len(s)
           /\ [s EXCEPT ![i].enriched = TRUE] \in Seq(Case)
           /\ Len([s EXCEPT ![i].enriched = TRUE]) = Len(s)
<1>1. s[i] \in Case
  OBVIOUS
<1>2. [s[i] EXCEPT !.falsePositive = TRUE] \in Case
      /\ [s[i] EXCEPT !.enriched = TRUE] \in Case
  BY <1>1 DEF Case
<1>3. \A c \in Case : [s EXCEPT ![i] = c] \in Seq(Case) /\ Len([s EXCEPT ![i] = c]) = Len(s)
  OBVIOUS
<1> QED BY <1>2, <1>3

\* Setting a flag of one case leaves the rest of every case as it is.
LEMMA CaseFlag ==
    ASSUME NEW s \in Seq(Case), NEW i \in 1 .. Len(s), NEW t,
           \/ t = [s EXCEPT ![i].falsePositive = TRUE]
           \/ t = [s EXCEPT ![i].enriched = TRUE]
    PROVE  /\ \A k \in 1 .. Len(s) : t[k].by = s[k].by
           /\ \A k \in 1 .. Len(s) : k # i => t[k] = s[k]
           /\ t = [s EXCEPT ![i].enriched = TRUE] => t[i].falsePositive = s[i].falsePositive
<1>1. s[i] \in Case
  OBVIOUS
<1>2. /\ [s[i] EXCEPT !.falsePositive = TRUE].by = s[i].by
      /\ [s[i] EXCEPT !.enriched = TRUE].by = s[i].by
      /\ [s[i] EXCEPT !.enriched = TRUE].falsePositive = s[i].falsePositive
  BY <1>1 DEF Case
<1>3. \A c : \A k \in 1 .. Len(s) : [s EXCEPT ![i] = c][k] = IF k = i THEN c ELSE s[k]
  OBVIOUS
<1>4. \E c : /\ t = [s EXCEPT ![i] = c] /\ c.by = s[i].by
             /\ t = [s EXCEPT ![i].enriched = TRUE] => c.falsePositive = s[i].falsePositive
  <2>1. CASE t = [s EXCEPT ![i].enriched = TRUE]
    BY <1>2, <2>1
  <2>2. CASE t # [s EXCEPT ![i].enriched = TRUE]
    BY <1>2, <2>2
  <2> QED BY <2>1, <2>2
<1> QED BY <1>3, <1>4

\* The initial state has the types.
LEMMA InitType == Init => TypeOK
<1> SUFFICES ASSUME Init PROVE TypeOK
  OBVIOUS
<1>1. cases \in Seq(Case) /\ caseOf \in [Execs -> 0 .. Len(cases)]
  BY DEF Init
<1>2. events \subseteq [alert : Alerts, by : Execs \cup {"feed"}]
  BY KnownAssumption DEF KnownAssumption, Init
<1>3. /\ decision \in [Execs -> {"none", "contain", "observe", "garbled"}]
      /\ containment \in [Execs -> {"none", "skipped", "ok", "empty"}]
      /\ notices \in [Execs -> SUBSET {"CRITICAL", "INFO"}]
      /\ status \in [Execs -> Statuses] /\ done \in [Execs -> SUBSET Nodes]
      /\ alertOf \in [Execs -> Alerts \cup {"none"}]
      /\ \A e \in Execs : status[e] # "NONE" => alertOf[e] \in Alerts
      /\ faults \in 0 .. MaxFaults
  BY MaxFaultsAssumption DEF MaxFaultsAssumption, Init, Statuses
<1>4. /\ answer \in [Execs -> [Watchers -> {"none", "suspicious", "malformed"}]]
      /\ taxonomy \in [Execs -> [D!Analyzers -> {"none", "info", "malicious"}]]
      /\ job \in [Execs -> [D!Analyzers -> {"none", "running", "info", "malicious"}]]
      /\ match \in [Execs -> BOOLEAN]
  BY DEF Init
<1> QED BY <1>1, <1>2, <1>3, <1>4 DEF Init, TypeOK

\* Every step keeps the types.
LEMMA NextType == TypeOK /\ [Next]_vars => TypeOK'
<1> SUFFICES ASSUME TypeOK, [Next]_vars PROVE TypeOK'
  OBVIOUS
<1> USE DEF engine, evidence, outcome, services
<1>1. ASSUME NEW e \in Execs, Deliver(e) PROVE TypeOK'
  BY <1>1 DEF Deliver, Statuses, TypeOK
<1>2. ASSUME NEW e \in Execs, Abort(e) PROVE TypeOK'
  <2>1. faults' \in 0 .. MaxFaults
    BY <1>2, MaxFaultsAssumption DEF Abort, Fault, TypeOK, MaxFaultsAssumption
  <2> QED BY <1>2, <2>1 DEF Abort, Statuses, TypeOK
<1>3. ASSUME NEW e \in Execs, Step(e) PROVE TypeOK'
  <2>f. Fixed \subseteq Nodes /\ Deployed[e] \subseteq Nodes
    BY OptionalNodes
  <2>1. CASE NormalizeInputs(e)
    <3>a. status \in [Execs -> Statuses] /\ done \in [Execs -> SUBSET Nodes]
      BY DEF TypeOK
    <3>b. "normalize_inputs" \in Nodes
      BY <2>f DEF Fixed
    <3>c. status' = [status EXCEPT ![e] = "ABORTED"] \/ status' = status
      BY <2>1 DEF NormalizeInputs
    <3>d. done' = done \/ done' = [done EXCEPT ![e] = @ \cup {"normalize_inputs"}]
      BY <2>1 DEF NormalizeInputs, Store
    <3>1. done' \in [Execs -> SUBSET Nodes] /\ status' \in [Execs -> Statuses]
      BY <3>a, <3>b, <3>c, <3>d DEF Statuses
    <3>2. \A u \in Execs : status'[u] # "NONE" => status[u] # "NONE"
      BY <2>1 DEF NormalizeInputs, Ready, TypeOK
    <3> QED BY <2>1, <3>1, <3>2 DEF NormalizeInputs, NoFault, TypeOK
  <2>2. CASE CreateCase(e)
    <3>1. NewCase(e) \in Case
      BY <2>2 DEF CreateCase, Ready, NewCase, Case, TypeOK
    <3>2. /\ cases' \in Seq(Case)
          /\ \/ Len(cases') = Len(cases) + 1
             \/ Len(cases') = Len(cases) /\ caseOf' = caseOf
      <4>1. cases \in Seq(Case)
        BY DEF TypeOK
      <4>2. cases' = Append(cases, NewCase(e)) \/ (cases' = cases /\ caseOf' = caseOf)
        BY <2>2 DEF CreateCase
      <4>3. \A c \in Case : /\ Append(cases, c) \in Seq(Case)
                             /\ Len(Append(cases, c)) = Len(cases) + 1
        BY <4>1
      <4> QED BY <3>1, <4>1, <4>2, <4>3
    <3>3. Len(cases) \in Nat /\ caseOf \in [Execs -> 0 .. Len(cases)]
      BY DEF TypeOK
    <3>4. caseOf' \in [Execs -> 0 .. Len(cases')]
      BY <2>2, <3>2, <3>3 DEF CreateCase
    <3>5. done' \in [Execs -> SUBSET Nodes] /\ faults' \in 0 .. MaxFaults
      BY <2>2, <2>f, EngineType DEF CreateCase, Fixed
    <3> QED BY <2>2, <3>2, <3>4, <3>5 DEF CreateCase, TypeOK
  <2>3. ASSUME NEW n \in Deployed[e] \cap Attachments, Attach(e, n) PROVE TypeOK'
    <3>1. done' \in [Execs -> SUBSET Nodes] /\ faults' \in 0 .. MaxFaults
      BY <2>3, <2>f, EngineType DEF Attach
    <3> QED BY <2>3, <3>1 DEF Attach, TypeOK
  <2>4. ASSUME NEW w \in Deployed[e] \cap Watchers, Watch(e, w) PROVE TypeOK'
    <3>1. done' \in [Execs -> SUBSET Nodes] /\ faults' \in 0 .. MaxFaults
      BY <2>4, <2>f, EngineType DEF Watch
    <3>2. answer' \in [Execs -> [Watchers -> {"none", "suspicious", "malformed"}]]
      BY <2>4 DEF Watch, TypeOK
    <3> QED BY <2>4, <3>1, <3>2 DEF Watch, TypeOK
  <2>5. ASSUME NEW a \in Deployed[e] \cap D!Analyzers, RunAnalyzer(e, a) PROVE TypeOK'
    <3>1. done' \in [Execs -> SUBSET Nodes] /\ faults' \in 0 .. MaxFaults
      BY <2>5, <2>f, EngineType DEF RunAnalyzer
    <3>2. job' \in [Execs -> [D!Analyzers -> {"none", "running", "info", "malicious"}]]
      <4>1. job \in [Execs -> [D!Analyzers -> {"none", "running", "info", "malicious"}]]
        BY DEF TypeOK
      <4>2. \/ job' = job
            \/ \E l \in {"running", "info", "malicious"} :
                  job' = [job EXCEPT ![e] = [@ EXCEPT ![a] = l]]
        BY <2>5 DEF RunAnalyzer
      <4> QED BY <4>1, <4>2
    <3>3. taxonomy' \in [Execs -> [D!Analyzers -> {"none", "info", "malicious"}]]
      <4>1. taxonomy \in [Execs -> [D!Analyzers -> {"none", "info", "malicious"}]]
        BY DEF TypeOK
      <4>2. \/ taxonomy' = taxonomy
            \/ \E l \in {"info", "malicious"} :
                  taxonomy' = [taxonomy EXCEPT ![e] = [@ EXCEPT ![a] = l]]
        BY <2>5 DEF RunAnalyzer
      <4> QED BY <4>1, <4>2
    <3> QED BY <2>5, <3>1, <3>2, <3>3 DEF RunAnalyzer, TypeOK
  <2>6. CASE MispCreate(e)
    <3>1. done' \in [Execs -> SUBSET Nodes] /\ faults' \in 0 .. MaxFaults
      BY <2>6, <2>f, EngineType DEF MispCreate, Fixed
    <3>2. events' \subseteq [alert : Alerts, by : Execs \cup {"feed"}]
      BY <2>6 DEF MispCreate, Ready, TypeOK
    <3> QED BY <2>6, <3>1, <3>2 DEF MispCreate, TypeOK
  <2>7. CASE MispSearch(e)
    <3>1. done' \in [Execs -> SUBSET Nodes] /\ faults' \in 0 .. MaxFaults
      BY <2>7, <2>f, EngineType DEF MispSearch, Fixed
    <3>2. match' \in [Execs -> BOOLEAN]
      <4>1. (\E v \in events : v.alert = alertOf[e]) \in BOOLEAN
        OBVIOUS
      <4>2. ASSUME NEW b \in BOOLEAN PROVE [match EXCEPT ![e] = b] \in [Execs -> BOOLEAN]
        BY ZenonT(20) DEF TypeOK
      <4>3. match \in [Execs -> BOOLEAN]
        BY DEF TypeOK
      <4> QED BY <2>7, <4>1, <4>2, <4>3, Zenon DEF MispSearch
    <3> QED BY <2>7, <3>1, <3>2 DEF MispSearch, TypeOK
  <2>8. CASE EsIndex(e)
    <3>1. done' \in [Execs -> SUBSET Nodes] /\ faults' \in 0 .. MaxFaults
      BY <2>8, <2>f, EngineType DEF EsIndex, Fixed
    <3>2. indexed' \subseteq Alerts
      BY <2>8 DEF EsIndex, Ready, TypeOK
    <3> QED BY <2>8, <3>1, <3>2 DEF EsIndex, TypeOK
  <2>9. CASE CalcDecision(e)
    <3>1. done' \in [Execs -> SUBSET Nodes] /\ faults' \in 0 .. MaxFaults
      BY <2>9, <2>f, EngineType DEF CalcDecision, Fixed
    <3>2. decision' \in [Execs -> {"none", "contain", "observe", "garbled"}]
      BY <2>9, EvaluationType DEF CalcDecision, TypeOK
    <3> QED BY <2>9, <3>1, <3>2 DEF CalcDecision, TypeOK
  <2>10. CASE Containment(e)
    <3>1. done' \in [Execs -> SUBSET Nodes] /\ faults' \in 0 .. MaxFaults
      BY <2>10, <2>f, EngineType DEF Containment, Fixed
    <3>2. containment' \in [Execs -> {"none", "skipped", "ok", "empty"}]
          /\ contained' \subseteq Execs
      BY <2>10 DEF Containment, TypeOK
    <3> QED BY <2>10, <3>1, <3>2 DEF Containment, TypeOK
  <2>11. CASE MarkFalsePositive(e)
    <3>1. done' \in [Execs -> SUBSET Nodes] /\ faults' \in 0 .. MaxFaults
      BY <2>11, <2>f, EngineType DEF MarkFalsePositive, Fixed
    <3>2. caseOf[e] # 0 => caseOf[e] \in 1 .. Len(cases)
      BY DEF TypeOK
    <3>3. cases' \in Seq(Case) /\ Len(cases') = Len(cases)
      <4>1. cases \in Seq(Case)
        BY DEF TypeOK
      <4>2. \/ cases' = cases
            \/ caseOf[e] # 0 /\ cases' = [cases EXCEPT ![caseOf[e]].falsePositive = TRUE]
        BY <2>11 DEF MarkFalsePositive, Resolves
      <4>3. CASE cases' = cases
        BY <4>1, <4>3
      <4>4. CASE caseOf[e] # 0 /\ cases' = [cases EXCEPT ![caseOf[e]].falsePositive = TRUE]
        <5>1. caseOf[e] \in 1 .. Len(cases)
          BY <3>2, <4>4
        <5> QED BY <4>1, <4>4, <5>1, CaseType
      <4> QED BY <4>2, <4>3, <4>4
    <3> QED BY <2>11, <3>1, <3>3 DEF MarkFalsePositive, TypeOK
  <2>12. CASE NotifyCritical(e) \/ NotifyInfo(e)
    <3>1. done' \in [Execs -> SUBSET Nodes] /\ faults' \in 0 .. MaxFaults
      BY <2>12, <2>f, EngineType DEF NotifyCritical, NotifyInfo, Fixed
    <3>2. notices' \in [Execs -> SUBSET {"CRITICAL", "INFO"}]
      <4>1. notices \in [Execs -> SUBSET {"CRITICAL", "INFO"}]
        BY DEF TypeOK
      <4>2. \E N \in SUBSET {"CRITICAL", "INFO"} :
               notices' = [notices EXCEPT ![e] = @ \cup N]
        BY <2>12 DEF NotifyCritical, NotifyInfo, CriticalNotice, InfoNotice
      <4> QED BY <4>1, <4>2
    <3> QED BY <2>12, <3>1, <3>2 DEF NotifyCritical, NotifyInfo, TypeOK
  <2>13. CASE EnrichCase(e)
    <3>1. done' \in [Execs -> SUBSET Nodes] /\ faults' \in 0 .. MaxFaults
      BY <2>13, <2>f, EngineType DEF EnrichCase, Fixed
    <3>2. caseOf[e] # 0 => caseOf[e] \in 1 .. Len(cases)
      BY DEF TypeOK
    <3>3. cases' \in Seq(Case) /\ Len(cases') = Len(cases)
      <4>1. cases \in Seq(Case)
        BY DEF TypeOK
      <4>2. \/ cases' = cases
            \/ caseOf[e] # 0 /\ cases' = [cases EXCEPT ![caseOf[e]].enriched = TRUE]
        BY <2>13 DEF EnrichCase
      <4>3. CASE cases' = cases
        BY <4>1, <4>3
      <4>4. CASE caseOf[e] # 0 /\ cases' = [cases EXCEPT ![caseOf[e]].enriched = TRUE]
        <5>1. caseOf[e] \in 1 .. Len(cases)
          BY <3>2, <4>4
        <5> QED BY <4>1, <4>4, <5>1, CaseType
      <4> QED BY <4>2, <4>3, <4>4
    <3> QED BY <2>13, <3>1, <3>3 DEF EnrichCase, TypeOK
  <2>14. CASE IndexMetrics(e)
    <3>1. done' \in [Execs -> SUBSET Nodes] /\ faults' \in 0 .. MaxFaults
      BY <2>14, <2>f, EngineType DEF IndexMetrics, Fixed
    <3>2. Document(e) \in MetricsDoc
      <4>1. alertOf[e] \in Alerts /\ caseOf[e] \in Nat
        BY <2>14 DEF IndexMetrics, Ready, TypeOK
      <4>2. Executed(e) \in BOOLEAN /\ decision[e] \in {"none", "contain", "observe", "garbled"}
        BY DEF Executed, TypeOK
      <4> QED BY <4>1, <4>2 DEF Document, MetricsDoc
    <3>3. metrics' \subseteq MetricsDoc
      BY <2>14, <3>2 DEF IndexMetrics, TypeOK
    <3>4. /\ status' \in [Execs -> Statuses]
          /\ \A u \in Execs : status'[u] # "NONE" => status[u] # "NONE"
      BY <2>14 DEF IndexMetrics, Ready, Statuses, TypeOK
    <3> QED BY <2>14, <3>1, <3>3, <3>4 DEF IndexMetrics, TypeOK
  <2> QED
    BY <1>3, <2>1, <2>2, <2>3, <2>4, <2>5, <2>6, <2>7, <2>8, <2>9, <2>10, <2>11,
       <2>12, <2>13, <2>14 DEF Step, Enrich, Respond
<1>4. ASSUME NEW e \in Execs, NEW a \in Deployed[e] \cap D!Analyzers, JobEnds(e, a)
      PROVE TypeOK'
  <2>1. job' \in [Execs -> [D!Analyzers -> {"none", "running", "info", "malicious"}]]
    BY <1>4 DEF JobEnds, TypeOK
  <2> QED BY <1>4, <2>1 DEF JobEnds, TypeOK
<1>5. CASE UNCHANGED vars
  BY <1>5 DEF vars, TypeOK
<1> QED BY <1>1, <1>2, <1>3, <1>4, <1>5 DEF Next

\* Every variable of the playbook always has its type.
THEOREM TypeCorrect == Spec => []TypeOK
BY InitType, NextType, PTL DEF Spec
-----------------------------------------------------------------------------
(***************************************************************************)
(* The inductive invariant.  Its core is Ordered: the results that are     *)
(* stored are closed under the branches of the workflow.  What a node saw  *)
(* is then still there when a later node acts on it (Decided, Truthful),   *)
(* and what was done to a case agrees with the decision of the execution   *)
(* that created it (Owned, Benign).                                        *)
(***************************************************************************)
Required(e, n) ==
    CASE n = "calc_decision"                            -> DecisionParents(e)
      [] n \in {"containment", "mark_false_positive"}   -> {"calc_decision"}
      [] n = "notify_critical"                          -> {"containment"}
      [] n = "notify_info"                              -> {"mark_false_positive"}
      [] n = "enrich_case"                              -> ClosingParents
      [] n = "es_index_metrics"                         -> {"enrich_case"}
      [] OTHER                                          -> {}

Ordered(e) ==
    /\ status[e] = "NONE" => done[e] = {}
    /\ \A n \in done[e] : Required(e, n) \subseteq done[e]
    /\ status[e] = "FINISHED" => "es_index_metrics" \in done[e]

Decided(e) ==
    /\ decision[e] = "none" <=> "calc_decision" \notin done[e]
    /\ decision[e] # "none" => decision[e] = Evaluation(e)

Acted(e) ==
    /\ e \in contained => decision[e] = "contain"
    /\ containment[e] = "ok" => e \in contained
    /\ "CRITICAL" \in notices[e] <=> "notify_critical" \in done[e] /\ decision[e] = "contain"
    /\ "INFO" \in notices[e] <=> "notify_info" \in done[e] /\ decision[e] # "contain"

Owned(e) == caseOf[e] # 0 => cases[caseOf[e]].by = e

Benign(c) == c.falsePositive => decision[c.by] \in {"observe", "garbled"}

Truthful(m) ==
    /\ "enrich_case" \in done[m.by]
    /\ m.contained <=> containment[m.by] = "ok"
    /\ m.decision = decision[m.by]

Executions == \A e \in Execs : Ordered(e) /\ Decided(e) /\ Acted(e) /\ Owned(e)
Records ==
    /\ \A i \in 1 .. Len(cases) : Benign(cases[i])
    /\ \A m \in metrics : Truthful(m)
    /\ OneMetricsDocPerAlert

IInv == TypeOK /\ Executions /\ Records

\* The evaluation of an execution only depends on its own record.
LEMMA EvaluationFrame ==
    ASSUME NEW u \in Execs,
           alertOf'[u] = alertOf[u], answer'[u] = answer[u],
           match'[u] = match[u], taxonomy'[u] = taxonomy[u]
    PROVE  Evaluation(u)' = Evaluation(u)
<1>1. Evidence(u)' = Evidence(u)
  BY DEF Evidence, Heard, Hits, Matches
<1>2. Raises(u)' <=> Raises(u)
  BY DEF Raises
<1> QED BY <1>1, <1>2 DEF Evaluation

\* Storing a result whose branches have reported keeps the record closed.
LEMMA StoreOrdered ==
    ASSUME TypeOK, \A u \in Execs : Ordered(u),
           NEW e \in Execs, NEW n \in Nodes, NEW P, Ready(e, n, P),
           Required(e, n) \subseteq P,
           Store(e, n) \/ UNCHANGED done,
           \/ UNCHANGED status
           \/ status' = [status EXCEPT ![e] = "ABORTED"]
           \/ /\ n = "es_index_metrics" /\ Store(e, n)
              /\ status' = [status EXCEPT ![e] = "FINISHED"],
           NEW u \in Execs
    PROVE  Ordered(u)'
<1>1. \A k : Required(u, k)' = Required(u, k)
  BY DEF Required, DecisionParents, ClosingParents
<1>2. done' = done \/ done' = [done EXCEPT ![e] = @ \cup {n}]
  BY DEF Store
<1>3. Required(e, n) \subseteq done[e] /\ status[e] = "EXECUTING"
  BY DEF Ready
<1>4. status \in [Execs -> Statuses] /\ done \in [Execs -> SUBSET Nodes]
  BY DEF TypeOK
<1>5. (\A k \in done[u] : Required(u, k) \subseteq done[u])
         => \A k \in done'[u] : Required(u, k) \subseteq done'[u]
  BY <1>2, <1>3, <1>4
<1>6. (status[u] = "NONE" => done[u] = {}) => (status'[u] = "NONE" => done'[u] = {})
  BY <1>2, <1>3, <1>4 DEF Store
<1>7. (status[u] = "FINISHED" => "es_index_metrics" \in done[u])
         => (status'[u] = "FINISHED" => "es_index_metrics" \in done'[u])
  BY <1>2, <1>3, <1>4 DEF Store
<1> QED BY <1>1, <1>5, <1>6, <1>7 DEF Ordered

\* A node that is stored has not run before, and is not needed before.
LEMMA DecisionFrame ==
    ASSUME TypeOK, \A u \in Execs : Ordered(u) /\ Decided(u),
           NEW e \in Execs, NEW n \in DecisionParents(e), NEW P, Ready(e, n, P)
    PROVE  decision[e] = "none" /\ "calc_decision" \notin done[e]
<1>1. Required(e, "calc_decision") = DecisionParents(e)
  BY DEF Required
<1> QED BY <1>1 DEF Ordered, Decided, Ready

-----------------------------------------------------------------------------
(***************************************************************************)
(* The invariant is inductive: one lemma for each of its parts.            *)
(***************************************************************************)
LEMMA InitIInv == Init => IInv
<1> SUFFICES ASSUME Init PROVE IInv
  OBVIOUS
<1>1. Executions
  BY DEF Init, Executions, Ordered, Decided, Acted, Owned
<1>2. Records
  BY DEF Init, Records, OneMetricsDocPerAlert
<1> QED BY <1>1, <1>2, InitType DEF IInv

\* Every node waits at least for the nodes that it is said to require.
LEMMA NextOrdered ==
    ASSUME TypeOK, Executions, [Next]_vars, NEW u \in Execs
    PROVE  Ordered(u)'
<1> USE DEF engine, evidence, outcome, services
<1>o. \A v \in Execs : Ordered(v)
  BY DEF Executions
<1>t. status \in [Execs -> Statuses]
  BY DEF TypeOK
<1>f. ASSUME UNCHANGED done, (status'[u] = status[u]) \/ (status[u] # "NONE" /\ status'[u] = "ABORTED")
                             \/ (status'[u] = "EXECUTING")
      PROVE Ordered(u)'
  BY <1>o, <1>f DEF Ordered, Required, DecisionParents, ClosingParents
<1>1. ASSUME NEW e \in Execs, Deliver(e) \/ Abort(e) PROVE Ordered(u)'
  <2>1. UNCHANGED done /\ (status'[u] = status[u] \/ status'[u] = "EXECUTING"
                           \/ (status[u] # "NONE" /\ status'[u] = "ABORTED"))
    BY <1>1, <1>t DEF Deliver, Abort
  <2> QED BY <2>1, <1>f
<1>2. ASSUME NEW e \in Execs, Step(e) PROVE Ordered(u)'
  <2>f. Fixed \subseteq Nodes /\ Deployed[e] \subseteq Nodes \ Fixed
    BY OptionalNodes
  <2>r. \A n \in Deployed[e] : Required(e, n) = {}
    BY <2>f DEF Required, Fixed
  <2> USE DEF Done, Fail, Lose, Fixed
  <2>1. CASE NormalizeInputs(e)
    BY <2>1, <2>f, <1>o, StoreOrdered DEF NormalizeInputs, Required
  <2>2. CASE CreateCase(e)
    BY <2>2, <2>f, <1>o, StoreOrdered DEF CreateCase, Required
  <2>3. ASSUME NEW n \in Deployed[e] \cap Attachments, Attach(e, n) PROVE Ordered(u)'
    BY <2>3, <2>f, <2>r, <1>o, StoreOrdered DEF Attach
  <2>4. ASSUME NEW w \in Deployed[e] \cap Watchers, Watch(e, w) PROVE Ordered(u)'
    BY <2>4, <2>f, <2>r, <1>o, StoreOrdered DEF Watch
  <2>5. ASSUME NEW a \in Deployed[e] \cap D!Analyzers, RunAnalyzer(e, a) PROVE Ordered(u)'
    BY <2>5, <2>f, <2>r, <1>o, StoreOrdered DEF RunAnalyzer
  <2>6. CASE MispCreate(e)
    BY <2>6, <2>f, <1>o, StoreOrdered DEF MispCreate, Required
  <2>7. CASE MispSearch(e)
    BY <2>7, <2>f, <1>o, StoreOrdered DEF MispSearch, Required
  <2>8. CASE EsIndex(e)
    BY <2>8, <2>f, <1>o, StoreOrdered DEF EsIndex, Required
  <2>9. CASE CalcDecision(e)
    BY <2>9, <2>f, <1>o, StoreOrdered DEF CalcDecision, Required
  <2>10. CASE Containment(e)
    BY <2>10, <2>f, <1>o, StoreOrdered DEF Containment, Required
  <2>11. CASE MarkFalsePositive(e)
    BY <2>11, <2>f, <1>o, StoreOrdered DEF MarkFalsePositive, Required
  <2>12. CASE NotifyCritical(e)
    BY <2>12, <2>f, <1>o, StoreOrdered DEF NotifyCritical, Required
  <2>13. CASE NotifyInfo(e)
    BY <2>13, <2>f, <1>o, StoreOrdered DEF NotifyInfo, Required
  <2>14. CASE EnrichCase(e)
    BY <2>14, <2>f, <1>o, StoreOrdered DEF EnrichCase, Required
  <2>15. CASE IndexMetrics(e)
    BY <2>15, <2>f, <1>o, StoreOrdered DEF IndexMetrics, Required
  <2> QED
    BY <1>2, <2>1, <2>2, <2>3, <2>4, <2>5, <2>6, <2>7, <2>8, <2>9, <2>10, <2>11,
       <2>12, <2>13, <2>14, <2>15 DEF Step, Enrich, Respond
<1>3. ASSUME NEW e \in Execs, NEW a \in D!Analyzers, JobEnds(e, a) PROVE Ordered(u)'
  BY <1>3, <1>f DEF JobEnds
<1>4. CASE UNCHANGED vars
  BY <1>4, <1>f DEF vars
<1> QED BY <1>1, <1>2, <1>3, <1>4 DEF Next

\* No evidence that the decision read changes after it.
LEMMA NextDecided ==
    ASSUME TypeOK, Executions, [Next]_vars, NEW u \in Execs
    PROVE  Decided(u)'
<1> USE DEF engine, evidence, outcome, services
<1>o. \A v \in Execs : Ordered(v) /\ Decided(v)
  BY DEF Executions
<1>t. /\ done \in [Execs -> SUBSET Nodes] /\ DOMAIN decision = Execs
      /\ DOMAIN alertOf = Execs /\ DOMAIN answer = Execs
      /\ DOMAIN match = Execs /\ DOMAIN taxonomy = Execs
  BY DEF TypeOK
\* Either the evidence of u does not change, or u has not decided.
<1>f. ASSUME decision'[u] = decision[u],
             "calc_decision" \in done'[u] <=> "calc_decision" \in done[u],
             \/ /\ alertOf'[u] = alertOf[u] /\ answer'[u] = answer[u]
                /\ match'[u] = match[u] /\ taxonomy'[u] = taxonomy[u]
             \/ decision[u] = "none"
      PROVE  Decided(u)'
  BY <1>f, <1>o, EvaluationFrame DEF Decided
<1>1. ASSUME NEW e \in Execs, Deliver(e) PROVE Decided(u)'
  <2>1. e = u => decision[u] = "none"
    BY <1>1, <1>o DEF Deliver, Ordered, Decided
  <2> QED BY <1>1, <1>t, <1>f, <2>1 DEF Deliver
<1>2. ASSUME NEW e \in Execs, Abort(e) PROVE Decided(u)'
  BY <1>2, <1>f DEF Abort
<1>3. ASSUME NEW e \in Execs, Step(e) PROVE Decided(u)'
  <2> USE DEF Done, Fail, Lose, Store
  <2>f. Deployed[e] \subseteq Nodes \ Fixed
    BY OptionalNodes
  <2>1. CASE NormalizeInputs(e)
    BY <2>1, <1>t, <1>f DEF NormalizeInputs
  <2>2. CASE CreateCase(e)
    BY <2>2, <1>t, <1>f DEF CreateCase
  <2>3. ASSUME NEW n \in Deployed[e] \cap Attachments, Attach(e, n) PROVE Decided(u)'
    BY <2>3, <2>f, <1>t, <1>f DEF Attach, Fixed
  <2>4. ASSUME NEW w \in Deployed[e] \cap Watchers, Watch(e, w) PROVE Decided(u)'
    <3>1. decision[e] = "none"
      BY <2>4, <1>o, DecisionFrame DEF Watch, DecisionParents
    <3> QED BY <2>4, <2>f, <3>1, <1>t, <1>f DEF Watch, Fixed
  <2>5. ASSUME NEW a \in Deployed[e] \cap D!Analyzers, RunAnalyzer(e, a) PROVE Decided(u)'
    <3>1. decision[e] = "none"
      BY <2>5, <1>o, DecisionFrame DEF RunAnalyzer, DecisionParents
    <3> QED BY <2>5, <2>f, <3>1, <1>t, <1>f DEF RunAnalyzer, Fixed
  <2>6. CASE MispCreate(e)
    BY <2>6, <1>t, <1>f DEF MispCreate
  <2>7. CASE MispSearch(e)
    <3>1. decision[e] = "none"
      BY <2>7, <1>o, DecisionFrame DEF MispSearch, DecisionParents
    <3> QED BY <2>7, <3>1, <1>t, <1>f DEF MispSearch
  <2>8. CASE EsIndex(e)
    BY <2>8, <1>t, <1>f DEF EsIndex
  <2>9. CASE CalcDecision(e)
    <3>1. Evaluation(u)' = Evaluation(u)
      BY <2>9, EvaluationFrame DEF CalcDecision
    <3>2. CASE u = e
      BY <2>9, <3>1, <3>2, <1>t, EvaluationType DEF CalcDecision, Decided
    <3>3. CASE u # e
      BY <2>9, <3>3, <1>t, <1>f DEF CalcDecision
    <3> QED BY <3>2, <3>3
  <2>10. CASE Containment(e)
    BY <2>10, <1>t, <1>f DEF Containment
  <2>11. CASE MarkFalsePositive(e)
    BY <2>11, <1>t, <1>f DEF MarkFalsePositive
  <2>12. CASE NotifyCritical(e)
    BY <2>12, <1>t, <1>f DEF NotifyCritical
  <2>13. CASE NotifyInfo(e)
    BY <2>13, <1>t, <1>f DEF NotifyInfo
  <2>14. CASE EnrichCase(e)
    BY <2>14, <1>t, <1>f DEF EnrichCase
  <2>15. CASE IndexMetrics(e)
    BY <2>15, <1>t, <1>f DEF IndexMetrics
  <2> QED
    BY <1>3, <2>1, <2>2, <2>3, <2>4, <2>5, <2>6, <2>7, <2>8, <2>9, <2>10, <2>11,
       <2>12, <2>13, <2>14, <2>15 DEF Step, Enrich, Respond
<1>4. ASSUME NEW e \in Execs, NEW a \in D!Analyzers, JobEnds(e, a) PROVE Decided(u)'
  BY <1>4, <1>f DEF JobEnds
<1>5. CASE UNCHANGED vars
  BY <1>5, <1>f DEF vars
<1> QED BY <1>1, <1>2, <1>3, <1>4, <1>5 DEF Next

\* The order of the response nodes, read off a closed record.
LEMMA Chain ==
    ASSUME NEW e \in Execs, Ordered(e)
    PROVE  /\ "containment" \in done[e] => "calc_decision" \in done[e]
           /\ "mark_false_positive" \in done[e] => "calc_decision" \in done[e]
           /\ "notify_critical" \in done[e] => "containment" \in done[e]
           /\ "notify_info" \in done[e] => "mark_false_positive" \in done[e]
           /\ "enrich_case" \in done[e] => {"notify_critical", "notify_info"} \subseteq done[e]
           /\ "es_index_metrics" \in done[e] => "enrich_case" \in done[e]
BY DEF Ordered, Required, ClosingParents

\* The response nodes of an execution act as its decision says.
LEMMA NextActed ==
    ASSUME TypeOK, Executions, [Next]_vars, NEW u \in Execs
    PROVE  Acted(u)'
<1> USE DEF engine, evidence, outcome, services
<1>o. \A v \in Execs : Ordered(v) /\ Decided(v) /\ Acted(v)
  BY DEF Executions
<1>t. /\ done \in [Execs -> SUBSET Nodes] /\ DOMAIN decision = Execs
      /\ DOMAIN containment = Execs /\ DOMAIN notices = Execs
  BY DEF TypeOK
<1>f. ASSUME decision'[u] = decision[u], containment'[u] = containment[u],
             notices'[u] = notices[u], u \in contained' <=> u \in contained,
             "notify_critical" \in done'[u] <=> "notify_critical" \in done[u],
             "notify_info" \in done'[u] <=> "notify_info" \in done[u]
      PROVE  Acted(u)'
  BY <1>f, <1>o DEF Acted
<1>1. ASSUME NEW e \in Execs, Deliver(e) \/ Abort(e) PROVE Acted(u)'
  BY <1>1, <1>f DEF Deliver, Abort
<1>2. ASSUME NEW e \in Execs, Step(e) PROVE Acted(u)'
  <2> USE DEF Done, Fail, Lose, Store
  <2>f. Deployed[e] \subseteq Nodes \ Fixed
    BY OptionalNodes
  <2>1. CASE NormalizeInputs(e)
    BY <2>1, <1>t, <1>f DEF NormalizeInputs
  <2>2. CASE CreateCase(e)
    BY <2>2, <1>t, <1>f DEF CreateCase
  <2>3. ASSUME NEW n \in Deployed[e] \cap Attachments, Attach(e, n) PROVE Acted(u)'
    BY <2>3, <2>f, <1>t, <1>f DEF Attach, Fixed
  <2>4. ASSUME NEW w \in Deployed[e] \cap Watchers, Watch(e, w) PROVE Acted(u)'
    BY <2>4, <2>f, <1>t, <1>f DEF Watch, Fixed
  <2>5. ASSUME NEW a \in Deployed[e] \cap D!Analyzers, RunAnalyzer(e, a) PROVE Acted(u)'
    BY <2>5, <2>f, <1>t, <1>f DEF RunAnalyzer, Fixed
  <2>6. CASE MispCreate(e) \/ MispSearch(e) \/ EsIndex(e)
    BY <2>6, <1>t, <1>f DEF MispCreate, MispSearch, EsIndex
  <2>7. CASE CalcDecision(e)
    <3>1. /\ decision[e] = "none" /\ "notify_critical" \notin done[e]
          /\ "notify_info" \notin done[e]
      BY <2>7, <1>o, Chain DEF CalcDecision, Ready, Decided
    <3>2. /\ e \notin contained /\ containment[e] # "ok" /\ notices[e] \cap {"CRITICAL", "INFO"} = {}
      BY <3>1, <1>o DEF Acted
    <3>3. CASE u = e
      BY <2>7, <3>1, <3>2, <3>3, <1>t DEF CalcDecision, Acted
    <3>4. CASE u # e
      BY <2>7, <3>4, <1>t, <1>f DEF CalcDecision
    <3> QED BY <3>3, <3>4
  <2>8. CASE Containment(e)
    <3>1. CASE u = e
      BY <2>8, <3>1, <1>o, <1>t DEF Containment, Contain, Acted
    <3>2. CASE u # e
      BY <2>8, <3>2, <1>t, <1>f DEF Containment
    <3> QED BY <3>1, <3>2
  <2>9. CASE NotifyCritical(e)
    <3>1. CASE u = e
      BY <2>9, <3>1, <1>o, <1>t DEF NotifyCritical, CriticalNotice, Contain, Ready, Acted
    <3>2. CASE u # e
      BY <2>9, <3>2, <1>t, <1>f DEF NotifyCritical
    <3> QED BY <3>1, <3>2
  <2>10. CASE NotifyInfo(e)
    <3>1. CASE u = e
      BY <2>10, <3>1, <1>o, <1>t DEF NotifyInfo, InfoNotice, Observe, Ready, Acted
    <3>2. CASE u # e
      BY <2>10, <3>2, <1>t, <1>f DEF NotifyInfo
    <3> QED BY <3>1, <3>2
  <2>11. CASE MarkFalsePositive(e) \/ EnrichCase(e) \/ IndexMetrics(e)
    BY <2>11, <1>t, <1>f DEF MarkFalsePositive, EnrichCase, IndexMetrics
  <2> QED
    BY <1>2, <2>1, <2>2, <2>3, <2>4, <2>5, <2>6, <2>7, <2>8, <2>9, <2>10, <2>11
       DEF Step, Enrich, Respond
<1>3. ASSUME NEW e \in Execs, NEW a \in D!Analyzers, JobEnds(e, a) PROVE Acted(u)'
  BY <1>3, <1>f DEF JobEnds
<1>4. CASE UNCHANGED vars
  BY <1>4, <1>f DEF vars
<1> QED BY <1>1, <1>2, <1>3, <1>4 DEF Next

\* How a step changes the cases: it adds one of its own execution, or sets a
\* flag of the case of its own execution, as a false positive only if the
\* decision is not to contain.
LEMMA CaseChange ==
    ASSUME TypeOK, Executions, [Next]_vars
    PROVE  \/ UNCHANGED <<cases, caseOf>>
           \/ \E e \in Execs :
                 /\ cases' = Append(cases, NewCase(e))
                 /\ \/ UNCHANGED caseOf
                    \/ caseOf' = [caseOf EXCEPT ![e] = Len(cases) + 1]
           \/ \E e \in Execs :
                 /\ UNCHANGED caseOf
                 /\ caseOf[e] # 0 /\ cases[caseOf[e]].by = e
                 /\ \/ cases' = [cases EXCEPT ![caseOf[e]].enriched = TRUE]
                    \/ /\ cases' = [cases EXCEPT ![caseOf[e]].falsePositive = TRUE]
                       /\ decision[e] \in {"observe", "garbled"}
<1> USE DEF engine, evidence, outcome, services
<1>1. ASSUME NEW e \in Execs, CreateCase(e)
      PROVE  /\ cases' = Append(cases, NewCase(e)) \/ UNCHANGED <<cases, caseOf>>
             /\ UNCHANGED caseOf \/ caseOf' = [caseOf EXCEPT ![e] = Len(cases) + 1]
  BY <1>1 DEF CreateCase
<1>2. ASSUME NEW e \in Execs, MarkFalsePositive(e)
      PROVE  /\ UNCHANGED caseOf
             /\ \/ UNCHANGED cases
                \/ /\ caseOf[e] # 0 /\ cases[caseOf[e]].by = e
                   /\ cases' = [cases EXCEPT ![caseOf[e]].falsePositive = TRUE]
                   /\ decision[e] \in {"observe", "garbled"}
  <2>1. "calc_decision" \in done[e]
    BY <1>2 DEF MarkFalsePositive, Ready
  <2>2. decision[e] \in {"contain", "observe", "garbled"}
    BY <2>1 DEF Executions, Decided, TypeOK
  <2>3. UNCHANGED caseOf /\ (UNCHANGED cases \/ (Resolves(e)
           /\ cases' = [cases EXCEPT ![caseOf[e]].falsePositive = TRUE]))
    BY <1>2 DEF MarkFalsePositive
  <2>4. Owned(e)
    BY DEF Executions
  <2> QED BY <2>2, <2>3, <2>4 DEF Resolves, Observe, Owned
<1>3. ASSUME NEW e \in Execs, EnrichCase(e)
      PROVE  /\ UNCHANGED caseOf
             /\ \/ UNCHANGED cases
                \/ /\ caseOf[e] # 0 /\ cases[caseOf[e]].by = e
                   /\ cases' = [cases EXCEPT ![caseOf[e]].enriched = TRUE]
  BY <1>3 DEF EnrichCase, Executions, Owned
<1>4. ASSUME NEW e \in Execs, Step(e),
             ~(CreateCase(e) \/ MarkFalsePositive(e) \/ EnrichCase(e))
      PROVE  UNCHANGED <<cases, caseOf>>
  BY <1>4 DEF Step, Enrich, Respond, NormalizeInputs, Attach, Watch, RunAnalyzer,
     MispCreate, MispSearch, EsIndex, CalcDecision, Containment, NotifyCritical,
     NotifyInfo, IndexMetrics
<1>5. ASSUME NEW e \in Execs,
             \/ Deliver(e) \/ Abort(e)
             \/ \E a \in Deployed[e] \cap D!Analyzers : JobEnds(e, a)
      PROVE  UNCHANGED <<cases, caseOf>>
  BY <1>5 DEF Deliver, Abort, JobEnds
<1>6. CASE UNCHANGED vars
  BY <1>6 DEF vars
<1>7. CASE \E e \in Execs : Step(e)
  <2> PICK e \in Execs : Step(e)
    BY <1>7
  <2>1. CASE CreateCase(e)
    BY <1>1, <2>1
  <2>2. CASE MarkFalsePositive(e)
    BY <1>2, <2>2
  <2>3. CASE EnrichCase(e)
    BY <1>3, <2>3
  <2> QED BY <1>4, <2>1, <2>2, <2>3
<1> QED BY <1>5, <1>6, <1>7 DEF Next

\* A decision, once taken, is never changed.
LEMMA DecisionStable ==
    ASSUME TypeOK, Executions, [Next]_vars, NEW u \in Execs, decision[u] # "none"
    PROVE  decision'[u] = decision[u]
<1> USE DEF engine, evidence, outcome, services
<1>1. ASSUME NEW e \in Execs, CalcDecision(e) PROVE decision'[u] = decision[u]
  <2>1. decision[e] = "none" /\ DOMAIN decision = Execs
    BY <1>1 DEF CalcDecision, Ready, Executions, Decided, TypeOK
  <2> QED BY <1>1, <2>1 DEF CalcDecision
<1>2. ASSUME NEW e \in Execs, Step(e), ~CalcDecision(e) PROVE UNCHANGED decision
  BY <1>2 DEF Step, Enrich, Respond, NormalizeInputs, CreateCase, Attach, Watch,
     RunAnalyzer, MispCreate, MispSearch, EsIndex, Containment, MarkFalsePositive,
     NotifyCritical, NotifyInfo, EnrichCase, IndexMetrics
<1>3. ASSUME NEW e \in Execs,
             \/ Deliver(e) \/ Abort(e)
             \/ \E a \in Deployed[e] \cap D!Analyzers : JobEnds(e, a)
      PROVE  UNCHANGED decision
  BY <1>3 DEF Deliver, Abort, JobEnds
<1>4. CASE UNCHANGED vars
  BY <1>4 DEF vars
<1> QED BY <1>1, <1>2, <1>3, <1>4 DEF Next

\* An execution refers to a case that it created itself.
LEMMA NextOwned ==
    ASSUME TypeOK, Executions, [Next]_vars, NEW u \in Execs
    PROVE  Owned(u)'
<1>1. /\ cases \in Seq(Case) /\ caseOf \in [Execs -> 0 .. Len(cases)]
      /\ Len(cases) \in Nat
  BY DEF TypeOK
<1>2. caseOf[u] # 0 => caseOf[u] \in 1 .. Len(cases) /\ cases[caseOf[u]].by = u
  BY <1>1 DEF Executions, Owned
<1>3. CASE UNCHANGED <<cases, caseOf>>
  BY <1>2, <1>3 DEF Owned
<1>4. ASSUME NEW e \in Execs, cases' = Append(cases, NewCase(e)),
             UNCHANGED caseOf \/ caseOf' = [caseOf EXCEPT ![e] = Len(cases) + 1]
      PROVE  Owned(u)'
  <2>1. cases'[Len(cases) + 1].by = e
    BY <1>1, <1>4 DEF NewCase
  <2>2. \A i \in 1 .. Len(cases) : cases'[i] = cases[i]
    BY <1>1, <1>4
  <2>3. caseOf'[u] = caseOf[u] \/ (u = e /\ caseOf'[u] = Len(cases) + 1)
    BY <1>1, <1>4
  <2> QED BY <1>2, <2>1, <2>2, <2>3 DEF Owned
<1>5. ASSUME NEW e \in Execs, UNCHANGED caseOf,
             caseOf[e] # 0, cases[caseOf[e]].by = e,
             \/ cases' = [cases EXCEPT ![caseOf[e]].enriched = TRUE]
             \/ cases' = [cases EXCEPT ![caseOf[e]].falsePositive = TRUE]
      PROVE  Owned(u)'
  <2>c. caseOf[e] \in 1 .. Len(cases)
    BY <1>1, <1>5
  <2>1. \A i \in 1 .. Len(cases) : cases'[i].by = cases[i].by
    BY <1>1, <1>5, <2>c, CaseFlag
  <2> QED BY <1>2, <1>5, <2>1 DEF Owned
<1> QED BY <1>3, <1>4, <1>5, CaseChange

\* Only a case of an execution that does not contain is benign.
LEMMA NextBenign ==
    ASSUME TypeOK, Executions, Records, [Next]_vars, NEW i \in 1 .. Len(cases')
    PROVE  Benign(cases[i])'
<1>1. cases \in Seq(Case) /\ caseOf \in [Execs -> 0 .. Len(cases)] /\ Len(cases) \in Nat
  BY DEF TypeOK
<1>2. \A j \in 1 .. Len(cases) : Benign(cases[j]) /\ cases[j].by \in Execs
  <2> TAKE j \in 1 .. Len(cases)
  <2>1. cases[j] \in Case
    BY <1>1
  <2> QED BY <2>1 DEF Records, Case
<1>3. \A v \in Execs : decision[v] \in {"observe", "garbled"}
         => decision'[v] \in {"observe", "garbled"}
  BY DecisionStable
<1>4. CASE UNCHANGED <<cases, caseOf>>
  BY <1>2, <1>3, <1>4 DEF Benign
<1>5. ASSUME NEW e \in Execs, cases' = Append(cases, NewCase(e))
      PROVE  Benign(cases[i])'
  <2>1. CASE i = Len(cases) + 1
    BY <1>1, <1>5, <2>1 DEF NewCase, Benign
  <2>2. CASE i \in 1 .. Len(cases)
    <3>1. cases'[i] = cases[i]
      BY <1>1, <1>5, <2>2
    <3> QED BY <1>2, <1>3, <2>2, <3>1 DEF Benign
  <2>3. Len(cases') = Len(cases) + 1
    BY <1>1, <1>5
  <2> QED BY <1>1, <2>1, <2>2, <2>3
<1>6. ASSUME NEW e \in Execs, caseOf[e] # 0, cases[caseOf[e]].by = e,
             \/ cases' = [cases EXCEPT ![caseOf[e]].enriched = TRUE]
             \/ /\ cases' = [cases EXCEPT ![caseOf[e]].falsePositive = TRUE]
                /\ decision[e] \in {"observe", "garbled"}
      PROVE  Benign(cases[i])'
  <2>c. caseOf[e] \in 1 .. Len(cases)
    BY <1>1, <1>6
  <2>1. i \in 1 .. Len(cases)
    BY <1>1, <1>6, <2>c, CaseType
  <2>2. cases'[i].by = cases[i].by
    BY <1>1, <1>6, <2>c, <2>1, CaseFlag
  <2>3. i # caseOf[e] => cases'[i] = cases[i]
    BY <1>1, <1>6, <2>c, <2>1, CaseFlag
  <2>4. i = caseOf[e] => \/ cases'[i].falsePositive = cases[i].falsePositive
                         \/ decision[e] \in {"observe", "garbled"}
    BY <1>1, <1>6, <2>c, CaseFlag
  <2> QED BY <1>2, <1>3, <1>6, <2>1, <2>2, <2>3, <2>4 DEF Benign
<1> QED BY <1>4, <1>5, <1>6, CaseChange

\* What a metrics document says of an execution stays true, and a new
\* document replaces those of the same alert.
LEMMA NextMetrics ==
    ASSUME TypeOK, Executions, Records, [Next]_vars
    PROVE  (\A m \in metrics : Truthful(m))' /\ OneMetricsDocPerAlert'
<1> USE DEF engine, evidence, outcome, services
<1>t. /\ \A m \in metrics : m.by \in Execs /\ Truthful(m)
      /\ DOMAIN containment = Execs /\ done \in [Execs -> SUBSET Nodes]
  BY DEF TypeOK, MetricsDoc, Records
<1>d. ASSUME NEW v \in Execs, "enrich_case" \in done[v]
      PROVE  "containment" \in done[v] /\ decision[v] # "none"
  BY <1>d, Chain DEF Executions, Decided
\* The documents that there were are still true.
<1>s. ASSUME NEW m \in metrics PROVE Truthful(m)'
  <2>1. decision'[m.by] = decision[m.by]
    BY <1>t, <1>d, DecisionStable DEF Truthful
  <2>2. containment'[m.by] = containment[m.by]
    <3>1. ASSUME NEW e \in Execs, Containment(e)
          PROVE containment'[m.by] = containment[m.by]
      <4>1. m.by # e
        BY <3>1, <1>t, <1>d DEF Containment, Ready, Truthful
      <4> QED BY <3>1, <4>1, <1>t DEF Containment
    <3>2. ASSUME NEW e \in Execs, Step(e), ~Containment(e) PROVE UNCHANGED containment
      BY <3>2 DEF Step, Enrich, Respond, NormalizeInputs, CreateCase, Attach, Watch,
         RunAnalyzer, MispCreate, MispSearch, EsIndex, CalcDecision, MarkFalsePositive,
         NotifyCritical, NotifyInfo, EnrichCase, IndexMetrics
    <3>3. ASSUME NEW e \in Execs,
                 \/ Deliver(e) \/ Abort(e)
                 \/ \E a \in Deployed[e] \cap D!Analyzers : JobEnds(e, a)
          PROVE  UNCHANGED containment
      BY <3>3 DEF Deliver, Abort, JobEnds
    <3>4. CASE UNCHANGED vars
      BY <3>4 DEF vars
    <3> QED BY <3>1, <3>2, <3>3, <3>4 DEF Next
  <2>3. "enrich_case" \in done'[m.by]
    <3>1. \A v \in Execs : done[v] \subseteq done'[v]
      <4>1. ASSUME NEW e \in Execs, Step(e)
            PROVE  UNCHANGED done \/ \E n : Store(e, n)
        BY <4>1 DEF Step, Enrich, Respond, NormalizeInputs, CreateCase, Attach, Watch,
           RunAnalyzer, MispCreate, MispSearch, EsIndex, CalcDecision, Containment,
           MarkFalsePositive, NotifyCritical, NotifyInfo, EnrichCase, IndexMetrics,
           Done, Fail, Lose
      <4>2. ASSUME NEW e \in Execs,
                   \/ Deliver(e) \/ Abort(e)
                   \/ \E a \in Deployed[e] \cap D!Analyzers : JobEnds(e, a)
            PROVE  UNCHANGED done
        BY <4>2 DEF Deliver, Abort, JobEnds
      <4>3. ASSUME NEW e \in Execs, NEW n, Store(e, n)
            PROVE  \A v \in Execs : done[v] \subseteq done'[v]
        BY <4>3, <1>t DEF Store
      <4> QED BY <4>1, <4>2, <4>3 DEF Next, vars
    <3> QED BY <1>t, <3>1 DEF Truthful
  <2> QED BY <1>t, <2>1, <2>2, <2>3 DEF Truthful
<1>1. CASE UNCHANGED metrics
  BY <1>1, <1>s DEF Records, OneMetricsDocPerAlert
<1>2. ASSUME NEW e \in Execs, IndexMetrics(e), ~UNCHANGED metrics
      PROVE  (\A m \in metrics : Truthful(m))' /\ OneMetricsDocPerAlert'
  <2>1. metrics' = (metrics \ Superseded(e)) \cup {Document(e)}
    BY <1>2 DEF IndexMetrics
  <2>2. Truthful(Document(e))'
    <3>1. "enrich_case" \in done'[e]
      BY <1>2, <1>t DEF IndexMetrics, Ready, Done, Fail, Lose, Store
    <3>2. UNCHANGED <<containment, decision>>
      BY <1>2 DEF IndexMetrics
    <3>3. Document(e).by = e /\ Document(e).decision = decision[e]
          /\ Document(e).contained = (containment[e] = "ok")
      BY DEF Document, Executed
    <3>4. UNCHANGED Document(e)
      BY <1>2 DEF IndexMetrics, Document, Executed
    <3> QED BY <3>1, <3>2, <3>3, <3>4 DEF Truthful
  <2>3. UNCHANGED Document(e) /\ Document(e).id = alertOf[e]
    BY <1>2 DEF IndexMetrics, Document, Executed
  <2>4. OneMetricsDocPerAlert'
    BY <2>1, <2>3 DEF Superseded, Records, OneMetricsDocPerAlert
  <2> QED BY <1>s, <2>1, <2>2, <2>3, <2>4
<1>3. ASSUME NEW e \in Execs, Step(e), ~IndexMetrics(e) PROVE UNCHANGED metrics
  BY <1>3 DEF Step, Enrich, Respond, NormalizeInputs, CreateCase, Attach, Watch,
     RunAnalyzer, MispCreate, MispSearch, EsIndex, CalcDecision, Containment,
     MarkFalsePositive, NotifyCritical, NotifyInfo, EnrichCase
<1>4. ASSUME NEW e \in Execs,
             \/ Deliver(e) \/ Abort(e)
             \/ \E a \in Deployed[e] \cap D!Analyzers : JobEnds(e, a)
      PROVE  UNCHANGED metrics
  BY <1>4 DEF Deliver, Abort, JobEnds
<1>5. CASE UNCHANGED vars
  BY <1>5, <1>1 DEF vars
<1> QED BY <1>1, <1>2, <1>3, <1>4, <1>5 DEF Next

-----------------------------------------------------------------------------
\* The invariant holds in every reachable state.
LEMMA IInvariance == Spec => []IInv
<1>1. IInv /\ [Next]_vars => IInv'
  <2> SUFFICES ASSUME IInv, [Next]_vars PROVE IInv'
    OBVIOUS
  <2>1. TypeOK /\ Executions /\ Records
    BY DEF IInv
  <2>2. TypeOK'
    BY <2>1, NextType
  <2>3. Executions'
    BY <2>1, NextOrdered, NextDecided, NextActed, NextOwned DEF Executions
  <2>4. Records'
    BY <2>1, NextBenign, NextMetrics DEF Records
  <2> QED BY <2>2, <2>3, <2>4 DEF IInv
<1> QED BY <1>1, InitIInv, PTL DEF Spec

\* A case that mark_false_positive closed belongs to an execution that did
\* not contain its host and did not announce that it did.
THEOREM NoContainedFalsePositive == Spec => []FalsePositiveUncontained
<1>1. IInv => FalsePositiveUncontained
  <2> SUFFICES ASSUME IInv, NEW i \in DOMAIN cases, cases[i].falsePositive
               PROVE  cases[i].by \notin contained /\ "CRITICAL" \notin notices[cases[i].by]
    BY DEF FalsePositiveUncontained
  <2>1. cases[i] \in Case /\ i \in 1 .. Len(cases)
    BY DEF IInv, TypeOK
  <2>2. cases[i].by \in Execs /\ decision[cases[i].by] # "contain"
    BY <2>1 DEF IInv, Records, Benign, Case
  <2> QED BY <2>2 DEF IInv, Executions, Acted
<1> QED BY <1>1, IInvariance, PTL

\* The decision that containment and mark_false_positive act on is the one
\* that the stored evidence calls for.
THEOREM DecisionNeverStale == Spec => []DecisionIsCurrent
<1>1. IInv => DecisionIsCurrent
  BY DEF IInv, Executions, Decided, DecisionIsCurrent
<1> QED BY <1>1, IInvariance, PTL

\* What build_metrics_json reports of the response is what the response did.
THEOREM MetricsCorrect == Spec => []MetricsTruthful
<1>1. IInv => MetricsTruthful
  <2>1. ASSUME IInv, NEW m \in metrics PROVE Truthful(m) /\ Acted(m.by)
    BY <2>1 DEF IInv, TypeOK, MetricsDoc, Records, Executions
  <2> QED BY <2>1 DEF Truthful, Acted, MetricsTruthful
<1> QED BY <1>1, IInvariance, PTL

\* The identifier of a metrics document makes its indexing idempotent.
THEOREM MetricsIdempotent == Spec => []OneMetricsDocPerAlert
<1>1. IInv => OneMetricsDocPerAlert
  BY DEF IInv, Records
<1> QED BY <1>1, IInvariance, PTL

\* A finished execution sent the critical or the informational notice, and
\* not both.
THEOREM NoticeCorrect == Spec => []ExactlyOneNotice
<1>1. IInv => ExactlyOneNotice
  <2> SUFFICES ASSUME IInv, NEW e \in Execs, status[e] = "FINISHED"
               PROVE  Cardinality(notices[e]) = 1
    BY DEF ExactlyOneNotice
  <2>1. Ordered(e) /\ Acted(e) /\ notices[e] \subseteq {"CRITICAL", "INFO"}
    BY DEF IInv, Executions, TypeOK
  <2>2. {"notify_critical", "notify_info"} \subseteq done[e]
    BY <2>1, Chain DEF Ordered
  <2>3. notices[e] = {"CRITICAL"} \/ notices[e] = {"INFO"}
    BY <2>1, <2>2 DEF Acted
  <2> QED BY <2>3, FS_Singleton
<1> QED BY <1>1, IInvariance, PTL
-----------------------------------------------------------------------------
(***************************************************************************)
(* Termination.  No join of the workflow waits for ever, and an execution  *)
(* cannot take steps for ever.                                             *)
(***************************************************************************)
NodesOf(e) == Fixed \cup Deployed[e]

\* The nodes with a branch into node n of the workflow that e runs.
Parents(e, n) ==
    CASE n = "normalize_inputs"                        -> {}
      [] n = "thehive_create_case"                     -> {"normalize_inputs"}
      [] n = "misp_search"                             -> {"misp_create"}
      [] n = "calc_decision"                           -> DecisionParents(e)
      [] n \in {"containment", "mark_false_positive"}  -> {"calc_decision"}
      [] n = "notify_critical"                         -> {"containment"}
      [] n = "notify_info"                             -> {"mark_false_positive"}
      [] n = "enrich_case"                             -> ClosingParents
      [] n = "es_index_metrics"                        -> {"enrich_case"}
      [] OTHER                                         -> {"thehive_create_case"}

Under(e) == status[e] \in {"NONE", "EXECUTING"}

\* Some node of an execution that is under way can run.
NobodyWaits ==
    \A e \in Execs : status[e] = "EXECUTING" =>
        \E n \in NodesOf(e) : Ready(e, n, Parents(e, n))

\* The results that an execution still has to store, its end, and the faults
\* that can still make it repeat a node.
Left(e) ==
    (IF Under(e) THEN 1 + Cardinality(NodesOf(e) \ done[e]) ELSE 0) + (MaxFaults - faults)

\* A step of an execution, and its abort, use some of that up, and no other
\* step gives any of it back.
Spends ==
    \A e \in Execs : /\ Left(e)' <= Left(e)
                     /\ Step(e) \/ Abort(e) => Left(e)' < Left(e)

\* What is stored of an execution that has not ended is not all.
Unfinished(e) == Under(e) => "es_index_metrics" \notin done[e]

\* How the run of a node can end.
Ran(e, n) ==
    \/ /\ Store(e, n) /\ (NoFault \/ Fault)
       /\ IF n = "es_index_metrics" THEN status' = [status EXCEPT ![e] = "FINISHED"]
          ELSE UNCHANGED status
    \/ Fault /\ UNCHANGED <<done, status>>
    \/ NoFault /\ UNCHANGED done /\ status' = [status EXCEPT ![e] = "ABORTED"]

\* There are finitely many nodes.
LEMMA Finite ==
    ASSUME NEW e \in Execs, NEW S
    PROVE  IsFiniteSet(NodesOf(e) \ S) /\ Cardinality(NodesOf(e) \ S) \in Nat
<1> DEFINE A == {"normalize_inputs", "thehive_create_case", "misp_create"}
           B == {"misp_search", "es_index", "calc_decision"}
           C == {"containment", "mark_false_positive", "notify_critical"}
           E == {"notify_info", "enrich_case", "es_index_metrics"}
<1>1. ASSUME NEW x, NEW y, NEW z PROVE IsFiniteSet({x, y, z})
  <2>1. IsFiniteSet({x} \cup {y})
    BY FS_Singleton, FS_AddElement
  <2>2. IsFiniteSet(({x} \cup {y}) \cup {z}) /\ {x, y, z} = ({x} \cup {y}) \cup {z}
    BY <2>1, FS_AddElement
  <2> QED BY <2>2
<1>2. ASSUME NEW X, NEW Y, IsFiniteSet(X), IsFiniteSet(Y) PROVE IsFiniteSet(X \cup Y)
  BY <1>2, FS_Union
<1>3. IsFiniteSet(A) /\ IsFiniteSet(B) /\ IsFiniteSet(C) /\ IsFiniteSet(E)
  BY <1>1
<1>4. Fixed = (A \cup B) \cup (C \cup E)
  BY DEF Fixed
<1>5. D!Analyzers = {"cortex_hash", "cortex_ip", "dshield"}
                      \cup {"mnemonic_pdns", "googledns", "ipapi"}
      /\ Attachments = {"obs_hash", "obs_ip", "task"} \cup {"redis"}
  BY DEF D!Analyzers, Attachments
<1>6. IsFiniteSet(D!Analyzers) /\ IsFiniteSet(Attachments)
  BY <1>1, <1>2, <1>5, FS_Singleton
<1>7. IsFiniteSet(Watchers)
  BY <1>1 DEF Watchers
<1> HIDE DEF A, B, C, E
<1>8. IsFiniteSet(Fixed)
  <2>1. IsFiniteSet(A \cup B) /\ IsFiniteSet(C \cup E)
    BY <1>2, <1>3
  <2> QED BY <1>2, <1>4, <2>1
<1>9. IsFiniteSet((D!Analyzers \cup Watchers) \cup Attachments)
  <2>1. IsFiniteSet(D!Analyzers \cup Watchers)
    BY <1>2, <1>6, <1>7
  <2> QED BY <1>2, <1>6, <2>1
<1>10. Deployed[e] \subseteq (D!Analyzers \cup Watchers) \cup Attachments
  BY DeployedAssumption DEF DeployedAssumption
<1>11. IsFiniteSet(Deployed[e])
  BY <1>9, <1>10, FS_Subset
<1>12. IsFiniteSet(NodesOf(e))
  BY <1>2, <1>8, <1>11 DEF NodesOf
<1> QED BY <1>12, FS_Difference, FS_CardinalityType

LEMMA LeftNat == ASSUME TypeOK, NEW e \in Execs PROVE Left(e) \in Nat
<1> DEFINE c == IF Under(e) THEN 1 + Cardinality(NodesOf(e) \ done[e]) ELSE 0
<1>1. c \in Nat
  BY Finite
<1>2. faults \in 0 .. MaxFaults /\ MaxFaults \in Nat
  BY MaxFaultsAssumption DEF TypeOK, MaxFaultsAssumption
<1>3. Left(e) = c + (MaxFaults - faults)
  BY DEF Left
<1> HIDE DEF c
<1> QED BY <1>1, <1>2, <1>3

\* Every step of an execution is a run of one of its nodes that can run.
LEMMA StepRuns ==
    ASSUME NEW e \in Execs, Step(e)
    PROVE  \E n \in NodesOf(e) : Ready(e, n, Parents(e, n)) /\ Ran(e, n)
<1> USE DEF NodesOf, Fixed, Ran, Done, Fail, Lose
<1>d. \A n \in Deployed[e] : /\ n \notin Fixed
                             /\ Parents(e, n) = {"thehive_create_case"}
  BY OptionalNodes DEF Parents
<1>1. CASE NormalizeInputs(e)
  BY <1>1 DEF NormalizeInputs, Parents
<1>2. CASE CreateCase(e)
  BY <1>2 DEF CreateCase, Parents
<1>3. ASSUME NEW n \in Deployed[e], Attach(e, n) \/ Watch(e, n) \/ RunAnalyzer(e, n)
      PROVE  Ready(e, n, Parents(e, n)) /\ Ran(e, n)
  BY <1>3, <1>d DEF Attach, Watch, RunAnalyzer
<1>4. CASE MispCreate(e)
  BY <1>4 DEF MispCreate, Parents
<1>5. CASE MispSearch(e)
  BY <1>5 DEF MispSearch, Parents
<1>6. CASE EsIndex(e)
  BY <1>6 DEF EsIndex, Parents
<1>7. CASE CalcDecision(e)
  BY <1>7 DEF CalcDecision, Parents
<1>8. CASE Containment(e)
  BY <1>8 DEF Containment, Parents
<1>9. CASE MarkFalsePositive(e)
  BY <1>9 DEF MarkFalsePositive, Parents
<1>10. CASE NotifyCritical(e)
  BY <1>10 DEF NotifyCritical, Parents
<1>11. CASE NotifyInfo(e)
  BY <1>11 DEF NotifyInfo, Parents
<1>12. CASE EnrichCase(e)
  BY <1>12 DEF EnrichCase, Parents
<1>13. CASE IndexMetrics(e)
  BY <1>13 DEF IndexMetrics, Parents
<1> QED
  BY <1>1, <1>2, <1>3, <1>4, <1>5, <1>6, <1>7, <1>8, <1>9, <1>10, <1>11, <1>12, <1>13
  DEF Step, Enrich, Respond

\* What the steps of the system do to the engine's record of an execution.
LEMMA EngineStep ==
    ASSUME TypeOK, [Next]_vars
    PROVE  \/ UNCHANGED <<done, faults>> /\ \A u \in Execs : Under(u)' = Under(u)
           \/ \E e \in Execs : Abort(e)
           \/ \E e \in Execs, n \in Nodes :
                 n \in NodesOf(e) /\ Ready(e, n, Parents(e, n)) /\ Ran(e, n)
<1> USE DEF engine
<1>1. ASSUME NEW e \in Execs, Deliver(e)
      PROVE  UNCHANGED <<done, faults>> /\ \A u \in Execs : Under(u)' = Under(u)
  BY <1>1 DEF Deliver, Under, TypeOK
<1>2. ASSUME NEW e \in Execs, Step(e)
      PROVE  \E n \in Nodes : n \in NodesOf(e) /\ Ready(e, n, Parents(e, n)) /\ Ran(e, n)
  <2>1. NodesOf(e) \subseteq Nodes
    BY OptionalNodes DEF NodesOf
  <2> QED BY <1>2, <2>1, StepRuns
<1>3. ASSUME NEW e \in Execs, NEW a \in D!Analyzers, JobEnds(e, a)
      PROVE  UNCHANGED <<done, faults>> /\ \A u \in Execs : Under(u)' = Under(u)
  BY <1>3 DEF JobEnds, Under
<1>4. CASE UNCHANGED vars
  BY <1>4 DEF vars, Under
<1> QED BY <1>1, <1>2, <1>3, <1>4 DEF Next

\* The run of a node uses up what is left.
LEMMA RunSpends ==
    ASSUME TypeOK, NEW e \in Execs, NEW n \in NodesOf(e),
           Ready(e, n, Parents(e, n)), Ran(e, n)
    PROVE  /\ \A u \in Execs : Left(u)' <= Left(u)
           /\ Left(e)' < Left(e)
<1> DEFINE T(u) == IF Under(u) THEN 1 + Cardinality(NodesOf(u) \ done[u]) ELSE 0
<1>0. \A u \in Execs : /\ Left(u) = T(u) + (MaxFaults - faults)
                       /\ Left(u)' = T(u)' + (MaxFaults - faults')
  BY DEF Left
<1>1. /\ done \in [Execs -> SUBSET Nodes] /\ status \in [Execs -> Statuses]
      /\ faults \in 0 .. MaxFaults /\ MaxFaults \in Nat
  BY MaxFaultsAssumption DEF TypeOK, MaxFaultsAssumption
<1>2. faults' = faults \/ faults' = faults + 1
  BY DEF Ran, Fault, NoFault
<1>3. \A u \in Execs : T(u) \in Nat
  BY Finite
<1>4. T(e) = 1 + Cardinality(NodesOf(e) \ done[e])
  BY DEF Ready, Under
<1>5. \A u \in Execs : u # e => T(u)' = T(u)
  <2>1. \A u \in Execs : u # e => done'[u] = done[u] /\ status'[u] = status[u]
    BY <1>1 DEF Ran, Store
  <2> QED BY <2>1 DEF Under, NodesOf
<1>6. CASE Store(e, n)
  <2>1. done'[e] = done[e] \cup {n} /\ n \notin done[e]
    BY <1>1, <1>6 DEF Store, Ready
  <2>2. NodesOf(e) \ done'[e] = (NodesOf(e) \ done[e]) \ {n}
    BY <2>1
  <2> DEFINE S == NodesOf(e) \ done[e]
  <2>3. IsFiniteSet(S) /\ Cardinality(S) \in Nat /\ n \in S
    BY <2>1, Finite
  <2> HIDE DEF S
  <2>4. Cardinality(S \ {n}) = Cardinality(S) - 1
    BY <2>3, FS_RemoveElement
  <2>5. T(e)' \in {0, Cardinality(S)}
    <3>1. T(e)' \in {0, 1 + Cardinality(NodesOf(e) \ done'[e])}
      BY DEF NodesOf
    <3> QED BY <2>2, <2>3, <2>4, <3>1 DEF S
  <2>6. T(e)' \in Nat /\ T(e)' < T(e)
    BY <1>4, <2>3, <2>5 DEF S
  <2> HIDE DEF T
  <2> QED BY <1>0, <1>1, <1>2, <1>3, <1>5, <2>6
<1>7. CASE Fault /\ UNCHANGED <<done, status>>
  <2>1. \A u \in Execs : T(u)' = T(u)
    BY <1>7 DEF Under, NodesOf
  <2>2. faults' = faults + 1
    BY <1>7 DEF Fault
  <2> HIDE DEF T
  <2> QED BY <1>0, <1>1, <1>3, <2>1, <2>2
<1>8. CASE NoFault /\ status' = [status EXCEPT ![e] = "ABORTED"]
  <2>1. T(e)' = 0
    BY <1>1, <1>8 DEF Under
  <2>2. T(e) > 0
    BY <1>4, Finite
  <2>3. faults' = faults
    BY <1>8 DEF NoFault
  <2> HIDE DEF T
  <2> QED BY <1>0, <1>1, <1>3, <1>5, <2>1, <2>2, <2>3
<1> QED BY <1>6, <1>7, <1>8 DEF Ran

\* So does an abort.
LEMMA AbortSpends ==
    ASSUME TypeOK, NEW e \in Execs, Abort(e)
    PROVE  /\ \A u \in Execs : Left(u)' <= Left(u)
           /\ Left(e)' < Left(e)
<1> DEFINE T(u) == IF Under(u) THEN 1 + Cardinality(NodesOf(u) \ done[u]) ELSE 0
<1>0. \A u \in Execs : /\ Left(u) = T(u) + (MaxFaults - faults)
                       /\ Left(u)' = T(u)' + (MaxFaults - faults')
  BY DEF Left
<1>1. /\ status \in [Execs -> Statuses] /\ faults \in 0 .. MaxFaults /\ MaxFaults \in Nat
  BY MaxFaultsAssumption DEF TypeOK, MaxFaultsAssumption
<1>2. \A u \in Execs : T(u) \in Nat
  BY Finite
<1>3. faults' = faults + 1
  BY DEF Abort, Fault
<1>4. \A u \in Execs : T(u)' = T(u) \/ T(u)' = 0
  BY <1>1 DEF Abort, Under, NodesOf
<1> HIDE DEF T
<1> QED BY <1>0, <1>1, <1>2, <1>3, <1>4

LEMMA NextSpends == TypeOK /\ [Next]_vars => Spends
<1> SUFFICES ASSUME TypeOK, [Next]_vars, NEW u \in Execs
             PROVE  Left(u)' <= Left(u) /\ (Step(u) \/ Abort(u) => Left(u)' < Left(u))
  BY DEF Spends
<1>1. Step(u) => Left(u)' < Left(u)
  BY StepRuns, RunSpends
<1>2. Abort(u) => Left(u)' < Left(u)
  BY AbortSpends
<1>3. Left(u) \in Nat
  BY LeftNat
<1>4. CASE UNCHANGED <<done, faults>> /\ \A v \in Execs : Under(v)' = Under(v)
  <2>1. Left(u)' = Left(u)
    BY <1>4 DEF Left, NodesOf
  <2> QED BY <1>1, <1>2, <1>3, <2>1
<1>5. ASSUME NEW e \in Execs, Abort(e) PROVE Left(u)' <= Left(u)
  BY <1>5, AbortSpends
<1>6. ASSUME NEW e \in Execs, NEW n \in NodesOf(e), Ready(e, n, Parents(e, n)), Ran(e, n)
      PROVE  Left(u)' <= Left(u)
  BY <1>6, RunSpends
<1> QED BY <1>1, <1>2, <1>4, <1>5, <1>6, EngineStep

\* The last result is stored when the execution is said to be finished.
LEMMA NextUnfinished ==
    ASSUME TypeOK, Executions, \A v \in Execs : Unfinished(v), [Next]_vars, NEW u \in Execs
    PROVE  Unfinished(u)'
<1>1. done \in [Execs -> SUBSET Nodes] /\ status \in [Execs -> Statuses]
  BY DEF TypeOK
<1>2. CASE UNCHANGED <<done, faults>> /\ \A v \in Execs : Under(v)' = Under(v)
  BY <1>2 DEF Unfinished
<1>3. ASSUME NEW e \in Execs, Abort(e) PROVE Unfinished(u)'
  BY <1>1, <1>3 DEF Abort, Unfinished, Under
<1>4. ASSUME NEW e \in Execs, NEW n \in NodesOf(e), Ready(e, n, Parents(e, n)), Ran(e, n)
      PROVE  Unfinished(u)'
  <2>1. \/ done' = [done EXCEPT ![e] = @ \cup {n}]
           /\ \/ n # "es_index_metrics" /\ status' = status
              \/ status' = [status EXCEPT ![e] = "FINISHED"]
        \/ done' = done /\ status' = status
        \/ done' = done /\ status' = [status EXCEPT ![e] = "ABORTED"]
    BY <1>4 DEF Ran, Store
  <2> QED BY <1>1, <2>1 DEF Unfinished, Under
<1> QED BY <1>2, <1>3, <1>4, EngineStep

LEMMA Unended == Spec => [](\A u \in Execs : Unfinished(u))
<1> DEFINE J == \A u \in Execs : Unfinished(u)
<1>1. Init => J
  BY DEF Init, Unfinished
<1>2. IInv /\ J /\ [Next]_vars => J'
  BY NextUnfinished DEF IInv
<1> HIDE DEF J
<1>3. Spec => []J
  BY <1>1, <1>2, IInvariance, PTL DEF Spec
<1> QED BY <1>3 DEF J

\* The workflow has no cycle: take the first node that has not reported.
LEMMA SomeoneReady ==
    ASSUME NEW e \in Execs, status[e] = "EXECUTING", "es_index_metrics" \notin done[e]
    PROVE  \E n \in NodesOf(e) : Ready(e, n, Parents(e, n))
<1> SUFFICES ASSUME \A n \in NodesOf(e) : Parents(e, n) \subseteq done[e] => n \in done[e]
             PROVE  FALSE
  BY DEF Ready
<1>f. Fixed \subseteq NodesOf(e)
  BY DEF NodesOf
<1>1. "normalize_inputs" \in done[e]
  BY <1>f DEF Parents, Fixed
<1>2. "thehive_create_case" \in done[e]
  BY <1>f, <1>1 DEF Parents, Fixed
<1>3. "misp_create" \in done[e] /\ "es_index" \in done[e]
  BY <1>f, <1>2 DEF Parents, Fixed
<1>4. "misp_search" \in done[e]
  BY <1>f, <1>3 DEF Parents, Fixed
<1>5. Deployed[e] \subseteq done[e]
  <2> SUFFICES ASSUME NEW n \in Deployed[e] PROVE n \in done[e]
    OBVIOUS
  <2>1. n \notin Fixed /\ n \in NodesOf(e)
    BY OptionalNodes DEF NodesOf
  <2>2. Parents(e, n) = {"thehive_create_case"}
    BY <2>1 DEF Parents, Fixed
  <2> QED BY <1>2, <2>1, <2>2
<1>6. "calc_decision" \in done[e]
  <2>1. Parents(e, "calc_decision") = {"misp_search", "es_index"} \cup Deployed[e]
    BY DEF Parents, DecisionParents
  <2> QED BY <1>f, <1>3, <1>4, <1>5, <2>1 DEF Fixed
<1>7. "containment" \in done[e] /\ "mark_false_positive" \in done[e]
  BY <1>f, <1>6 DEF Parents, Fixed
<1>8. "notify_critical" \in done[e] /\ "notify_info" \in done[e]
  BY <1>f, <1>7 DEF Parents, Fixed
<1>9. "enrich_case" \in done[e]
  BY <1>f, <1>8 DEF Parents, Fixed, ClosingParents
<1>10. "es_index_metrics" \in done[e]
  BY <1>f, <1>9 DEF Parents, Fixed
<1> QED BY <1>10

\* While an execution is under way one of its nodes can run, whatever the
\* decision was, whichever optional nodes are deployed, and whatever was lost:
\* no join waits for a node on the branch that was not taken.
THEOREM NoJoinWaits == Spec => []NobodyWaits
<1>1. (\A u \in Execs : Unfinished(u)) => NobodyWaits
  BY SomeoneReady DEF Unfinished, Under, NobodyWaits
<1> QED BY <1>1, Unended, PTL

\* An execution takes at most as many steps as its workflow has nodes, one
\* more, and one for each fault; those of the others do not add to it.
THEOREM StepsRunOut == Spec => [](\A e \in Execs : Left(e) \in Nat) /\ [][Spends]_vars
<1>1. TypeOK => \A e \in Execs : Left(e) \in Nat
  BY LeftNat
<1>2. TypeOK /\ [Next]_vars => [Spends]_vars
  BY NextSpends
<1> QED BY <1>1, <1>2, TypeCorrect, PTL DEF Spec
===============================================================================
