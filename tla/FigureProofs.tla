----------------------------- MODULE FigureProofs -----------------------------
(***************************************************************************)
(* The properties of what the lab calculates.                              *)
(*                                                                         *)
(* Enrichment, for every set of alerts, analyzers, reports and hit counts. *)
(* The argument is arithmetic: up to 100 each section of calc_decision     *)
(* raises the score, or leaves it, and raises it the more the more was     *)
(* found; and an answer only ever replaces silence.                        *)
(*                                                                         *)
(* Kpis, for every set of documents, loads and labels.  An answer is about *)
(* what is stored, which does not change before the answer is read; the    *)
(* rest is about the operators: sums over finite sets, folds, and places   *)
(* in an order.                                                            *)
(***************************************************************************)
EXTENDS Enrichment, Kpis, FiniteSetTheorems, WellFoundedInduction, TLAPS

-----------------------------------------------------------------------------
(***************************************************************************)
(* Enrichment.                                                             *)
(***************************************************************************)

AlertType == [confidence : Int, severity : 1 .. 3,
              type : {"ransomware", "malware", "other"}, mitre : Nat, event : BOOLEAN]

Reading == [score : Nat, verdict : AnalyzerVerdicts]

\* A score as far as it lies on the scale of 0 to 100.
Cap(x) == Smaller(100, x)

-----------------------------------------------------------------------------
(***************************************************************************)
(* The sections of the script.                                             *)
(***************************************************************************)

\* An addition respects the order of bonuses, and that of scores up to 100, and
\* adds at most the bonus.
LEMMA AddRange ==
    ASSUME NEW x \in Nat, NEW b \in Nat
    PROVE  Add(x, b) \in Nat /\ Add(x, b) <= x + b
BY DEF Add, Smaller

LEMMA AddOrder ==
    ASSUME NEW x \in Nat, NEW y \in Nat, NEW b \in Nat, NEW c \in Nat,
           Cap(x) <= Cap(y), b <= c
    PROVE  Cap(Add(x, b)) <= Cap(Add(y, c))
BY DEF Add, Smaller, Cap

\* What an alert says of itself is a score.
LEMMA BaseRange ==
    ASSUME NEW al \in AlertType
    PROVE  BaseScore(al) \in Nat
<1> DEFINE s0 == Larger(Larger(0, al.confidence), SeverityScore(al.severity))
           s1 == Add(s0, TypeBonus(al.type))
<1>1. al.confidence \in Int /\ al.severity \in 1 .. 3 /\ al.mitre \in Nat
  BY DEF AlertType
<1>2. SeverityScore(al.severity) \in Nat
  BY <1>1 DEF SeverityScore
<1>3. s0 \in Nat
  BY <1>1, <1>2 DEF Larger
<1>4. TypeBonus(al.type) \in Nat
  BY DEF TypeBonus
<1> HIDE DEF s0
<1>5. s1 \in Nat
  BY <1>3, <1>4, AddRange
<1>6. 10 * al.mitre \in Nat
  BY <1>1
<1> HIDE DEF s1
<1>7. Add(s1, 10 * al.mitre) \in Nat
  BY <1>5, <1>6, AddRange
<1> QED BY <1>7 DEF BaseScore, s1, s0

LEMMA LargerFacts ==
    ASSUME NEW x \in Nat, NEW y \in Nat, NEW v \in Nat, NEW w \in Nat,
           Cap(x) <= Cap(y), Cap(v) <= Cap(w)
    PROVE  /\ Larger(x, v) \in Nat
           /\ Larger(y, w) \in Nat
           /\ Cap(Larger(x, v)) <= Cap(Larger(y, w))
BY DEF Larger, Cap, Smaller

\* The maximum with the analyzers' scores respects the order of each of them.
LEMMA AnalyzerFacts ==
    ASSUME NEW x \in Nat,
           NEW f \in [Analyzers -> Reading], NEW g \in [Analyzers -> Reading],
           \A a \in Analyzers : f[a].score <= g[a].score
    PROVE  /\ AnalyzerScore(x, f) \in Nat
           /\ AnalyzerScore(x, g) \in Nat
           /\ Cap(AnalyzerScore(x, f)) <= Cap(AnalyzerScore(x, g))
<1>1. \A a \in Analyzers : /\ f[a].score \in Nat /\ g[a].score \in Nat
                           /\ Cap(f[a].score) <= Cap(g[a].score)
  BY DEF Reading, Cap, Smaller
<1>2. {"cortex_hash", "cortex_ip", "dshield", "mnemonic_pdns", "googledns", "ipapi"}
          \subseteq Analyzers
  BY DEF Analyzers
<1> DEFINE p1 == Larger(x, f["cortex_hash"].score)
           q1 == Larger(x, g["cortex_hash"].score)
           p2 == Larger(p1, f["cortex_ip"].score)
           q2 == Larger(q1, g["cortex_ip"].score)
           p3 == Larger(p2, f["dshield"].score)
           q3 == Larger(q2, g["dshield"].score)
           p4 == Larger(p3, f["mnemonic_pdns"].score)
           q4 == Larger(q3, g["mnemonic_pdns"].score)
           p5 == Larger(p4, f["googledns"].score)
           q5 == Larger(q4, g["googledns"].score)
           p6 == Larger(p5, f["ipapi"].score)
           q6 == Larger(q5, g["ipapi"].score)
<1>3. p1 \in Nat /\ q1 \in Nat /\ Cap(p1) <= Cap(q1)
  <2>1. /\ f["cortex_hash"].score \in Nat /\ g["cortex_hash"].score \in Nat
        /\ Cap(f["cortex_hash"].score) <= Cap(g["cortex_hash"].score) /\ Cap(x) <= Cap(x)
    BY <1>1, <1>2 DEF Cap, Smaller
  <2> QED BY <2>1, LargerFacts
<1> HIDE DEF p1, q1
<1>4. p2 \in Nat /\ q2 \in Nat /\ Cap(p2) <= Cap(q2)
  <2>1. /\ f["cortex_ip"].score \in Nat /\ g["cortex_ip"].score \in Nat
        /\ Cap(f["cortex_ip"].score) <= Cap(g["cortex_ip"].score)
    BY <1>1, <1>2
  <2> QED BY <1>3, <2>1, LargerFacts
<1> HIDE DEF p2, q2
<1>5. p3 \in Nat /\ q3 \in Nat /\ Cap(p3) <= Cap(q3)
  <2>1. /\ f["dshield"].score \in Nat /\ g["dshield"].score \in Nat
        /\ Cap(f["dshield"].score) <= Cap(g["dshield"].score)
    BY <1>1, <1>2
  <2> QED BY <1>4, <2>1, LargerFacts
<1> HIDE DEF p3, q3
<1>6. p4 \in Nat /\ q4 \in Nat /\ Cap(p4) <= Cap(q4)
  <2>1. /\ f["mnemonic_pdns"].score \in Nat /\ g["mnemonic_pdns"].score \in Nat
        /\ Cap(f["mnemonic_pdns"].score) <= Cap(g["mnemonic_pdns"].score)
    BY <1>1, <1>2
  <2> QED BY <1>5, <2>1, LargerFacts
<1> HIDE DEF p4, q4
<1>7. p5 \in Nat /\ q5 \in Nat /\ Cap(p5) <= Cap(q5)
  <2>1. /\ f["googledns"].score \in Nat /\ g["googledns"].score \in Nat
        /\ Cap(f["googledns"].score) <= Cap(g["googledns"].score)
    BY <1>1, <1>2
  <2> QED BY <1>6, <2>1, LargerFacts
<1> HIDE DEF p5, q5
<1>8. p6 \in Nat /\ q6 \in Nat /\ Cap(p6) <= Cap(q6)
  <2>1. /\ f["ipapi"].score \in Nat /\ g["ipapi"].score \in Nat
        /\ Cap(f["ipapi"].score) <= Cap(g["ipapi"].score)
    BY <1>1, <1>2
  <2> QED BY <1>7, <2>1, LargerFacts
<1> HIDE DEF p6, q6
<1> QED BY <1>8 DEF AnalyzerScore, p1, q1, p2, q2, p3, q3, p4, q4, p5, q5, p6, q6

\* Every bonus is a natural number up to 30 and respects the order of what
\* was found; without a find there is none.
LEMMA MispFacts ==
    \A m, n \in Nat : /\ MispBonus(m) \in 0 .. 30
                      /\ m <= n => MispBonus(m) <= MispBonus(n)
                      /\ m = 0 => MispBonus(m) = 0
BY DEF MispBonus

LEMMA TenzirFacts ==
    \A m, n \in Nat : /\ TenzirBonus(m) \in 0 .. 30
                      /\ m <= n => TenzirBonus(m) <= TenzirBonus(n)
                      /\ m = 0 => TenzirBonus(m) = 0
BY DEF TenzirBonus, Smaller

LEMMA NetworkFacts ==
    \A m, n \in Nat : /\ NetworkBonus(m) \in 0 .. 30
                      /\ m <= n => NetworkBonus(m) <= NetworkBonus(n)
                      /\ m = 0 => NetworkBonus(m) = 0
BY DEF NetworkBonus, Smaller

LEMMA LokiFacts ==
    \A m, n, c, d \in Nat :
        /\ LokiBonus(m, c) \in 0 .. 30
        /\ m <= n /\ c <= d => LokiBonus(m, c) <= LokiBonus(n, d)
        /\ m = 0 => LokiBonus(m, c) = 0
BY DEF LokiBonus, Smaller

LEMMA EventFacts == \A e \in BOOLEAN : EventBonus(e) \in {0, 10}
BY DEF EventBonus

\* Evidence ev tells at most what evidence fv tells.
Below(ev, fv) ==
    /\ \A a \in Analyzers : ev.analyzers[a].score <= fv.analyzers[a].score
    /\ ev.misp <= fv.misp
    /\ ev.tenzir <= fv.tenzir
    /\ ev.network <= fv.network
    /\ ev.loki <= fv.loki
    /\ ev.critical <= fv.critical

\* More evidence, no lower a score, as far as it lies on the scale.
LEMMA ScoreFacts ==
    ASSUME NEW al \in AlertType, NEW ev \in EvidenceType, NEW fv \in EvidenceType,
           Below(ev, fv)
    PROVE  /\ Score(al, ev) \in Nat
           /\ Cap(Score(al, ev)) <= Cap(Score(al, fv))
<1> DEFINE a1 == AnalyzerScore(BaseScore(al), ev.analyzers)
           a2 == AnalyzerScore(BaseScore(al), fv.analyzers)
           m1 == Add(a1, MispBonus(ev.misp))
           m2 == Add(a2, MispBonus(fv.misp))
           e1 == Add(m1, EventBonus(al.event))
           e2 == Add(m2, EventBonus(al.event))
           t1 == Add(e1, TenzirBonus(ev.tenzir))
           t2 == Add(e2, TenzirBonus(fv.tenzir))
           n1 == Add(t1, NetworkBonus(ev.network))
           n2 == Add(t2, NetworkBonus(fv.network))
           l1 == Add(n1, LokiBonus(ev.loki, ev.critical))
           l2 == Add(n2, LokiBonus(fv.loki, fv.critical))
<1>1. /\ ev.analyzers \in [Analyzers -> Reading] /\ fv.analyzers \in [Analyzers -> Reading]
      /\ ev.misp \in Nat /\ ev.tenzir \in Nat /\ ev.network \in Nat
      /\ ev.loki \in Nat /\ ev.critical \in Nat
      /\ fv.misp \in Nat /\ fv.tenzir \in Nat /\ fv.network \in Nat
      /\ fv.loki \in Nat /\ fv.critical \in Nat
  BY DEF EvidenceType, Reading
<1>2. a1 \in Nat /\ a2 \in Nat /\ Cap(a1) <= Cap(a2)
  BY <1>1, BaseRange, AnalyzerFacts DEF Below
<1> HIDE DEF a1, a2
<1>3. m1 \in Nat /\ m2 \in Nat /\ Cap(m1) <= Cap(m2)
  <2>1. /\ MispBonus(ev.misp) \in Nat /\ MispBonus(fv.misp) \in Nat
        /\ MispBonus(ev.misp) <= MispBonus(fv.misp)
    BY <1>1, MispFacts DEF Below
  <2> QED BY <1>2, <2>1, AddRange, AddOrder
<1> HIDE DEF m1, m2
<1>4. e1 \in Nat /\ e2 \in Nat /\ Cap(e1) <= Cap(e2)
  <2>1. EventBonus(al.event) \in Nat /\ EventBonus(al.event) <= EventBonus(al.event)
    BY EventFacts DEF AlertType
  <2> QED BY <1>3, <2>1, AddRange, AddOrder
<1> HIDE DEF e1, e2
<1>5. t1 \in Nat /\ t2 \in Nat /\ Cap(t1) <= Cap(t2)
  <2>1. /\ TenzirBonus(ev.tenzir) \in Nat /\ TenzirBonus(fv.tenzir) \in Nat
        /\ TenzirBonus(ev.tenzir) <= TenzirBonus(fv.tenzir)
    BY <1>1, TenzirFacts DEF Below
  <2> QED BY <1>4, <2>1, AddRange, AddOrder
<1> HIDE DEF t1, t2
<1>6. n1 \in Nat /\ n2 \in Nat /\ Cap(n1) <= Cap(n2)
  <2>1. /\ NetworkBonus(ev.network) \in Nat /\ NetworkBonus(fv.network) \in Nat
        /\ NetworkBonus(ev.network) <= NetworkBonus(fv.network)
    BY <1>1, NetworkFacts DEF Below
  <2> QED BY <1>5, <2>1, AddRange, AddOrder
<1> HIDE DEF n1, n2
<1>7. l1 \in Nat /\ Cap(l1) <= Cap(l2)
  <2>1. /\ LokiBonus(ev.loki, ev.critical) \in Nat /\ LokiBonus(fv.loki, fv.critical) \in Nat
        /\ LokiBonus(ev.loki, ev.critical) <= LokiBonus(fv.loki, fv.critical)
    <3>1. ev.loki <= fv.loki /\ ev.critical <= fv.critical
      BY DEF Below
    <3>2. /\ ev.loki \in Nat /\ ev.critical \in Nat
          /\ fv.loki \in Nat /\ fv.critical \in Nat
      BY <1>1
    <3>3. /\ LokiBonus(ev.loki, ev.critical) \in 0 .. 30
          /\ LokiBonus(fv.loki, fv.critical) \in 0 .. 30
      BY <3>2, LokiFacts
    <3>4. LokiBonus(ev.loki, ev.critical) <= LokiBonus(fv.loki, fv.critical)
      BY <3>1, <3>2, LokiFacts
    <3> QED BY <3>3, <3>4
  <2> QED BY <1>6, <2>1, AddRange, AddOrder
<1> QED BY <1>7 DEF Score, a1, a2, m1, m2, e1, e2, t1, t2, n1, n2

\* The decision is to contain when the score calls for it, or an analyzer.
LEMMA DecisionFacts ==
    ASSUME NEW al, NEW ev, Score(al, ev) \in Nat
    PROVE  Decision(al, ev) = "contain" <=> Score(al, ev) >= 80 \/ Malicious(ev)
BY DEF Decision, Verdict

-----------------------------------------------------------------------------
(***************************************************************************)
(* The inductive invariant: what has not answered has said nothing.        *)
(***************************************************************************)
Silent ==
    /\ \A a \in waiting \cap Installed : evidence.analyzers[a] = Unheard
    /\ \A s \in waiting \cap Services : evidence[s] = 0
    /\ "loki" \in waiting => evidence.critical = 0

IInv == TypeOK /\ Silent

\* A step that replaces the evidence replaces it by more.
Grows ==
    /\ Below(evidence, evidence')
    /\ Malicious(evidence) => Malicious(evidence')

LEMMA InitInv == Init => IInv
<1> SUFFICES ASSUME Init PROVE IInv
  OBVIOUS
<1>1. Unheard \in [score : Nat, verdict : AnalyzerVerdicts]
  BY DEF Unheard, AnalyzerVerdicts
<1>2. evidence \in EvidenceType
  BY <1>1 DEF Init, NoEvidence, EvidenceType
<1>3. Silent
  BY InstalledAssumption DEF Init, NoEvidence, Silent, Services, InstalledAssumption
<1> QED BY <1>2, <1>3 DEF Init, IInv, TypeOK

LEMMA AnalyzerStep ==
    ASSUME IInv, NEW b \in Installed, AnalyzerAnswers(b)
    PROVE  IInv' /\ Grows
<1> PICK r \in Reports : evidence' = [evidence EXCEPT !.analyzers[b] = ParseTaxonomies(r)]
  BY DEF AnalyzerAnswers
<1> DEFINE heard == ParseTaxonomies(r)
<1>1. heard \in [score : Nat, verdict : AnalyzerVerdicts]
  BY ReportsAssumption DEF ReportsAssumption
<1> HIDE DEF heard
<1>2. b \in Analyzers /\ b \in waiting /\ evidence \in EvidenceType
  BY InstalledAssumption DEF AnalyzerAnswers, IInv, TypeOK, InstalledAssumption
<1>3. evidence' = [evidence EXCEPT !.analyzers[b] = heard]
  BY DEF heard
<1>4. evidence' \in EvidenceType
  BY <1>1, <1>2, <1>3 DEF EvidenceType
<1>5. /\ evidence'.misp = evidence.misp /\ evidence'.tenzir = evidence.tenzir
      /\ evidence'.network = evidence.network /\ evidence'.loki = evidence.loki
      /\ evidence'.critical = evidence.critical
      /\ evidence'.analyzers[b] = heard
      /\ \A a \in Analyzers : a # b => evidence'.analyzers[a] = evidence.analyzers[a]
  BY <1>2, <1>3 DEF EvidenceType
<1>6. waiting' = waiting \ {b} /\ alert' = alert
  BY DEF AnalyzerAnswers
<1>7. TypeOK'
  BY <1>4, <1>6 DEF IInv, TypeOK
<1>8. Silent'
  <2>1. \A a \in (waiting \cap Installed)' : evidence'.analyzers[a] = Unheard
    BY <1>5, <1>6, InstalledAssumption DEF IInv, Silent, InstalledAssumption
  <2>2. \A s \in (waiting \cap Services)' : evidence'[s] = 0
    BY <1>2, <1>5, <1>6 DEF IInv, Silent, Services, EvidenceType
  <2>3. "loki" \in waiting' => evidence'.critical = 0
    BY <1>5, <1>6 DEF IInv, Silent
  <2> QED BY <2>1, <2>2, <2>3 DEF Silent
<1>9. evidence.analyzers[b] = Unheard
  BY <1>2 DEF IInv, Silent
<1>10. Below(evidence, evidence')
  <2>1. \A a \in Analyzers : evidence.analyzers[a].score <= evidence'.analyzers[a].score
    <3> SUFFICES ASSUME NEW a \in Analyzers
                 PROVE  evidence.analyzers[a].score <= evidence'.analyzers[a].score
      OBVIOUS
    <3>1. CASE a = b
      BY <1>1, <1>5, <1>9, <3>1 DEF Unheard
    <3>2. CASE a # b
      BY <1>2, <1>5, <3>2 DEF EvidenceType
    <3> QED BY <3>1, <3>2
  <2>2. evidence.misp \in Nat /\ evidence.tenzir \in Nat /\ evidence.network \in Nat
        /\ evidence.loki \in Nat /\ evidence.critical \in Nat
    BY <1>2 DEF EvidenceType
  <2> QED BY <1>5, <2>1, <2>2 DEF Below
<1>11. Malicious(evidence) => Malicious(evidence')
  BY <1>5, <1>9 DEF Malicious, Unheard
<1> QED BY <1>7, <1>8, <1>10, <1>11 DEF IInv, Grows

\* The parts of the evidence are numbers.
LEMMA Numbers ==
    ASSUME NEW ev \in EvidenceType
    PROVE  /\ ev.misp \in Nat /\ ev.tenzir \in Nat /\ ev.network \in Nat
           /\ ev.loki \in Nat /\ ev.critical \in Nat
           /\ \A a \in Analyzers : ev.analyzers[a].score \in Nat
BY DEF EvidenceType

LEMMA ServiceStep ==
    ASSUME IInv, NEW s \in {"misp", "tenzir", "network"}, ServiceAnswers(s)
    PROVE  IInv' /\ Grows
<1> PICK n \in Hits : evidence' = [evidence EXCEPT ![s] = n]
  BY DEF ServiceAnswers
<1>1. n \in Nat /\ evidence \in EvidenceType /\ s \in waiting \cap Services
  BY HitsAssumption DEF HitsAssumption, IInv, TypeOK, ServiceAnswers, Services
<1>2. waiting' = waiting \ {s} /\ alert' = alert
  BY DEF ServiceAnswers
<1>3. evidence' \in EvidenceType
  BY <1>1 DEF EvidenceType
<1>4. /\ evidence'.analyzers = evidence.analyzers
      /\ evidence'.loki = evidence.loki /\ evidence'.critical = evidence.critical
      /\ \A t \in Services : t # s => evidence'[t] = evidence[t]
      /\ evidence'[s] = n
  BY <1>1 DEF EvidenceType, Services
<1>5. TypeOK'
  BY <1>2, <1>3 DEF IInv, TypeOK
<1>6. Silent'
  <2>1. \A a \in (waiting \cap Installed)' : evidence'.analyzers[a] = Unheard
    BY <1>2, <1>4 DEF IInv, Silent
  <2>2. \A t \in (waiting \cap Services)' : evidence'[t] = 0
    BY <1>2, <1>4 DEF IInv, Silent
  <2>3. "loki" \in waiting' => evidence'.critical = 0
    BY <1>2, <1>4 DEF IInv, Silent
  <2> QED BY <2>1, <2>2, <2>3 DEF Silent
<1>7. evidence[s] = 0
  BY <1>1 DEF IInv, Silent
<1>8. \A t \in Services : evidence[t] \in Nat /\ evidence'[t] \in Nat
  BY <1>1, <1>3 DEF EvidenceType, Services
<1>9. \A t \in Services : evidence[t] <= evidence'[t]
  BY <1>1, <1>4, <1>7, <1>8
<1>10. Below(evidence, evidence')
  <2>1. \A a \in Analyzers : evidence.analyzers[a].score <= evidence'.analyzers[a].score
    BY <1>1, <1>4, Numbers
  <2>2. evidence.critical <= evidence'.critical
    BY <1>1, <1>4, Numbers
  <2>3. /\ evidence.misp <= evidence'.misp /\ evidence.tenzir <= evidence'.tenzir
        /\ evidence.network <= evidence'.network /\ evidence.loki <= evidence'.loki
    BY <1>9 DEF Services
  <2> QED BY <2>1, <2>2, <2>3 DEF Below
<1>11. Malicious(evidence) => Malicious(evidence')
  BY <1>4 DEF Malicious
<1> QED BY <1>5, <1>6, <1>10, <1>11 DEF IInv, Grows

LEMMA LokiStep ==
    ASSUME IInv, LokiAnswers
    PROVE  IInv' /\ Grows
<1> PICK n \in Hits, c \in Hits \cup {0} :
       evidence' = [evidence EXCEPT !.loki = n, !.critical = c]
  BY DEF LokiAnswers
<1>1. n \in Nat /\ c \in Nat /\ evidence \in EvidenceType /\ "loki" \in waiting
  BY HitsAssumption DEF HitsAssumption, IInv, TypeOK, LokiAnswers
<1>2. waiting' = waiting \ {"loki"} /\ alert' = alert
  BY DEF LokiAnswers
<1>3. evidence' \in EvidenceType
  BY <1>1 DEF EvidenceType
<1>4. /\ evidence'.analyzers = evidence.analyzers
      /\ evidence'.misp = evidence.misp /\ evidence'.tenzir = evidence.tenzir
      /\ evidence'.network = evidence.network
      /\ evidence'.loki = n /\ evidence'.critical = c
  BY <1>1 DEF EvidenceType
<1>5. evidence.loki = 0 /\ evidence.critical = 0
  BY <1>1 DEF IInv, Silent, Services
<1>6. TypeOK'
  BY <1>2, <1>3 DEF IInv, TypeOK
<1>7. Silent'
  <2>1. \A a \in (waiting \cap Installed)' : evidence'.analyzers[a] = Unheard
    BY <1>2, <1>4 DEF IInv, Silent
  <2>2. \A t \in (waiting \cap Services)' : evidence'[t] = 0
    BY <1>2, <1>4 DEF IInv, Silent, Services
  <2> QED BY <1>2, <2>1, <2>2 DEF Silent
<1>8. Below(evidence, evidence')
  BY <1>1, <1>4, <1>5, Numbers DEF Below
<1>9. Malicious(evidence) => Malicious(evidence')
  BY <1>4 DEF Malicious
<1> QED BY <1>6, <1>7, <1>8, <1>9 DEF IInv, Grows

LEMMA NothingStep ==
    ASSUME IInv, NEW s, NothingFound(s)
    PROVE  IInv' /\ UNCHANGED evidence
BY DEF IInv, TypeOK, Silent, NothingFound

LEMMA NextInv == IInv /\ [Next]_vars => IInv' /\ (Grows \/ UNCHANGED evidence)
<1> SUFFICES ASSUME IInv, [Next]_vars PROVE IInv' /\ (Grows \/ UNCHANGED evidence)
  OBVIOUS
<1>1. CASE UNCHANGED vars
  BY <1>1 DEF vars, IInv, TypeOK, Silent
<1> QED BY <1>1, AnalyzerStep, ServiceStep, LokiStep, NothingStep DEF Next

-----------------------------------------------------------------------------
(***************************************************************************)
(* The theorems.                                                           *)
(***************************************************************************)

\* The evidence always has its type: an answer is parsed before it counts.
THEOREM TypeCorrect == Spec => []TypeOK
<1>1. IInv => TypeOK
  BY DEF IInv
<1> QED BY InitInv, NextInv, <1>1, PTL DEF Spec

LEMMA AlertHasType == TypeOK => alert \in AlertType /\ evidence \in EvidenceType
BY AlertsAssumption DEF AlertsAssumption, AlertType, TypeOK

LEMMA BelowItself ==
    ASSUME NEW ev \in EvidenceType
    PROVE  Below(ev, ev)
BY Numbers DEF Below

\* Evidence that is heard in addition never turns "contain" back.
THEOREM ContainmentStable == Spec => ContainIsStable
<1>1. ASSUME IInv, [Next]_vars
      PROVE  [Decision(alert, evidence) = "contain"
                => Decision(alert, evidence)' = "contain"]_vars
  <2>1. /\ alert \in AlertType /\ evidence \in EvidenceType
        /\ alert' \in AlertType /\ evidence' \in EvidenceType
    BY <1>1, NextInv, AlertsAssumption DEF IInv, TypeOK, AlertsAssumption, AlertType
  <2>2. alert' = alert
    BY <1>1 DEF Next, vars, AnalyzerAnswers, ServiceAnswers, LokiAnswers, NothingFound
  <2>3. Below(evidence, evidence') /\ (Malicious(evidence) => Malicious(evidence'))
    BY <1>1, <2>1, NextInv, BelowItself DEF Grows
  <2>4. /\ Score(alert, evidence) \in Nat
        /\ Cap(Score(alert, evidence)) <= Cap(Score(alert, evidence'))
    BY <2>1, <2>3, ScoreFacts
  <2>5. Score(alert, evidence') \in Nat
    BY <2>1, BelowItself, ScoreFacts
  <2>6. Decision(alert, evidence) = "contain" => Decision(alert, evidence') = "contain"
    <3>1. Score(alert, evidence) >= 80 => Score(alert, evidence') >= 80
      BY <2>4, <2>5 DEF Cap, Smaller
    <3> QED BY <2>3, <2>4, <2>5, <3>1, DecisionFacts
  <2> QED BY <2>2, <2>6
<1> QED BY InitInv, NextInv, <1>1, PTL DEF Spec, ContainIsStable

\* Without a second service, or an analyzer, or an alert that is worth 50 by
\* itself, there is no containment.
THEOREM NoSingleConviction == Spec => []NoSingleServiceConvicts
<1>1. ASSUME TypeOK, BaseScore(alert) + EventBonus(alert.event) < 50,
             \A a \in Analyzers : evidence.analyzers[a] = Unheard,
             \A s1, s2 \in Services : s1 = s2 \/ ~Found(s1) \/ ~Found(s2)
      PROVE  Decision(alert, evidence) # "contain"
  <2> DEFINE b  == BaseScore(alert)
             ms == MispBonus(evidence.misp)
             eb == EventBonus(alert.event)
             tz == TenzirBonus(evidence.tenzir)
             nw == NetworkBonus(evidence.network)
             lk == LokiBonus(evidence.loki, evidence.critical)
             an == AnalyzerScore(b, evidence.analyzers)
             r1 == Add(an, ms)
             r2 == Add(r1, eb)
             r3 == Add(r2, tz)
             r4 == Add(r3, nw)
             r5 == Add(r4, lk)
  <2>1. alert \in AlertType /\ evidence \in EvidenceType
    BY <1>1, AlertHasType
  <2>2. b \in Nat
    BY <2>1, BaseRange
  <2>3. an = b
    <3>1. \A a \in {"cortex_hash", "cortex_ip", "dshield", "mnemonic_pdns", "googledns", "ipapi"} :
             evidence.analyzers[a].score = 0
      BY <1>1 DEF Analyzers, Unheard
    <3> QED BY <2>2, <3>1 DEF AnalyzerScore, Larger
  <2>4. ms \in 0 .. 30 /\ tz \in 0 .. 30 /\ nw \in 0 .. 30 /\ lk \in 0 .. 30 /\ eb \in {0, 10}
    BY <2>1, Numbers, MispFacts, TenzirFacts, NetworkFacts, LokiFacts, EventFacts DEF AlertType
  <2>5. ms + tz + nw + lk <= 30
    <3>1. /\ evidence.misp > 0 => evidence.tenzir = 0 /\ evidence.network = 0 /\ evidence.loki = 0
          /\ evidence.tenzir > 0 => evidence.network = 0 /\ evidence.loki = 0
          /\ evidence.network > 0 => evidence.loki = 0
      BY <1>1, <2>1, Numbers DEF Found, Services
    <3>2. /\ evidence.misp = 0 => ms = 0
          /\ evidence.tenzir = 0 => tz = 0
          /\ evidence.network = 0 => nw = 0
          /\ evidence.loki = 0 => lk = 0
      BY <2>1, Numbers, MispFacts, TenzirFacts, NetworkFacts, LokiFacts
    <3>3. /\ evidence.misp \in Nat /\ evidence.tenzir \in Nat
          /\ evidence.network \in Nat /\ evidence.loki \in Nat
      BY <2>1, Numbers
    <3> HIDE DEF ms, tz, nw, lk
    <3> QED BY <2>4, <3>1, <3>2, <3>3
  <2>6. b + eb < 50
    BY <1>1
  <2>7. Score(alert, evidence) = r5
    BY DEF Score
  <2> HIDE DEF b, ms, eb, tz, nw, lk, an
  <2>n. ms \in Nat /\ eb \in Nat /\ tz \in Nat /\ nw \in Nat /\ lk \in Nat /\ an \in Nat
    BY <2>2, <2>3, <2>4
  <2>8. r1 \in Nat /\ r1 <= b + ms
    BY <2>3, <2>n, AddRange
  <2> HIDE DEF r1
  <2>9. r2 \in Nat /\ r2 <= r1 + eb
    BY <2>n, <2>8, AddRange
  <2> HIDE DEF r2
  <2>10. r3 \in Nat /\ r3 <= r2 + tz
    BY <2>n, <2>9, AddRange
  <2> HIDE DEF r3
  <2>11. r4 \in Nat /\ r4 <= r3 + nw
    BY <2>n, <2>10, AddRange
  <2> HIDE DEF r4
  <2>12. r5 \in Nat /\ r5 <= r4 + lk
    BY <2>n, <2>11, AddRange
  <2> HIDE DEF r5
  <2>13. Score(alert, evidence) \in Nat /\ Score(alert, evidence) < 80
    BY <2>2, <2>4, <2>5, <2>6, <2>7, <2>8, <2>9, <2>10, <2>11, <2>12
  <2>14. ~Malicious(evidence)
    BY <1>1 DEF Malicious, Unheard
  <2> QED BY <2>13, <2>14, DecisionFacts
<1>2. TypeOK => NoSingleServiceConvicts
  BY <1>1 DEF NoSingleServiceConvicts
<1> QED BY TypeCorrect, <1>2, PTL

-----------------------------------------------------------------------------
(***************************************************************************)
(* Induction, for sets instead of predicates.                              *)
(***************************************************************************)

LEMMA Least ==
  ASSUME NEW T \in SUBSET Nat, T # {} PROVE  \E x \in T : \A y \in T : x <= y
<1>1. IsWellFoundedOn(OpToRel(<, Nat), Nat)
  BY NatLessThanWellFounded
<1>2. PICK x \in T : \A y \in T : ~(<<y, x>> \in OpToRel(<, Nat))
  BY <1>1, WFMin
<1>3. \A y \in T : <<y, x>> \in OpToRel(<, Nat) <=> y < x
  BY DEF OpToRel
<1>4. \A y \in T : ~(y < x)
  BY <1>2, <1>3
<1> QED BY <1>4

\* Induction over the subsets of a finite set, for a set of them.
LEMMA SubsetInduction ==
  ASSUME NEW U, IsFiniteSet(U), NEW P \in SUBSET SUBSET U, {} \in P,
         \A s \in P : \A x \in U \ s : s \cup {x} \in P
  PROVE  U \in P
<1> DEFINE left == {Cardinality(U \ s) : s \in P}
<1>1. \A s \in SUBSET U : IsFiniteSet(U \ s) /\ Cardinality(U \ s) \in Nat
  BY FS_Subset, FS_CardinalityType
<1>2. left \in SUBSET Nat /\ left # {}
  BY <1>1
<1>3. PICK m \in left : \A k \in left : m <= k
  <2> HIDE DEF left
  <2> QED BY <1>2, Least
<1>4. PICK s \in P : m = Cardinality(U \ s)
  BY <1>3
<1>5. CASE U \ s = {}
  <2>1. s = U
    BY <1>5
  <2> QED BY <2>1
<1>6. CASE U \ s # {}
  <2>1. PICK x \in U \ s : TRUE
    BY <1>6
  <2>2. s \cup {x} \in P /\ U \ (s \cup {x}) = (U \ s) \ {x}
    BY <2>1
  <2>3. IsFiniteSet(U \ s) /\ m \in Nat
    BY <1>1, <1>4
  <2>4. Cardinality((U \ s) \ {x}) = m - 1
    BY <2>1, <2>3, <1>4, FS_RemoveElement
  <2>5. m - 1 \in left
    BY <2>2, <2>4
  <2>6. m <= m - 1
    BY <1>3, <2>5
  <2> QED BY <2>6, <2>3
<1> QED BY <1>5, <1>6

LEMMA NatSetInduction ==
  ASSUME NEW S, 0 \in S, \A n \in Nat : n \in S => n + 1 \in S
  PROVE  Nat \subseteq S
<1> SUFFICES ASSUME Nat \ S # {} PROVE FALSE
  OBVIOUS
<1>1. PICK m \in Nat \ S : \A k \in Nat \ S : m <= k
  BY Least
<1>2. m - 1 \in Nat /\ (m - 1) + 1 = m
  OBVIOUS
<1>3. m - 1 \in S
  BY <1>1, <1>2
<1> QED BY <1>2, <1>3

-----------------------------------------------------------------------------
(***************************************************************************)
(* Sums over finite sets.                                                  *)
(***************************************************************************)

\* The sums of the subsets of U.
Adds(G, U, f) ==
  /\ G \in [SUBSET U -> Int] /\ G[{}] = 0
  /\ \A s \in SUBSET U : \A x \in s : G[s] = f[x] + G[s \ {x}]

CanAdd(U, f) == \E G : Adds(G, U, f)

LEMMA SumsExist ==
  ASSUME NEW U, IsFiniteSet(U), NEW f \in [U -> Int] PROVE  CanAdd(U, f)
<1> DEFINE P == {s \in SUBSET U : CanAdd(s, f)}
<1>1. {} \in P
  <2>1. Adds([s \in SUBSET {} |-> 0], {}, f)
    BY DEF Adds
  <2> QED BY <2>1 DEF CanAdd
<1>2. ASSUME NEW u \in P, NEW a \in U \ u PROVE u \cup {a} \in P
  <2>1. PICK G : Adds(G, u, f)
    BY <1>2 DEF CanAdd
  <2> DEFINE v == u \cup {a}
             H == [s \in SUBSET v |-> IF a \in s THEN f[a] + G[s \ {a}] ELSE G[s]]
  <2>2. \A s \in SUBSET v : s \ {a} \in SUBSET u /\ (a \notin s => s \in SUBSET u)
    OBVIOUS
  <2>3. H \in [SUBSET v -> Int]
    BY <2>1, <2>2, <1>2 DEF Adds
  <2>4. H[{}] = 0
    BY <2>1 DEF Adds
  <2>5. ASSUME NEW s \in SUBSET v, NEW x \in s PROVE H[s] = f[x] + H[s \ {x}]
    <3>1. CASE x = a
      <4>1. H[s] = f[a] + G[s \ {a}] /\ H[s \ {a}] = G[s \ {a}]
        BY <3>1, <2>2
      <4> QED BY <4>1, <3>1
    <3>2. CASE x # a /\ a \in s
      <4>1. (s \ {x}) \ {a} = (s \ {a}) \ {x} /\ x \in s \ {a} /\ s \ {x} \in SUBSET v
            /\ a \in s \ {x}
        BY <3>2
      <4>2. H[s] = f[a] + G[s \ {a}] /\ H[s \ {x}] = f[a] + G[(s \ {a}) \ {x}]
        BY <3>2, <4>1
      <4>3. G[s \ {a}] = f[x] + G[(s \ {a}) \ {x}]
        BY <4>1, <2>2, <2>1 DEF Adds
      <4>4. f[a] \in Int /\ f[x] \in Int /\ (s \ {a}) \ {x} \in SUBSET u
        BY <1>2, <2>2
      <4>5. G[(s \ {a}) \ {x}] \in Int
        BY <4>4, <2>1 DEF Adds
      <4> HIDE DEF H
      <4> QED BY <4>2, <4>3, <4>4, <4>5
    <3>3. CASE a \notin s
      <4>1. s \in SUBSET u /\ s \ {x} \in SUBSET v /\ a \notin s \ {x}
        BY <3>3
      <4>2. H[s] = G[s] /\ H[s \ {x}] = G[s \ {x}]
        BY <4>1, <3>3
      <4> QED BY <4>1, <4>2, <2>1 DEF Adds
    <3> QED BY <3>1, <3>2, <3>3
  <2> HIDE DEF H
  <2>6. Adds(H, v, f)
    BY <2>3, <2>4, <2>5 DEF Adds
  <2> QED BY <2>6, <1>2 DEF CanAdd
<1> HIDE DEF P
<1>3. P \in SUBSET SUBSET U /\ U \in P
  <2>1. P \in SUBSET SUBSET U
    BY DEF P
  <2> QED BY <2>1, <1>1, <1>2, SubsetInduction
<1> QED BY <1>3 DEF P

\* What the fold of the community modules chooses.
IsFold(g, S, f) ==
  g = [s \in SUBSET S |-> IF s = {} THEN 0
                          ELSE LET x == CHOOSE x \in s : TRUE IN f[x] + g[s \ {x}]]
SumOf(f, S) == MapThenSumSet(LAMBDA x : f[x], S)

LEMMA SumIsFold ==
  ASSUME NEW S, NEW f PROVE  SumOf(f, S) = (CHOOSE g : IsFold(g, S, f))[S]
BY DEF SumOf, MapThenSumSet, MapThenFoldSet, IsFold

LEMMA SumOfEquals ==
  ASSUME NEW S, NEW f, NEW e, \A x \in S : f[x] = e[x]
  PROVE  SumOf(f, S) = SumOf(e, S)
<1>1. ASSUME NEW g PROVE IsFold(g, S, f) <=> IsFold(g, S, e)
  <2>1. ASSUME NEW s \in SUBSET S, s # {}
        PROVE  LET x == CHOOSE x \in s : TRUE IN f[x] = e[x]
    <3>1. (CHOOSE x \in s : TRUE) \in S
      BY <2>1
    <3> QED BY <3>1
  <2>2. [s \in SUBSET S |-> IF s = {} THEN 0
            ELSE LET x == CHOOSE x \in s : TRUE IN f[x] + g[s \ {x}]]
        = [s \in SUBSET S |-> IF s = {} THEN 0
            ELSE LET x == CHOOSE x \in s : TRUE IN e[x] + g[s \ {x}]]
    BY <2>1
  <2> QED BY <2>2 DEF IsFold
<1>2. (CHOOSE g : IsFold(g, S, f)) = (CHOOSE g : IsFold(g, S, e))
  BY <1>1
<1> QED BY <1>2, SumIsFold

\* The sum over a finite set is what any sums of its subsets say.
LEMMA SumIs ==
  ASSUME NEW U, IsFiniteSet(U), NEW f \in [U -> Int], NEW G, Adds(G, U, f), NEW S \in SUBSET U
  PROVE  SumOf(f, S) = G[S]
<1> DEFINE K == [s \in SUBSET S |-> G[s]]
           g == CHOOSE g : IsFold(g, S, f)
<1>1. IsFold(K, S, f)
  <2>1. ASSUME NEW s \in SUBSET S, s # {}
        PROVE  LET x == CHOOSE x \in s : TRUE IN K[s] = f[x] + K[s \ {x}]
    <3> DEFINE x == CHOOSE x \in s : TRUE
    <3>1. x \in s
      BY <2>1
    <3> HIDE DEF x
    <3>2. K[s] = f[x] + K[s \ {x}]
      BY <3>1 DEF Adds
    <3> QED BY <3>2 DEF x
  <2>2. K[{}] = 0
    <3>1. {} \in SUBSET S /\ G[{}] = 0
      BY DEF Adds
    <3> QED BY <3>1
  <2>3. K = [s \in SUBSET S |-> IF s = {} THEN 0
                 ELSE LET x == CHOOSE x \in s : TRUE IN f[x] + K[s \ {x}]]
    BY <2>1, <2>2
  <2> QED BY <2>3 DEF IsFold
<1> HIDE DEF K
<1>2. IsFold(g, S, f)
  BY <1>1
<1> HIDE DEF g
<1> DEFINE apart == {t \in SUBSET S : g[t] # G[t]}
           sizes == {Cardinality(t) : t \in apart}
<1>3. \A t \in SUBSET S : IsFiniteSet(t) /\ Cardinality(t) \in Nat
  BY FS_Subset, FS_CardinalityType
<1>4. ASSUME apart # {} PROVE FALSE
  <2>1. sizes \in SUBSET Nat /\ sizes # {}
    BY <1>3, <1>4
  <2>2. PICK m \in sizes : \A k \in sizes : m <= k
    <3> HIDE DEF sizes
    <3> QED BY <2>1, Least
  <2>3. PICK t \in apart : m = Cardinality(t)
    BY <2>2
  <2>4. t \in SUBSET S /\ g[t] # G[t]
    BY <2>3
  <2>5. t # {}
    BY <2>4, <1>2 DEF IsFold, Adds
  <2> DEFINE x == CHOOSE x \in t : TRUE
  <2>6. x \in t
    BY <2>5
  <2>7. g[t] = f[x] + g[t \ {x}]
    BY <1>2, <2>4, <2>5 DEF IsFold
  <2> HIDE DEF x
  <2>8. G[t] = f[x] + G[t \ {x}]
    BY <2>4, <2>6 DEF Adds
  <2>9. Cardinality(t \ {x}) = m - 1 /\ m \in Nat
    BY <1>3, <2>3, <2>4, <2>6, FS_RemoveElement
  <2>10. t \ {x} \notin apart
    <3> SUFFICES ASSUME t \ {x} \in apart PROVE FALSE
      OBVIOUS
    <3>1. m - 1 \in sizes
      BY <2>9
    <3> QED BY <3>1, <2>2, <2>9
  <2> QED BY <2>4, <2>7, <2>8, <2>10
<1>5. g[S] = G[S]
  BY <1>4
<1> QED BY <1>5, SumIsFold DEF g

\* A sum of whole numbers is one, and splits.
LEMMA SumSplits ==
  ASSUME NEW U, IsFiniteSet(U), NEW f \in [U -> Int], NEW A \in SUBSET U
  PROVE  /\ SumOf(f, A) \in Int
         /\ SumOf(f, U) = SumOf(f, A) + SumOf(f, U \ A)
<1>1. PICK G : Adds(G, U, f)
  BY SumsExist DEF CanAdd
<1> DEFINE P == {s \in SUBSET (U \ A) : G[A \cup s] = G[A] + G[s]}
<1>2. {} \in P
  BY <1>1 DEF Adds
<1>3. ASSUME NEW s \in P, NEW x \in (U \ A) \ s PROVE s \cup {x} \in P
  <2> DEFINE t == s \cup {x}
  <2>1. /\ t \in SUBSET U /\ x \in t /\ t \ {x} = s
        /\ A \cup t \in SUBSET U /\ x \in A \cup t /\ (A \cup t) \ {x} = A \cup s
    BY <1>3
  <2> HIDE DEF t
  <2>2. G[t] = f[x] + G[s] /\ G[A \cup t] = f[x] + G[A \cup s]
    BY <1>1, <2>1 DEF Adds
  <2>3. f[x] \in Int /\ G[s] \in Int /\ G[A] \in Int
    BY <1>1, <1>3 DEF Adds
  <2>4. G[A \cup t] = G[A] + G[t]
    BY <2>2, <2>3, <1>3
  <2> QED BY <2>4, <1>3 DEF t
<1>4. P \in SUBSET SUBSET (U \ A) /\ IsFiniteSet(U \ A)
  BY FS_Subset
<1> HIDE DEF P
<1>5. U \ A \in P
  BY <1>2, <1>3, <1>4, SubsetInduction
<1>6. G[U] = G[A] + G[U \ A]
  <2>1. A \cup (U \ A) = U
    OBVIOUS
  <2> QED BY <1>5, <2>1 DEF P
<1>7. SumOf(f, U) = G[U] /\ SumOf(f, A) = G[A] /\ SumOf(f, U \ A) = G[U \ A]
  BY <1>1, SumIs
<1> QED BY <1>1, <1>6, <1>7 DEF Adds

\* A sum does not depend on what the summands are called.
Renames(b, A, f, g) == \A a \in A : g[a] = f[b[a]]

LEMMA SumMoves ==
  ASSUME NEW A, IsFiniteSet(A), NEW Z, NEW b \in Bijection(A, Z),
         NEW f \in [Z -> Int], NEW g \in [A -> Int], Renames(b, A, f, g)
  PROVE  SumOf(g, A) = SumOf(f, Z)
<1> DEFINE img(s) == {b[a] : a \in s}
<1>1. /\ b \in [A -> Z] /\ \A x, y \in A : b[x] = b[y] => x = y
      /\ img(A) = Z
  BY DEF Bijection, Injection, Surjection, IsInjective
<1>2. IsFiniteSet(Z)
  <2>1. ExistsBijection(A, Z)
    BY DEF ExistsBijection
  <2> QED BY <2>1, FS_Bijection
<1>3. PICK F : Adds(F, Z, f)
  BY <1>2, SumsExist DEF CanAdd
<1> DEFINE G == [s \in SUBSET A |-> F[img(s)]]
<1>4. Adds(G, A, g)
  <2>1. \A s \in SUBSET A : img(s) \in SUBSET Z
    BY <1>1
  <2>2. G \in [SUBSET A -> Int] /\ G[{}] = 0
    <3>1. img({}) = {}
      OBVIOUS
    <3> HIDE DEF img
    <3> QED BY <1>3, <2>1, <3>1 DEF Adds
  <2>3. ASSUME NEW s \in SUBSET A, NEW x \in s PROVE G[s] = g[x] + G[s \ {x}]
    <3>1. img(s \ {x}) = img(s) \ {b[x]} /\ b[x] \in img(s)
      BY <1>1
    <3>2. img(s) \in SUBSET Z /\ g[x] = f[b[x]]
      BY <2>1 DEF Renames
    <3> HIDE DEF img
    <3>3. F[img(s)] = f[b[x]] + F[img(s) \ {b[x]}]
      BY <1>3, <3>1, <3>2 DEF Adds
    <3> QED BY <3>1, <3>2, <3>3
  <2> HIDE DEF G
  <2> QED BY <2>2, <2>3 DEF Adds
<1>5. G[A] = F[Z]
  <2> HIDE DEF img
  <2> QED BY <1>1
<1> HIDE DEF G
<1>6. SumOf(g, A) = G[A]
  <2>1. A \in SUBSET A
    OBVIOUS
  <2> QED BY <1>4, <2>1, SumIs
<1>7. SumOf(f, Z) = F[Z]
  <2>1. Z \in SUBSET Z
    OBVIOUS
  <2> QED BY <1>2, <1>3, <2>1, SumIs
<1> QED BY <1>5, <1>6, <1>7

LEMMA SumsAddUp ==
  ASSUME NEW U, IsFiniteSet(U), NEW f \in [U -> Int], NEW g \in [U -> Int], NEW h \in [U -> Int],
         \A x \in U : h[x] = f[x] + g[x]
  PROVE  SumOf(h, U) = SumOf(f, U) + SumOf(g, U)
<1>1. PICK F : Adds(F, U, f)
  BY SumsExist DEF CanAdd
<1>2. PICK G : Adds(G, U, g)
  BY SumsExist DEF CanAdd
<1> DEFINE H == [s \in SUBSET U |-> F[s] + G[s]]
<1>3. Adds(H, U, h)
  <2>1. H \in [SUBSET U -> Int] /\ H[{}] = 0
    BY <1>1, <1>2 DEF Adds
  <2>2. ASSUME NEW s \in SUBSET U, NEW x \in s PROVE H[s] = h[x] + H[s \ {x}]
    <3>1. F[s] = f[x] + F[s \ {x}] /\ G[s] = g[x] + G[s \ {x}]
      BY <1>1, <1>2 DEF Adds
    <3>2. F[s \ {x}] \in Int /\ G[s \ {x}] \in Int /\ f[x] \in Int /\ g[x] \in Int
          /\ h[x] = f[x] + g[x]
      BY <1>1, <1>2 DEF Adds
    <3>3. H[s] = F[s] + G[s] /\ H[s \ {x}] = F[s \ {x}] + G[s \ {x}]
      OBVIOUS
    <3> HIDE DEF H
    <3> QED BY <3>1, <3>2, <3>3
  <2> HIDE DEF H
  <2> QED BY <2>1, <2>2 DEF Adds
<1>4. U \in SUBSET U /\ H[U] = F[U] + G[U]
  OBVIOUS
<1> HIDE DEF H
<1>5. SumOf(h, U) = H[U]
  BY <1>3, <1>4, SumIs
<1>6. SumOf(f, U) = F[U]
  BY <1>1, <1>4, SumIs
<1>7. SumOf(g, U) = G[U]
  BY <1>2, <1>4, SumIs
<1> QED BY <1>4, <1>5, <1>6, <1>7

LEMMA SumOfZeros ==
  ASSUME NEW U, IsFiniteSet(U), NEW f \in [U -> Int], \A x \in U : f[x] = 0
  PROVE  SumOf(f, U) = 0
<1> DEFINE G == [s \in SUBSET U |-> 0]
<1>1. Adds(G, U, f)
  BY DEF Adds
<1>2. U \in SUBSET U /\ G[U] = 0
  OBVIOUS
<1> HIDE DEF G
<1> QED BY <1>1, <1>2, SumIs

-----------------------------------------------------------------------------
(***************************************************************************)
(* Folds of sequences.                                                     *)
(***************************************************************************)

LEMMA MaxIsThere ==
  ASSUME NEW n \in Nat, NEW t \in SUBSET (1 .. n), t # {}
  PROVE  Max(t) \in t /\ \A x \in t : x <= Max(t)
<1> DEFINE left == {n - x : x \in t}
<1>1. left \in SUBSET Nat /\ left # {}
  <2>1. \A x \in t : n - x \in Nat
    OBVIOUS
  <2> QED BY <2>1
<1>2. PICK m \in left : \A k \in left : m <= k
  <2> HIDE DEF left
  <2> QED BY <1>1, Least
<1>3. PICK x \in t : m = n - x
  BY <1>2
<1>4. ASSUME NEW y \in t PROVE x >= y
  <2>1. n - x <= n - y
    BY <1>2, <1>3
  <2>2. x \in Int /\ y \in Int
    OBVIOUS
  <2> QED BY <2>1, <2>2
<1>5. Max(t) \in t /\ \A y \in t : Max(t) >= y
  BY <1>4 DEF Max
<1>6. ASSUME NEW y \in t PROVE y <= Max(t)
  <2>1. \A z \in t : z \in Int
    OBVIOUS
  <2>2. Max(t) \in Int /\ y \in Int /\ Max(t) >= y
    BY <1>5, <2>1
  <2> QED BY <2>2
<1> QED BY <1>5, <1>6

\* g folds the numbers up to n, greatest last.
FoldsUp(g, n, V, base, F) ==
  /\ g \in [SUBSET (1 .. n) -> V] /\ g[{}] = base
  /\ \A t \in SUBSET (1 .. n) : t # {} => g[t] = F[<<g[t \ {Max(t)}], Max(t)>>]

CanFold(n, V, base, F) == \E g : FoldsUp(g, n, V, base, F)

LEMMA FoldExists ==
  ASSUME NEW N \in Nat, NEW V, NEW base \in V, NEW F \in [V \X (1 .. N) -> V]
  PROVE  CanFold(N, V, base, F)
<1> DEFINE P == {n \in Nat : n <= N => CanFold(n, V, base, F)}
<1>1. 0 \in P
  <2>1. 1 .. 0 = {}
    OBVIOUS
  <2>2. FoldsUp([t \in SUBSET (1 .. 0) |-> base], 0, V, base, F)
    BY <2>1 DEF FoldsUp
  <2> QED BY <2>2 DEF CanFold
<1>2. ASSUME NEW n \in Nat, n \in P PROVE n + 1 \in P
  <2> SUFFICES ASSUME n + 1 <= N PROVE CanFold(n + 1, V, base, F)
    OBVIOUS
  <2>1. PICK g : FoldsUp(g, n, V, base, F)
    BY <1>2 DEF CanFold
  <2> DEFINE m == n + 1
             h == [t \in SUBSET (1 .. m) |-> IF m \in t THEN F[<<g[t \ {m}], m>>] ELSE g[t]]
  <2>2. /\ \A t \in SUBSET (1 .. m) : t \ {m} \in SUBSET (1 .. n)
        /\ \A t \in SUBSET (1 .. m) : m \notin t => t \in SUBSET (1 .. n)
        /\ m \in 1 .. N
    OBVIOUS
  <2>3. h \in [SUBSET (1 .. m) -> V] /\ h[{}] = base
    <3> HIDE DEF m
    <3> QED BY <2>1, <2>2 DEF FoldsUp
  <2>4. ASSUME NEW t \in SUBSET (1 .. m), t # {}
        PROVE  h[t] = F[<<h[t \ {Max(t)}], Max(t)>>]
    <3>1. Max(t) \in t /\ \A x \in t : x <= Max(t)
      <4>1. m \in Nat
        OBVIOUS
      <4> HIDE DEF m
      <4> QED BY <2>4, <4>1, MaxIsThere
    <3>2. CASE m \in t
      <4>1. Max(t) = m
        <5>1. Max(t) \in 1 .. m /\ m <= Max(t)
          BY <3>1, <3>2
        <5> QED BY <5>1
      <4>2. t \ {m} \in SUBSET (1 .. m) /\ m \notin t \ {m}
        OBVIOUS
      <4>3. h[t] = F[<<g[t \ {m}], m>>] /\ h[t \ {m}] = g[t \ {m}]
        BY <3>2, <4>2
      <4> QED BY <4>1, <4>3
    <3>3. CASE m \notin t
      <4>1. t \ {Max(t)} \in SUBSET (1 .. m) /\ m \notin t \ {Max(t)} /\ t \in SUBSET (1 .. n)
        BY <3>3, <2>2
      <4>2. h[t] = g[t] /\ h[t \ {Max(t)}] = g[t \ {Max(t)}]
        BY <3>3, <4>1
      <4> HIDE DEF h
      <4> QED BY <2>1, <2>4, <4>1, <4>2 DEF FoldsUp
    <3> QED BY <3>2, <3>3
  <2> HIDE DEF h
  <2>5. FoldsUp(h, m, V, base, F)
    BY <2>3, <2>4 DEF FoldsUp
  <2> QED BY <2>5 DEF CanFold
<1> HIDE DEF P
<1>3. N \in P
  BY <1>1, <1>2, NatSetInduction
<1> QED BY <1>3 DEF P

LEMMA MaxOfInterval ==
  ASSUME NEW n \in Nat, NEW k \in 1 .. n
  PROVE  /\ Max(1 .. k) = k /\ (1 .. k) \ {k} = 1 .. (k - 1)
         /\ 1 .. k \in SUBSET (1 .. n) /\ 1 .. k # {}
<1>1. 1 .. k \in SUBSET (1 .. n) /\ k \in 1 .. k /\ (1 .. k) \ {k} = 1 .. (k - 1)
  OBVIOUS
<1>2. Max(1 .. k) \in 1 .. k /\ k <= Max(1 .. k)
  BY <1>1, MaxIsThere
<1> QED BY <1>1, <1>2

\* What FoldLeft chooses for Total.
IsTotal(c, s) ==
  c = [t \in SUBSET DOMAIN s |-> IF t = {} THEN 0
                                 ELSE LET x == Max(t) IN c[t \ {x}] + s[x]]

LEMMA TotalIsSum ==
  ASSUME NEW n \in Nat, NEW s \in [1 .. n -> Int]
  PROVE  Total(s) = SumOf(s, 1 .. n)
<1> DEFINE F == [p \in Int \X (1 .. n) |-> p[1] + s[p[2]]]
           c == CHOOSE c : IsTotal(c, s)
<1>1. F \in [Int \X (1 .. n) -> Int]
  OBVIOUS
<1>2. PICK g : FoldsUp(g, n, Int, 0, F)
  <2> HIDE DEF F
  <2> DEFINE V == Int
  <2>1. 0 \in V /\ F \in [V \X (1 .. n) -> V]
    BY <1>1
  <2>2. CanFold(n, V, 0, F)
    <3> HIDE DEF V
    <3> QED BY <2>1, FoldExists
  <2> QED BY <2>2 DEF CanFold
<1>3. IsTotal(g, s)
  <2>1. ASSUME NEW t \in SUBSET (1 .. n), t # {}
        PROVE  g[t] = g[t \ {Max(t)}] + s[Max(t)]
    <3>1. g[t] = F[<<g[t \ {Max(t)}], Max(t)>>]
      BY <1>2, <2>1 DEF FoldsUp
    <3>2. Max(t) \in 1 .. n /\ g[t \ {Max(t)}] \in Int
      BY <1>2, <2>1, MaxIsThere DEF FoldsUp
    <3> QED BY <3>1, <3>2
  <2>2. g[{}] = 0 /\ g = [t \in SUBSET (1 .. n) |-> g[t]]
    BY <1>2 DEF FoldsUp
  <2>3. g = [t \in SUBSET (1 .. n) |-> IF t = {} THEN 0 ELSE g[t \ {Max(t)}] + s[Max(t)]]
    <3> HIDE DEF F
    <3> QED BY <2>1, <2>2
  <2>4. DOMAIN s = 1 .. n
    OBVIOUS
  <2> QED BY <2>3, <2>4 DEF IsTotal
<1>4. IsTotal(c, s)
  BY <1>3
<1>5. Total(s) = c[1 .. n]
  <2>1. Total(s) = c[DOMAIN s]
    BY DEF Total, FoldLeft, MapThenFoldSet, IsTotal
  <2> HIDE DEF c
  <2> QED BY <2>1
<1> HIDE DEF c, F
<1>6. IsFiniteSet(1 .. n)
  BY FS_Interval
<1>7. PICK G : Adds(G, 1 .. n, s)
  BY <1>6, SumsExist DEF CanAdd
<1> DEFINE P == {k \in Nat : k <= n => c[1 .. k] = G[1 .. k]}
<1>8. 0 \in P
  <2>1. 1 .. 0 = {} /\ {} \in SUBSET DOMAIN s
    OBVIOUS
  <2> QED BY <2>1, <1>4, <1>7 DEF IsTotal, Adds
<1>9. ASSUME NEW k \in Nat, k \in P PROVE k + 1 \in P
  <2> SUFFICES ASSUME k + 1 <= n PROVE c[1 .. (k + 1)] = G[1 .. (k + 1)]
    OBVIOUS
  <2>1. k + 1 \in 1 .. n /\ (k + 1) - 1 = k /\ k <= n
    OBVIOUS
  <2> DEFINE t == 1 .. (k + 1)
  <2>2. Max(t) = k + 1 /\ t \ {k + 1} = 1 .. k /\ t \in SUBSET (1 .. n) /\ t # {} /\ k + 1 \in t
    BY <2>1, MaxOfInterval
  <2> HIDE DEF t
  <2>3. c[t] = c[1 .. k] + s[k + 1]
    BY <1>4, <2>2 DEF IsTotal
  <2>4. G[t] = s[k + 1] + G[1 .. k]
    <3>1. G[t] = s[k + 1] + G[t \ {k + 1}]
      BY <1>7, <2>2 DEF Adds
    <3> QED BY <2>2, <3>1
  <2>5. 1 .. k \in SUBSET (1 .. n) /\ G[1 .. k] \in Int /\ s[k + 1] \in Int /\ c[1 .. k] = G[1 .. k]
    BY <1>7, <1>9, <2>1 DEF Adds
  <2> QED BY <2>3, <2>4, <2>5 DEF t
<1> HIDE DEF P
<1>10. c[1 .. n] = G[1 .. n]
  <2>1. n \in P
    BY <1>8, <1>9, NatSetInduction
  <2> QED BY <2>1 DEF P
<1>11. SumOf(s, 1 .. n) = G[1 .. n]
  <2>1. 1 .. n \in SUBSET (1 .. n)
    OBVIOUS
  <2> QED BY <1>6, <1>7, <2>1, SumIs
<1> QED BY <1>5, <1>10, <1>11

-----------------------------------------------------------------------------
(***************************************************************************)
(* Places in an order: sorting and selecting.                              *)
(***************************************************************************)

IsOrder(S, upTo) ==
  /\ upTo \in [S -> SUBSET S]
  /\ \A x \in S : x \in upTo[x]
  /\ \A x, y \in S : x \in upTo[y] \/ y \in upTo[x]
  /\ \A x, y \in S : x \in upTo[y] => upTo[x] \subseteq upTo[y]
  /\ \A x, y \in S : x \in upTo[y] /\ y \in upTo[x] => x = y

\* o lists S in that order.
Lists(o, S, upTo) ==
  /\ o \in Bijection(1 .. Cardinality(S), S)
  /\ \A k, l \in 1 .. Cardinality(S) : k <= l <=> o[k] \in upTo[o[l]]

LEMMA OrderLists ==
  ASSUME NEW S, IsFiniteSet(S), NEW upTo, IsOrder(S, upTo)
  PROVE  Lists(InOrder(S, upTo), S, upTo)
<1> DEFINE n == Cardinality(S)
           place == [x \in S |-> Cardinality(upTo[x])]
           o == [k \in 1 .. n |-> CHOOSE x \in S : place[x] = k]
<1>1. n \in Nat
  BY FS_CardinalityType
<1>2. ASSUME NEW x \in S PROVE place[x] \in 1 .. n /\ IsFiniteSet(upTo[x])
  <2>1. upTo[x] \in SUBSET S /\ x \in upTo[x]
    BY DEF IsOrder
  <2>2. IsFiniteSet(upTo[x]) /\ Cardinality(upTo[x]) <= n
    BY <2>1, FS_Subset
  <2>3. Cardinality(upTo[x]) \in Nat /\ Cardinality(upTo[x]) # 0
    BY <2>1, <2>2, FS_CardinalityType, FS_EmptySet
  <2> QED BY <1>1, <2>2, <2>3
<1>3. ASSUME NEW x \in S, NEW y \in S, x \in upTo[y], x # y PROVE place[x] < place[y]
  <2>1. upTo[x] \in SUBSET upTo[y] /\ upTo[x] # upTo[y]
    BY <1>3 DEF IsOrder
  <2>2. Cardinality(upTo[x]) <= Cardinality(upTo[y])
        /\ Cardinality(upTo[x]) # Cardinality(upTo[y])
    BY <1>2, <2>1, FS_Subset
  <2> QED BY <1>1, <1>2, <2>2
<1> DEFINE before(x, y) == x \in upTo[y]
<1>4. \A x, y \in S : before(x, y) \/ before(y, x)
  BY DEF IsOrder
<1>5. place \in Injection(S, 1 .. n)
  <2>1. place \in [S -> 1 .. n]
    BY <1>2
  <2>2. ASSUME NEW x \in S, NEW y \in S, x # y PROVE place[x] # place[y]
    <3>1. place[x] \in Int /\ place[y] \in Int
      BY <1>1, <1>2
    <3> HIDE DEF place
    <3> QED BY <1>3, <1>4, <2>2, <3>1
  <2> HIDE DEF place
  <2> QED BY <2>1, <2>2 DEF Injection, IsInjective
<1> HIDE DEF place
<1>6. place \in Surjection(S, 1 .. n)
  <2>1. IsFiniteSet(1 .. n) /\ Cardinality(1 .. n) = n
    BY <1>1, FS_Interval
  <2> QED BY <1>5, <2>1, FS_Injection
<1>7. ASSUME NEW k \in 1 .. n PROVE o[k] \in S /\ place[o[k]] = k
  BY <1>6 DEF Surjection
<1>8. InOrder(S, upTo) = o
  BY DEF InOrder, place
<1> HIDE DEF o
<1>9. o \in [1 .. n -> S]
  <2>1. o = [k \in 1 .. n |-> o[k]]
    BY DEF o
  <2> QED BY <1>7, <2>1
<1>10. ASSUME NEW x \in S PROVE place[x] \in 1 .. n /\ o[place[x]] = x
  <2>1. place[x] \in 1 .. n
    BY <1>5 DEF Injection
  <2>2. place[o[place[x]]] = place[x] /\ o[place[x]] \in S
    BY <1>7, <2>1
  <2> QED BY <1>5, <2>1, <2>2 DEF Injection, IsInjective
<1>11. o \in Bijection(1 .. n, S)
  BY <1>7, <1>9, <1>10 DEF Bijection, Injection, Surjection, IsInjective
<1>12. ASSUME NEW k \in 1 .. n, NEW l \in 1 .. n PROVE k <= l <=> o[k] \in upTo[o[l]]
  <2>1. o[k] \in S /\ o[l] \in S /\ place[o[k]] = k /\ place[o[l]] = l /\ k \in Int /\ l \in Int
    BY <1>7
  <2>2. CASE o[k] = o[l]
    BY <2>1, <2>2 DEF IsOrder
  <2>3. CASE o[k] # o[l]
    BY <2>1, <2>3, <1>3, <1>4
  <2> QED BY <2>2, <2>3
<1> QED BY <1>8, <1>11, <1>12 DEF Lists

LEMMA SumRestricts ==
  ASSUME NEW U, IsFiniteSet(U), NEW f \in [U -> Int], NEW A \in SUBSET U
  PROVE  SumOf([x \in A |-> f[x]], A) = SumOf(f, A)
BY SumOfEquals

\* b puts s in order.
Sorts(b, s, n) ==
  /\ b \in Bijection(1 .. n, 1 .. n)
  /\ Sorted(s) = [k \in 1 .. n |-> s[b[k]]]
  /\ \A k, l \in 1 .. n : k <= l => s[b[k]] <= s[b[l]]

CanSort(s, n) == \E b : Sorts(b, s, n)

LEMMA SortedSorts ==
  ASSUME NEW n \in Nat, NEW s \in [1 .. n -> Int]
  PROVE  CanSort(s, n)
<1> DEFINE D == 1 .. n
           upTo == [i \in D |-> {j \in D : s[j] < s[i] \/ (s[j] = s[i] /\ j <= i)}]
           b == InOrder(D, upTo)
<1>1. IsFiniteSet(D) /\ Cardinality(D) = n
  BY FS_Interval
<1>2. DOMAIN s = D /\ \A i \in D : s[i] \in Int /\ i \in Int
  OBVIOUS
<1> HIDE DEF D
<1>3. IsOrder(D, upTo)
  <2> DEFINE Q(j, i) == s[j] < s[i] \/ (s[j] = s[i] /\ j <= i)
  <2>1. \A i, j \in D : j \in upTo[i] <=> Q(j, i)
    OBVIOUS
  <2>2. upTo \in [D -> SUBSET D]
    OBVIOUS
  <2> HIDE DEF upTo
  <2>3. \A i \in D : i \in upTo[i]
    BY <1>2, <2>1
  <2>4. \A i, j \in D : j \in upTo[i] \/ i \in upTo[j]
    BY <1>2, <2>1
  <2>5. ASSUME NEW i \in D, NEW j \in D, j \in upTo[i] PROVE upTo[j] \subseteq upTo[i]
    <3> SUFFICES ASSUME NEW k \in upTo[j] PROVE k \in upTo[i]
      OBVIOUS
    <3>1. k \in D
      BY <2>2
    <3>2. Q(j, i) /\ Q(k, j)
      BY <2>1, <2>5, <3>1
    <3>3. s[i] \in Int /\ s[j] \in Int /\ s[k] \in Int /\ i \in Int /\ j \in Int /\ k \in Int
      BY <1>2, <3>1
    <3>4. Q(k, i)
      BY <3>2, <3>3
    <3> QED BY <2>1, <3>1, <3>4
  <2>6. ASSUME NEW i \in D, NEW j \in D, j \in upTo[i], i \in upTo[j] PROVE i = j
    BY <1>2, <2>1, <2>6
  <2> QED BY <2>2, <2>3, <2>4, <2>5, <2>6 DEF IsOrder
<1>4. Lists(b, D, upTo)
  BY <1>1, <1>3, OrderLists
<1>5. Sorted(s) = [k \in D |-> s[b[k]]]
  BY <1>2 DEF Sorted
<1> HIDE DEF b
<1>6. ASSUME NEW k \in D, NEW l \in D, k <= l PROVE s[b[k]] <= s[b[l]]
  <2>1. k \in 1 .. Cardinality(D) /\ l \in 1 .. Cardinality(D)
    BY <1>1 DEF D
  <2>2. b[k] \in upTo[b[l]] /\ b[k] \in D /\ b[l] \in D
    BY <1>4, <1>6, <2>1 DEF Lists, Bijection, Injection
  <2>3. s[b[k]] < s[b[l]] \/ s[b[k]] = s[b[l]]
    BY <2>2
  <2>4. s[b[k]] \in Int /\ s[b[l]] \in Int
    BY <1>2, <2>2
  <2> QED BY <2>3, <2>4
<1>7. b \in Bijection(D, D)
  BY <1>1, <1>4 DEF Lists, D
<1> HIDE DEF upTo
<1> QED BY <1>5, <1>6, <1>7 DEF Sorts, CanSort, D

\* b finds the places P of s.
Selects(b, s, P) ==
  /\ b \in Bijection(1 .. Cardinality(P), P)
  /\ At(s, P) = [k \in 1 .. Cardinality(P) |-> s[b[k]]]

IsSelection(s, P) == \E b : Selects(b, s, P)

LEMMA AtSelects ==
  ASSUME NEW s, NEW P \in SUBSET Nat, IsFiniteSet(P)
  PROVE  IsSelection(s, P) /\ Cardinality(P) \in Nat
<1> DEFINE upTo == [i \in P |-> {j \in P : j <= i}]
           b == InOrder(P, upTo)
<1>1. IsOrder(P, upTo)
  <2>1. \A i, j \in P : j \in upTo[i] <=> j <= i
    OBVIOUS
  <2>2. upTo \in [P -> SUBSET P] /\ \A i \in P : i \in Int
    OBVIOUS
  <2> HIDE DEF upTo
  <2>3. ASSUME NEW i \in P, NEW j \in P, j \in upTo[i] PROVE upTo[j] \subseteq upTo[i]
    <3> SUFFICES ASSUME NEW k \in upTo[j] PROVE k \in upTo[i]
      OBVIOUS
    <3>1. k \in P /\ k <= j /\ j <= i
      BY <2>1, <2>2, <2>3
    <3>2. k \in Int /\ j \in Int /\ i \in Int
      BY <2>2, <3>1
    <3>3. k <= i
      BY <3>1, <3>2
    <3> QED BY <2>1, <3>1, <3>3
  <2> QED BY <2>1, <2>2, <2>3 DEF IsOrder
<1>2. Lists(b, P, upTo)
  BY <1>1, OrderLists
<1>3. At(s, P) = [k \in 1 .. Cardinality(P) |-> s[b[k]]]
  BY DEF At
<1> HIDE DEF b, upTo
<1> QED BY <1>2, <1>3, FS_CardinalityType DEF Lists, Selects, IsSelection

LEMMA TotalOfSorted ==
  ASSUME NEW n \in Nat, NEW s \in [1 .. n -> Int]
  PROVE  /\ Sorted(s) \in [1 .. n -> Int]
         /\ Total(Sorted(s)) = SumOf(s, 1 .. n)
<1>1. PICK b : Sorts(b, s, n)
  BY SortedSorts DEF CanSort
<1>2. b \in [1 .. n -> 1 .. n] /\ Sorted(s) = [k \in 1 .. n |-> s[b[k]]]
  BY <1>1 DEF Sorts, Bijection, Injection
<1>3. Sorted(s) \in [1 .. n -> Int] /\ Renames(b, 1 .. n, s, Sorted(s))
  BY <1>2 DEF Renames
<1>4. IsFiniteSet(1 .. n) /\ b \in Bijection(1 .. n, 1 .. n)
  BY <1>1, FS_Interval DEF Sorts
<1>5. SumOf(Sorted(s), 1 .. n) = SumOf(s, 1 .. n)
  BY <1>3, <1>4, SumMoves
<1> QED BY <1>3, <1>5, TotalIsSum

LEMMA TotalOfSome ==
  ASSUME NEW n \in Nat, NEW s \in [1 .. n -> Int], NEW P \in SUBSET (1 .. n)
  PROVE  /\ Cardinality(P) \in Nat
         /\ At(s, P) \in [1 .. Cardinality(P) -> Int]
         /\ Total(At(s, P)) = SumOf(s, P)
<1>1. IsFiniteSet(1 .. n) /\ IsFiniteSet(P) /\ P \in SUBSET Nat
  <2>1. IsFiniteSet(1 .. n)
    BY FS_Interval
  <2>2. IsFiniteSet(P)
    BY <2>1, FS_Subset
  <2> QED BY <2>1, <2>2
<1>2. Cardinality(P) \in Nat
  BY <1>1, FS_CardinalityType
<1>3. PICK b : Selects(b, s, P)
  BY <1>1, AtSelects DEF IsSelection
<1> DEFINE m == Cardinality(P)
           f == [i \in P |-> s[i]]
<1>4. b \in [1 .. m -> P] /\ At(s, P) = [k \in 1 .. m |-> s[b[k]]]
      /\ b \in Bijection(1 .. m, P)
  BY <1>3 DEF Selects, Bijection, Injection
<1>5. At(s, P) \in [1 .. m -> Int] /\ Renames(b, 1 .. m, f, At(s, P))
  BY <1>4 DEF Renames
<1>6. f \in [P -> Int] /\ IsFiniteSet(1 .. m)
  BY <1>2, FS_Interval
<1>7. SumOf(f, P) = SumOf(s, P)
  BY <1>1, SumRestricts
<1> HIDE DEF f
<1>8. SumOf(At(s, P), 1 .. m) = SumOf(f, P)
  <2> DEFINE g == At(s, P)
             A == 1 .. m
             Z == P
  <2>1. g \in [A -> Int] /\ Renames(b, A, f, g) /\ b \in Bijection(A, Z) /\ IsFiniteSet(A)
        /\ f \in [Z -> Int]
    BY <1>4, <1>5, <1>6
  <2> HIDE DEF g, A, Z
  <2>2. SumOf(g, A) = SumOf(f, Z)
    BY <2>1, SumMoves
  <2> QED BY <2>2 DEF g, A, Z
<1>9. Total(At(s, P)) = SumOf(At(s, P), 1 .. m)
  BY <1>2, <1>5, TotalIsSum
<1> QED BY <1>2, <1>5, <1>7, <1>8, <1>9

-----------------------------------------------------------------------------
(***************************************************************************)
(* The pairing of starts with ends.                                        *)
(***************************************************************************)

\* s holds what f says of the members of R, in ascending order; c tells whose it is.
InTime(c, s, R, f) ==
  /\ c \in Bijection(1 .. Cardinality(R), R)
  /\ s = [k \in 1 .. Cardinality(R) |-> f[c[k]]]
  /\ \A k, l \in 1 .. Cardinality(R) : k <= l => s[k] <= s[l]

IsInTime(s, R, f) == \E c : InTime(c, s, R, f)

LEMMA SeqOfSet ==
  ASSUME NEW R, IsFiniteSet(R)
  PROVE  SetToSeq(R) \in Bijection(1 .. Cardinality(R), R)
<1> DEFINE n == Cardinality(R)
           Good(f) == IsInjective(f)
           q == CHOOSE f \in [1 .. n -> R] : Good(f)
<1>1. PICK b : b \in Bijection(1 .. n, R)
  BY FS_CardinalityType DEF ExistsBijection
<1>2. b \in [1 .. n -> R] /\ Good(b)
  BY <1>1 DEF Bijection, Injection
<1>3. q \in [1 .. n -> R] /\ Good(q)
  <2> HIDE DEF Good
  <2> QED BY <1>2
<1>4. SetToSeq(R) = q
  BY DEF SetToSeq
<1> HIDE DEF q
<1>5. q \in Injection(1 .. n, R)
  BY <1>3 DEF Injection
<1>6. IsFiniteSet(1 .. n) /\ Cardinality(1 .. n) = n /\ n \in Nat
  BY FS_CardinalityType, FS_Interval
<1>7. q \in Surjection(1 .. n, R)
  BY <1>5, <1>6, FS_Injection
<1> QED BY <1>4, <1>5, <1>7 DEF Bijection

LEMMA TimesInOrder ==
  ASSUME NEW R, IsFiniteSet(R), NEW f \in [R -> Int]
  PROVE  IsInTime(Sorted([i \in 1 .. Cardinality(R) |-> f[SetToSeq(R)[i]]]), R, f)
<1> DEFINE n == Cardinality(R)
           q == SetToSeq(R)
           s == [i \in 1 .. n |-> f[q[i]]]
<1>1. n \in Nat
  BY FS_CardinalityType
<1>2. q \in Bijection(1 .. n, R)
  BY SeqOfSet
<1> HIDE DEF q, n
<1>3. /\ q \in [1 .. n -> R] /\ \A i, j \in 1 .. n : q[i] = q[j] => i = j
      /\ \A r \in R : \E i \in 1 .. n : q[i] = r
  BY <1>2 DEF Bijection, Injection, Surjection, IsInjective
<1>4. s \in [1 .. n -> Int] /\ \A i \in 1 .. n : s[i] = f[q[i]]
  BY <1>3
<1> HIDE DEF s
<1>5. PICK b : Sorts(b, s, n)
  BY <1>1, <1>4, SortedSorts DEF CanSort
<1>6. /\ b \in [1 .. n -> 1 .. n] /\ \A i, j \in 1 .. n : b[i] = b[j] => i = j
      /\ \A r \in 1 .. n : \E i \in 1 .. n : b[i] = r
  BY <1>5 DEF Sorts, Bijection, Injection, Surjection, IsInjective
<1> DEFINE c == [k \in 1 .. n |-> q[b[k]]]
<1>7. c \in Bijection(1 .. n, R)
  <2>1. c \in [1 .. n -> R]
    BY <1>3, <1>6
  <2>2. \A i, j \in 1 .. n : c[i] = c[j] => i = j
    BY <1>3, <1>6
  <2>3. \A r \in R : \E i \in 1 .. n : c[i] = r
    <3> SUFFICES ASSUME NEW r \in R PROVE \E i \in 1 .. n : c[i] = r
      OBVIOUS
    <3>1. PICK j \in 1 .. n : q[j] = r
      BY <1>3
    <3>2. PICK i \in 1 .. n : b[i] = j
      BY <1>6
    <3>3. c[i] = r
      BY <3>1, <3>2
    <3> QED BY <3>3
  <2> HIDE DEF c
  <2> QED BY <2>1, <2>2, <2>3 DEF Bijection, Injection, Surjection, IsInjective
<1>8. Sorted(s) = [k \in 1 .. n |-> f[c[k]]]
  <2>1. Sorted(s) = [k \in 1 .. n |-> s[b[k]]]
    BY <1>5 DEF Sorts
  <2>2. \A k \in 1 .. n : s[b[k]] = f[c[k]]
    BY <1>4, <1>6
  <2> HIDE DEF c
  <2> QED BY <2>1, <2>2
<1>9. \A k, l \in 1 .. n : k <= l => Sorted(s)[k] <= Sorted(s)[l]
  <2>1. \A k \in 1 .. n : Sorted(s)[k] = s[b[k]]
    BY <1>5 DEF Sorts
  <2> QED BY <1>5, <2>1 DEF Sorts
<1> HIDE DEF c
<1>10. IsInTime(Sorted(s), R, f)
  BY <1>7, <1>8, <1>9 DEF InTime, IsInTime, n
<1> QED BY <1>10 DEF s, n, q

\* What is at most d later for each of R is at most d later place by place.
Within(f, g, d, R) == \A r \in R : f[r] <= g[r] + d

LEMMA PlaceByPlace ==
  ASSUME NEW R, IsFiniteSet(R), NEW f \in [R -> Int], NEW g \in [R -> Int], NEW d \in Int,
         Within(f, g, d, R), NEW a, NEW s, InTime(a, s, R, f), NEW b, NEW t, InTime(b, t, R, g)
  PROVE  \A k \in 1 .. Cardinality(R) : s[k] <= t[k] + d
<1> DEFINE n == Cardinality(R)
<1>1. n \in Nat
  BY FS_CardinalityType
<1>2. /\ a \in [1 .. n -> R] /\ \A r \in R : \E i \in 1 .. n : a[i] = r
      /\ b \in [1 .. n -> R] /\ \A i, j \in 1 .. n : b[i] = b[j] => i = j
      /\ \A k \in 1 .. n : s[k] = f[a[k]] /\ t[k] = g[b[k]]
      /\ \A k, l \in 1 .. n : k <= l => s[k] <= s[l] /\ t[k] <= t[l]
  BY DEF InTime, Bijection, Injection, Surjection, IsInjective
<1> HIDE DEF n
<1>3. \A k \in 1 .. n : s[k] \in Int /\ t[k] \in Int
  BY <1>2
<1> SUFFICES ASSUME NEW k \in 1 .. n, ~(s[k] <= t[k] + d) PROVE FALSE
  BY DEF n
<1>4. \A j \in 1 .. k : \E i \in 1 .. (k - 1) : a[i] = b[j]
  <2> SUFFICES ASSUME NEW j \in 1 .. k PROVE \E i \in 1 .. (k - 1) : a[i] = b[j]
    OBVIOUS
  <2>1. j \in 1 .. n /\ j <= k /\ k \in Int
    BY <1>1
  <2>2. PICK i \in 1 .. n : a[i] = b[j]
    BY <1>2, <2>1
  <2>3. s[i] <= t[j] + d
    <3>1. b[j] \in R /\ s[i] = f[b[j]] /\ t[j] = g[b[j]]
      BY <1>2, <2>1, <2>2
    <3> QED BY <3>1 DEF Within
  <2>4. t[j] <= t[k]
    BY <1>2, <2>1
  <2>5. ~(s[k] <= s[i])
    BY <1>3, <2>1, <2>3, <2>4
  <2>6. ~(k <= i)
    BY <1>2, <2>5
  <2>7. i \in 1 .. (k - 1)
    BY <1>1, <2>6
  <2> QED BY <2>2, <2>7
<1> DEFINE h == [j \in 1 .. k |-> CHOOSE i \in 1 .. (k - 1) : a[i] = b[j]]
<1>5. \A j \in 1 .. k : h[j] \in 1 .. (k - 1) /\ a[h[j]] = b[j]
  BY <1>4
<1>6. h \in Injection(1 .. k, 1 .. (k - 1))
  <2>1. h \in [1 .. k -> 1 .. (k - 1)]
    BY <1>5
  <2>2. \A i, j \in 1 .. k : h[i] = h[j] => i = j
    <3>1. \A i \in 1 .. k : i \in 1 .. n
      BY <1>1
    <3> HIDE DEF h
    <3> QED BY <1>2, <1>5, <3>1
  <2> HIDE DEF h
  <2> QED BY <2>1, <2>2 DEF Injection, IsInjective
<1>7. /\ IsFiniteSet(1 .. (k - 1)) /\ Cardinality(1 .. (k - 1)) = k - 1
      /\ Cardinality(1 .. k) = k
  <2>1. k \in Int /\ k - 1 \in Int /\ k >= 1
    BY <1>1
  <2> QED BY <2>1, FS_Interval
<1>8. Cardinality(1 .. k) <= Cardinality(1 .. (k - 1))
  BY <1>6, <1>7, FS_Injection
<1> QED BY <1>1, <1>7, <1>8

\* What runs took, from the start st of each to its end en.
Took(R, st, en, dur) ==
  /\ st \in [R -> Int] /\ en \in [R -> Int] /\ dur \in [R -> Int]
  /\ \A r \in R : dur[r] = en[r] - st[r] /\ 0 <= dur[r] /\ dur[r] < Hour

LEMMA SumInTime ==
  ASSUME NEW R, IsFiniteSet(R), NEW f \in [R -> Int], NEW s, IsInTime(s, R, f)
  PROVE  /\ Cardinality(R) \in Nat /\ s \in [1 .. Cardinality(R) -> Int]
         /\ SumOf(s, 1 .. Cardinality(R)) = SumOf(f, R)
<1> DEFINE A == 1 .. Cardinality(R)
<1>1. PICK c : InTime(c, s, R, f)
  BY DEF IsInTime
<1>2. Cardinality(R) \in Nat /\ IsFiniteSet(A)
  BY FS_CardinalityType, FS_Interval
<1> HIDE DEF A
<1>3. c \in Bijection(A, R) /\ c \in [A -> R] /\ s = [k \in A |-> f[c[k]]]
  BY <1>1 DEF InTime, A, Bijection, Injection
<1>4. s \in [A -> Int] /\ Renames(c, A, f, s)
  BY <1>3 DEF Renames
<1>5. SumOf(s, A) = SumOf(f, R)
  BY <1>2, <1>3, <1>4, SumMoves
<1> QED BY <1>2, <1>4, <1>5 DEF A

\* The differences of starts and ends that are paired place by place.
Gaps(s, t, n) == [i \in 1 .. n |-> t[i] - s[i]]

LEMMA GapIsShort ==
  ASSUME NEW a \in Int, NEW b \in Int, NEW c \in Int, a <= b + 0, b <= a + (c - 1)
  PROVE  b - a \in 0 .. (c - 1)
OBVIOUS

LEMMA GapsAddUp ==
  ASSUME NEW R, IsFiniteSet(R), NEW st, NEW en, NEW dur, Took(R, st, en, dur),
         NEW s, IsInTime(s, R, st), NEW t, IsInTime(t, R, en), NEW n, n = Cardinality(R)
  PROVE  /\ n \in Nat /\ Gaps(s, t, n) \in [1 .. n -> 0 .. (Hour - 1)]
         /\ SumOf(Gaps(s, t, n), 1 .. n) = SumOf(dur, R)
<1> DEFINE g == Gaps(s, t, n)
           A == 1 .. n
<1>1. st \in [R -> Int] /\ en \in [R -> Int] /\ dur \in [R -> Int]
  BY DEF Took
<1>2. n \in Nat /\ s \in [A -> Int] /\ SumOf(s, A) = SumOf(st, R)
  BY <1>1, SumInTime
<1>3. t \in [A -> Int] /\ SumOf(t, A) = SumOf(en, R)
  BY <1>1, SumInTime
<1>4. \A k \in A : s[k] <= t[k] + 0
  <2>1. Within(st, en, 0, R)
    BY DEF Took, Within
  <2>2. PICK a : InTime(a, s, R, st)
    BY DEF IsInTime
  <2>3. PICK b : InTime(b, t, R, en)
    BY DEF IsInTime
  <2> QED BY <1>1, <2>1, <2>2, <2>3, PlaceByPlace
<1>5. \A k \in A : t[k] <= s[k] + (Hour - 1)
  <2>1. Within(en, st, Hour - 1, R) /\ Hour - 1 \in Int
    BY DEF Took, Within, Hour
  <2>2. PICK a : InTime(a, s, R, st)
    BY DEF IsInTime
  <2>3. PICK b : InTime(b, t, R, en)
    BY DEF IsInTime
  <2> QED BY <1>1, <2>1, <2>2, <2>3, PlaceByPlace
<1>6. g \in [A -> 0 .. (Hour - 1)]
  <2> SUFFICES ASSUME NEW k \in A PROVE t[k] - s[k] \in 0 .. (Hour - 1)
    BY DEF Gaps
  <2>1. s[k] \in Int /\ t[k] \in Int /\ s[k] <= t[k] + 0 /\ t[k] <= s[k] + (Hour - 1)
    BY <1>2, <1>3, <1>4, <1>5
  <2>2. Hour \in Int
    BY DEF Hour
  <2> HIDE DEF g, A
  <2> QED BY <2>1, <2>2, GapIsShort
<1>7. SumOf(t, A) = SumOf(g, A) + SumOf(s, A)
  <2>1. ASSUME NEW k \in A PROVE g[k] \in Int /\ t[k] = g[k] + s[k]
    <3>1. s[k] \in Int /\ t[k] \in Int /\ g[k] = t[k] - s[k]
      BY <1>2, <1>3 DEF Gaps
    <3> HIDE DEF g, A
    <3> QED BY <3>1
  <2>3. g \in [A -> Int]
    <3>1. DOMAIN g = A /\ g = [k \in A |-> g[k]]
      BY DEF Gaps
    <3> HIDE DEF g, A
    <3> QED BY <2>1, <3>1
  <2>2. IsFiniteSet(A)
    BY <1>2, FS_Interval
  <2> HIDE DEF g, A
  <2> QED BY <1>2, <1>3, <2>1, <2>2, <2>3, SumsAddUp
<1>8. SumOf(en, R) = SumOf(dur, R) + SumOf(st, R)
  <2>1. \A r \in R : en[r] = dur[r] + st[r]
    BY <1>1 DEF Took
  <2> QED BY <1>1, <2>1, SumsAddUp
<1>9. SumOf(g, A) \in Int /\ SumOf(dur, R) \in Int /\ SumOf(st, R) \in Int
  <2>1. g \in [A -> Int]
    <3> HIDE DEF g, A
    <3> QED BY <1>6
  <2>2. IsFiniteSet(A)
    BY <1>2, FS_Interval
  <2>3. A \in SUBSET A /\ R \in SUBSET R
    OBVIOUS
  <2> HIDE DEF g, A
  <2>4. SumOf(g, A) \in Int
    BY <2>1, <2>2, <2>3, SumSplits
  <2> QED BY <1>1, <2>3, <2>4, SumSplits
<1> QED BY <1>2, <1>3, <1>6, <1>7, <1>8, <1>9

IsTimes(u, total) ==
  \E m \in Nat : u \in [1 .. m -> Int] /\ SumOf(u, 1 .. m) = total

LEMMA UnderAnHour ==
  ASSUME NEW x \in 0 .. (Hour - 1)
  PROVE  x \in Int /\ 0 <= x /\ x < Hour
BY DEF Hour

LEMMA PairsAddUp ==
  ASSUME NEW R, IsFiniteSet(R), NEW st, NEW en, NEW dur, Took(R, st, en, dur),
         NEW s, IsInTime(s, R, st), NEW t, IsInTime(t, R, en)
  PROVE  IsTimes(Usable(Paired(s, t)), SumOf(dur, R))
<1> DEFINE n == Cardinality(R)
           g == Gaps(s, t, n)
           late == {i \in 1 .. n : g[i] > 0}
           p == Paired(s, t)
           m == Cardinality(late)
<1>1. n \in Nat /\ g \in [1 .. n -> 0 .. (Hour - 1)] /\ SumOf(g, 1 .. n) = SumOf(dur, R)
  BY GapsAddUp
<1>2. g \in [1 .. n -> Int]
  BY <1>1
<1>3. p = At(g, late)
  <2>1. Len(s) = n /\ Len(t) = n
    <3>1. s \in [1 .. n -> Int] /\ t \in [1 .. n -> Int]
      BY SumInTime DEF Took
    <3> QED BY <1>1, <3>1
  <2>2. Min({n, n}) = n
    BY <1>1 DEF Min
  <2>3. DOMAIN g = 1 .. n
    BY <1>1
  <2> QED BY <2>1, <2>2, <2>3 DEF Paired, Gaps
<1>4. late \in SUBSET (1 .. n) /\ IsFiniteSet(1 .. n) /\ 1 .. n \in SUBSET (1 .. n)
  BY <1>1, FS_Interval
<1>5. \A i \in late : 0 < g[i] /\ g[i] < Hour /\ g[i] \in Int
  <2> SUFFICES ASSUME NEW i \in late PROVE 0 < g[i] /\ g[i] < Hour /\ g[i] \in Int
    OBVIOUS
  <2>1. g[i] \in 0 .. (Hour - 1) /\ g[i] > 0
    <3> HIDE DEF g
    <3> QED BY <1>1
  <2> HIDE DEF g
  <2>2. g[i] \in Int /\ g[i] < Hour
    BY <2>1, UnderAnHour
  <2> QED BY <2>1, <2>2
<1> HIDE DEF g, n
<1>6. SumOf(g, late) = SumOf(dur, R)
  <2> DEFINE rest == (1 .. n) \ late
             z == [i \in rest |-> g[i]]
  <2>1. SumOf(g, 1 .. n) = SumOf(g, late) + SumOf(g, rest) /\ SumOf(g, late) \in Int
    BY <1>2, <1>4, SumSplits
  <2>2. rest \in SUBSET (1 .. n) /\ IsFiniteSet(rest)
    BY <1>4, FS_Subset
  <2>3. SumOf(z, rest) = SumOf(g, rest)
    BY <1>2, <1>4, <2>2, SumRestricts
  <2>4. z \in [rest -> Int] /\ \A i \in rest : z[i] = 0
    <3>1. ASSUME NEW i \in 1 .. n PROVE g[i] \in Int /\ g[i] >= 0
      <4>1. g[i] \in 0 .. (Hour - 1)
        BY <1>1
      <4> QED BY <4>1, UnderAnHour
    <3> QED BY <3>1
  <2>5. SumOf(z, rest) = 0
    <3> HIDE DEF z, rest
    <3> QED BY <2>2, <2>4, SumOfZeros
  <2> QED BY <1>1, <2>1, <2>3, <2>5
<1>7. /\ m \in Nat /\ p \in [1 .. m -> Int] /\ Total(p) = SumOf(g, late)
  <2> HIDE DEF late
  <2> QED BY <1>1, <1>2, <1>3, <1>4, TotalOfSome
<1>8. \A k \in 1 .. m : 0 < p[k] /\ p[k] < Hour
  <2>1. IsFiniteSet(late) /\ late \in SUBSET Nat
    <3>1. IsFiniteSet(late)
      BY <1>4, FS_Subset
    <3> QED BY <3>1
  <2> HIDE DEF late
  <2>2. PICK b : Selects(b, g, late)
    BY <2>1, AtSelects DEF IsSelection
  <2>3. \A k \in 1 .. m : b[k] \in late /\ p[k] = g[b[k]]
    BY <1>3, <2>2 DEF Selects, Bijection, Injection
  <2> HIDE DEF m, p
  <2> QED BY <1>5, <2>3
<1> HIDE DEF p, m
<1>9. Usable(p) = At(p, 1 .. m)
  <2>1. {i \in DOMAIN p : 0 < p[i] /\ p[i] < Hour} = 1 .. m
    BY <1>7, <1>8
  <2> QED BY <2>1 DEF Usable
<1>10. /\ Usable(p) \in [1 .. m -> Int]
       /\ SumOf(Usable(p), 1 .. m) = SumOf(dur, R)
  <2>1. 1 .. m \in SUBSET (1 .. m) /\ Cardinality(1 .. m) = m
    BY <1>7, FS_Interval
  <2>2. /\ Usable(p) \in [1 .. m -> Int]
        /\ Total(Usable(p)) = SumOf(p, 1 .. m)
    <3>1. /\ At(p, 1 .. m) \in [1 .. Cardinality(1 .. m) -> Int]
          /\ Total(At(p, 1 .. m)) = SumOf(p, 1 .. m)
      BY <1>7, <2>1, TotalOfSome
    <3> QED BY <1>9, <2>1, <3>1
  <2>3. Total(Usable(p)) = SumOf(Usable(p), 1 .. m)
    BY <1>7, <2>2, TotalIsSum
  <2>4. Total(p) = SumOf(p, 1 .. m)
    BY <1>7, TotalIsSum
  <2> QED BY <1>6, <1>7, <2>2, <2>3, <2>4
<1> QED BY <1>7, <1>10 DEF IsTimes, p

\* The total of the statistics of times.
LEMMA StatisticsTotal ==
  ASSUME NEW times, NEW total, IsTimes(Usable(times), total),
         Statistics(times) # NoStatistics
  PROVE  Statistics(times).total = total
<1>1. PICK m \in Nat : /\ Usable(times) \in [1 .. m -> Int]
                       /\ SumOf(Usable(times), 1 .. m) = total
  BY DEF IsTimes
<1>2. Total(Sorted(Usable(times))) = total
  BY <1>1, TotalOfSorted
<1>3. Statistics(times).total = Total(Sorted(Usable(times)))
  BY DEF Statistics
<1> QED BY <1>2, <1>3

LEMMA PairedRuns ==
  ASSUME NEW R, IsFiniteSet(R),
         \A r \in R : r.start \in Int /\ r.end \in Int /\ r.start <= r.end
                      /\ r.end - r.start < Hour,
         Statistics(Paired(Starts(R), Ends(R))) # NoStatistics
  PROVE  Statistics(Paired(Starts(R), Ends(R))).total
           = MapThenSumSet(LAMBDA r : r.end - r.start, R)
<1> DEFINE st == [r \in R |-> r.start]
           en == [r \in R |-> r.end]
           dur == [r \in R |-> r.end - r.start]
           q == SetToSeq(R)
<1>1. Took(R, st, en, dur)
  BY DEF Took
<1>2. q \in [1 .. Cardinality(R) -> R] /\ Len(q) = Cardinality(R)
  <2>1. q \in [1 .. Cardinality(R) -> R] /\ Cardinality(R) \in Nat
    BY SeqOfSet, FS_CardinalityType DEF Bijection, Injection
  <2> QED BY <2>1
<1>3. IsInTime(Starts(R), R, st)
  <2>1. Starts(R) = Sorted([i \in 1 .. Cardinality(R) |-> st[q[i]]])
    BY <1>2 DEF Starts
  <2>2. st \in [R -> Int]
    OBVIOUS
  <2> HIDE DEF st
  <2> QED BY <2>1, <2>2, TimesInOrder
<1>4. IsInTime(Ends(R), R, en)
  <2>1. Ends(R) = Sorted([i \in 1 .. Cardinality(R) |-> en[q[i]]])
    BY <1>2 DEF Ends
  <2>2. en \in [R -> Int]
    OBVIOUS
  <2> HIDE DEF en
  <2> QED BY <2>1, <2>2, TimesInOrder
<1>5. SumOf(dur, R) = MapThenSumSet(LAMBDA r : r.end - r.start, R)
  BY DEF SumOf, MapThenSumSet, MapThenFoldSet
<1> HIDE DEF st, en, dur
<1>6. IsTimes(Usable(Paired(Starts(R), Ends(R))), SumOf(dur, R))
  BY <1>1, <1>3, <1>4, PairsAddUp
<1> QED BY <1>5, <1>6, StatisticsTotal

-----------------------------------------------------------------------------
(***************************************************************************)
(* Percentiles.                                                            *)
(***************************************************************************)

LEMMA RankRange ==
  ASSUME NEW n \in Nat, n # 0, NEW p \in {90, 95, 99}
  PROVE  /\ Rank(n, p) \in 1 .. n
         /\ 100 * Rank(n, p) >= p * n /\ 100 * (Rank(n, p) - 1) < p * n
<1>1. CASE p = 90
  BY <1>1 DEF Rank
<1>2. CASE p = 95
  BY <1>2 DEF Rank
<1>3. CASE p = 99
  BY <1>3 DEF Rank
<1> QED BY <1>1, <1>2, <1>3

LEMMA RankExists ==
  ASSUME NEW n \in Nat, n # 0, NEW p \in {90, 95, 99} PROVE  Rank(n, p) \in 1 .. n
<1>1. CASE p = 90
  BY <1>1 DEF Rank
<1>2. CASE p = 95
  BY <1>2 DEF Rank
<1>3. CASE p = 99
  BY <1>3 DEF Rank
<1> QED BY <1>1, <1>2, <1>3

LowerMiddle(n) == (n + 1) \div 2
UpperMiddle(n) == n \div 2 + 1

LEMMA RankOrder ==
  ASSUME NEW n \in Nat, n # 0
  PROVE  /\ LowerMiddle(n) \in 1 .. n /\ UpperMiddle(n) \in 1 .. n
         /\ LowerMiddle(n) <= Rank(n, 90) /\ UpperMiddle(n) <= Rank(n, 90)
         /\ Rank(n, 90) <= Rank(n, 95) /\ Rank(n, 95) <= Rank(n, 99) /\ Rank(n, 99) <= n
BY DEF Rank, LowerMiddle, UpperMiddle

LEMMA TwiceBetween ==
  ASSUME NEW a \in Int, NEW b \in Int, NEW c \in Int, NEW d \in Int,
         a <= b, a <= c, b <= d, c <= d
  PROVE  2 * a <= b + c /\ b + c <= 2 * d
OBVIOUS

LEMMA NearestIsRank ==
  ASSUME NEW n \in Nat, n # 0, NEW s \in [1 .. n -> Int], NEW p \in {90, 95, 99}
  PROVE  NearestRank(s, p) = s[Rank(n, p)]
<1>1. Len(s) = n
  OBVIOUS
<1>2. PICK k \in 1 .. n : k = Rank(n, p)
  BY RankExists
<1>3. Min({k - 1, n - 1}) = k - 1
  <2>1. k - 1 \in Int /\ n - 1 \in Int /\ k - 1 <= n - 1
    OBVIOUS
  <2> QED BY <2>1 DEF Min
<1>4. Max({k - 1, 0}) = k - 1
  <2>1. k - 1 \in Int /\ 0 <= k - 1
    OBVIOUS
  <2> QED BY <2>1 DEF Max
<1>5. NearestRank(s, p) = s[Max({Min({k - 1, n - 1}), 0}) + 1]
  BY <1>1, <1>2 DEF NearestRank
<1>6. (k - 1) + 1 = k
  OBVIOUS
<1> QED BY <1>2, <1>3, <1>4, <1>5, <1>6

LEMMA NearestAreRanks ==
  ASSUME NEW n \in Nat, n # 0, NEW s \in [1 .. n -> Int]
  PROVE  /\ NearestRank(s, 90) = s[Rank(n, 90)] /\ NearestRank(s, 95) = s[Rank(n, 95)]
         /\ NearestRank(s, 99) = s[Rank(n, 99)]
<1>1. NearestRank(s, 90) = s[Rank(n, 90)]
  BY NearestIsRank
<1>2. NearestRank(s, 95) = s[Rank(n, 95)]
  BY NearestIsRank
<1>3. NearestRank(s, 99) = s[Rank(n, 99)]
  BY NearestIsRank
<1> QED BY <1>1, <1>2, <1>3

\* Sorted times are in order at the ranks, and so is the median among them.
LEMMA RanksAscend ==
  ASSUME NEW m \in Nat, m # 0, NEW s \in [1 .. m -> Int],
         \A i, j \in 1 .. m : i <= j => s[i] <= s[j]
  PROVE  /\ 2 * s[1] <= TwiceMedian(s) /\ TwiceMedian(s) <= 2 * NearestRank(s, 90)
         /\ NearestRank(s, 90) <= NearestRank(s, 95)
         /\ NearestRank(s, 95) <= NearestRank(s, 99) /\ NearestRank(s, 99) <= s[m]
<1>1. PICK lo \in 1 .. m, hi \in 1 .. m : lo = LowerMiddle(m) /\ hi = UpperMiddle(m)
  BY RankOrder
<1>2. PICK r90 \in 1 .. m, r95 \in 1 .. m, r99 \in 1 .. m :
         r90 = Rank(m, 90) /\ r95 = Rank(m, 95) /\ r99 = Rank(m, 99)
  BY RankExists
<1>3. lo <= r90 /\ hi <= r90 /\ r90 <= r95 /\ r95 <= r99 /\ r99 <= m
  BY <1>1, <1>2, RankOrder
<1>4. NearestRank(s, 90) = s[r90] /\ NearestRank(s, 95) = s[r95] /\ NearestRank(s, 99) = s[r99]
  <2>1. /\ NearestRank(s, 90) = s[Rank(m, 90)] /\ NearestRank(s, 95) = s[Rank(m, 95)]
        /\ NearestRank(s, 99) = s[Rank(m, 99)]
    BY NearestAreRanks
  <2> QED BY <1>2, <2>1
<1>5. TwiceMedian(s) = s[lo] + s[hi]
  <2>1. s # <<>> /\ Len(s) = m
    OBVIOUS
  <2> QED BY <1>1, <2>1 DEF TwiceMedian, LowerMiddle, UpperMiddle
<1>6. 1 \in 1 .. m /\ m \in 1 .. m /\ 1 <= lo /\ 1 <= hi
  OBVIOUS
<1>7. /\ s[1] <= s[lo] /\ s[1] <= s[hi] /\ s[lo] <= s[r90] /\ s[hi] <= s[r90]
      /\ s[r90] <= s[r95] /\ s[r95] <= s[r99] /\ s[r99] <= s[m]
  BY <1>3, <1>6
<1>8. s[1] \in Int /\ s[lo] \in Int /\ s[hi] \in Int /\ s[r90] \in Int
  BY <1>6
<1>9. 2 * s[1] <= s[lo] + s[hi] /\ s[lo] + s[hi] <= 2 * s[r90]
  BY <1>7, <1>8, TwiceBetween
<1> QED BY <1>4, <1>5, <1>7, <1>9

\* The time of a rank is a percentile.
UpTo(times, n, w) == {i \in 1 .. n : times[i] <= w}

LEMMA RankedTimes ==
  ASSUME NEW n \in Nat, NEW times \in [1 .. n -> Int], NEW k \in 1 .. n,
         NEW v, v = Sorted(times)[k]
  PROVE  /\ v \in Int
         /\ Cardinality(UpTo(times, n, v)) \in Nat /\ Cardinality(UpTo(times, n, v)) >= k
         /\ Cardinality(UpTo(times, n, v - 1)) \in Nat
         /\ Cardinality(UpTo(times, n, v - 1)) <= k - 1
<1> DEFINE s == Sorted(times)
           upper == UpTo(times, n, v)
           lower == UpTo(times, n, v - 1)
<1>1. PICK b : Sorts(b, times, n)
  BY SortedSorts DEF CanSort
<1>2. /\ b \in [1 .. n -> 1 .. n] /\ \A i, j \in 1 .. n : b[i] = b[j] => i = j
      /\ \A r \in 1 .. n : \E i \in 1 .. n : b[i] = r
  BY <1>1 DEF Sorts, Bijection, Injection, Surjection, IsInjective
<1>9. \A i \in 1 .. n : s[i] = times[b[i]]
  BY <1>1 DEF Sorts
<1>10. \A i, j \in 1 .. n : i <= j => s[i] <= s[j]
  <2>1. \A i, j \in 1 .. n : i <= j => times[b[i]] <= times[b[j]]
    BY <1>1 DEF Sorts
  <2> HIDE DEF s
  <2> QED BY <1>9, <2>1
<1>3. \A i \in 1 .. n : s[i] \in Int
  <2> SUFFICES ASSUME NEW i \in 1 .. n PROVE s[i] \in Int
    OBVIOUS
  <2>1. s[i] = times[b[i]] /\ b[i] \in 1 .. n
    BY <1>2, <1>9
  <2> HIDE DEF s
  <2> QED BY <2>1
<1> HIDE DEF s
<1>4. v \in Int /\ v = s[k]
  BY <1>3 DEF s
<1>5. /\ IsFiniteSet(upper) /\ IsFiniteSet(lower)
      /\ Cardinality(upper) \in Nat /\ Cardinality(lower) \in Nat
  <2>1. IsFiniteSet(1 .. n) /\ upper \in SUBSET (1 .. n) /\ lower \in SUBSET (1 .. n)
    BY FS_Interval DEF UpTo
  <2>2. IsFiniteSet(upper) /\ IsFiniteSet(lower)
    BY <2>1, FS_Subset
  <2> QED BY <2>2, FS_CardinalityType
<1>6. \A j \in 1 .. k : j \in 1 .. n
  OBVIOUS
<1>7. Cardinality(upper) >= k
  <2> DEFINE h == [j \in 1 .. k |-> b[j]]
  <2>1. h \in [1 .. k -> upper]
    <3> SUFFICES ASSUME NEW j \in 1 .. k PROVE b[j] \in upper
      OBVIOUS
    <3>1. j \in 1 .. n /\ j <= k
      BY <1>6
    <3>2. b[j] \in 1 .. n /\ times[b[j]] <= v
      <4>1. s[j] <= s[k]
        BY <1>10, <3>1
      <4>2. s[j] = times[b[j]] /\ b[j] \in 1 .. n
        BY <1>2, <1>9, <3>1
      <4> QED BY <1>4, <4>1, <4>2
    <3> QED BY <3>2 DEF UpTo
  <2>2. \A i, j \in 1 .. k : h[i] = h[j] => i = j
    BY <1>2, <1>6
  <2>3. h \in Injection(1 .. k, upper)
    <3> HIDE DEF h, upper
    <3> QED BY <2>1, <2>2 DEF Injection, IsInjective
  <2>4. Cardinality(1 .. k) = k /\ k \in Int
    BY FS_Interval
  <2>5. Cardinality(1 .. k) <= Cardinality(upper)
    BY <1>5, <2>3, FS_Injection
  <2> QED BY <1>5, <2>4, <2>5
<1>8. Cardinality(lower) <= k - 1
  <2> DEFINE h == [r \in lower |-> CHOOSE i \in 1 .. n : b[i] = r]
  <2>1. \A r \in lower : h[r] \in 1 .. n /\ b[h[r]] = r
    BY <1>2 DEF UpTo
  <2>2. ASSUME NEW r \in lower PROVE h[r] \in 1 .. (k - 1)
    <3>1. h[r] \in 1 .. n /\ s[h[r]] <= v - 1
      <4>1. times[r] <= v - 1
        BY DEF UpTo
      <4> HIDE DEF h, lower
      <4>2. h[r] \in 1 .. n /\ b[h[r]] = r
        BY <2>1
      <4>3. s[h[r]] = times[b[h[r]]]
        BY <1>9, <4>2
      <4> QED BY <4>1, <4>2, <4>3
    <3>2. ~(k <= h[r])
      <4> HIDE DEF h, lower
      <4>1. k <= h[r] => s[k] <= s[h[r]]
        BY <1>10, <3>1
      <4> QED BY <1>3, <1>4, <3>1, <4>1
    <3> HIDE DEF h
    <3> QED BY <3>1, <3>2
  <2>3. h \in [lower -> 1 .. (k - 1)]
    BY <2>2
  <2>4. \A r, q \in lower : h[r] = h[q] => r = q
    <3> HIDE DEF h, lower
    <3> QED BY <2>1
  <2>5. h \in Injection(lower, 1 .. (k - 1))
    <3> HIDE DEF h, lower
    <3> QED BY <2>3, <2>4 DEF Injection, IsInjective
  <2>6. IsFiniteSet(1 .. (k - 1)) /\ Cardinality(1 .. (k - 1)) = k - 1
    <3>1. k - 1 \in Int /\ k >= 1
      OBVIOUS
    <3> QED BY <3>1, FS_Interval
  <2>7. Cardinality(lower) <= Cardinality(1 .. (k - 1))
    BY <2>5, <2>6, FS_Injection
  <2> QED BY <2>6, <2>7
<1> QED BY <1>4, <1>5, <1>7, <1>8

LEMMA PercentileOfRank ==
  ASSUME NEW n \in Nat, n # 0, NEW times \in [1 .. n -> Int], NEW p \in {90, 95, 99}
  PROVE  IsPercentile(NearestRank(Sorted(times), p), p, times)
<1> DEFINE k == Rank(n, p)
           v == Sorted(times)[k]
           a == Cardinality(UpTo(times, n, v))
           z == Cardinality(UpTo(times, n, v - 1))
<1>1. k \in 1 .. n /\ 100 * k >= p * n /\ 100 * (k - 1) < p * n
  <2>1. CASE p = 90
    BY <2>1, RankRange
  <2>2. CASE p = 95
    BY <2>2, RankRange
  <2>3. CASE p = 99
    BY <2>3, RankRange
  <2> QED BY <2>1, <2>2, <2>3
<1>2. NearestRank(Sorted(times), p) = v
  BY NearestIsRank, TotalOfSorted
<1>3. a \in Nat /\ a >= k /\ z \in Nat /\ z <= k - 1
  <2> HIDE DEF k
  <2> QED BY <1>1, RankedTimes
<1>4. DOMAIN times = 1 .. n /\ Len(times) = n
  OBVIOUS
<1>5. 100 * a >= p * n /\ 100 * z < p * n
  <2> HIDE DEF a, z, k
  <2>1. p * n \in Int /\ k \in Int
    BY <1>1
  <2> QED BY <1>1, <1>3, <2>1
<1> HIDE DEF v
<1> QED BY <1>2, <1>4, <1>5 DEF IsPercentile, UpTo

IsValues(c, idx, q) ==
  c = [t \in SUBSET DOMAIN q |->
         IF t = {} THEN <<>>
         ELSE LET x == Max(t) IN c[t \ {x}] \o [i \in 1 .. idx[q[x]] |-> Seconds(q[x])]]

Counted(idx, docs) == \A d \in docs : idx[d] \in Nat /\ Seconds(d) \in Int

LEMMA Copies ==
  ASSUME NEW s \in Seq(Int), NEW n \in Nat, NEW x \in Int
  PROVE  s \o [i \in 1 .. n |-> x] \in Seq(Int)
<1>1. [i \in 1 .. n |-> x] \in Seq(Int)
  OBVIOUS
<1> QED BY <1>1

LEMMA ValuesAreTimes ==
  ASSUME NEW idx, NEW docs, IsFiniteSet(docs), Counted(idx, docs)
  PROVE  Values(idx, docs, Seconds) \in Seq(Int)
<1> DEFINE n == Cardinality(docs)
           q == SetToSeq(docs)
           V == Seq(Int)
           copies(k) == [i \in 1 .. idx[q[k]] |-> Seconds(q[k])]
           F == [p \in V \X (1 .. n) |-> p[1] \o copies(p[2])]
           c == CHOOSE c : IsValues(c, idx, q)
<1>1. n \in Nat /\ q \in [1 .. n -> docs] /\ DOMAIN q = 1 .. n
  BY SeqOfSet, FS_CardinalityType DEF Bijection, Injection
<1> HIDE DEF q, n
<1>2. \A v \in V : \A k \in 1 .. n : v \o copies(k) \in V
  <2> TAKE v \in V
  <2> TAKE k \in 1 .. n
  <2>1. idx[q[k]] \in Nat /\ Seconds(q[k]) \in Int
    BY <1>1 DEF Counted
  <2> QED BY <2>1, Copies
<1>3. F \in [V \X (1 .. n) -> V] /\ <<>> \in V
  <2>1. <<>> \in V
    OBVIOUS
  <2> HIDE DEF V, copies
  <2> QED BY <1>2, <2>1
<1>4. PICK g : FoldsUp(g, n, V, <<>>, F)
  <2> HIDE DEF V, F
  <2>1. CanFold(n, V, <<>>, F)
    BY <1>1, <1>3, FoldExists
  <2> QED BY <2>1 DEF CanFold
<1>5. IsValues(g, idx, q)
  <2>1. ASSUME NEW t \in SUBSET (1 .. n), t # {}
        PROVE  g[t] = g[t \ {Max(t)}] \o copies(Max(t))
    <3>1. g[t] = F[<<g[t \ {Max(t)}], Max(t)>>]
      BY <1>4, <2>1 DEF FoldsUp
    <3>2. Max(t) \in 1 .. n /\ g[t \ {Max(t)}] \in V
      BY <1>1, <1>4, <2>1, MaxIsThere DEF FoldsUp
    <3> HIDE DEF V, copies
    <3> QED BY <3>1, <3>2
  <2>2. g[{}] = <<>> /\ g = [t \in SUBSET (1 .. n) |-> g[t]]
    BY <1>4 DEF FoldsUp
  <2>3. g = [t \in SUBSET (1 .. n) |-> IF t = {} THEN <<>> ELSE g[t \ {Max(t)}] \o copies(Max(t))]
    <3> HIDE DEF F, copies
    <3> QED BY <2>1, <2>2
  <2> QED BY <1>1, <2>3 DEF IsValues
<1>6. IsValues(c, idx, q)
  BY <1>5
<1>7. Values(idx, docs, Seconds) = c[1 .. n]
  <2>1. Values(idx, docs, Seconds) = c[DOMAIN q]
    BY DEF Values, FoldLeft, MapThenFoldSet, IsValues, q
  <2> HIDE DEF c
  <2> QED BY <1>1, <2>1
<1> HIDE DEF c, F
<1> DEFINE P == {k \in Nat : k <= n => c[1 .. k] \in V}
<1>8. 0 \in P
  <2>1. 1 .. 0 = {} /\ {} \in SUBSET DOMAIN q
    OBVIOUS
  <2> QED BY <2>1, <1>3, <1>6 DEF IsValues
<1>9. ASSUME NEW k \in Nat, k \in P PROVE k + 1 \in P
  <2> SUFFICES ASSUME k + 1 <= n PROVE c[1 .. (k + 1)] \in V
    OBVIOUS
  <2>1. k + 1 \in 1 .. n /\ (k + 1) - 1 = k /\ k <= n
    BY <1>1
  <2> DEFINE t == 1 .. (k + 1)
  <2>2. Max(t) = k + 1 /\ t \ {k + 1} = 1 .. k /\ t \in SUBSET (1 .. n) /\ t # {}
    BY <1>1, <2>1, MaxOfInterval
  <2> HIDE DEF t
  <2>3. c[t] = c[1 .. k] \o copies(k + 1)
    BY <1>1, <1>6, <2>2 DEF IsValues
  <2> HIDE DEF copies, V
  <2> QED BY <1>2, <1>9, <2>1, <2>3 DEF t
<1> HIDE DEF P, V
<1>10. n \in P
  BY <1>1, <1>8, <1>9, NatSetInduction
<1> QED BY <1>1, <1>7, <1>10 DEF P, V

\* Of m values, not none, that are sorted: the ranks stand in order.
LEMMA SortedAscends ==
  ASSUME NEW m \in Nat, m # 0, NEW u \in [1 .. m -> Int]
  PROVE  /\ 2 * Sorted(u)[1] <= TwiceMedian(Sorted(u))
         /\ TwiceMedian(Sorted(u)) <= 2 * NearestRank(Sorted(u), 90)
         /\ NearestRank(Sorted(u), 90) <= NearestRank(Sorted(u), 95)
         /\ NearestRank(Sorted(u), 95) <= NearestRank(Sorted(u), 99)
         /\ NearestRank(Sorted(u), 99) <= Sorted(u)[m]
<1> DEFINE s == Sorted(u)
<1>1. s \in [1 .. m -> Int]
  BY TotalOfSorted
<1>2. PICK b : Sorts(b, u, m)
  BY SortedSorts DEF CanSort
<1>3. \A i, j \in 1 .. m : i <= j => u[b[i]] <= u[b[j]]
  BY <1>2 DEF Sorts
<1>4. \A i \in 1 .. m : s[i] = u[b[i]]
  BY <1>2 DEF Sorts
<1> HIDE DEF s
<1>5. \A i, j \in 1 .. m : i <= j => s[i] <= s[j]
  BY <1>3, <1>4
<1> SUFFICES /\ 2 * s[1] <= TwiceMedian(s) /\ TwiceMedian(s) <= 2 * NearestRank(s, 90)
             /\ NearestRank(s, 90) <= NearestRank(s, 95)
             /\ NearestRank(s, 95) <= NearestRank(s, 99) /\ NearestRank(s, 99) <= s[m]
  BY DEF s
<1> QED BY <1>1, <1>5, RanksAscend

\* What the statistics of times say of those that are usable.
Ranked(s, times) ==
  times # <<>> =>
    /\ IsPercentile(s.p90, 90, times)
    /\ IsPercentile(s.p95, 95, times)
    /\ IsPercentile(s.p99, 99, times)
    /\ 2 * s.min <= s.p50 /\ s.p50 <= 2 * s.p90
    /\ s.p90 <= s.p95 /\ s.p95 <= s.p99 /\ s.p99 <= s.max

LEMMA StatisticsRanked ==
  ASSUME NEW times \in Seq(Int)
  PROVE  Ranked(Statistics(times), Usable(times))
<1> DEFINE n == Len(times)
           P == {i \in DOMAIN times : 0 < times[i] /\ times[i] < Hour}
           u == Usable(times)
           m == Cardinality(P)
           s == Sorted(u)
<1>1. n \in Nat /\ times \in [1 .. n -> Int] /\ P \in SUBSET (1 .. n)
  OBVIOUS
<1>2. m \in Nat /\ u \in [1 .. m -> Int]
  <2> HIDE DEF n, P
  <2> QED BY <1>1, TotalOfSome DEF Usable, P
<1> HIDE DEF m, u
<1> SUFFICES ASSUME u # <<>> PROVE Ranked(Statistics(times), u)
  BY DEF Ranked, u
<1>3. m # 0
  <2> SUFFICES ASSUME m = 0 PROVE FALSE
    OBVIOUS
  <2>1. u \in [1 .. 0 -> Int]
    BY <1>2
  <2>2. u = <<>>
    BY <2>1
  <2> QED BY <2>2
<1>4. s \in [1 .. m -> Int]
  BY <1>2, TotalOfSorted
<1>5. s # <<>> /\ Len(s) = m
  <2>1. 1 \in DOMAIN s /\ DOMAIN s = 1 .. m
    BY <1>2, <1>3, <1>4
  <2> HIDE DEF s
  <2> QED BY <1>2, <1>4, <2>1
<1> DEFINE st == Statistics(times)
<1>6. /\ st.p90 = NearestRank(s, 90) /\ st.p95 = NearestRank(s, 95) /\ st.p99 = NearestRank(s, 99)
      /\ st.p50 = TwiceMedian(s) /\ st.min = s[1] /\ st.max = s[m]
  BY <1>5 DEF Statistics, u
<1> HIDE DEF st
<1>7. /\ IsPercentile(st.p90, 90, u) /\ IsPercentile(st.p95, 95, u)
      /\ IsPercentile(st.p99, 99, u)
  BY <1>2, <1>3, <1>6, PercentileOfRank
<1>8. /\ 2 * s[1] <= TwiceMedian(s) /\ TwiceMedian(s) <= 2 * NearestRank(s, 90)
      /\ NearestRank(s, 90) <= NearestRank(s, 95) /\ NearestRank(s, 95) <= NearestRank(s, 99)
      /\ NearestRank(s, 99) <= s[m]
  BY <1>2, <1>3, SortedAscends
<1> HIDE DEF s
<1>9. /\ 2 * st.min <= st.p50 /\ st.p50 <= 2 * st.p90
      /\ st.p90 <= st.p95 /\ st.p95 <= st.p99 /\ st.p99 <= st.max
  BY <1>6, <1>8
<1> QED BY <1>7, <1>9 DEF Ranked, st

-----------------------------------------------------------------------------
(***************************************************************************)
(* The parallel groups.                                                    *)
(***************************************************************************)

\* The nodes that start from one of them on, and within the window.
Burst(off, L, f) == {n \in L : off[f] <= off[n] /\ off[n] <= off[f] + Window}
IsBurst(off, L, d) == \E f \in d : off[f] \in Int /\ d = Burst(off, L, f)

\* The groups so far, when the nodes of seen have been looked at: those that are
\* done, and the one that is under way.
Grouped(off, L, seen, g) ==
  /\ g.nodes \subseteq seen
  /\ \A d \in g.done : IsBurst(off, L, d)
  /\ seen = {} => g.start < 0 /\ g.nodes = {} /\ g.done = {}
  /\ seen # {} => /\ g.start >= 0 /\ \E f \in g.nodes : off[f] = g.start
                  /\ g.nodes = {n \in seen : g.start <= off[n]}
                  /\ \A n \in g.nodes : off[n] <= g.start + Window
  /\ \A a, b \in seen : a # b /\ off[a] = off[b] /\ off[a] < g.start =>
                          \E d \in g.done : {a, b} \subseteq d

\* n is the next of L, after those seen.
IsNext(off, L, seen, n) ==
  /\ n \in L \ seen /\ \A m \in seen : off[m] <= off[n]
  /\ \A m \in L \ seen : off[n] <= off[m]

GroupState(L) == [done : SUBSET SUBSET L, nodes : SUBSET L, start : Int]

LEMMA TwoOfSet ==
  ASSUME NEW S, IsFiniteSet(S), NEW a \in S, NEW b \in S, a # b
  PROVE  Cardinality(S) > 1
<1>1. IsFiniteSet({a}) /\ Cardinality({a}) = 1
  BY FS_Singleton
<1>2. IsFiniteSet({a} \cup {b}) /\ Cardinality({a} \cup {b}) = 2
  <2> DEFINE A == {a}
  <2>1. IsFiniteSet(A) /\ Cardinality(A) = 1 /\ b \notin A
    BY <1>1
  <2> HIDE DEF A
  <2>2. IsFiniteSet(A \cup {b}) /\ Cardinality(A \cup {b}) = Cardinality(A) + 1
    BY <2>1, FS_AddElement
  <2>3. Cardinality(A \cup {b}) = 2
    BY <2>1, <2>2
  <2> QED BY <2>2, <2>3 DEF A
<1>3. Cardinality({a} \cup {b}) <= Cardinality(S)
  <2>1. {a} \cup {b} \in SUBSET S
    OBVIOUS
  <2> QED BY <2>1, FS_Subset
<1>4. Cardinality(S) \in Nat
  BY FS_CardinalityType
<1> QED BY <1>2, <1>3, <1>4

\* All of the groups are bursts; none parts nodes that started together.
Bursts(off, L, groups) == \A d \in groups : IsBurst(off, L, d)
Together(off, seen, groups) ==
  \A a, b \in seen : a # b /\ off[a] = off[b] => \E d \in groups : {a, b} \subseteq d

\* No other node starts in the window of the group under way.
WindowOver(off, L, seen, g) == \A m \in L \ seen : ~(off[m] <= g.start + Window)

\* A group that is closed then is a burst, and it keeps together those that started together.
LEMMA Closing ==
  ASSUME NEW L, IsFiniteSet(L), NEW off \in [L -> Nat], NEW seen \in SUBSET L,
         NEW g \in GroupState(L), Grouped(off, L, seen, g), seen # {},
         WindowOver(off, L, seen, g)
  PROVE  /\ Bursts(off, L, Closed(g)) /\ Together(off, seen, Closed(g))
         /\ Closed(g) \in SUBSET SUBSET L
<1>1. /\ g.nodes \in SUBSET L /\ g.done \in SUBSET SUBSET L /\ g.start \in Int
      /\ g.nodes = {n \in seen : g.start <= off[n]}
  BY DEF GroupState, Grouped
<1>2. PICK f \in g.nodes : off[f] = g.start
  BY DEF Grouped
<1>3. g.nodes = Burst(off, L, f)
  <2>1. \A n \in g.nodes : off[n] <= g.start + Window
    BY DEF Grouped
  <2> QED BY <1>1, <1>2, <2>1 DEF Burst, WindowOver
<1>4. IsBurst(off, L, g.nodes)
  BY <1>1, <1>2, <1>3 DEF IsBurst
<1>5. Closed(g) \subseteq g.done \cup {g.nodes} /\ g.done \subseteq Closed(g)
  BY DEF Closed
<1>6. \A d \in Closed(g) : IsBurst(off, L, d)
  BY <1>4, <1>5 DEF Grouped
<1>7. ASSUME NEW a \in seen, NEW b \in seen, a # b, off[a] = off[b]
      PROVE  \E d \in Closed(g) : {a, b} \subseteq d
  <2>1. CASE off[a] < g.start
    BY <2>1, <1>5, <1>7 DEF Grouped
  <2>2. CASE ~(off[a] < g.start)
    <3>1. off[a] \in Int
      OBVIOUS
    <3>2. a \in g.nodes /\ b \in g.nodes
      BY <1>1, <1>7, <2>2, <3>1
    <3>3. IsFiniteSet(g.nodes)
      BY <1>1, FS_Subset
    <3>4. Cardinality(g.nodes) > 1
      BY <1>7, <3>2, <3>3, TwoOfSet
    <3>5. g.nodes \in Closed(g)
      BY <3>4 DEF Closed
    <3> QED BY <3>2, <3>5
  <2> QED BY <2>1, <2>2
<1> QED BY <1>1, <1>5, <1>6, <1>7 DEF Bursts, Together

LEMMA JoinGroups ==
  ASSUME NEW L, IsFiniteSet(L), NEW off \in [L -> Nat], NEW seen \in SUBSET L,
         NEW g \in GroupState(L), Grouped(off, L, seen, g), NEW n, IsNext(off, L, seen, n)
  PROVE  /\ Join(off, g, n) \in GroupState(L)
         /\ Grouped(off, L, seen \cup {n}, Join(off, g, n))
<1> DEFINE h == Join(off, g, n)
           next == seen \cup {n}
<1>1. /\ n \in L /\ n \notin seen /\ next # {} /\ off[n] \in Nat
      /\ g.nodes \in SUBSET L /\ g.done \in SUBSET SUBSET L /\ g.start \in Int
  BY DEF IsNext, GroupState
<1>2. CASE seen = {}
  <2>1. g.start < 0 /\ g.nodes = {} /\ g.done = {}
    BY <1>2 DEF Grouped
  <2>2. h = [g EXCEPT !.nodes = @ \cup {n}, !.start = off[n]]
    BY <2>1 DEF Join
  <2>3. h.nodes = {n} /\ h.start = off[n] /\ h.done = {} /\ h \in GroupState(L)
    <3>1. h.nodes = g.nodes \cup {n} /\ h.start = off[n] /\ h.done = g.done
      BY <2>2 DEF GroupState
    <3>2. h \in [done : SUBSET SUBSET L, nodes : SUBSET L, start : Int]
      <4>1. g.nodes \cup {n} \in SUBSET L /\ off[n] \in Int
        BY <1>1
      <4> HIDE DEF h
      <4> QED BY <2>2, <4>1 DEF GroupState
    <3> QED BY <2>1, <3>1, <3>2 DEF GroupState
  <2> HIDE DEF h
  <2>4. off[n] <= off[n] + Window
    BY <1>1 DEF Window
  <2>5. \A a, b \in next : a = b
    BY <1>2
  <2>6. h.nodes = {m \in next : h.start <= off[m]}
    BY <1>1, <1>2, <2>3
  <2>7. Grouped(off, L, next, h)
    BY <1>1, <1>2, <2>3, <2>4, <2>5, <2>6 DEF Grouped
  <2> QED BY <2>3, <2>7 DEF h
<1>3. CASE seen # {}
  <2>1. /\ g.start >= 0 /\ \E f \in g.nodes : off[f] = g.start
        /\ g.nodes = {m \in seen : g.start <= off[m]}
        /\ \A m \in g.nodes : off[m] <= g.start + Window
    BY <1>3 DEF Grouped
  <2>2. g.start <= off[n]
    <3>1. PICK f \in g.nodes : off[f] = g.start
      BY <2>1
    <3>2. f \in seen
      BY <2>1, <3>1
    <3> QED BY <3>1, <3>2 DEF IsNext
  <2>3. CASE off[n] - g.start <= Window
    <3>1. h = [g EXCEPT !.nodes = @ \cup {n}, !.start = IF @ < 0 THEN off[n] ELSE @]
      BY <2>3 DEF Join
    <3>2. h.nodes = g.nodes \cup {n} /\ h.start = g.start /\ h.done = g.done /\ h \in GroupState(L)
      <4> DEFINE at == IF g.start < 0 THEN off[n] ELSE g.start
      <4>1. at = g.start
        BY <1>1, <2>1
      <4>2. h = [g EXCEPT !.nodes = g.nodes \cup {n}, !.start = at]
        BY <3>1 DEF GroupState
      <4>3. g.nodes \cup {n} \in SUBSET L
        BY <1>1
      <4> HIDE DEF h, at
      <4>4. h.nodes = g.nodes \cup {n} /\ h.start = g.start /\ h.done = g.done
        BY <4>1, <4>2 DEF GroupState
      <4>5. h \in [done : SUBSET SUBSET L, nodes : SUBSET L, start : Int]
        BY <1>1, <4>1, <4>2, <4>3 DEF GroupState
      <4> QED BY <4>4, <4>5 DEF GroupState
    <3> HIDE DEF h
    <3>3. h.nodes = {m \in next : h.start <= off[m]}
      BY <2>1, <2>2, <3>2
    <3>4. \A m \in h.nodes : off[m] <= h.start + Window
      <4>1. off[n] <= g.start + Window
        BY <1>1, <2>3 DEF Window
      <4> QED BY <2>1, <3>2, <4>1
    <3>5. \A a, b \in next : a # b /\ off[a] = off[b] /\ off[a] < h.start =>
                               \E d \in h.done : {a, b} \subseteq d
      <4> SUFFICES ASSUME NEW a \in next, NEW b \in next, a # b, off[a] = off[b], off[a] < h.start
                   PROVE  \E d \in h.done : {a, b} \subseteq d
        OBVIOUS
      <4>1. a # n /\ b # n
        BY <1>1, <2>2, <3>2
      <4> QED BY <3>2, <4>1 DEF Grouped
    <3>6. Grouped(off, L, next, h)
      <4>1. \A d \in h.done : IsBurst(off, L, d)
        BY <3>2 DEF Grouped
      <4>2. \E f \in h.nodes : off[f] = h.start
        BY <2>1, <3>2
      <4> QED BY <1>1, <2>1, <3>2, <3>3, <3>4, <3>5, <4>1, <4>2 DEF Grouped
    <3> QED BY <3>2, <3>6 DEF h
  <2>4. CASE ~(off[n] - g.start <= Window)
    <3>1. h = [done |-> Closed(g), nodes |-> {n}, start |-> off[n]]
      BY <2>1, <2>4, <1>1 DEF Join
    <3>2. ~(off[n] <= g.start + Window)
      BY <1>1, <2>4 DEF Window
    <3>3. WindowOver(off, L, seen, g)
      <4> SUFFICES ASSUME NEW m \in L \ seen PROVE ~(off[m] <= g.start + Window)
        BY DEF WindowOver
      <4>1. off[n] <= off[m] /\ off[m] \in Int
        BY DEF IsNext
      <4> QED BY <1>1, <3>2, <4>1 DEF Window
    <3>4. /\ \A d \in Closed(g) : IsBurst(off, L, d)
          /\ Closed(g) \in SUBSET SUBSET L
          /\ \A a, b \in seen : a # b /\ off[a] = off[b] =>
                                  \E d \in Closed(g) : {a, b} \subseteq d
      BY <1>3, <3>3, Closing DEF Bursts, Together
    <3>5. h \in GroupState(L) /\ h.nodes = {n} /\ h.start = off[n] /\ h.done = Closed(g)
      BY <1>1, <3>1, <3>4 DEF GroupState
    <3> HIDE DEF h
    <3>6. h.nodes = {m \in next : h.start <= off[m]}
      <4>1. \A m \in seen : ~(off[n] <= off[m])
        <5> SUFFICES ASSUME NEW m \in seen PROVE ~(off[n] <= off[m])
          OBVIOUS
        <5>1. off[m] \in Int
          OBVIOUS
        <5>2. off[m] <= g.start + Window
          <6>1. CASE g.start <= off[m]
            BY <6>1, <2>1
          <6>2. CASE ~(g.start <= off[m])
            BY <6>2, <1>1, <5>1 DEF Window
          <6> QED BY <6>1, <6>2
        <5> QED BY <1>1, <3>2, <5>1, <5>2 DEF Window
      <4> QED BY <1>1, <3>5, <4>1
    <3>7. \A a, b \in next : a # b /\ off[a] = off[b] /\ off[a] < h.start =>
                               \E d \in h.done : {a, b} \subseteq d
      <4> SUFFICES ASSUME NEW a \in next, NEW b \in next, a # b, off[a] = off[b], off[a] < h.start
                   PROVE  \E d \in h.done : {a, b} \subseteq d
        OBVIOUS
      <4>1. a # n /\ b # n
        BY <1>1, <3>5
      <4> QED BY <3>4, <3>5, <4>1
    <3>8. \A m \in h.nodes : off[m] <= h.start + Window
      BY <1>1, <3>5 DEF Window
    <3>9. Grouped(off, L, next, h)
      BY <1>1, <3>4, <3>5, <3>6, <3>7, <3>8 DEF Grouped
    <3> QED BY <3>5, <3>9 DEF h
  <2> QED BY <2>3, <2>4
<1> QED BY <1>2, <1>3

NoGroup == [done |-> {}, nodes |-> {}, start |-> -1]

IsGroups(c, off, o) ==
  c = [t \in SUBSET DOMAIN o |->
         IF t = {} THEN NoGroup ELSE LET x == Max(t) IN Join(off, c[t \ {x}], o[x])]

\* Joining a node to any state of the groups gives one.
LEMMA JoinType ==
  ASSUME NEW L, NEW off \in [L -> Nat], NEW g \in GroupState(L), NEW n \in L
  PROVE  Join(off, g, n) \in GroupState(L)
<1>1. g.nodes \in SUBSET L /\ g.done \in SUBSET SUBSET L /\ g.start \in Int /\ off[n] \in Int
  BY DEF GroupState
<1>2. Closed(g) \in SUBSET SUBSET L
  BY <1>1 DEF Closed
<1> DEFINE nodes == g.nodes \cup {n}
           at == IF g.start < 0 THEN off[n] ELSE g.start
<1>3. nodes \in SUBSET L /\ at \in Int
  BY <1>1
<1>4. [g EXCEPT !.nodes = @ \cup {n}, !.start = IF @ < 0 THEN off[n] ELSE @]
        = [g EXCEPT !.nodes = nodes, !.start = at]
  BY DEF GroupState
<1> HIDE DEF nodes, at
<1>5. [g EXCEPT !.nodes = nodes, !.start = at] \in GroupState(L)
  BY <1>1, <1>3 DEF GroupState
<1>6. [done |-> Closed(g), nodes |-> {n}, start |-> off[n]] \in GroupState(L)
  BY <1>1, <1>2 DEF GroupState
<1> QED BY <1>4, <1>5, <1>6 DEF Join

\* The order of the nodes by their start.
Order(off) ==
  [n \in DOMAIN off |->
     {m \in DOMAIN off : off[m] < off[n] \/ (off[m] = off[n] /\ m <= n)}]

LEMMA OrderOfStarts ==
  ASSUME NEW L \in SUBSET Nat, IsFiniteSet(L), NEW off \in [L -> Nat]
  PROVE  Lists(ByStart(off), L, Order(off))
<1> DEFINE upTo == Order(off)
           Q(m, n) == off[m] < off[n] \/ (off[m] = off[n] /\ m <= n)
<1>1. DOMAIN off = L /\ \A n \in L : off[n] \in Int /\ n \in Int
  OBVIOUS
<1>2. upTo \in [L -> SUBSET L] /\ \A m, n \in L : m \in upTo[n] <=> Q(m, n)
  BY <1>1 DEF Order
<1> HIDE DEF upTo
<1>3. \A n \in L : n \in upTo[n]
  BY <1>1, <1>2
<1>4. \A m, n \in L : m \in upTo[n] \/ n \in upTo[m]
  BY <1>1, <1>2
<1>5. ASSUME NEW m \in L, NEW n \in L, m \in upTo[n] PROVE upTo[m] \subseteq upTo[n]
  <2> SUFFICES ASSUME NEW k \in upTo[m] PROVE k \in upTo[n]
    OBVIOUS
  <2>1. k \in L
    BY <1>2
  <2>2. Q(k, m) /\ Q(m, n)
    BY <1>2, <1>5, <2>1
  <2>3. /\ off[k] \in Int /\ off[m] \in Int /\ off[n] \in Int
        /\ k \in Int /\ m \in Int /\ n \in Int
    BY <1>1, <2>1
  <2>4. Q(k, n)
    BY <2>2, <2>3
  <2> QED BY <1>2, <2>1, <2>4
<1>6. ASSUME NEW m \in L, NEW n \in L, m \in upTo[n], n \in upTo[m] PROVE m = n
  BY <1>1, <1>2, <1>6
<1>7. IsOrder(L, upTo)
  BY <1>2, <1>3, <1>4, <1>5, <1>6 DEF IsOrder
<1>8. ByStart(off) = InOrder(L, upTo)
  BY <1>1 DEF ByStart, Order, upTo
<1> QED BY <1>7, <1>8, OrderLists DEF upTo

\* Node after node, each is the next of those that are left.
LEMMA NextInOrder ==
  ASSUME NEW L \in SUBSET Nat, IsFiniteSet(L), NEW off \in [L -> Nat],
         NEW k \in 1 .. Cardinality(L), NEW o, o = ByStart(off)
  PROVE  IsNext(off, L, {o[j] : j \in 1 .. (k - 1)}, o[k])
<1> DEFINE N == Cardinality(L)
           seen == {o[j] : j \in 1 .. (k - 1)}
<1>1. Lists(o, L, Order(off)) /\ N \in Nat
  BY OrderOfStarts, FS_CardinalityType
<1>2. /\ o \in [1 .. N -> L] /\ \A i, j \in 1 .. N : o[i] = o[j] => i = j
      /\ \A m \in L : \E j \in 1 .. N : o[j] = m
      /\ \A i, j \in 1 .. N : i <= j => o[i] \in Order(off)[o[j]]
  BY <1>1 DEF Lists, Bijection, Injection, Surjection, IsInjective
<1> HIDE DEF N
<1>3. k \in 1 .. N
  BY DEF N
<1>4. \A i, j \in 1 .. N : i <= j => off[o[i]] <= off[o[j]]
  <2> SUFFICES ASSUME NEW i \in 1 .. N, NEW j \in 1 .. N, i <= j PROVE off[o[i]] <= off[o[j]]
    OBVIOUS
  <2>1. o[i] \in L /\ o[j] \in L /\ o[i] \in Order(off)[o[j]]
    BY <1>2
  <2>2. off[o[i]] < off[o[j]] \/ off[o[i]] = off[o[j]]
    BY <2>1 DEF Order
  <2>3. off[o[i]] \in Int /\ off[o[j]] \in Int
    <3>1. \A m \in L : off[m] \in Int
      OBVIOUS
    <3> QED BY <2>1, <3>1
  <2> QED BY <2>2, <2>3
<1>5. \A j \in 1 .. (k - 1) : j \in 1 .. N /\ j <= k /\ j # k
  BY <1>1, <1>3
<1>6. o[k] \in L /\ o[k] \notin seen
  BY <1>2, <1>3, <1>5
<1>7. \A m \in seen : off[m] <= off[o[k]]
  BY <1>3, <1>4, <1>5
<1>8. ASSUME NEW m \in L \ seen PROVE off[o[k]] <= off[m]
  <2>1. PICK j \in 1 .. N : o[j] = m
    BY <1>2
  <2>2. j \notin 1 .. (k - 1)
    <3>1. \A i \in 1 .. (k - 1) : o[i] \in seen
      OBVIOUS
    <3>2. o[j] \notin seen
      BY <2>1
    <3> HIDE DEF seen
    <3> QED BY <3>1, <3>2
  <2>3. k <= j
    BY <1>1, <1>3, <2>2
  <2> QED BY <1>3, <1>4, <2>1, <2>3
<1> QED BY <1>6, <1>7, <1>8 DEF IsNext

LEMMA GroupsOfNodes ==
  ASSUME NEW L \in SUBSET Nat, IsFiniteSet(L), NEW off \in [L -> Nat]
  PROVE  \E g \in GroupState(L) : Grouped(off, L, L, g) /\ ParallelGroups(off) = Closed(g)
<1> DEFINE N == Cardinality(L)
           o == ByStart(off)
           V == GroupState(L)
           F == [p \in V \X (1 .. N) |-> Join(off, p[1], o[p[2]])]
           c == CHOOSE c : IsGroups(c, off, o)
           seen(k) == {o[j] : j \in 1 .. k}
<1>1. /\ N \in Nat /\ o \in [1 .. N -> L] /\ DOMAIN o = 1 .. N
      /\ \A m \in L : \E j \in 1 .. N : o[j] = m
  BY OrderOfStarts, FS_CardinalityType DEF Lists, Bijection, Injection, Surjection
<1>2. \A k \in 1 .. N : IsNext(off, L, seen(k - 1), o[k])
  BY NextInOrder
<1> HIDE DEF o, N
<1>3. NoGroup \in V
  BY DEF NoGroup, GroupState
<1>4. F \in [V \X (1 .. N) -> V]
  <2>1. \A v \in V : \A k \in 1 .. N : Join(off, v, o[k]) \in V
    BY <1>1, JoinType
  <2> HIDE DEF V
  <2> QED BY <2>1
<1>5. PICK f : FoldsUp(f, N, V, NoGroup, F)
  <2> HIDE DEF V, F
  <2>1. CanFold(N, V, NoGroup, F)
    BY <1>1, <1>3, <1>4, FoldExists
  <2> QED BY <2>1 DEF CanFold
<1>6. IsGroups(f, off, o)
  <2>1. ASSUME NEW t \in SUBSET (1 .. N), t # {}
        PROVE  f[t] = Join(off, f[t \ {Max(t)}], o[Max(t)])
    <3>1. f[t] = F[<<f[t \ {Max(t)}], Max(t)>>]
      BY <1>5, <2>1 DEF FoldsUp
    <3>2. Max(t) \in 1 .. N /\ f[t \ {Max(t)}] \in V
      BY <1>1, <1>5, <2>1, MaxIsThere DEF FoldsUp
    <3> HIDE DEF V
    <3> QED BY <3>1, <3>2
  <2>2. f[{}] = NoGroup /\ f = [t \in SUBSET (1 .. N) |-> f[t]]
    BY <1>5 DEF FoldsUp
  <2>3. f = [t \in SUBSET (1 .. N) |-> IF t = {} THEN NoGroup
                                       ELSE Join(off, f[t \ {Max(t)}], o[Max(t)])]
    <3> HIDE DEF F
    <3> QED BY <2>1, <2>2
  <2> QED BY <1>1, <2>3 DEF IsGroups
<1>7. IsGroups(c, off, o)
  BY <1>6
<1>8. ParallelGroups(off) = Closed(c[1 .. N])
  <2>1. ParallelGroups(off) = Closed(c[DOMAIN o])
    BY DEF ParallelGroups, FoldLeft, MapThenFoldSet, IsGroups, NoGroup, o
  <2> HIDE DEF c
  <2> QED BY <1>1, <2>1
<1> HIDE DEF c, F
<1> DEFINE P == {k \in Nat : k <= N => c[1 .. k] \in V /\ Grouped(off, L, seen(k), c[1 .. k])}
<1>9. 0 \in P
  <2>1. 1 .. 0 = {} /\ {} \in SUBSET DOMAIN o /\ seen(0) = {}
    OBVIOUS
  <2>2. c[1 .. 0] = NoGroup
    BY <1>7, <2>1 DEF IsGroups
  <2>3. Grouped(off, L, {}, NoGroup)
    BY DEF Grouped, NoGroup
  <2> HIDE DEF V, seen
  <2> QED BY <1>3, <2>1, <2>2, <2>3
<1>10. ASSUME NEW k \in Nat, k \in P PROVE k + 1 \in P
  <2> SUFFICES ASSUME k + 1 <= N
               PROVE  c[1 .. (k + 1)] \in V /\ Grouped(off, L, seen(k + 1), c[1 .. (k + 1)])
    OBVIOUS
  <2>1. k + 1 \in 1 .. N /\ (k + 1) - 1 = k /\ k <= N
    BY <1>1
  <2> DEFINE t == 1 .. (k + 1)
  <2>2. Max(t) = k + 1 /\ t \ {k + 1} = 1 .. k /\ t \in SUBSET (1 .. N) /\ t # {}
    BY <1>1, <2>1, MaxOfInterval
  <2> HIDE DEF t
  <2>3. c[t] = Join(off, c[1 .. k], o[k + 1])
    BY <1>1, <1>7, <2>2 DEF IsGroups
  <2>4. seen(k + 1) = seen(k) \cup {o[k + 1]} /\ seen(k) \in SUBSET L
    <3>1. 1 .. (k + 1) = (1 .. k) \cup {k + 1} /\ \A j \in 1 .. k : j \in 1 .. N
      BY <1>1, <2>1
    <3> QED BY <1>1, <3>1
  <2>5. IsNext(off, L, seen(k), o[k + 1])
    BY <1>2, <2>1
  <2>6. c[1 .. k] \in V /\ Grouped(off, L, seen(k), c[1 .. k])
    BY <1>10, <2>1
  <2>7. c[t] \in V /\ Grouped(off, L, seen(k) \cup {o[k + 1]}, c[t])
    <3> DEFINE past == seen(k)
               n == o[k + 1]
               g == c[1 .. k]
    <3>1. past \in SUBSET L /\ IsNext(off, L, past, n) /\ g \in V /\ Grouped(off, L, past, g)
      BY <2>4, <2>5, <2>6
    <3> HIDE DEF past, n, g
    <3>2. Join(off, g, n) \in V /\ Grouped(off, L, past \cup {n}, Join(off, g, n))
      BY <3>1, JoinGroups
    <3> HIDE DEF seen, V
    <3> QED BY <2>3, <3>2 DEF past, n, g
  <2> HIDE DEF seen
  <2> QED BY <2>4, <2>7 DEF t
<1>11. c[1 .. N] \in V /\ Grouped(off, L, seen(N), c[1 .. N])
  <2>1. N \in P
    <3> HIDE DEF P
    <3> QED BY <1>1, <1>9, <1>10, NatSetInduction
  <2>2. N <= N
    BY <1>1
  <2> HIDE DEF seen, V
  <2>3. N <= N => c[1 .. N] \in V /\ Grouped(off, L, seen(N), c[1 .. N])
    BY <2>1
  <2> QED BY <2>2, <2>3
<1>12. seen(N) = L
  BY <1>1
<1> HIDE DEF seen, V
<1> QED BY <1>8, <1>11, <1>12 DEF V

\* The groups of an execution are bursts, and part no nodes that started together.
LEMMA GroupsAreRight ==
  ASSUME NEW L \in SUBSET Nat, IsFiniteSet(L), NEW off \in [L -> Nat]
  PROVE  Bursts(off, L, ParallelGroups(off)) /\ Together(off, L, ParallelGroups(off))
<1>1. PICK g \in GroupState(L) : Grouped(off, L, L, g) /\ ParallelGroups(off) = Closed(g)
  BY GroupsOfNodes
<1>2. CASE L = {}
  <2>1. g.nodes = {} /\ g.done = {}
    BY <1>1, <1>2 DEF Grouped
  <2>2. Closed(g) = {}
    BY <2>1, FS_EmptySet DEF Closed
  <2> QED BY <1>1, <1>2, <2>2 DEF Bursts, Together
<1>3. CASE L # {}
  <2> DEFINE M == L
             seen == L
  <2>1. /\ IsFiniteSet(M) /\ off \in [M -> Nat] /\ seen \in SUBSET M /\ g \in GroupState(M)
        /\ Grouped(off, M, seen, g) /\ seen # {} /\ WindowOver(off, M, seen, g)
    BY <1>1, <1>3 DEF WindowOver
  <2> HIDE DEF M, seen
  <2>2. Bursts(off, M, Closed(g)) /\ Together(off, seen, Closed(g))
    BY <2>1, Closing
  <2> QED BY <1>1, <2>2 DEF M, seen
<1> QED BY <1>2, <1>3

LEMMA BurstsStartFirst ==
  ASSUME NEW L, NEW off \in [L -> Nat], NEW d, IsBurst(off, L, d)
  PROVE  LET first == Min({off[n] : n \in d})
         IN  d = {n \in L : first <= off[n] /\ off[n] <= first + Window}
<1>1. PICK f \in d : off[f] \in Int /\ d = Burst(off, L, f)
  BY DEF IsBurst
<1> DEFINE S == {off[n] : n \in d}
           Q(x) == x \in S /\ \A y \in S : x <= y
<1>2. \A n \in d : off[n] \in Int /\ off[f] <= off[n]
  BY <1>1 DEF Burst
<1>3. Q(off[f])
  BY <1>2
<1>4. \A x : Q(x) => x = off[f]
  <2> SUFFICES ASSUME NEW x, Q(x) PROVE x = off[f]
    OBVIOUS
  <2>1. x \in Int /\ x <= off[f] /\ off[f] <= x
    BY <1>2, <1>1
  <2> QED BY <1>1, <2>1
<1>5. Min(S) = off[f]
  <2>1. Min(S) = CHOOSE x \in S : \A y \in S : x <= y
    BY DEF Min
  <2>2. Q(Min(S))
    BY <1>3, <2>1
  <2> QED BY <1>4, <2>2
<1> HIDE DEF S
<1> QED BY <1>1, <1>5 DEF S, Burst

-----------------------------------------------------------------------------
(***************************************************************************)
(* Counts of documents.                                                    *)
(***************************************************************************)

LEMMA CountSplits ==
  ASSUME NEW idx, NEW U, IsFiniteSet(U), \A d \in U : idx[d] \in Nat, NEW A \in SUBSET U
  PROVE  /\ Count(idx, U) \in Int /\ Count(idx, A) \in Int
         /\ Count(idx, U) = Count(idx, A) + Count(idx, U \ A)
<1> DEFINE f == [d \in U |-> idx[d]]
<1>1. f \in [U -> Int]
  OBVIOUS
<1>2. \A S \in SUBSET U : SumOf(f, S) = Count(idx, S)
  <2> SUFFICES ASSUME NEW S \in SUBSET U PROVE SumOf(f, S) = Count(idx, S)
    OBVIOUS
  <2>1. Count(idx, S) = SumOf(idx, S)
    BY DEF SumOf, Count
  <2>2. \A d \in S : f[d] = idx[d]
    OBVIOUS
  <2> QED BY <2>1, <2>2, SumOfEquals
<1> HIDE DEF f
<1>3. /\ SumOf(f, A) \in Int /\ SumOf(f, U) \in Int
      /\ SumOf(f, U) = SumOf(f, A) + SumOf(f, U \ A)
  <2>1. U \in SUBSET U
    OBVIOUS
  <2> QED BY <1>1, <2>1, SumSplits
<1>4. U \in SUBSET U /\ U \ A \in SUBSET U
  OBVIOUS
<1> QED BY <1>2, <1>3, <1>4

IsWeighed(g, S, idx) ==
  g = [s \in SUBSET S |-> IF s = {} THEN 0
                          ELSE LET x == CHOOSE x \in s : TRUE
                               IN  idx[x] * Seconds(x) + g[s \ {x}]]

LEMMA WeighedIsFold ==
  ASSUME NEW idx, NEW S
  PROVE  Sum(idx, S, Seconds) = (CHOOSE g : IsWeighed(g, S, idx))[S]
BY DEF Sum, MapThenSumSet, MapThenFoldSet, IsWeighed

LEMMA SumIsWeighed ==
  ASSUME NEW idx, NEW S
  PROVE  SumOf([d \in S |-> idx[d] * Seconds(d)], S) = Sum(idx, S, Seconds)
<1> DEFINE f == [d \in S |-> idx[d] * Seconds(d)]
<1>1. ASSUME NEW g PROVE IsFold(g, S, f) <=> IsWeighed(g, S, idx)
  <2>1. ASSUME NEW s \in SUBSET S, s # {}
        PROVE  LET x == CHOOSE x \in s : TRUE IN f[x] = idx[x] * Seconds(x)
    <3>1. (CHOOSE x \in s : TRUE) \in S
      BY <2>1
    <3> QED BY <3>1
  <2> HIDE DEF f
  <2>2. [s \in SUBSET S |-> IF s = {} THEN 0
            ELSE LET x == CHOOSE x \in s : TRUE IN f[x] + g[s \ {x}]]
        = [s \in SUBSET S |-> IF s = {} THEN 0
            ELSE LET x == CHOOSE x \in s : TRUE IN idx[x] * Seconds(x) + g[s \ {x}]]
    BY <2>1
  <2> QED BY <2>2 DEF IsFold, IsWeighed
<1> HIDE DEF f
<1>2. (CHOOSE g : IsFold(g, S, f)) = (CHOOSE g : IsWeighed(g, S, idx))
  BY <1>1
<1>3. SumOf(f, S) = Sum(idx, S, Seconds)
  BY <1>2, SumIsFold, WeighedIsFold
<1> QED BY <1>3 DEF f

LEMMA SumOfSeconds ==
  ASSUME NEW idx, NEW U \in SUBSET AllDocuments, IsFiniteSet(U), \A d \in U : idx[d] \in Nat
  PROVE  Sum(idx, U, Seconds) \in Int
<1> DEFINE f == [d \in U |-> idx[d] * Seconds(d)]
<1>1. f \in [U -> Int]
  <2> SUFFICES ASSUME NEW d \in U PROVE idx[d] * Seconds(d) \in Int
    OBVIOUS
  <2>1. Seconds(d) \in Int
    BY MetricsAssumption DEF Seconds, AllDocuments, Timing
  <2> QED BY <2>1
<1>2. SumOf(f, U) = Sum(idx, U, Seconds)
  BY SumIsWeighed
<1> HIDE DEF f
<1>3. U \in SUBSET U
  OBVIOUS
<1>4. SumOf(f, U) \in Int
  BY <1>1, <1>3, SumSplits
<1> QED BY <1>2, <1>4

-----------------------------------------------------------------------------
(***************************************************************************)
(* The answers.                                                            *)
(***************************************************************************)

\* The index and the log are finite.
KpiTyped ==
  /\ index \in [AllDocuments -> Nat] /\ IsFiniteSet(Documents(index))
  /\ log \subseteq Runs /\ IsFiniteSet(log)

\* What an answer says holds of the index and the log as they are.
ChecksHold ==
  report.of = "checks" =>
    /\ report.mttr \in {MttrStatus(index), "error"}
    /\ report.services \in {ServicesStatus(index), "error"}
    /\ report.overall = "ok" =>
         {report.mttr, report.services} \subseteq {"ok", "no_data"}
LogHolds ==
  report.of = "log" => report.statistics \in {Statistics(ExecutionTimes(log)), NoStatistics}
FiguresHold ==
  report.of = "aggregated" /\ report.alerts > 0 =>
    report.statistics = Statistics(MttrValues(index))
GroupsHold ==
  report.of = "timings" => /\ report.offsets \in [Labels -> 0 .. MaxTime]
                           /\ report.groups = ParallelGroups(report.offsets)
Holds == ChecksHold /\ LogHolds /\ FiguresHold /\ GroupsHold

KpiInv == KpiTyped /\ Holds

LEMMA NothingAsked == report = NoReport => Holds
BY DEF NoReport, Holds, ChecksHold, LogHolds, FiguresHold, GroupsHold

LEMMA KpiInvInit == KpiInit => KpiInv
<1> SUFFICES ASSUME KpiInit PROVE KpiInv
  OBVIOUS
<1>1. index \in [AllDocuments -> Nat] /\ Documents(index) = {}
  BY DEF KpiInit, Documents
<1>2. Holds
  BY NothingAsked DEF KpiInit
<1> QED BY <1>1, <1>2, FS_EmptySet DEF KpiInit, KpiInv, KpiTyped

\* A write adds one document to those of the index, at most.
LEMMA WritesKeepTyped ==
  ASSUME KpiTyped, log' = log, NEW d \in AllDocuments, NEW n \in Nat,
         index' = [index EXCEPT ![d] = @ + n]
  PROVE  KpiTyped'
<1>1. index' \in [AllDocuments -> Nat]
  BY DEF KpiTyped
<1>2. Documents(index)' \in SUBSET (Documents(index) \cup {d})
  BY DEF KpiTyped, Documents
<1>3. IsFiniteSet(Documents(index) \cup {d})
  BY FS_AddElement DEF KpiTyped
<1>4. IsFiniteSet(Documents(index)')
  BY <1>2, <1>3, FS_Subset
<1> QED BY <1>1, <1>4 DEF KpiTyped

LEMMA KpiInvStep == KpiInv /\ [KpiNext]_kpiVars => KpiInv'
<1> SUFFICES ASSUME KpiInv, [KpiNext]_kpiVars PROVE KpiInv'
  OBVIOUS
<1> USE DEF KpiInv
<1>1. ASSUME NEW d \in Metrics, NEW n \in Batches, IndexMetrics(d, n) PROVE KpiInv'
  <2>1. d \in AllDocuments /\ n \in Nat
    BY KpisAssumption DEF AllDocuments
  <2>2. KpiTyped'
    BY <1>1, <2>1, WritesKeepTyped DEF IndexMetrics
  <2>3. report' = NoReport
    BY <1>1 DEF IndexMetrics, Event
  <2>4. Holds'
    BY <2>3 DEF NoReport, Holds, ChecksHold, LogHolds, FiguresHold, GroupsHold
  <2> QED BY <2>2, <2>4
<1>2. ASSUME NEW r \in Runs, LogRun(r) PROVE KpiInv'
  <2>1. report' = NoReport /\ index' = index /\ log' = log \cup {r}
    BY <1>2 DEF LogRun, Event
  <2>2. KpiTyped'
    <3>1. IsFiniteSet(log \cup {r})
      BY FS_AddElement DEF KpiTyped
    <3> QED BY <2>1, <3>1 DEF KpiTyped
  <2>3. Holds'
    BY <2>1 DEF NoReport, Holds, ChecksHold, LogHolds, FiguresHold, GroupsHold
  <2> QED BY <2>2, <2>3
<1>3. ASSUME AskAggregated \/ AskKpis \/ CalcKpis \/ AskTimings \/ MissExecution
             \/ CheckThresholds \/ TakeAnswer
      PROVE  KpiInv'
  <2>1. index' = index /\ log' = log /\ KpiTyped'
    BY <1>3 DEF AskAggregated, AskKpis, CalcKpis, AskTimings, MissExecution, CheckThresholds,
                TakeAnswer, Asks, KpiTyped
  <2>2. CASE AskAggregated
    <3>1. report' = Aggregated(index) \/ report' = [of |-> "error"]
      BY <2>2 DEF AskAggregated, Asks
    <3>2. /\ report'.of \in {"aggregated", "error"}
          /\ report'.of = "aggregated" /\ report'.alerts > 0 =>
               report'.statistics = Statistics(MttrValues(index))
      BY <3>1 DEF Aggregated
    <3>3. Holds'
      BY <2>1, <3>2 DEF Holds, ChecksHold, LogHolds, FiguresHold, GroupsHold
    <3> QED BY <2>1, <3>3
  <2>3. CASE AskKpis
    <3>1. report'.of = "log" /\ report'.statistics \in Mttr
      BY <2>3 DEF AskKpis, Asks
    <3>2. Holds'
      BY <2>1, <3>1 DEF Mttr, Holds, ChecksHold, LogHolds, FiguresHold, GroupsHold
    <3> QED BY <2>1, <3>2
  <2>4. CASE CalcKpis
    <3>1. \/ report'.of \in {"script", "exit"}
          \/ report'.of = "log" /\ report'.statistics = Statistics(ExecutionTimes(log))
      BY <2>4 DEF CalcKpis, Asks, ParseLogData
    <3>2. Holds'
      BY <2>1, <3>1 DEF Holds, ChecksHold, LogHolds, FiguresHold, GroupsHold
    <3> QED BY <2>1, <3>2
  <2>5. CASE AskTimings \/ MissExecution
    <3>1. report'.of \in {"executions", "error", "not_found"}
      BY <2>5 DEF AskTimings, MissExecution, Asks
    <3>2. Holds'
      BY <3>1 DEF Holds, ChecksHold, LogHolds, FiguresHold, GroupsHold
    <3> QED BY <2>1, <3>2
  <2>6. CASE TakeAnswer
    <3>1. report' = NoReport
      BY <2>6 DEF TakeAnswer
    <3>2. Holds'
      BY <3>1 DEF NoReport, Holds, ChecksHold, LogHolds, FiguresHold, GroupsHold
    <3> QED BY <2>1, <3>2
  <2>7. CASE CheckThresholds
    <3>1. PICK mttr \in {MttrStatus(index), "error"},
               services \in {ServicesStatus(index), "error"},
               health \in {HealthStatus, "error"} : Asks(Checks(mttr, services, health))
      BY <2>7 DEF CheckThresholds
    <3>2. /\ report'.of = "checks" /\ report'.mttr = mttr /\ report'.services = services
          /\ report'.overall = Overall({mttr, services, health})
      BY <3>1 DEF Asks, Checks
    <3>3. report'.overall = "ok" => {mttr, services} \subseteq {"ok", "no_data"}
      BY <3>2 DEF Overall
    <3>4. ChecksHold'
      BY <2>1, <3>1, <3>2, <3>3 DEF ChecksHold
    <3>5. Holds'
      BY <3>2, <3>4 DEF Holds, LogHolds, FiguresHold, GroupsHold
    <3> QED BY <2>1, <3>5
  <2> QED BY <1>3, <2>2, <2>3, <2>4, <2>5, <2>6, <2>7
<1>4. ASSUME NEW offsets \in [Labels -> 0..MaxTime], TimeExecution(offsets) PROVE KpiInv'
  <2>1. /\ report' = [of |-> "timings", offsets |-> offsets, groups |-> ParallelGroups(offsets)]
        /\ log' = log /\ (index' = index \/ index' = [index EXCEPT ![Timing] = @ + 1])
    BY <1>4 DEF TimeExecution
  <2>2. KpiTyped'
    <3>1. Timing \in AllDocuments
      BY DEF AllDocuments
    <3>2. CASE index' = index
      BY <2>1, <3>2 DEF KpiTyped
    <3>3. CASE index' = [index EXCEPT ![Timing] = @ + 1]
      BY <2>1, <3>1, <3>3, WritesKeepTyped
    <3> QED BY <2>1, <3>2, <3>3
  <2>3. /\ report'.of = "timings" /\ report'.offsets = offsets
        /\ report'.groups = ParallelGroups(offsets)
    BY <2>1
  <2>4. Holds'
    BY <2>3 DEF Holds, ChecksHold, LogHolds, FiguresHold, GroupsHold
  <2> QED BY <2>2, <2>4
<1>5. CASE UNCHANGED kpiVars
  BY <1>5 DEF kpiVars, KpiTyped, Holds, ChecksHold, LogHolds, FiguresHold, GroupsHold
<1> QED BY <1>1, <1>2, <1>3, <1>4, <1>5 DEF KpiNext

LEMMA FineChecks == KpiInv => NoBreachPassesUnseen
<1> SUFFICES ASSUME KpiInv, report.of = "checks", report.overall = "ok"
             PROVE  NoBreachPassesUnseen
  BY DEF NoBreachPassesUnseen
<1> DEFINE recent == Recent(index)
           timed == {d \in recent : HasNumber(d) /\ d.mttr.seconds # 0}
<1>1. report.mttr \in {"ok", "no_data"} /\ report.services \in {"ok", "no_data"}
  BY DEF KpiInv, Holds, ChecksHold
<1>2. MttrStatus(index) \in {"ok", "no_data"} /\ ServicesStatus(index) \in {"ok", "no_data"}
  BY <1>1 DEF KpiInv, Holds, ChecksHold
<1>3. /\ IsFiniteSet(recent) /\ recent \subseteq Documents(index)
      /\ \A d \in recent : index[d] \in Nat
  <2>1. recent \in SUBSET Documents(index)
    BY DEF Recent
  <2> QED BY <2>1, FS_Subset DEF KpiInv, KpiTyped, Documents
<1>4. Sum(index, timed, Seconds) <= MttrLimit * Count(index, timed)
  <2> DEFINE docs == {d \in recent : MttrTaken(d)}
  <2>1. CASE docs = {}
    <3>1. timed = {}
      BY <2>1 DEF MttrTaken
    <3>2. Sum(index, {}, Seconds) = 0 /\ Count(index, {}) = 0
      BY DEF Sum, Count, MapThenSumSet, MapThenFoldSet
    <3>3. Sum(index, timed, Seconds) = 0 /\ Count(index, timed) = 0
      <4> HIDE DEF timed
      <4> QED BY <3>1, <3>2
    <3> HIDE DEF timed
    <3> QED BY <3>3 DEF MttrLimit
  <2>2. CASE docs # {}
    <3>1. /\ \A d \in docs : HasNumber(d)
          /\ ~(Sum(index, docs, Seconds) > MttrLimit * Count(index, docs))
      BY <1>2, <2>2 DEF MttrStatus
    <3>2. docs = timed
      BY <3>1 DEF MttrTaken, HasNumber
    <3>3. timed \in SUBSET recent /\ timed \in SUBSET AllDocuments
      BY <1>3 DEF KpiInv, KpiTyped, Documents
    <3> HIDE DEF timed, docs, recent
    <3>4. IsFiniteSet(timed) /\ \A d \in timed : index[d] \in Nat
      BY <1>3, <3>3, FS_Subset
    <3>5. Sum(index, timed, Seconds) \in Int
      BY <3>3, <3>4, SumOfSeconds
    <3>6. Count(index, timed) \in Int
      BY <3>3, <1>3, CountSplits
    <3>7. ~(Sum(index, timed, Seconds) > MttrLimit * Count(index, timed))
      BY <3>1, <3>2
    <3> QED BY <3>5, <3>6, <3>7 DEF MttrLimit
  <2> QED BY <2>1, <2>2
<1>5. ASSUME NEW s \in Integrations
      PROVE  20 * Count(index, {d \in recent : ~Classified(d)[s]}) <= 3 * Count(index, recent)
  <2> DEFINE fine == {d \in recent : Classified(d)[s]}
             rest == {d \in recent : ~Classified(d)[s]}
  <2>1. fine \in SUBSET recent /\ rest \in SUBSET recent /\ rest = recent \ fine
    OBVIOUS
  <2>2. /\ Count(index, recent) = Count(index, fine) + Count(index, rest)
        /\ Count(index, fine) \in Int /\ Count(index, rest) \in Int
    <3> HIDE DEF recent, fine, rest
    <3>1. /\ Count(index, recent) = Count(index, fine) + Count(index, recent \ fine)
          /\ Count(index, fine) \in Int /\ Count(index, recent) \in Int
      BY <1>3, <2>1, CountSplits
    <3>2. Count(index, rest) \in Int
      BY <1>3, <2>1, CountSplits
    <3> QED BY <2>1, <3>1, <3>2
  <2>3. CASE recent = {}
    <3>1. Count(index, {}) = 0
      BY DEF Count, MapThenSumSet, MapThenFoldSet
    <3> QED BY <2>1, <2>3, <3>1
  <2>4. CASE recent # {}
    <3>1. Failing(index) = {}
      BY <1>2, <2>4 DEF ServicesStatus
    <3>2. ~(100 * Count(index, fine) < 85 * Count(index, recent))
      BY <3>1 DEF Failing, SuccessLimit
    <3> QED BY <2>2, <3>2
  <2> QED BY <2>3, <2>4
<1> QED BY <1>1, <1>4, <1>5 DEF NoBreachPassesUnseen

LEMMA PercentilesHold == KpiInv => PercentilesAreRanks
<1> SUFFICES ASSUME KpiInv, report.of = "aggregated", report.alerts > 0
             PROVE  PercentilesAreRanks
  BY DEF PercentilesAreRanks
<1> DEFINE docs == {d \in Documents(index) : HasNumber(d) \/ HasText(d)}
           times == MttrValues(index)
<1>1. report.statistics = Statistics(times)
  BY DEF KpiInv, Holds, FiguresHold
<1>2. times \in Seq(Int)
  <2>1. docs \in SUBSET Documents(index) /\ docs \in SUBSET AllDocuments
    BY DEF KpiInv, KpiTyped, Documents
  <2>2. IsFiniteSet(docs)
    BY <2>1, FS_Subset DEF KpiInv, KpiTyped
  <2>3. Counted(index, docs)
    <3> SUFFICES ASSUME NEW d \in docs PROVE index[d] \in Nat /\ Seconds(d) \in Int
      BY DEF Counted
    <3> HIDE DEF docs
    <3>1. d \in AllDocuments
      BY <2>1
    <3> QED BY <3>1, MetricsAssumption DEF Seconds, AllDocuments, Timing, KpiInv, KpiTyped
  <2> HIDE DEF docs
  <2>4. Values(index, docs, Seconds) \in Seq(Int)
    BY <2>2, <2>3, ValuesAreTimes
  <2> QED BY <2>4 DEF MttrValues, docs
<1>3. Ranked(report.statistics, Usable(times))
  BY <1>1, <1>2, StatisticsRanked
<1> QED BY <1>3 DEF PercentilesAreRanks, Ranked

LEMMA PairingHolds == KpiInv => PairingKeepsTheTotal
<1> DEFINE kind == IF ByAlerts(log) THEN "alert" ELSE "test"
           runs == Began(log, kind)
<1> SUFFICES ASSUME KpiInv, report.of = "log", report.statistics # NoStatistics, runs # {},
                    \A r \in runs : r.end # Unfinished /\ r.end - r.start < Hour
             PROVE  report.statistics.total = MapThenSumSet(LAMBDA r : r.end - r.start, runs)
  BY DEF PairingKeepsTheTotal
<1>1. report.statistics = Statistics(ExecutionTimes(log))
  BY DEF KpiInv, Holds, LogHolds
<1>2. Finished(log, kind) = runs
  BY DEF Finished
<1>3. ExecutionTimes(log) = Paired(Starts(runs), Ends(runs))
  <2>1. CASE ByAlerts(log)
    BY <1>2, <2>1 DEF ExecutionTimes, AlertContained
  <2>2. CASE ~ByAlerts(log)
    <3>1. ByTests(log)
      BY <1>2, <2>2 DEF ByTests
    <3> QED BY <1>2, <2>2, <3>1 DEF ExecutionTimes, StartedPassed
  <2> QED BY <2>1, <2>2
<1>4. IsFiniteSet(runs)
  <2>1. runs \in SUBSET log
    BY DEF Began
  <2> QED BY <2>1, FS_Subset DEF KpiInv, KpiTyped
<1>5. \A r \in runs : r.start \in Int /\ r.end \in Int /\ r.start <= r.end
                      /\ r.end - r.start < Hour
  <2>1. \A r \in runs : r \in Runs
    BY DEF Began, KpiInv, KpiTyped
  <2> QED BY <2>1, KpisAssumption DEF Runs
<1> HIDE DEF runs
<1> QED BY <1>1, <1>3, <1>4, <1>5, PairedRuns

LEMMA GroupsHoldWhole == KpiInv => GroupsAreBursts
<1> SUFFICES ASSUME KpiInv, report.of = "timings" PROVE GroupsAreBursts
  BY DEF GroupsAreBursts
<1> DEFINE off == report.offsets
<1>1. off \in [Labels -> 0 .. MaxTime] /\ report.groups = ParallelGroups(off)
  BY DEF KpiInv, Holds, GroupsHold
<1>2. off \in [Labels -> Nat] /\ DOMAIN off = Labels
  BY <1>1, KpisAssumption
<1> HIDE DEF off
<1>3. Bursts(off, Labels, report.groups) /\ Together(off, Labels, report.groups)
  BY <1>1, <1>2, KpisAssumption, GroupsAreRight
<1>4. ASSUME NEW g \in report.groups
      PROVE  g = {n \in Labels : /\ Min({off[m] : m \in g}) <= off[n]
                                 /\ off[n] <= Min({off[m] : m \in g}) + Window}
  <2>1. IsBurst(off, Labels, g)
    BY <1>3 DEF Bursts
  <2> QED BY <1>2, <2>1, BurstsStartFirst
<1> QED BY <1>2, <1>3, <1>4 DEF GroupsAreBursts, Together, off

\* Percentiles are nearest ranks of the times they are of, in their order.
THEOREM FiguresAreRanks == KpiSpec => []PercentilesAreRanks
<1> QED BY KpiInvInit, KpiInvStep, PercentilesHold, PTL DEF KpiSpec

\* The times made up by the pairing add to what the runs took, as long as all of
\* them ended within an hour.
THEOREM TotalIsKept == KpiSpec => []PairingKeepsTheTotal
<1> QED BY KpiInvInit, KpiInvStep, PairingHolds, PTL DEF KpiSpec

\* The parallel groups are the nodes of a window, whole, and keep together what
\* started together.
THEOREM BurstsAreGrouped == KpiSpec => []GroupsAreBursts
<1> QED BY KpiInvInit, KpiInvStep, GroupsHoldWhole, PTL DEF KpiSpec

\* The checks are not fine while the mean time to respond is over its limit or a
\* service fails too often, or when a check could not be made.
THEOREM BreachesAreSeen == KpiSpec => []NoBreachPassesUnseen
<1> QED BY KpiInvInit, KpiInvStep, FineChecks, PTL DEF KpiSpec
=============================================================================
