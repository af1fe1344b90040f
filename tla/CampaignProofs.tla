----------------------------- MODULE CampaignProofs -----------------------------
(***************************************************************************)
(* Proofs about Campaign, for batches of any size and any number of runs,  *)
(* retries, lost answers and executions: a flawless cleaning leaves going  *)
(* only what Orborus held when the containers were listed, no script       *)
(* removes or changes what has finished, the end of a wait means what it   *)
(* says, a flawless warm-up takes all of its traces away, and a script has *)
(* ever fewer requests ahead of it, whatever the engine does in between.   *)
(***************************************************************************)
EXTENDS Campaign, FiniteSetTheorems, SequenceTheorems, TLAPS

Stages == {"none", "queued", "fetched", "running", "cased", "over"}

(* The variables a script has; of their values only two are looked at.     *)
Shaped == DOMAIN my = DOMAIN NoLocals

Executions ==
  /\ made \in 0..MaxExec /\ stage \in [Ids -> Stages]
  /\ doc \in [Ids -> {"none", "EXECUTING"} \cup Terminal]
  /\ \A e \in Ids : e > made => stage[e] = "none"
  /\ \A e \in Ids : doc[e] = "FINISHED" => stage[e] = "over"

(* What a cleaning that met no failed request has achieved so far: nothing *)
(* that goes on has a document, then nothing is queued, and then what goes *)
(* on is in the list of the workers to be removed, or was in Orborus' hands*)
(* when they were listed.                                                  *)
Unwritten == \A e \in Ids : Idle(e) \/ doc[e] = "none"
Unqueued == \A e \in Ids : stage[e] # "queued"
Listed == \A e \in Ids : Idle(e) \/ e \in my.todo \/ e \in my.held

Progress ==
  ~flaw =>
    /\ pc \in {"purge_queue", "list", "abort", "remove"} => Unwritten
    /\ pc \in {"list", "abort", "remove"} => Unqueued
    /\ pc = "remove" => Listed

Cleaned == purged \subseteq 1..made /\ SurvivorsWereHeld

(* Only what has been started is removed. *)
Workers == pc = "remove" => my.todo \subseteq 1..made

Kept == Shaped /\ Executions /\ Progress /\ Cleaned /\ Workers

-----------------------------------------------------------------------------
\* The engine takes up nothing that is over, writes no document that is gone, and
\* only Orborus brings an execution from the queue into a container.
LEMMA EngineStepKeeps == ASSUME Kept, Engine PROVE Kept'
<1>1. PICK e \in 1..made : Fetch(e) \/ Deploy(e) \/ OpenCase(e) \/ Finish(e) \/ Break(e)
  BY DEF Engine
<1>2. UNCHANGED <<made, pc, my, flaw, purged, loose>>
  BY <1>1 DEF Fetch, Deploy, OpenCase, Finish, Break, EngineKeeps, history
<1>3. e \in Ids
  BY CampaignAssumption DEF Kept, Executions, Ids, CampaignAssumption
<1>4. PICK to \in Stages : stage' = [stage EXCEPT ![e] = to] /\ to \notin {"none", "queued"}
  BY <1>1 DEF Fetch, Deploy, OpenCase, Finish, Break, Move, Stages
<1>5. stage[e] \in {"queued", "fetched", "running", "cased"}
  BY <1>1 DEF Fetch, Deploy, OpenCase, Finish, Break, Move
<1>6. /\ doc' \in [Ids -> {"none", "EXECUTING"} \cup Terminal]
      /\ \A f \in Ids : doc[f] = "none" => doc'[f] = "none"
      /\ \A f \in Ids : doc'[f] = "FINISHED" =>
           doc[f] = "FINISHED" \/ (f = e /\ stage'[e] = "over")
  BY <1>1, <1>3, <1>4
     DEF Fetch, Deploy, OpenCase, Finish, Break, Move, Kept, Executions, Terminal
<1>7. \A f \in Ids : /\ Idle(f) => Idle(f)' /\ stage'[f] = stage[f]
                     /\ stage[f] # "queued" => stage'[f] # "queued"
  BY <1>3, <1>4, <1>5 DEF Idle, Kept, Executions
<1>8. Executions'
  BY <1>2, <1>3, <1>4, <1>5, <1>6 DEF Kept, Executions
<1>9. Progress'
  BY <1>2, <1>6, <1>7 DEF Kept, Progress, Unwritten, Unqueued, Listed
<1>10. Cleaned'
  <2>1. purged \subseteq Ids
    BY CampaignAssumption DEF Kept, Executions, Cleaned, Ids, CampaignAssumption
  <2> QED BY <1>2, <1>6, <1>7, <2>1 DEF Kept, Cleaned, SurvivorsWereHeld
<1> QED BY <1>2, <1>8, <1>9, <1>10 DEF Kept, Shaped, Workers

-----------------------------------------------------------------------------
Midst == {"purge_queue", "list", "abort", "remove"}
Cleaning == {"purge_docs"} \cup Midst

\* What the hook starts has a number of its own.
LEMMA CreateKeeps ==
  ASSUME Kept, NEW a, Create(a), UNCHANGED <<purged, loose>>
  PROVE  Executions' /\ Cleaned'
<1>1. made + 1 \in Ids /\ made \in Nat /\ made' = made + 1
  BY CampaignAssumption DEF Kept, Executions, Create, Ids, CampaignAssumption
<1>2. stage[made + 1] = "none" /\ made + 1 \notin purged
  BY <1>1 DEF Kept, Executions, Cleaned
<1>3. Executions'
  BY <1>1, <1>2, CampaignAssumption
     DEF Kept, Executions, Create, Stages, Ids, CampaignAssumption
<1>4. Cleaned'
  BY <1>1, <1>2 DEF Kept, Executions, Cleaned, SurvivorsWereHeld, Create, Idle
<1> QED BY <1>3, <1>4

\* Nothing is said of the documents but that the finished ones are over and that
\* one that is gone does not come back.
LEMMA DocumentsKeep ==
  ASSUME Kept, UNCHANGED <<made, stage, purged, loose>>,
         doc' \in [Ids -> {"none", "EXECUTING"} \cup Terminal],
         \A e \in Ids : /\ doc'[e] = "FINISHED" => doc[e] = "FINISHED"
                        /\ doc[e] = "none" => doc'[e] = "none"
  PROVE  Executions' /\ Cleaned'
<1>1. purged \subseteq Ids
  BY CampaignAssumption DEF Kept, Executions, Cleaned, Ids, CampaignAssumption
<1> QED BY <1>1 DEF Kept, Executions, Cleaned, SurvivorsWereHeld, Idle

\* A step that leaves the engine alone keeps what is said of it.
LEMMA StillKeep ==
  ASSUME Kept, UNCHANGED <<engine, purged, loose>>
  PROVE  Executions' /\ Cleaned'
BY DocumentsKeep DEF engine, Kept, Executions

\* An abort marks a document that was not finished.
LEMMA AbortKeeps ==
  ASSUME Kept, NEW x, Abort(x), UNCHANGED <<made, stage, purged, loose>>
  PROVE  Executions' /\ Cleaned'
<1>1. doc' \in [Ids -> {"none", "EXECUTING"} \cup Terminal]
  BY DEF Abort, Kept, Executions, Terminal
<1>2. \A e \in Ids : /\ doc'[e] = "FINISHED" => doc[e] = "FINISHED"
                     /\ doc[e] = "none" => doc'[e] = "none"
  BY DEF Abort, Kept, Executions
<1> QED BY <1>1, <1>2, DocumentsKeep

\* Of the other scripts only the sending ones touch the engine's executions, and
\* none leads into the midst of a cleaning.
LEMMA OthersKeep == ASSUME Kept, Start \/ Simulate \/ Wait \/ CleanCases \/ Warm PROVE Kept'
<1> USE DEF Goto, End, Still, EngineStill, Fine
<1>1. pc' \notin Midst => Progress' /\ Workers'
  BY DEF Midst, Progress, Workers
<1>2. CASE Start
  <2>1. pc' \notin Midst /\ Shaped'
    BY <1>2 DEF Start, Midst, Shaped, NoLocals
  <2>2. Executions' /\ Cleaned'
    BY <1>2, StillKeep DEF Start
  <2> QED BY <1>1, <2>1, <2>2 DEF Kept
<1>3. CASE Simulate
  <2>1. pc' \notin Midst
    BY <1>3 DEF Simulate, Accepted, Busy, Refused, NoAnswer, SendEnd, Midst
  <2>2. Shaped'
    BY <1>3 DEF Simulate, Accepted, Busy, Refused, NoAnswer, SendEnd, NextAlert, Retry,
       NoLocals, Shaped, Kept
  <2>3. Executions' /\ Cleaned'
    BY <1>3, StillKeep, CreateKeeps DEF Simulate, Accepted, Busy, Refused, NoAnswer, SendEnd
  <2> QED BY <1>1, <2>1, <2>2, <2>3 DEF Kept
<1>4. CASE Wait
  <2>1. pc' \notin Midst
    BY <1>4 DEF Wait, CountFinished, CountTotal, CountMetrics, Midst
  <2>2. Shaped'
    BY <1>4 DEF Wait, CountFinished, CountTotal, CountMetrics, Set, PollAgain, NoLocals,
       Shaped, Kept
  <2>3. Executions' /\ Cleaned'
    BY <1>4, StillKeep DEF Wait, CountFinished, CountTotal, CountMetrics
  <2> QED BY <1>1, <2>1, <2>2, <2>3 DEF Kept
<1>5. CASE CleanCases
  <2>1. pc' \notin Midst
    BY <1>5 DEF CleanCases, ListCases, DeleteCase, CasesEnd, Midst
  <2>2. Shaped'
    BY <1>5 DEF CleanCases, ListCases, DeleteCase, CasesEnd, NoLocals, Shaped, Kept
  <2>3. UNCHANGED <<doc, stage, made, purged, loose>>
    BY <1>5 DEF CleanCases, ListCases, DeleteCase, CasesEnd, engine
  <2>4. Executions' /\ Cleaned'
    BY <2>3, DocumentsKeep DEF Kept, Executions
  <2> QED BY <1>1, <2>1, <2>2, <2>4 DEF Kept
<1>6. CASE Warm
  <2> USE DEF CheckHealth, WarmAccepted, WarmRefused, WarmNoAnswer, WarmAgain, WarmPoll,
          WarmGiveUp, WarmDeleteExecution, WarmListCases, WarmCasesEnd, WarmDeleteRows
  <2>1. pc' \notin Midst
    BY <1>6 DEF Warm, Midst
  <2>2. Shaped'
    BY <1>6 DEF Warm, NoLocals, Shaped, Kept
  <2>3. CASE CheckHealth \/ WarmRefused \/ WarmPoll \/ WarmListCases \/ WarmCasesEnd
    BY <1>1, <2>1, <2>2, <2>3, StillKeep DEF Kept
  <2>4. CASE WarmAccepted \/ WarmNoAnswer
    BY <1>1, <2>1, <2>2, <2>4, StillKeep, CreateKeeps DEF Kept
  <2>5. CASE WarmGiveUp
    BY <1>1, <2>1, <2>2, <2>5, AbortKeeps DEF Kept
  <2>6. CASE WarmDeleteExecution \/ WarmDeleteRows
    <3>1. /\ doc' \in [Ids -> {"none", "EXECUTING"} \cup Terminal]
          /\ \A f \in Ids : /\ doc'[f] = "FINISHED" => doc[f] = "FINISHED"
                            /\ doc[f] = "none" => doc'[f] = "none"
      BY <2>6 DEF Kept, Executions
    <3> QED BY <1>1, <2>1, <2>2, <2>6, <3>1, DocumentsKeep DEF Kept
  <2> QED BY <1>6, <2>3, <2>4, <2>5, <2>6 DEF Warm
<1> QED BY <1>2, <1>3, <1>4, <1>5, <1>6

-----------------------------------------------------------------------------
\* A request that fails marks the run, and nothing more is promised of it.
LEMMA LostKeeps ==
  ASSUME Kept, NEW from, NEW next, next # "remove", Lost(from, next)
  PROVE  Kept'
<1> USE DEF Lost, Fault, Goto, Still, EngineStill
<1>1. Executions' /\ Cleaned'
  BY StillKeep
<1> QED BY <1>1 DEF Kept, Shaped, Progress, Workers

\* What each step of the cleaning achieves stays so until its end.
LEMMA CleanKeeps == ASSUME Kept, Clean PROVE Kept'
<1> USE DEF Goto, Still, EngineStill
<1>0. purged \subseteq Ids
  BY CampaignAssumption DEF Kept, Cleaned, Executions, Ids, CampaignAssumption
<1>1. CASE PurgeDocs
  <2>1. /\ doc' \in [Ids -> {"none", "EXECUTING"} \cup Terminal]
        /\ \A e \in Ids : /\ doc'[e] = "FINISHED" => doc[e] = "FINISHED"
                          /\ doc[e] = "none" => doc'[e] = "none"
    BY <1>1 DEF PurgeDocs, StaleStatus, Kept, Executions, Terminal
  <2>2. Executions' /\ Cleaned'
    BY <1>1, <2>1, DocumentsKeep DEF PurgeDocs
  <2>3. Unwritten'
    <3>1. \A e \in Ids : doc'[e] = "FINISHED" => stage'[e] = "over"
      BY <2>2 DEF Executions
    <3>2. \A e \in Ids : doc'[e] \in {"none", "FINISHED"}
      BY <1>1 DEF PurgeDocs, StaleStatus, Kept, Executions, Terminal
    <3> QED BY <3>1, <3>2 DEF Unwritten, Idle
  <2> QED BY <1>1, <2>2, <2>3 DEF PurgeDocs, Kept, Shaped, Progress, Workers
<1>2. CASE PurgeQueue
  <2>1. \A e \in Ids : stage'[e] = (IF stage[e] = "queued" THEN "over" ELSE stage[e])
    BY <1>2 DEF PurgeQueue
  <2>2. Executions'
    BY <1>2, <2>1 DEF PurgeQueue, Kept, Executions, Stages
  <2>3. Cleaned'
    BY <1>0, <1>2, <2>1 DEF PurgeQueue, Kept, Cleaned, SurvivorsWereHeld, Idle
  <2>4. Progress'
    BY <1>2, <2>1 DEF PurgeQueue, Fine, Kept, Progress, Unwritten, Unqueued, Idle
  <2> QED BY <1>2, <2>2, <2>3, <2>4 DEF PurgeQueue, Kept, Shaped, Workers
<1>3. CASE ListExecutions
  <2>1. Executions' /\ Cleaned'
    BY <1>3, StillKeep DEF ListExecutions
  <2>2. Shaped' /\ pc' = "abort"
    BY <1>3 DEF ListExecutions, Kept, Shaped, NoLocals
  <2>3. Progress'
    BY <1>3, <2>2
       DEF ListExecutions, Fine, engine, Kept, Progress, Unwritten, Unqueued, Idle
  <2> QED BY <2>1, <2>2, <2>3 DEF Kept, Workers
<1>4. CASE ListWorkers
  <2>1. Executions' /\ Cleaned'
    BY <1>4, StillKeep DEF ListWorkers
  <2>2. Shaped'
    BY <1>4 DEF ListWorkers, Kept, Shaped, NoLocals
  <2>3. ~flaw' => Listed'
    <3> SUFFICES ASSUME ~flaw' PROVE Listed'
      OBVIOUS
    <3>1. /\ my'.todo = {e \in Ids : stage[e] \in {"running", "cased"}}
          /\ my'.held = {e \in Ids : stage[e] = "fetched"}
      BY <1>4 DEF ListWorkers, Fault, Kept, Shaped, NoLocals
    <3>2. ~flaw /\ pc = "abort"
      BY <1>4 DEF ListWorkers, Fault, Fine
    <3>3. \A e \in Ids : stage[e] # "queued"
      BY <3>2 DEF Kept, Progress, Unqueued
    <3> QED BY <1>4, <3>1, <3>3 DEF ListWorkers, engine, Listed, Idle
  <2>4. Progress'
    BY <1>4, <2>3
       DEF ListWorkers, Fine, Fault, engine, Kept, Progress, Unwritten, Unqueued, Idle
  <2>5. Workers'
    <3>1. \A e \in Ids : stage[e] \in {"running", "cased"} => e \in 1..made
      BY DEF Kept, Executions, Ids
    <3>2. my'.todo = {} \/ my'.todo = {e \in Ids : stage[e] \in {"running", "cased"}}
      BY <1>4 DEF ListWorkers, Kept, Shaped, NoLocals
    <3>3. my'.todo \subseteq 1..made
      BY <3>1, <3>2
    <3> QED BY <1>4, <3>3 DEF ListWorkers, engine, Workers
  <2> QED BY <2>1, <2>2, <2>4, <2>5 DEF Kept
<1>5. CASE AbortOne
  <2>1. PICK e \in my.todo : /\ my' = [my EXCEPT !.todo = @ \ {e}]
                             /\ \/ Abort(e) /\ Fine
                                \/ UNCHANGED doc /\ Fault
    BY <1>5 DEF AbortOne
  <2>2. Executions' /\ Cleaned' /\ \A f \in Ids : doc[f] = "none" => doc'[f] = "none"
    <3>1. CASE Abort(e)
      BY <1>5, <3>1, AbortKeeps DEF AbortOne, Abort, Kept, Executions
    <3>2. CASE UNCHANGED doc
      BY <1>5, <3>2, DocumentsKeep DEF AbortOne, Kept, Executions
    <3> QED BY <2>1, <3>1, <3>2
  <2>3. Shaped'
    BY <2>1 DEF Kept, Shaped, NoLocals
  <2>4. flaw => flaw'
    BY <2>1 DEF Fine, Fault
  <2>5. Progress'
    BY <1>5, <2>2, <2>4 DEF AbortOne, Kept, Progress, Unwritten, Unqueued, Idle
  <2> QED BY <1>5, <2>2, <2>3, <2>5 DEF AbortOne, Kept, Workers
<1>6. CASE RemoveOne
  <2>1. PICK e \in my.todo : /\ my' = [my EXCEPT !.todo = @ \ {e}]
                             /\ \/ stage' = [stage EXCEPT ![e] = "over"] /\ Fine
                                \/ UNCHANGED stage /\ Fault
    BY <1>6 DEF RemoveOne
  <2>2. Executions'
    <3>1. e \in 1..made
      BY <1>6, <2>1 DEF RemoveOne, Kept, Workers
    <3>2. made \in Nat /\ e <= made
      BY <3>1, CampaignAssumption DEF Kept, Executions, CampaignAssumption
    <3>3. \A f \in Ids : f > made => f # e
      BY <3>2, CampaignAssumption DEF Ids, CampaignAssumption
    <3>4. stage' \in [Ids -> Stages] /\ \A f \in Ids : stage'[f] \in {stage[f], "over"}
      BY <2>1 DEF Kept, Executions, Stages
    <3>5. \A f \in Ids : f # e => stage'[f] = stage[f]
      BY <2>1 DEF Kept, Executions
    <3> QED BY <1>6, <3>3, <3>4, <3>5 DEF RemoveOne, Kept, Executions
  <2>3. Cleaned'
    BY <1>0, <1>6, <2>1 DEF RemoveOne, Kept, Executions, Cleaned, SurvivorsWereHeld, Idle
  <2>4. Shaped' /\ my'.held = my.held /\ my'.todo = my.todo \ {e}
    BY <2>1 DEF Kept, Shaped, NoLocals
  <2>5. ~flaw' => ~flaw /\ stage' = [stage EXCEPT ![e] = "over"]
    BY <2>1 DEF Fine, Fault
  <2>6. Progress'
    BY <1>6, <2>4, <2>5
       DEF RemoveOne, Kept, Executions, Progress, Unwritten, Unqueued, Listed, Idle
  <2>7. Workers'
    BY <1>6, <2>4 DEF RemoveOne, Kept, Workers
  <2> QED BY <2>2, <2>3, <2>4, <2>6, <2>7 DEF Kept
<1>7. CASE CleanEnd
  <2>1. UNCHANGED engine /\ pc' \in {"send", "idle"} /\ Shaped'
    BY <1>7 DEF CleanEnd, Shaped, NoLocals
  <2>2. Executions'
    BY <2>1 DEF engine, Kept, Executions
  <2>3. Cleaned'
    <3>1. CASE ~flaw
      <4>1. \A e \in Ids : Idle(e) \/ (e \in my.held /\ doc[e] = "none")
        BY <1>7, <3>1 DEF CleanEnd, Kept, Progress, Unwritten, Listed
      <4>2. purged' = 1..made /\ 1..made \subseteq Ids /\ loose' = my.held
        BY <1>7, <3>1, CampaignAssumption
           DEF CleanEnd, Kept, Executions, Ids, CampaignAssumption
      <4> QED BY <2>1, <4>1, <4>2 DEF engine, Cleaned, SurvivorsWereHeld, Idle
    <3>2. CASE flaw
      BY <1>7, <2>1, <3>2 DEF CleanEnd, engine, Kept, Cleaned, SurvivorsWereHeld, Idle
    <3> QED BY <3>1, <3>2
  <2> QED BY <2>1, <2>2, <2>3 DEF Kept, Progress, Workers
<1> QED
  BY <1>1, <1>2, <1>3, <1>4, <1>5, <1>6, <1>7, LostKeeps DEF Clean

\* Kept holds in every state, without any fairness.
LEMMA KeptInvariant == Init /\ [][Next]_vars => []Kept
<1>1. Init => Kept
  <2> SUFFICES ASSUME Init PROVE Kept
    OBVIOUS
  <2>1. Executions
    BY CampaignAssumption DEF Init, Executions, Stages, CampaignAssumption
  <2> QED BY <2>1 DEF Init, Kept, Shaped, Progress, Cleaned, SurvivorsWereHeld, Workers
<1>2. Kept /\ [Next]_vars => Kept'
  <2> SUFFICES ASSUME Kept, [Next]_vars PROVE Kept'
    OBVIOUS
  <2>1. CASE UNCHANGED vars
    BY <2>1 DEF vars, engine, history, Kept, Shaped, Executions, Progress, Unwritten,
       Unqueued, Listed, Cleaned, SurvivorsWereHeld, Idle, Workers
  <2> QED
    BY <2>1, EngineStepKeeps, CleanKeeps, OthersKeep DEF Next, Script
<1> QED BY <1>1, <1>2, PTL

\* A cleaning that met no failed request leaves going only what Orborus had fetched
\* from the queue and not yet deployed when the containers were listed, and nothing
\* of it has a document, whatever the engine did between the requests.
THEOREM CleaningLeavesHeld == Spec => []SurvivorsWereHeld
<1>1. Kept => SurvivorsWereHeld
  BY DEF Kept, Cleaned
<1> QED BY <1>1, KeptInvariant, PTL DEF Spec

\* No script removes or changes the document of a finished execution, except the
\* warm-up that of its own, and neither does the engine.
THEOREM FinishedAreKept == Spec => FinishedSurvive
<1> DEFINE Survives == \A e \in Ids : doc[e] = "FINISHED" /\ doc'[e] # doc[e]
                                        => pc = "warm_delete" /\ e = my.exec
<1>1. Kept /\ [Next]_vars => [Survives]_vars
  <2> SUFFICES ASSUME Kept, Next PROVE Survives
    BY DEF Survives
  <2>1. CASE Engine
    BY <2>1, CampaignAssumption
       DEF Engine, Fetch, Deploy, OpenCase, Finish, Break, Move, Kept, Executions
  <2>2. CASE UNCHANGED doc
    BY <2>2
  <2>3. ASSUME NEW a, Create(a) PROVE Survives
    BY <2>3, CampaignAssumption DEF Create, Kept, Executions, Ids, CampaignAssumption
  <2>4. ASSUME NEW e, Abort(e) PROVE Survives
    BY <2>4 DEF Abort, Kept, Executions
  <2>5. CASE PurgeDocs
    BY <2>5 DEF PurgeDocs, StaleStatus
  <2>6. CASE WarmDeleteExecution
    BY <2>6 DEF WarmDeleteExecution, Kept, Executions
  <2>7. Engine \/ UNCHANGED doc \/ (\E a : Create(a)) \/ (\E e : Abort(e))
          \/ PurgeDocs \/ WarmDeleteExecution
    <3> USE DEF EngineStill, engine
    <3>1. CASE Clean
      BY <3>1 DEF Clean, Lost, PurgeQueue, ListExecutions,
         AbortOne, ListWorkers, RemoveOne, CleanEnd
    <3>2. CASE Simulate
      BY <3>2 DEF Simulate, Accepted, Busy, Refused, NoAnswer, SendEnd
    <3>3. CASE Wait
      BY <3>3 DEF Wait, CountFinished, CountTotal, CountMetrics
    <3>4. CASE CleanCases
      BY <3>4 DEF CleanCases, ListCases, DeleteCase, CasesEnd
    <3>5. CASE Warm
      BY <3>5 DEF Warm, CheckHealth, WarmAccepted, WarmRefused, WarmNoAnswer, WarmPoll,
         WarmGiveUp, WarmListCases, WarmCasesEnd, WarmDeleteRows
    <3>6. CASE Start
      BY <3>6 DEF Start
    <3> QED BY <3>1, <3>2, <3>3, <3>4, <3>5, <3>6 DEF Next, Script
  <2> QED BY <2>1, <2>2, <2>3, <2>4, <2>5, <2>6, <2>7
<1> QED BY <1>1, KeptInvariant, PTL DEF Spec, FinishedSurvive, Survives

-----------------------------------------------------------------------------
(* What the end of a wait means *)

Ended == {e \in Ids : doc[e] \in Terminal}
Known == {e \in Ids : doc[e] # "none"}
Quiet == \A e \in Ids : doc[e] # "EXECUTING"

Documents ==
  /\ made \in 0..MaxExec /\ doc \in [Ids -> {"none", "EXECUTING"} \cup Terminal]
  /\ \A e \in Ids : e > made => doc[e] = "none"
  /\ rows \subseteq 1..made

(* A wait has counted no more ended executions than there are, and when it *)
(* has counted no fewer than there are documents, all of them have ended.  *)
Counted ==
  /\ pc \in {"total", "metrics"} => my.finished \in Nat /\ my.finished <= Cardinality(Ended)
  /\ pc = "metrics" /\ my.total > 0 /\ my.finished >= my.total => Quiet

Awaited ==
  /\ Shaped /\ Documents /\ my.expected \in {0, Count} /\ Counted
  /\ verdict \in {"stable", "done"} => pc = "idle"
  /\ WaitIsHonest

\* Counting finite sets is safe.
LEMMA EndedAreFew ==
  ASSUME Documents
  PROVE  /\ IsFiniteSet(Ended) /\ Cardinality(Ended) \in Nat
         /\ IsFiniteSet(Known) /\ Cardinality(Known) \in Nat
         /\ Ended \subseteq Known /\ Known \subseteq 1..made
         /\ IsFiniteSet(1..made) /\ Cardinality(1..made) = made
<1>1. IsFiniteSet(1..made) /\ Cardinality(1..made) = made
  BY FS_Interval, CampaignAssumption DEF Documents, CampaignAssumption
<1>2. Known \subseteq 1..made /\ Ended \subseteq Known
  BY CampaignAssumption DEF Documents, Known, Ended, Terminal, Ids, CampaignAssumption
<1> QED BY <1>1, <1>2, FS_Subset, FS_CardinalityType

\* When as many have ended as there are documents, none executes.
LEMMA AllEnded == ASSUME Documents, Cardinality(Ended) >= Cardinality(Known) PROVE Quiet
<1>0. Cardinality(Ended) <= Cardinality(Known)
  BY EndedAreFew, FS_Subset
<1>1. Ended = Known
  <2>1. Cardinality(Known) = Cardinality(Ended)
    BY <1>0, EndedAreFew
  <2> QED BY <2>1, EndedAreFew, FS_Subset
<1> QED BY <1>1 DEF Ended, Known, Quiet, Terminal

\* When a first batch has as many rows as alerts and as many of its executions have
\* ended, each of them has its row and has ended.
LEMMA AllDone ==
  ASSUME Documents, made = Count, Cardinality(rows) >= Count
  PROVE  \A e \in 1..made : e \in rows
<1>1. rows \subseteq 1..made /\ IsFiniteSet(1..made) /\ Cardinality(1..made) = made
  BY EndedAreFew DEF Documents
<1>2. Cardinality(rows) <= made /\ Cardinality(rows) \in Nat /\ made \in Nat
  BY <1>1, FS_Subset, FS_CardinalityType
<1>3. Cardinality(1..made) = Cardinality(rows)
  BY <1>1, <1>2
<1> QED BY <1>1, <1>3, FS_Subset

\* And as many ended documents as alerts are those of all of them.
LEMMA AllTerminal ==
  ASSUME Documents, made = Count, Cardinality(Ended) >= Count
  PROVE  \A e \in 1..made : doc[e] \in Terminal
<1>1. Ended \subseteq 1..made /\ IsFiniteSet(1..made) /\ Cardinality(1..made) = made
  BY EndedAreFew
<1>2. Cardinality(Ended) <= made /\ Cardinality(Ended) \in Nat /\ made \in Nat
  BY <1>1, FS_Subset, FS_CardinalityType
<1>3. Cardinality(1..made) = Cardinality(Ended)
  BY <1>1, <1>2
<1>4. Ended = 1..made
  BY <1>1, <1>3, FS_Subset
<1> QED BY <1>4 DEF Ended

\* The engine ends executions and writes rows; it takes neither back.
LEMMA EngineWaits == ASSUME Awaited, Engine PROVE Awaited'
<1>1. PICK e \in 1..made : Fetch(e) \/ Deploy(e) \/ OpenCase(e) \/ Finish(e) \/ Break(e)
  BY DEF Engine
<1>2. UNCHANGED <<made, pc, my, batch, verdict>>
  BY <1>1 DEF Fetch, Deploy, OpenCase, Finish, Break, EngineKeeps, history
<1>3. /\ doc' \in [Ids -> {"none", "EXECUTING"} \cup Terminal]
      /\ \A f \in Ids : doc'[f] = doc[f] \/ (doc[f] # "none" /\ doc'[f] \in Terminal)
      /\ rows \subseteq rows' /\ rows' \subseteq 1..made
  BY <1>1 DEF Fetch, Deploy, OpenCase, Finish, Break, Awaited, Documents, Terminal
<1>4. Documents'
  BY <1>2, <1>3 DEF Awaited, Documents
<1>5. Ended \subseteq Ended' /\ (Quiet => Quiet')
  BY <1>3 DEF Ended, Quiet, Terminal
<1>6. Cardinality(Ended) \in Nat /\ Cardinality(Ended') \in Nat
      /\ Cardinality(Ended) <= Cardinality(Ended')
  <2>1. Ended' \subseteq 1..made
    BY <1>2, <1>4, CampaignAssumption
       DEF Documents, Ended, Terminal, Ids, CampaignAssumption
  <2>2. IsFiniteSet(Ended') /\ Cardinality(Ended') \in Nat
    BY <2>1, EndedAreFew, FS_Subset, FS_CardinalityType DEF Awaited
  <2>3. Cardinality(Ended) \in Nat
    BY EndedAreFew DEF Awaited
  <2> QED BY <1>5, <2>2, <2>3, FS_Subset
<1>7. Counted'
  BY <1>2, <1>5, <1>6 DEF Awaited, Counted
<1>8. WaitIsHonest'
  <2>1. \A f \in 1..made : f \in Ids
    BY CampaignAssumption DEF Awaited, Documents, Ids, CampaignAssumption
  <2> QED BY <1>2, <1>3, <2>1 DEF Awaited, WaitIsHonest, Quiet, Terminal
<1> QED BY <1>2, <1>4, <1>7, <1>8 DEF Awaited, Shaped

\* Every step of a wait counts what it says, and its end is what it reports.
LEMMA WaitCounts == ASSUME Awaited, Wait PROVE Awaited'
<1> USE DEF Goto, EngineStill, Still
<1>1. /\ UNCHANGED <<doc, made, rows, batch>> /\ Documents' /\ (Quiet' <=> Quiet)
      /\ Cardinality(Ended') = Cardinality(Ended)
  <2>1. UNCHANGED <<doc, made, rows, batch>>
    BY DEF Wait, CountFinished, CountTotal, CountMetrics, engine
  <2>2. Ended' = Ended
    BY <2>1 DEF Ended
  <2> QED BY <2>1, <2>2 DEF Awaited, Documents, Quiet
<1>2. Cardinality(Ended) \in Nat /\ Cardinality(Known) \in Nat
  BY EndedAreFew DEF Awaited
<1>3. CASE CountFinished
  <2>1. Shaped' /\ my'.expected = my.expected
    BY <1>3 DEF CountFinished, Set, Awaited, Shaped, NoLocals
  <2>2. my'.finished \in {Cardinality(Ended), 0} /\ (pc' = "metrics" => my'.total = 0)
    BY <1>3 DEF CountFinished, Set, Awaited, Shaped, NoLocals, Ended
  <2>3. Counted'
    BY <1>1, <1>2, <2>2 DEF Counted
  <2>4. pc = "finished" /\ verdict' = verdict
    BY <1>3 DEF CountFinished
  <2> QED BY <1>1, <2>1, <2>3, <2>4 DEF Awaited, WaitIsHonest
<1>4. CASE CountTotal
  <2>1. Shaped' /\ my'.expected = my.expected /\ my'.finished = my.finished
    BY <1>4 DEF CountTotal, Set, Awaited, Shaped, NoLocals
  <2>2. my'.total \in {Cardinality(Known), 0} /\ pc = "total" /\ pc' = "metrics"
    BY <1>4 DEF CountTotal, Set, Awaited, Shaped, NoLocals, Known
  <2>3. my'.total > 0 /\ my'.finished >= my'.total => Quiet
    <3>1. my.finished \in Nat /\ my.finished <= Cardinality(Ended)
      BY <2>2 DEF Awaited, Counted
    <3>2. my'.total > 0 /\ my'.finished >= my'.total => Cardinality(Ended) >= Cardinality(Known)
      BY <1>2, <2>1, <2>2, <3>1
    <3> QED BY <3>2, AllEnded DEF Awaited
  <2>4. Counted'
    BY <1>1, <2>1, <2>2, <2>3 DEF Awaited, Counted
  <2>5. verdict' = verdict
    BY <1>4 DEF CountTotal
  <2> QED BY <1>1, <2>1, <2>2, <2>4, <2>5 DEF Awaited, WaitIsHonest
<1>5. CASE CountMetrics
  <2>1. pc = "metrics" /\ my.finished \in Nat /\ my.finished <= Cardinality(Ended)
    BY <1>5 DEF CountMetrics, Awaited, Counted
  <2>2. PICK metrics \in {Cardinality(rows), 0} :
          \/ /\ Satisfied(metrics) /\ End
             /\ verdict' = IF my.expected > 0 THEN "done" ELSE "stable"
          \/ ~Satisfied(metrics) /\ verdict' = "timeout" /\ End
          \/ my' = PollAgain(my, metrics) /\ Goto("finished") /\ UNCHANGED verdict
    BY <1>5 DEF CountMetrics
  <2>3. CASE Satisfied(metrics) /\ End
             /\ verdict' = IF my.expected > 0 THEN "done" ELSE "stable"
    <3>1. Shaped' /\ my'.expected = 0 /\ pc' = "idle"
      BY <2>3 DEF End, NoLocals, Shaped
    <3>2. CASE my.expected = 0
      <4>1. Quiet
        BY <2>1, <2>3, <3>2 DEF Satisfied, Awaited, Counted
      <4> QED BY <1>1, <2>3, <3>1, <3>2, <4>1 DEF Awaited, Counted, WaitIsHonest, Quiet
    <3>3. CASE my.expected = Count /\ Count > 0
      <4>1. my.finished >= Count /\ metrics >= Count
        BY <2>3, <3>3 DEF Satisfied
      <4>2. Count \in Nat /\ Cardinality(Ended) >= Count /\ Cardinality(rows) >= Count
        BY <1>2, <2>1, <2>2, <3>3, <4>1, CampaignAssumption DEF CampaignAssumption
      <4>3. batch = 1..made /\ made = Count
              => \A e \in batch : e \in rows /\ doc[e] \in Terminal
        BY <4>2, AllDone, AllTerminal DEF Awaited
      <4>4. verdict' = "done"
        BY <2>3, <3>3
      <4>5. WaitIsHonest'
        BY <1>1, <4>3, <4>4 DEF WaitIsHonest
      <4> QED BY <1>1, <3>1, <4>5 DEF Awaited, Counted
    <3> QED BY <3>2, <3>3, CampaignAssumption DEF Awaited, CampaignAssumption
  <2>4. CASE verdict' = "timeout" /\ End
    BY <1>1, <2>4 DEF Awaited, Counted, WaitIsHonest, End, NoLocals, Shaped
  <2>5. CASE my' = PollAgain(my, metrics) /\ Goto("finished") /\ UNCHANGED verdict
    <3>1. Shaped' /\ my'.expected = my.expected
      BY <2>5 DEF PollAgain, Awaited, Shaped, NoLocals
    <3> QED BY <1>1, <2>1, <2>5, <3>1 DEF Awaited, Counted, WaitIsHonest
  <2> QED BY <2>2, <2>3, <2>4, <2>5
<1> QED BY <1>3, <1>4, <1>5 DEF Wait

(* What every other script does to a wait: there is none while it runs.    *)
Apart == pc' \notin {"total", "metrics"} /\ verdict' \notin {"stable", "done"}

\* A step outside of every wait has only the documents to keep.
LEMMA ApartKeeps ==
  ASSUME Apart, Shaped', Documents', my'.expected \in {0, Count}
  PROVE  Awaited'
BY DEF Apart, Awaited, Counted, WaitIsHonest

\* A new execution has a document of its own.
LEMMA CreateDocuments == ASSUME Documents, NEW a, Create(a) PROVE Documents'
BY CampaignAssumption DEF Documents, Create, Ids, Terminal, CampaignAssumption

\* An abort keeps every document a document.
LEMMA AbortDocuments ==
  ASSUME Documents, NEW e, Abort(e), UNCHANGED <<made, rows>>
  PROVE  Documents'
BY DEF Documents, Abort, Terminal

\* The other scripts run when no wait has been reported since the last start.
LEMMA OthersWait == ASSUME Awaited, Start \/ Clean \/ Simulate \/ CleanCases \/ Warm PROVE Awaited'
<1> USE DEF Goto, End, Still, EngineStill, engine
<1>1. ASSUME UNCHANGED <<doc, made, rows>> PROVE Documents'
  BY <1>1 DEF Awaited, Documents
<1>2. pc # "idle" => verdict \notin {"stable", "done"}
  BY DEF Awaited
<1>3. CASE Start
  <2>1. Apart /\ Shaped' /\ my'.expected = 0
    BY <1>3 DEF Start, Apart, Shaped, NoLocals
  <2> QED BY <1>1, <1>3, <2>1, ApartKeeps DEF Start
<1>4. CASE Clean
  <2> USE DEF Lost, PurgeDocs, PurgeQueue, ListExecutions,
          AbortOne, ListWorkers, RemoveOne, CleanEnd
  <2>1. Apart
    BY <1>2, <1>4 DEF Clean, Apart, history
  <2>2. Shaped' /\ my'.expected \in {0, Count}
    <3>1. ASSUME NEW todo, \/ my' = [my EXCEPT !.todo = todo]
                           \/ \E held : my' = [my EXCEPT !.todo = todo, !.held = held]
          PROVE  Shaped' /\ my'.expected \in {0, Count}
      BY <3>1 DEF Awaited, Shaped, NoLocals
    <3>2. CASE UNCHANGED my
      BY <3>2 DEF Awaited, Shaped
    <3>3. CASE my' = NoLocals
      BY <3>3 DEF NoLocals, Shaped
    <3>4. \/ (UNCHANGED my) \/ my' = NoLocals \/ \E todo : my' = [my EXCEPT !.todo = todo]
          \/ \E todo, held : my' = [my EXCEPT !.todo = todo, !.held = held]
      BY <1>4 DEF Clean
    <3> QED BY <3>1, <3>2, <3>3, <3>4
  <2>3. Documents'
    <3>1. CASE PurgeDocs
      BY <3>1 DEF Awaited, Documents, Terminal
    <3>2. CASE AbortOne
      BY <1>1, <3>2, AbortDocuments DEF Awaited
    <3> QED BY <1>1, <1>4, <3>1, <3>2 DEF Clean
  <2> QED BY <2>1, <2>2, <2>3, ApartKeeps
<1>5. CASE Simulate
  <2> USE DEF Accepted, Busy, Refused, NoAnswer, SendEnd
  <2>1. Apart
    BY <1>2, <1>5 DEF Simulate, Apart
  <2>2. Shaped' /\ my'.expected \in {0, Count}
    <3>1. DOMAIN NextAlert(my) = DOMAIN my /\ NextAlert(my).expected = my.expected
      BY DEF NextAlert, Awaited, Shaped, NoLocals
    <3>2. DOMAIN Retry(my) = DOMAIN my /\ Retry(my).expected = my.expected
      BY <3>1 DEF Retry, Awaited, Shaped, NoLocals
    <3>3. CASE Accepted
      BY <3>1, <3>3 DEF Awaited, Shaped, NoLocals
    <3>4. CASE Busy \/ Refused \/ NoAnswer
      BY <3>1, <3>2, <3>4 DEF Awaited, Shaped
    <3>5. CASE SendEnd
      BY <3>5 DEF Shaped, NoLocals
    <3> QED BY <1>5, <3>3, <3>4, <3>5 DEF Simulate
  <2>3. Documents'
    BY <1>1, <1>5, CreateDocuments DEF Simulate, Awaited
  <2> QED BY <2>1, <2>2, <2>3, ApartKeeps
<1>6. CASE CleanCases
  <2> USE DEF ListCases, DeleteCase, CasesEnd
  <2>1. Apart
    BY <1>2, <1>6 DEF CleanCases, Apart
  <2>2. Shaped' /\ my'.expected \in {0, Count}
    BY <1>6 DEF CleanCases, Awaited, Shaped, NoLocals
  <2> QED BY <1>1, <1>6, <2>1, <2>2, ApartKeeps DEF CleanCases
<1>7. CASE Warm
  <2> USE DEF CheckHealth, WarmAccepted, WarmRefused, WarmNoAnswer, WarmAgain, WarmPoll,
          WarmGiveUp, WarmDeleteExecution, WarmListCases, WarmCasesEnd, WarmDeleteRows
  <2>1. Apart
    BY <1>2, <1>7 DEF Warm, Apart
  <2>2. Shaped' /\ my'.expected \in {0, Count}
    <3>1. CASE UNCHANGED my \/ my' = NoLocals
      BY <3>1 DEF Awaited, Shaped, NoLocals
    <3>2. CASE WarmAccepted \/ WarmDeleteExecution
      BY <3>2 DEF Awaited, Shaped, NoLocals
    <3>3. CASE WarmRefused \/ WarmNoAnswer \/ WarmPoll
      BY <3>3 DEF Awaited, Shaped, NoLocals
    <3>4. CASE WarmListCases
      BY <3>4 DEF Awaited, Shaped, NoLocals
    <3> QED BY <1>7, <3>1, <3>2, <3>3, <3>4 DEF Warm
  <2>3. Documents'
    <3>1. CASE WarmAccepted \/ WarmNoAnswer
      BY <1>1, <3>1, CreateDocuments DEF Awaited
    <3>2. CASE WarmGiveUp
      BY <3>2, AbortDocuments DEF Awaited
    <3>3. CASE WarmDeleteExecution \/ WarmDeleteRows
      BY <3>3 DEF Awaited, Documents
    <3> QED BY <1>1, <1>7, <3>1, <3>2, <3>3 DEF Warm
  <2> QED BY <2>1, <2>2, <2>3, ApartKeeps
<1> QED BY <1>3, <1>4, <1>5, <1>6, <1>7

\* A wait that says nothing executes any more is right, and so is one that says a first
\* batch is done, whatever the engine does between its requests and whichever fail.
THEOREM WaitCorrect == Spec => []WaitIsHonest
<1>1. Init => Awaited
  <2> SUFFICES ASSUME Init PROVE Awaited
    OBVIOUS
  <2>1. Documents
    BY CampaignAssumption DEF Init, Documents, Terminal, CampaignAssumption
  <2> QED BY <2>1 DEF Init, Awaited, Shaped, Counted, WaitIsHonest, NoLocals
<1>2. Awaited /\ [Next]_vars => Awaited'
  <2> SUFFICES ASSUME Awaited, [Next]_vars PROVE Awaited'
    OBVIOUS
  <2>1. CASE UNCHANGED vars
    BY <2>1 DEF vars, engine, history, Awaited, Shaped, Documents, Counted, Ended, Quiet,
       WaitIsHonest
  <2> QED BY <2>1, EngineWaits, WaitCounts, OthersWait DEF Next, Script
<1>3. Awaited => WaitIsHonest
  BY DEF Awaited
<1> QED BY <1>1, <1>2, <1>3, PTL DEF Spec
-----------------------------------------------------------------------------
(* What a warm-up leaves behind *)

Once(s) == \A i, j \in 1..Len(s) : s[i] = s[j] => i = j

\* Taking one place out of a list without repetitions takes its element out.
LEMMA RemoveAtTakes ==
  ASSUME NEW S, NEW s \in Seq(S), Once(s), NEW i \in 1..Len(s)
  PROVE  /\ RemoveAt(s, i) \in Seq(S) /\ Once(RemoveAt(s, i))
         /\ ToSet(RemoveAt(s, i)) = ToSet(s) \ {s[i]}
<1> DEFINE n == Len(s)
           a == SubSeq(s, 1, i - 1)
           b == SubSeq(s, i + 1, n)
           t == RemoveAt(s, i)
<1>1. /\ n \in Nat /\ i \in Nat /\ 1 <= i /\ i <= n
      /\ a \in Seq(S) /\ Len(a) = i - 1 /\ \A j \in 1..(i - 1) : a[j] = s[j]
      /\ b \in Seq(S) /\ Len(b) = n - i /\ \A j \in 1..(n - i) : b[j] = s[i + j]
  OBVIOUS
<1> HIDE DEF a, b, n
<1>2. /\ t \in Seq(S) /\ Len(t) = n - 1
      /\ \A j \in 1..(n - 1) : t[j] = IF j < i THEN a[j] ELSE b[j - (i - 1)]
  <2>1. t = a \o b
    BY DEF t, a, b, n, RemoveAt
  <2> HIDE DEF t
  <2>2. /\ a \o b \in Seq(S) /\ Len(a \o b) = Len(a) + Len(b)
        /\ \A j \in 1..(Len(a) + Len(b)) :
             (a \o b)[j] = IF j <= Len(a) THEN a[j] ELSE b[j - Len(a)]
    BY <1>1, ConcatProperties
  <2> QED BY <1>1, <2>1, <2>2
<1>3. \A j \in 1..Len(t) : t[j] = IF j < i THEN s[j] ELSE s[j + 1]
  <2> HIDE DEF t
  <2> SUFFICES ASSUME NEW j \in 1..(n - 1) PROVE t[j] = IF j < i THEN s[j] ELSE s[j + 1]
    BY <1>2
  <2>1. CASE j < i
    BY <1>1, <1>2, <2>1
  <2>2. CASE ~(j < i)
    <3>1. j - (i - 1) \in 1..(n - i) /\ i + (j - (i - 1)) = j + 1
      BY <1>1, <2>2
    <3>2. b[j - (i - 1)] = s[i + (j - (i - 1))]
      BY <1>1, <3>1
    <3> QED BY <1>2, <2>2, <3>1, <3>2
  <2> QED BY <2>1, <2>2
<1> USE DEF n
<1> HIDE DEF t
<1>4. Once(t)
  <2> SUFFICES ASSUME NEW j \in 1..Len(t), NEW k \in 1..Len(t), t[j] = t[k] PROVE j = k
    BY DEF Once
  <2> DEFINE at(l) == IF l < i THEN l ELSE l + 1
  <2>1. at(j) \in 1..Len(s) /\ at(k) \in 1..Len(s)
    BY <1>1, <1>2
  <2>2. t[j] = s[at(j)] /\ t[k] = s[at(k)]
    BY <1>3
  <2>3. at(j) = at(k)
    BY <2>1, <2>2 DEF Once
  <2> QED BY <1>1, <1>2, <2>3
<1>5. ToSet(t) = {t[j] : j \in 1..Len(t)} /\ ToSet(s) = {s[j] : j \in 1..Len(s)}
  BY <1>2 DEF ToSet
<1>6. ASSUME NEW j \in 1..Len(t) PROVE \E k \in 1..Len(s) : t[j] = s[k] /\ k # i
  BY <1>2, <1>3, <1>6
<1>7. ASSUME NEW k \in 1..Len(s), k # i PROVE \E j \in 1..Len(t) : t[j] = s[k]
  <2>1. CASE k < i
    BY <1>2, <1>3, <2>1
  <2>2. CASE k > i
    <3>1. k - 1 \in 1..Len(t) /\ ~(k - 1 < i)
      BY <1>2, <2>2
    <3>2. t[k - 1] = s[k]
      BY <1>3, <3>1
    <3> QED BY <3>1, <3>2
  <2> QED BY <1>7, <2>1, <2>2
<1>8. ToSet(t) = ToSet(s) \ {s[i]}
  <2>1. \A j \in 1..Len(t) : t[j] \in ToSet(s) \ {s[i]}
    BY <1>5, <1>6 DEF Once
  <2>2. \A k \in 1..Len(s) : s[k] # s[i] => s[k] \in ToSet(t)
    BY <1>5, <1>7
  <2> QED BY <1>5, <2>1, <2>2
<1> QED BY <1>2, <1>4, <1>8 DEF t

\* So does taking an element out that may not be there.
LEMMA RemoveFirstTakes ==
  ASSUME NEW S, NEW s \in Seq(S), Once(s), NEW e
  PROVE  /\ RemoveFirst(s, e) \in Seq(S) /\ Once(RemoveFirst(s, e))
         /\ ToSet(RemoveFirst(s, e)) = ToSet(s) \ {e}
<1>1. CASE \E i \in 1..Len(s) : s[i] = e
  <2>1. PICK i \in 1..Len(s) : s[i] = e
    BY <1>1
  <2>2. {j \in 1..Len(s) : s[j] = e} = {i}
    BY <2>1 DEF Once
  <2>3. Min({i}) = i
    BY DEF Min
  <2>4. SelectInSeq(s, LAMBDA v : v = e) = i
    BY <2>2, <2>3 DEF SelectInSeq
  <2>5. RemoveFirst(s, e) = RemoveAt(s, i)
    BY <1>1, <2>4 DEF RemoveFirst
  <2> QED BY <2>1, <2>5, RemoveAtTakes
<1>2. CASE ~ \E i \in 1..Len(s) : s[i] = e
  <2>1. RemoveFirst(s, e) = s
    BY <1>2 DEF RemoveFirst
  <2> QED BY <1>2, <2>1 DEF ToSet
<1> QED BY <1>1, <1>2
(* A case is opened once per execution, by one that is then past its case. *)
CasesOnce ==
  /\ cases \in Seq(Ids) /\ Once(cases)
  /\ \A e \in ToSet(cases) : stage[e] \in {"cased", "over"}

WarmPlaces == {"warm_poll", "warm_delete", "warm_list", "warm_cases", "warm_rows"}

(* What a warm-up that has met no failed request knows of its execution:   *)
(* it is the only one made since the start, once the poll is over it has   *)
(* ended, and then its document and its case go one after the other.       *)
Traces ==
  ~flaw =>
    /\ pc \in {"health", "warm_send"} => batch = {}
    /\ pc \in WarmPlaces =>
         my.exec \in 1..made /\ batch = {my.exec} /\ alert[my.exec] = Warmup
    /\ pc = "warm_poll" => doc[my.exec] \in {"EXECUTING", "FINISHED", "FAILED"}
    /\ pc \in WarmPlaces \ {"warm_poll"} => stage[my.exec] = "over"
    /\ pc \in {"warm_list", "warm_cases", "warm_rows"} => doc[my.exec] = "none"
    /\ pc = "warm_cases" => my.exec \notin ToSet(cases) \ my.todo
    /\ pc = "warm_rows" => my.exec \notin ToSet(cases)

Traceless ==
  verdict = "warm" =>
    /\ pc = "idle"
    /\ \A e \in batch : /\ stage[e] = "over" /\ doc[e] = "none"
                        /\ e \notin rows /\ e \notin ToSet(cases)

Batches == batch \subseteq 1..made /\ DOMAIN alert = Ids

Warmed == CasesOnce /\ Batches /\ Traces /\ Traceless

\* Appending what is not there adds it once.
LEMMA AppendTakes ==
  ASSUME NEW S, NEW s \in Seq(S), Once(s), NEW e \in S, e \notin ToSet(s)
  PROVE  /\ Append(s, e) \in Seq(S) /\ Once(Append(s, e))
         /\ ToSet(Append(s, e)) = ToSet(s) \cup {e}
<1>1. /\ Append(s, e) \in Seq(S) /\ Len(Append(s, e)) = Len(s) + 1 /\ Len(s) \in Nat
      /\ \A i \in 1..Len(s) : Append(s, e)[i] = s[i]
      /\ Append(s, e)[Len(s) + 1] = e
  BY AppendProperties
<1>2. \A i \in 1..Len(s) : s[i] # e
  BY DEF ToSet
<1>3. Once(Append(s, e))
  BY <1>1, <1>2 DEF Once
<1>4. ToSet(Append(s, e)) = ToSet(s) \cup {e}
  <2>1. ToSet(Append(s, e)) = {Append(s, e)[i] : i \in 1..(Len(s) + 1)}
    BY <1>1 DEF ToSet
  <2>2. ToSet(s) = {s[i] : i \in 1..Len(s)}
    BY DEF ToSet
  <2>3. 1..(Len(s) + 1) = 1..Len(s) \cup {Len(s) + 1}
    BY <1>1
  <2> QED BY <1>1, <2>1, <2>2, <2>3
<1> QED BY <1>1, <1>3, <1>4

\* The engine touches nothing of an execution that is over.
LEMMA EngineWarms == ASSUME Kept, Warmed, Engine PROVE Warmed'
<1>1. PICK e \in 1..made : Fetch(e) \/ Deploy(e) \/ OpenCase(e) \/ Finish(e) \/ Break(e)
  BY DEF Engine
<1>2. UNCHANGED <<alert, made, pc, my, flaw, batch, verdict>>
  BY <1>1 DEF Fetch, Deploy, OpenCase, Finish, Break, EngineKeeps, history
<1>3. e \in Ids /\ 1..made \subseteq Ids /\ DOMAIN stage = Ids /\ DOMAIN doc = Ids
  BY CampaignAssumption DEF Kept, Executions, Ids, CampaignAssumption
<1>4. stage[e] \notin {"none", "over"} /\ stage'[e] # "none"
      /\ \A f \in Ids : f # e => stage'[f] = stage[f] /\ doc'[f] = doc[f]
  BY <1>1, <1>3 DEF Fetch, Deploy, OpenCase, Finish, Break, Move
<1>5. doc'[e] = doc[e] \/ (doc'[e] \in {"none", "FINISHED", "FAILED"} /\ stage'[e] = "over")
  BY <1>1, <1>3 DEF Fetch, Deploy, OpenCase, Finish, Break, Move
<1>6. \A f \in rows' : f \in rows \/ f = e
  BY <1>1 DEF Fetch, Deploy, OpenCase, Finish, Break
<1>7. CasesOnce' /\ ToSet(cases') \subseteq ToSet(cases) \cup {e}
  <2>1. CASE OpenCase(e)
    <3>1. e \notin ToSet(cases) /\ stage'[e] = "cased" /\ cases' = Append(cases, e)
      BY <1>3, <2>1 DEF OpenCase, Move, Warmed, CasesOnce
    <3>2. cases' \in Seq(Ids) /\ Once(cases') /\ ToSet(cases') = ToSet(cases) \cup {e}
      BY <1>3, <3>1, AppendTakes DEF Warmed, CasesOnce
    <3>3. ToSet(cases) \subseteq Ids
      BY DEF Warmed, CasesOnce, ToSet
    <3> QED BY <1>4, <3>1, <3>2, <3>3 DEF Warmed, CasesOnce
  <2>2. CASE ~OpenCase(e)
    <3>1. cases' = cases /\ ToSet(cases) \subseteq Ids
      BY <1>1, <2>2 DEF Fetch, Deploy, Finish, Break, Warmed, CasesOnce, ToSet
    <3>2. stage[e] = "cased" => stage'[e] = "over"
      BY <1>1, <1>3, <2>2 DEF Fetch, Deploy, Finish, Break, Move
    <3> QED BY <1>4, <3>1, <3>2 DEF Warmed, CasesOnce
  <2> QED BY <2>1, <2>2
<1>8. Batches' /\ batch \subseteq Ids
  BY <1>2, <1>3 DEF Warmed, Batches
<1>9. Traceless'
  <2>1. \A f \in batch : stage[f] = "over" => f # e
    BY <1>4
  <2> QED BY <1>2, <1>4, <1>6, <1>7, <1>8, <2>1 DEF Warmed, Traceless
<1>10. Traces'
  <2> SUFFICES ASSUME ~flaw PROVE Traces'
    BY <1>2 DEF Traces
  <2>1. CASE pc \in WarmPlaces \ {"warm_poll"}
    <3>1. my.exec \in Ids /\ stage[my.exec] = "over" /\ my.exec # e
      BY <1>3, <1>4, <2>1 DEF Warmed, Traces
    <3>2. stage'[my.exec] = "over" /\ doc'[my.exec] = doc[my.exec]
          /\ (my.exec \in ToSet(cases') => my.exec \in ToSet(cases))
      BY <1>4, <1>7, <3>1
    <3> QED BY <1>2, <2>1, <3>2 DEF Warmed, Traces, WarmPlaces
  <2>2. CASE pc = "warm_poll"
    <3>1. doc'[my.exec] \in {"EXECUTING", "FINISHED", "FAILED"}
      <4>1. my.exec \in Ids /\ doc[my.exec] \in {"EXECUTING", "FINISHED", "FAILED"}
        BY <1>3, <2>2 DEF Warmed, Traces, WarmPlaces
      <4>2. doc[e] # "none" => doc'[e] = doc[e] \/ doc'[e] \in {"FINISHED", "FAILED"}
        BY <1>1, <1>3 DEF Fetch, Deploy, OpenCase, Finish, Break
      <4> QED BY <1>4, <4>1, <4>2
    <3> QED BY <1>2, <2>2, <3>1 DEF Warmed, Traces, WarmPlaces
  <2>3. CASE pc \notin WarmPlaces
    BY <1>2, <2>3 DEF Warmed, Traces, WarmPlaces
  <2> QED BY <2>1, <2>2, <2>3
<1> QED BY <1>7, <1>8, <1>9, <1>10 DEF Warmed

\* What the other scripts do to cases and batches.
LEMMA SameCases ==
  ASSUME CasesOnce, UNCHANGED cases,
         \A e \in ToSet(cases) : stage'[e] \in {stage[e], "over"}
  PROVE  CasesOnce'
BY DEF CasesOnce

\* A new execution has no case yet and is the last of its batch.
LEMMA CreateWarms ==
  ASSUME Kept, CasesOnce, Batches, NEW a, Create(a)
  PROVE  /\ CasesOnce' /\ Batches' /\ made + 1 \in Ids /\ batch' = batch \cup {made + 1}
         /\ made' = made + 1 /\ alert'[made + 1] = a /\ doc'[made + 1] = "EXECUTING"
<1>1. made \in Nat /\ made + 1 \in Ids /\ made' = made + 1 /\ DOMAIN doc = Ids
      /\ DOMAIN stage = Ids /\ stage[made + 1] = "none"
  BY CampaignAssumption DEF Kept, Executions, Create, Ids, CampaignAssumption
<1>2. \A e \in ToSet(cases) : e # made + 1
  BY <1>1 DEF CasesOnce
<1>3. CasesOnce'
  <2>1. \A e \in ToSet(cases) : e \in Ids
    BY DEF CasesOnce, ToSet
  <2> QED BY <1>1, <1>2, <2>1, SameCases DEF Create
<1>4. Batches'
  <2>1. 1..made \subseteq 1..(made + 1)
    BY <1>1
  <2> QED BY <1>1, <2>1 DEF Create, Batches
<1> QED BY <1>1, <1>3, <1>4 DEF Create, Batches

\* A deletion takes one case out of the list.
LEMMA DeleteWarms ==
  ASSUME CasesOnce, UNCHANGED stage, NEW e, Without(e)
  PROVE  CasesOnce' /\ ToSet(cases') = ToSet(cases) \ {e}
<1>1. /\ cases' \in Seq(Ids) /\ Once(cases') /\ ToSet(cases') = ToSet(cases) \ {e}
  BY RemoveFirstTakes DEF Without, CasesOnce
<1> QED BY <1>1 DEF CasesOnce

(* A step of another script: no warm-up runs, and none is reported.        *)
Elsewhere == pc' \notin WarmPlaces \cup {"health", "warm_send"} /\ verdict' # "warm"

\* A step of another script has only the cases and the batch to keep.
LEMMA ElsewhereWarms ==
  ASSUME Elsewhere, CasesOnce', Batches'
  PROVE  Warmed'
BY DEF Elsewhere, Warmed, Traces, Traceless, WarmPlaces

\* Deleting a case during a warm-up leaves the case of its execution in the list only
\* while it is still to be deleted.
LEMMA DeleteCaseWarms == ASSUME Kept, Warmed, DeleteCase PROVE Warmed'
<1>1. PICK e \in my.todo : /\ my' = [my EXCEPT !.todo = @ \ {e}]
                           /\ \/ Without(e) /\ Fine
                              \/ UNCHANGED cases /\ Fault
  BY DEF DeleteCase
<1>2. pc' = pc /\ pc \in {"cases", "warm_cases"} /\ verdict # "warm"
      /\ UNCHANGED <<doc, stage, alert, made, rows, batch, verdict>>
  BY DEF DeleteCase, Still, Warmed, Traceless
<1>3. CasesOnce' /\ Batches'
  BY <1>1, <1>2, DeleteWarms DEF Warmed, CasesOnce, Batches
<1>4. Traceless'
  BY <1>2 DEF Traceless
<1>5. Traces'
  <2> SUFFICES ASSUME ~flaw', pc = "warm_cases" PROVE Traces'
    BY <1>2 DEF Traces, WarmPlaces
  <2>1. Without(e) /\ ~flaw
    BY <1>1 DEF Fine, Fault
  <2>2. ToSet(cases') = ToSet(cases) \ {e}
    BY <1>2, <2>1, DeleteWarms DEF Warmed
  <2>3. my'.exec = my.exec /\ my'.todo = my.todo \ {e}
    BY <1>1 DEF Kept, Shaped, NoLocals
  <2>4. my.exec \notin ToSet(cases) \ my.todo
    BY <2>1 DEF Warmed, Traces
  <2>5. my'.exec \notin ToSet(cases') \ my'.todo
    BY <2>2, <2>3, <2>4
  <2> QED BY <1>2, <2>1, <2>3, <2>5 DEF Warmed, Traces, WarmPlaces
<1> QED BY <1>3, <1>4, <1>5 DEF Warmed

\* The scripts other than the warm-up leave no trace of one unaccounted for.
LEMMA OthersWarm ==
  ASSUME Kept, Warmed, Start \/ Clean \/ Simulate \/ Wait \/ CleanCases
  PROVE  Warmed'
<1> USE DEF Goto, End, Still, EngineStill, engine, history
<1>1. pc # "idle" => verdict # "warm"
  BY DEF Warmed, Traceless
<1>2. ASSUME UNCHANGED <<stage, cases>> PROVE CasesOnce'
  BY <1>2 DEF Warmed, CasesOnce
<1>3. ASSUME UNCHANGED <<made, alert>>, batch' \in {batch, {}} PROVE Batches'
  BY <1>3 DEF Warmed, Batches
<1>4. \A e \in ToSet(cases) : e \in Ids /\ stage[e] \in {"cased", "over"}
  BY DEF Warmed, CasesOnce, ToSet
<1>5. CASE Start
  <2>1. CasesOnce' /\ Batches'
    BY <1>2, <1>3, <1>5 DEF Start
  <2>2. verdict' = "none" /\ pc' \notin WarmPlaces \cup {"warm_send"}
        /\ (pc' = "health" => batch' = {})
    BY <1>5 DEF Start, WarmPlaces
  <2> QED BY <2>1, <2>2 DEF Warmed, Traces, Traceless, WarmPlaces
<1>6. CASE Clean
  <2> USE DEF Lost, PurgeDocs, PurgeQueue, ListExecutions,
          AbortOne, ListWorkers, RemoveOne, CleanEnd
  <2>1. Elsewhere
    BY <1>1, <1>6 DEF Clean, Elsewhere, WarmPlaces
  <2>2. Batches'
    BY <1>3, <1>6 DEF Clean
  <2>3. CasesOnce'
    <3>1. DOMAIN stage = Ids
      BY DEF Kept, Executions
    <3>2. CASE PurgeQueue
      BY <1>4, <3>1, <3>2, SameCases DEF Warmed
    <3>3. CASE RemoveOne
      BY <1>4, <3>1, <3>3, SameCases DEF Warmed
    <3> QED BY <1>2, <1>6, <3>2, <3>3 DEF Clean
  <2> QED BY <2>1, <2>2, <2>3, ElsewhereWarms
<1>7. CASE Simulate
  <2> USE DEF Accepted, Busy, Refused, NoAnswer, SendEnd
  <2>1. Elsewhere
    BY <1>1, <1>7 DEF Simulate, Elsewhere, WarmPlaces
  <2>2. CasesOnce' /\ Batches'
    BY <1>2, <1>3, <1>7, CreateWarms DEF Simulate, Warmed
  <2> QED BY <2>1, <2>2, ElsewhereWarms
<1>8. CASE Wait
  <2> USE DEF CountFinished, CountTotal, CountMetrics
  <2>1. Elsewhere
    BY <1>1, <1>8 DEF Wait, Elsewhere, WarmPlaces
  <2> QED BY <1>2, <1>3, <1>8, <2>1, ElsewhereWarms DEF Wait
<1>9. CASE CleanCases
  <2> USE DEF ListCases, DeleteCase, CasesEnd
  <2>1. CASE ListCases \/ CasesEnd
    <3>1. Elsewhere
      BY <1>1, <2>1 DEF Elsewhere, WarmPlaces
    <3> QED BY <1>2, <1>3, <2>1, <3>1, ElsewhereWarms
  <2>2. CASE DeleteCase
    BY <2>2, DeleteCaseWarms
  <2> QED BY <1>9, <2>1, <2>2 DEF CleanCases
<1> QED BY <1>5, <1>6, <1>7, <1>8, <1>9

\* Each step of a warm-up takes away what the next one relies on.
LEMMA WarmWarms == ASSUME Kept, Warmed, Warm PROVE Warmed'
<1> USE DEF Goto, Still, EngineStill, engine
<1>1. verdict # "warm" /\ pc \in WarmPlaces \cup {"health", "warm_send"}
  BY DEF Warm, CheckHealth, WarmAccepted, WarmRefused, WarmNoAnswer, WarmPoll, WarmGiveUp,
     WarmDeleteExecution, WarmListCases, WarmCasesEnd, WarmDeleteRows, WarmPlaces,
     Warmed, Traceless
<1>2. ASSUME UNCHANGED <<stage, cases, made, alert, batch>> PROVE CasesOnce' /\ Batches'
  BY <1>2 DEF Warmed, CasesOnce, Batches
<1>3. ASSUME verdict' = verdict PROVE Traceless'
  BY <1>1, <1>3 DEF Traceless
<1>4. 1..made \subseteq Ids /\ DOMAIN doc = Ids /\ DOMAIN alert = Ids
  BY CampaignAssumption DEF Kept, Executions, Ids, CampaignAssumption, Warmed, Batches
<1>5. CASE CheckHealth
  <2>1. Traces'
    BY <1>5 DEF CheckHealth, End, Fine, Fault, Warmed, Traces, WarmPlaces
  <2> QED BY <1>2, <1>3, <1>5, <2>1 DEF CheckHealth, Warmed
<1>6. CASE WarmAccepted
  <2>1. /\ CasesOnce' /\ Batches' /\ made + 1 \in Ids /\ batch' = batch \cup {made + 1}
        /\ made' = made + 1 /\ alert'[made + 1] = Warmup /\ doc'[made + 1] = "EXECUTING"
    BY <1>6, CreateWarms DEF WarmAccepted, Warmed
  <2>2. my'.exec = made + 1 /\ pc' = "warm_poll" /\ pc = "warm_send" /\ flaw' = flaw
    BY <1>6 DEF WarmAccepted, Fine, Kept, Shaped, NoLocals
  <2>3. made + 1 \in 1..(made + 1)
    BY <2>1 DEF Ids
  <2>4. Traces'
    BY <2>1, <2>2, <2>3 DEF Warmed, Traces, WarmPlaces
  <2> QED BY <1>3, <1>6, <2>1, <2>4 DEF WarmAccepted, Warmed
<1>7. CASE WarmRefused
  <2>1. Traces'
    BY <1>7 DEF WarmRefused, WarmAgain, End, Fine, Warmed, Traces, WarmPlaces
  <2> QED BY <1>2, <1>3, <1>7, <2>1 DEF WarmRefused, Warmed
<1>8. CASE WarmNoAnswer
  <2>1. Traces'
    BY <1>8 DEF WarmNoAnswer, Fault, Traces
  <2>2. CasesOnce' /\ Batches'
    BY <1>2, <1>8, CreateWarms DEF WarmNoAnswer, Warmed
  <2> QED BY <1>3, <1>8, <2>1, <2>2 DEF WarmNoAnswer, Warmed
<1>9. CASE WarmPoll
  <2>1. my'.exec = my.exec
    BY <1>9 DEF WarmPoll, Kept, Shaped, NoLocals
  <2>2. CASE WarmOver /\ pc' = "warm_delete" /\ Fine
    <3>1. ~flaw => my.exec \in Ids /\ doc[my.exec] = "FINISHED"
      BY <1>4, <1>9, <2>2 DEF WarmPoll, WarmOver, Warmed, Traces, WarmPlaces
    <3>2. ~flaw => stage[my.exec] = "over"
      BY <3>1 DEF Kept, Executions
    <3>3. Traces'
      BY <1>9, <2>1, <2>2, <3>2 DEF WarmPoll, Fine, Warmed, Traces, WarmPlaces
    <3> QED BY <1>2, <1>3, <1>9, <3>3 DEF WarmPoll, Warmed
  <2>3. CASE pc' = pc
    <3>1. Traces'
      BY <1>9, <2>1, <2>3 DEF WarmPoll, Fine, Fault, Warmed, Traces, WarmPlaces
    <3> QED BY <1>2, <1>3, <1>9, <3>1 DEF WarmPoll, Warmed
  <2> QED BY <1>9, <2>2, <2>3 DEF WarmPoll
<1>10. CASE WarmGiveUp
  BY <1>2, <1>3, <1>10 DEF WarmGiveUp, Warmed, Traces
<1>11. CASE WarmDeleteExecution
  <2>1. my'.exec = my.exec
    BY <1>11 DEF WarmDeleteExecution, Kept, Shaped, NoLocals
  <2>2. ~flaw' => ~flaw /\ doc'[my.exec] = "none"
    <3>1. ~flaw' => ~flaw /\ doc' = [doc EXCEPT ![my.exec] = "none"]
      BY <1>11 DEF WarmDeleteExecution, Fine, Fault
    <3>2. ~flaw => my.exec \in Ids
      BY <1>4, <1>11 DEF WarmDeleteExecution, Warmed, Traces, WarmPlaces
    <3> QED BY <1>4, <3>1, <3>2
  <2>3. Traces'
    BY <1>11, <2>1, <2>2 DEF WarmDeleteExecution, Warmed, Traces, WarmPlaces
  <2> QED BY <1>2, <1>3, <1>11, <2>3 DEF WarmDeleteExecution, Warmed
<1>12. CASE WarmListCases
  <2>1. my'.exec = my.exec
    BY <1>12 DEF WarmListCases, Kept, Shaped, NoLocals
  <2> DEFINE found == {e \in ToSet(cases) : alert[e] = Warmup}
  <2>2. Traces'
    <3> SUFFICES ASSUME ~flaw' PROVE Traces'
      BY DEF Traces
    <3>1. /\ ~flaw
          /\ IF found = {} THEN pc' = "warm_rows" /\ UNCHANGED my
             ELSE pc' = "warm_cases" /\ my' = [my EXCEPT !.todo = found, !.tries = @ + 1]
      BY <1>12 DEF WarmListCases, Fine, Fault
    <3>2. my.exec \in ToSet(cases) => my.exec \in found
      BY <1>12, <3>1 DEF WarmListCases, Warmed, Traces, WarmPlaces
    <3>3. CASE found = {}
      BY <1>12, <3>1, <3>2, <3>3 DEF WarmListCases, Warmed, Traces, WarmPlaces
    <3>4. CASE found # {}
      <4>1. my'.todo = found
        BY <3>1, <3>4 DEF Kept, Shaped, NoLocals
      <4> HIDE DEF found
      <4> QED BY <1>12, <2>1, <3>1, <3>2, <3>4, <4>1
                 DEF WarmListCases, Warmed, Traces, WarmPlaces
    <3> QED BY <3>3, <3>4
  <2> QED BY <1>2, <1>3, <1>12, <2>2 DEF WarmListCases, Warmed
<1>13. CASE WarmCasesEnd
  <2>1. Traces'
    BY <1>13 DEF WarmCasesEnd, Fine, Warmed, Traces, WarmPlaces
  <2> QED BY <1>2, <1>3, <1>13, <2>1 DEF WarmCasesEnd, Warmed
<1>14. CASE WarmDeleteRows
  <2>1. Traces'
    BY <1>14 DEF WarmDeleteRows, End, Traces, WarmPlaces
  <2>2. Traceless'
    <3> SUFFICES ASSUME ~flaw' PROVE Traceless'
      BY <1>1, <1>14 DEF WarmDeleteRows, Traceless
    <3>1. ~flaw /\ rows' = {e \in rows : alert[e] # Warmup}
      BY <1>14 DEF WarmDeleteRows, Fine, Fault
    <3>2. /\ batch = {my.exec} /\ alert[my.exec] = Warmup /\ stage[my.exec] = "over"
          /\ doc[my.exec] = "none" /\ my.exec \notin ToSet(cases)
      BY <1>14, <3>1 DEF WarmDeleteRows, Warmed, Traces, WarmPlaces
    <3> QED BY <1>14, <3>1, <3>2 DEF WarmDeleteRows, End, Traceless
  <2> QED BY <1>2, <1>14, <2>1, <2>2 DEF WarmDeleteRows, Warmed
<1> QED
  BY <1>5, <1>6, <1>7, <1>8, <1>9, <1>10, <1>11, <1>12, <1>13, <1>14 DEF Warm

LEMMA WarmedInvariant == Init /\ [][Next]_vars => []Warmed
<1>1. Init => Warmed
  BY EmptySeq DEF Init, Warmed, CasesOnce, Once, Batches, Traces, Traceless, WarmPlaces, ToSet
<1>2. Kept /\ Warmed /\ [Next]_vars => Warmed'
  <2> SUFFICES ASSUME Kept, Warmed, [Next]_vars PROVE Warmed'
    OBVIOUS
  <2>1. CASE UNCHANGED vars
    BY <2>1 DEF vars, engine, history, Warmed, CasesOnce, Batches, Traces, Traceless
  <2> QED BY <2>1, EngineWarms, OthersWarm, WarmWarms DEF Next, Script
<1> QED BY <1>1, <1>2, KeptInvariant, PTL

\* A warm-up that met no failed request leaves no document, no case, no row and no
\* execution that could still write one, wherever the case stood in the list.
THEOREM WarmupCorrect == Spec => []WarmupLeavesNoTrace
<1>1. Warmed => WarmupLeavesNoTrace
  BY DEF Warmed, Traceless, WarmupLeavesNoTrace, Idle
<1> QED BY <1>1, WarmedInvariant, PTL DEF Spec

-----------------------------------------------------------------------------
(* How long a script can go on: the requests that it still has, but those  *)
(* of a list that it works off.                                            *)
Rest(i) == (Count + 1 - i) * MaxTries
Sending == 3 * MaxPolls + 1 + Count * MaxTries
LeftAt(p, i, tries, polls) ==
  CASE p = "idle" -> 0
    [] p = "metrics" -> 3 * (MaxPolls - polls) - 2
    [] p = "total" -> 3 * (MaxPolls - polls) - 1
    [] p = "finished" -> 3 * (MaxPolls - polls)
    [] p = "send" -> 3 * MaxPolls + 1 + Rest(i) - tries
    [] p = "remove" -> Sending + 1
    [] p = "abort" -> Sending + 2
    [] p = "list" -> Sending + 3
    [] p = "purge_queue" -> Sending + 4
    [] p = "purge_docs" -> Sending + 5
    [] p = "cases" -> 1
    [] p = "listing" -> 2
    [] p = "warm_rows" -> 1
    [] p = "warm_cases" -> 9 - 2 * tries
    [] p = "warm_list" -> 8 - 2 * tries
    [] p = "warm_delete" -> 9
    [] p = "warm_poll" -> 10 + MaxPolls - polls
    [] p = "warm_send" -> 10 + MaxPolls + WarmTries - tries
    [] p = "health" -> 11 + MaxPolls + WarmTries
RequestsLeft == LeftAt(pc, my.i, my.tries, my.polls)

(* Every step of a script leaves fewer, or works off its list.             *)
Nearer ==
  \/ RequestsLeft' < RequestsLeft
  \/ RequestsLeft' = RequestsLeft /\ my'.todo # my.todo /\ my'.todo \subseteq my.todo

Polls == {"finished", "total", "metrics"}
Timed ==
  /\ pc \in {"idle", "listing", "cases", "send"} \cup Cleaning \cup Polls \cup WarmPlaces
              \cup {"health", "warm_send"}
  /\ my.todo \subseteq Ids
  /\ pc = "send" => my.i \in 1..(Count + 1) /\ my.tries \in 0..(MaxTries - 1)
  /\ pc = "send" /\ my.i = Count + 1 => my.tries = 0
  /\ pc \in Polls => my.polls \in 0..(MaxPolls - 1)
  /\ pc = "health" => my.tries = 0 /\ my.polls = 0
  /\ pc = "warm_send" => my.tries \in 0..(WarmTries - 1) /\ my.polls = 0
  /\ pc = "warm_poll" => my.polls \in 0..MaxPolls
  /\ pc = "warm_list" => my.tries \in 0..2
  /\ pc = "warm_cases" => my.tries \in 1..3

LEMMA Bounds ==
  /\ {Count, MaxTries, WarmTries, MaxPolls, MaxExec} \subseteq Nat \ {0}
  /\ Sending \in Nat /\ Sending = 3 * MaxPolls + 1 + Rest(1) /\ Rest(Count + 1) = 0
<1>1. {Count, MaxTries, WarmTries, MaxPolls, MaxExec} \subseteq Nat \ {0}
  BY CampaignAssumption DEF CampaignAssumption
<1>2. Count * MaxTries \in Nat
  BY <1>1
<1>3. Rest(1) = Count * MaxTries
  <2>1. Count + 1 - 1 = Count
    BY <1>1
  <2> QED BY <2>1 DEF Rest
<1>4. Rest(Count + 1) = 0
  <2>1. Count + 1 - (Count + 1) = 0 /\ 0 * MaxTries = 0
    BY <1>1
  <2> QED BY <2>1 DEF Rest
<1> QED BY <1>1, <1>2, <1>3, <1>4 DEF Sending

LEMMA RestIs ==
  ASSUME NEW i \in 1..Count
  PROVE  /\ Rest(i) \in Nat /\ Rest(i + 1) \in Nat /\ Rest(i) = Rest(i + 1) + MaxTries
<1>1. PICK c \in Nat : c = Count - i
  BY Bounds
<1>2. Count + 1 - i = c + 1 /\ Count + 1 - (i + 1) = c
  BY <1>1, Bounds
<1>3. MaxTries \in Nat
  BY Bounds
<1>4. (c + 1) * MaxTries = c * MaxTries + MaxTries /\ c * MaxTries \in Nat
  BY <1>3
<1> QED BY <1>2, <1>3, <1>4 DEF Rest

LEMMA LeftWait ==
  ASSUME NEW i, NEW t, NEW n
  PROVE  /\ LeftAt("idle", i, t, n) = 0 /\ LeftAt("metrics", i, t, n) = 3 * (MaxPolls - n) - 2
         /\ LeftAt("total", i, t, n) = 3 * (MaxPolls - n) - 1
         /\ LeftAt("finished", i, t, n) = 3 * (MaxPolls - n)
         /\ LeftAt("send", i, t, n) = 3 * MaxPolls + 1 + Rest(i) - t
BY DEF LeftAt

\* A batch starts with all of its tries and all of the polls of its wait.
LEMMA LeftSend ==
  ASSUME NEW i, NEW t, NEW n
  PROVE  i = 1 /\ t = 0 => LeftAt("send", i, t, n) = Sending
<1> DEFINE b == 3 * MaxPolls + 1
           l == LeftAt("send", i, t, n)
<1>1. l = b + Rest(i) - t
  BY LeftWait
<1>2. i = 1 => b + Rest(i) = Sending /\ b \in Nat /\ Rest(i) \in Nat
  <2>1. 1 \in 1..Count /\ b \in Nat
    BY Bounds
  <2>2. Rest(1) \in Nat
    BY <2>1, RestIs
  <2> QED BY <2>1, <2>2, Bounds
<1> HIDE DEF b, l
<1>3. i = 1 /\ t = 0 => l = Sending
  BY <1>1, <1>2
<1> QED BY <1>3 DEF l

LEMMA LeftClean ==
  ASSUME NEW i, NEW t, NEW n
  PROVE  /\ LeftAt("remove", i, t, n) = Sending + 1 /\ LeftAt("abort", i, t, n) = Sending + 2
         /\ LeftAt("list", i, t, n) = Sending + 3 /\ LeftAt("purge_queue", i, t, n) = Sending + 4
         /\ LeftAt("purge_docs", i, t, n) = Sending + 5
         /\ LeftAt("cases", i, t, n) = 1 /\ LeftAt("listing", i, t, n) = 2
BY DEF LeftAt

LEMMA LeftWarm ==
  ASSUME NEW i, NEW t, NEW n
  PROVE  /\ LeftAt("warm_rows", i, t, n) = 1 /\ LeftAt("warm_cases", i, t, n) = 9 - 2 * t
         /\ LeftAt("warm_list", i, t, n) = 8 - 2 * t /\ LeftAt("warm_delete", i, t, n) = 9
         /\ LeftAt("warm_poll", i, t, n) = 10 + MaxPolls - n
         /\ LeftAt("warm_send", i, t, n) = 10 + MaxPolls + WarmTries - t
         /\ LeftAt("health", i, t, n) = 11 + MaxPolls + WarmTries
BY DEF LeftAt

\* What is left is a number, and nothing is left only of a script that has ended.
LEMMA LeftIsNat == ASSUME Timed PROVE RequestsLeft \in Nat /\ (RequestsLeft = 0 <=> pc = "idle")
<1>1. CASE pc = "idle"
  BY <1>1, LeftWait DEF RequestsLeft
<1>2. CASE pc \in Polls
  <2>1. my.polls \in 0..(MaxPolls - 1) /\ MaxPolls \in Nat
    BY <1>2, Bounds DEF Timed
  <2>2. RequestsLeft \in {3 * (MaxPolls - my.polls) - 2, 3 * (MaxPolls - my.polls) - 1,
                          3 * (MaxPolls - my.polls)}
    BY <1>2, LeftWait DEF RequestsLeft, Polls
  <2>3. RequestsLeft \in Nat \ {0}
    BY <2>1, <2>2
  <2> QED BY <1>2, <2>3 DEF Polls
<1>3. CASE pc = "send"
  <2>1. my.i \in 1..(Count + 1) /\ my.tries \in 0..(MaxTries - 1) /\ MaxPolls \in Nat /\ MaxTries \in Nat
    BY <1>3, Bounds DEF Timed
  <2>2. RequestsLeft = 3 * MaxPolls + 1 + Rest(my.i) - my.tries
    BY <1>3, LeftWait DEF RequestsLeft
  <2>3. CASE my.i = Count + 1
    <3>1. my.tries = 0 /\ Rest(my.i) = 0
      BY <1>3, <2>3, Bounds DEF Timed
    <3> QED BY <1>3, <2>1, <2>2, <3>1
  <2>4. CASE my.i \in 1..Count
    <3>1. Rest(my.i) \in Nat /\ Rest(my.i) >= MaxTries
      BY <2>1, <2>4, RestIs
    <3>2. RequestsLeft \in Nat \ {0}
      BY <2>1, <2>2, <3>1
    <3> QED BY <1>3, <3>2
  <2> QED BY <2>1, <2>3, <2>4, Bounds
<1>4. CASE pc \in Cleaning \cup {"listing", "cases"}
  <2>1. RequestsLeft \in {1, 2, Sending + 1, Sending + 2, Sending + 3, Sending + 4, Sending + 5}
    BY <1>4, LeftClean DEF RequestsLeft, Cleaning, Midst
  <2>2. RequestsLeft \in Nat \ {0}
    BY <2>1, Bounds
  <2> QED BY <1>4, <2>2 DEF Cleaning, Midst
<1>5. CASE pc \in WarmPlaces \cup {"health", "warm_send"}
  <2>1. {MaxPolls, WarmTries} \subseteq Nat \ {0}
    BY Bounds
  <2>2. pc # "idle"
    BY <1>5 DEF WarmPlaces
  <2>3. CASE pc \in {"warm_rows", "warm_delete", "health"}
    BY <2>1, <2>2, <2>3, LeftWarm DEF RequestsLeft
  <2>4. CASE pc = "warm_cases"
    BY <2>2, <2>4, LeftWarm DEF RequestsLeft, Timed
  <2>5. CASE pc = "warm_list"
    BY <2>2, <2>5, LeftWarm DEF RequestsLeft, Timed
  <2>6. CASE pc = "warm_poll"
    <3>1. my.polls \in 0..MaxPolls /\ RequestsLeft = 10 + MaxPolls - my.polls
      BY <2>6, LeftWarm DEF RequestsLeft, Timed
    <3> QED BY <2>1, <2>2, <3>1
  <2>7. CASE pc = "warm_send"
    <3>1. my.tries \in 0..(WarmTries - 1) /\ RequestsLeft = 10 + MaxPolls + WarmTries - my.tries
      BY <2>7, LeftWarm DEF RequestsLeft, Timed
    <3> QED BY <2>1, <2>2, <3>1
  <2> QED BY <1>5, <2>3, <2>4, <2>5, <2>6, <2>7 DEF WarmPlaces
<1> QED BY <1>1, <1>2, <1>3, <1>4, <1>5 DEF Timed

\* A script that ends leaves nothing.
LEMMA EndNearer == ASSUME Timed, pc # "idle", End PROVE Nearer /\ Timed'
<1>1. RequestsLeft' = 0
  BY LeftWait DEF End, RequestsLeft
<1>2. RequestsLeft \in Nat \ {0}
  BY LeftIsNat
<1>3. Timed'
  BY DEF End, Timed, Polls, NoLocals
<1> QED BY <1>1, <1>2, <1>3 DEF Nearer

-----------------------------------------------------------------------------
\* The cleaning, from step to step.
LEMMA CleanNearer == ASSUME Shaped, Timed, Clean PROVE Nearer /\ Timed'
<1> USE DEF Goto
<1>0. Ids \subseteq Nat /\ Sending \in Nat /\ my.todo \subseteq Ids
  BY Bounds DEF Ids, Timed
<1>a. \A p \in Cleaning : p \notin Polls \cup WarmPlaces \cup {"send", "health", "warm_send"}
  BY DEF Cleaning, Midst, Polls, WarmPlaces
<1>1. ASSUME pc \in Cleaning, pc' \in Cleaning, my'.todo \subseteq Ids,
             RequestsLeft' < RequestsLeft
      PROVE  Nearer /\ Timed'
  BY <1>1, <1>a DEF Nearer, Timed, WarmPlaces
<1>3. CASE PurgeDocs \/ Lost("purge_docs", "purge_queue")
  <2>1. pc = "purge_docs" /\ pc' = "purge_queue" /\ my' = my
    BY <1>3 DEF PurgeDocs, Lost
  <2>2. RequestsLeft = Sending + 5 /\ RequestsLeft' = Sending + 4
    BY <2>1, LeftClean DEF RequestsLeft
  <2> QED BY <1>0, <1>1, <2>1, <2>2 DEF Cleaning, Midst
<1>4. CASE PurgeQueue \/ Lost("purge_queue", "list")
  <2>1. pc = "purge_queue" /\ pc' = "list" /\ my' = my
    BY <1>4 DEF PurgeQueue, Lost
  <2>2. RequestsLeft = Sending + 4 /\ RequestsLeft' = Sending + 3
    BY <2>1, LeftClean DEF RequestsLeft
  <2> QED BY <1>0, <1>1, <2>1, <2>2 DEF Cleaning, Midst
<1>5. CASE ListExecutions \/ Lost("list", "abort")
  <2>1. pc = "list" /\ pc' = "abort"
    BY <1>5 DEF ListExecutions, Lost
  <2>2. my'.todo \subseteq Ids
    BY <1>0, <1>5 DEF ListExecutions, Lost, Shaped, NoLocals
  <2>3. RequestsLeft = Sending + 3 /\ RequestsLeft' = Sending + 2
    BY <2>1, LeftClean DEF RequestsLeft
  <2> QED BY <1>0, <1>1, <2>1, <2>2, <2>3 DEF Cleaning, Midst
<1>6. CASE AbortOne \/ RemoveOne
  <2>1. pc \in {"abort", "remove"} /\ pc' = pc
    BY <1>6 DEF AbortOne, RemoveOne
  <2>2. PICK e \in my.todo : my' = [my EXCEPT !.todo = @ \ {e}]
    BY <1>6 DEF AbortOne, RemoveOne
  <2>3. my'.todo = my.todo \ {e}
    BY <2>2 DEF Shaped, NoLocals
  <2>4. RequestsLeft' = RequestsLeft
    BY <2>1, LeftClean DEF RequestsLeft
  <2>5. Timed'
    BY <2>1, <2>3, <1>a DEF Timed, Cleaning, Midst, WarmPlaces
  <2>6. my'.todo # my.todo /\ my'.todo \subseteq my.todo
    BY <2>3
  <2> QED BY <2>4, <2>5, <2>6 DEF Nearer
<1>7. CASE ListWorkers
  <2>1. pc = "abort" /\ pc' = "remove"
    BY <1>7 DEF ListWorkers
  <2>2. my'.todo \subseteq Ids
    BY <1>7 DEF ListWorkers, Shaped, NoLocals
  <2>3. RequestsLeft = Sending + 2 /\ RequestsLeft' = Sending + 1
    BY <2>1, LeftClean DEF RequestsLeft
  <2> QED BY <1>0, <1>1, <2>1, <2>2, <2>3 DEF Cleaning, Midst
<1>8. CASE CleanEnd
  <2>1. pc = "remove" /\ pc' \in {"send", "idle"} /\ my' = NoLocals
    BY <1>8 DEF CleanEnd
  <2>2. CASE pc' = "idle"
    BY <2>1, <2>2, EndNearer DEF End
  <2>3. CASE pc' = "send"
    <3>1. my'.i = 1 /\ my'.tries = 0 /\ my'.todo = {} /\ my'.polls = 0
      BY <2>1 DEF NoLocals
    <3>2. RequestsLeft = Sending + 1
      BY <2>1, LeftClean DEF RequestsLeft
    <3>3. RequestsLeft' < RequestsLeft
      <4>1. RequestsLeft' = Sending
        BY <2>3, <3>1, LeftSend DEF RequestsLeft
      <4> QED BY <1>0, <3>2, <4>1
    <3>4. Timed'
      <4>1. 1 \in 1..(Count + 1) /\ 0 \in 0..(MaxTries - 1)
        BY Bounds
      <4> QED BY <2>3, <3>1, <4>1 DEF Timed, Polls
    <3> QED BY <3>3, <3>4 DEF Nearer
  <2> QED BY <2>1, <2>2, <2>3
<1> QED BY <1>3, <1>4, <1>5, <1>6, <1>7, <1>8 DEF Clean

-----------------------------------------------------------------------------
\* The batch: what is left of it falls with each try, and an alert that is given up
\* takes all of its tries with it.
LEMMA SendNearer ==
  ASSUME Shaped, Timed, pc = "send", my.i <= Count, pc' = pc,
         my' \in {NextAlert(my), [NextAlert(my) EXCEPT !.sent = @ + 1], Retry(my)}
  PROVE  Nearer /\ Timed'
<1> DEFINE i == my.i
           t == my.tries
           b == 3 * MaxPolls + 1
<1>1. /\ i \in 1..Count /\ t \in 0..(MaxTries - 1) /\ MaxTries \in Nat \ {0} /\ Count \in Nat
      /\ b \in Nat /\ my.todo \subseteq Ids
  BY Bounds DEF Timed
<1>2. /\ Rest(i) \in Nat /\ Rest(i + 1) \in Nat /\ Rest(i) = Rest(i + 1) + MaxTries
  BY <1>1, RestIs
<1>3. \/ my'.i = i + 1 /\ my'.tries = 0 /\ my'.todo = my.todo
      \/ t + 1 < MaxTries /\ my'.i = i /\ my'.tries = t + 1 /\ my'.todo = my.todo
  BY DEF NextAlert, Retry, Shaped, NoLocals
<1>4. RequestsLeft = b + Rest(i) - t /\ RequestsLeft' = b + Rest(my'.i) - my'.tries
  BY LeftWait DEF RequestsLeft
<1> HIDE DEF i, t, b
<1>5. CASE my'.i = i + 1 /\ my'.tries = 0 /\ my'.todo = my.todo
  <2>1. RequestsLeft' = b + Rest(i + 1) - 0
    BY <1>4, <1>5
  <2>2. RequestsLeft' < RequestsLeft
    BY <1>1, <1>2, <1>4, <2>1
  <2>3. i + 1 \in 1..(Count + 1) /\ 0 \in 0..(MaxTries - 1)
    BY <1>1
  <2>4. Timed'
    BY <1>1, <1>5, <2>3 DEF Timed, Polls, WarmPlaces, Cleaning
  <2> QED BY <2>2, <2>4 DEF Nearer
<1>6. CASE t + 1 < MaxTries /\ my'.i = i /\ my'.tries = t + 1 /\ my'.todo = my.todo
  <2>1. RequestsLeft' = b + Rest(i) - (t + 1)
    BY <1>4, <1>6
  <2>2. RequestsLeft' < RequestsLeft
    BY <1>1, <1>2, <1>4, <2>1
  <2>3. i \in 1..(Count + 1) /\ t + 1 \in 0..(MaxTries - 1) /\ i # Count + 1
    BY <1>1, <1>6
  <2>4. Timed'
    BY <1>1, <1>6, <2>3 DEF Timed, Polls, WarmPlaces, Cleaning
  <2> QED BY <2>2, <2>4 DEF Nearer
<1> QED BY <1>3, <1>5, <1>6

LEMMA SimulateNearer == ASSUME Shaped, Timed, Simulate PROVE Nearer /\ Timed'
<1>1. CASE Accepted \/ Busy \/ Refused \/ NoAnswer
  <2>1. /\ pc = "send" /\ my.i <= Count /\ pc' = pc
        /\ my' \in {NextAlert(my), [NextAlert(my) EXCEPT !.sent = @ + 1], Retry(my)}
    BY <1>1 DEF Accepted, Busy, Refused, NoAnswer
  <2> QED BY <2>1, SendNearer
<1>2. CASE SendEnd
  <2>1. pc = "send" /\ my.i > Count
    BY <1>2 DEF SendEnd
  <2>2. CASE End
    BY <2>1, <2>2, EndNearer
  <2>3. CASE pc' = "finished" /\ my' = [NoLocals EXCEPT !.expected = Count]
    <3>1. my.i = Count + 1 /\ my.tries = 0 /\ MaxPolls \in Nat \ {0}
      BY <2>1, Bounds DEF Timed
    <3>2. my'.polls = 0 /\ my'.todo = {}
      BY <2>3 DEF NoLocals
    <3>3. PICK k \in Nat : k = 3 * MaxPolls
      BY <3>1
    <3>4. 3 * (MaxPolls - 0) = k
      BY <3>1, <3>3
    <3>5. RequestsLeft = 3 * MaxPolls + 1 + Rest(Count + 1) - 0
          /\ RequestsLeft' = 3 * (MaxPolls - 0)
      BY <2>1, <2>3, <3>1, <3>2, LeftWait DEF RequestsLeft
    <3>6. RequestsLeft = k + 1 + 0 - 0 /\ RequestsLeft' = k
      BY <3>3, <3>4, <3>5, Bounds
    <3>7. RequestsLeft' < RequestsLeft
      BY <3>6
    <3>8. 0 \in 0..(MaxPolls - 1)
      BY <3>1
    <3>9. Timed'
      BY <2>3, <3>2, <3>8 DEF Timed, Polls, WarmPlaces, Cleaning
    <3> QED BY <3>7, <3>9 DEF Nearer
  <2> QED BY <1>2, <2>2, <2>3 DEF SendEnd, Goto
<1> QED BY <1>1, <1>2 DEF Simulate

-----------------------------------------------------------------------------
\* The wait: three requests a poll at most, and the polls are counted.
LEMMA WaitNearer == ASSUME Shaped, Timed, Wait PROVE Nearer /\ Timed'
<1> DEFINE n == my.polls
<1>1. n \in 0..(MaxPolls - 1) /\ MaxPolls \in Nat /\ my.todo \subseteq Ids /\ pc \in Polls
  BY Bounds DEF Timed, Wait, CountFinished, CountTotal, CountMetrics, Polls
<1>2. ASSUME pc' \in Polls, my'.polls \in 0..(MaxPolls - 1), my'.todo = my.todo,
             RequestsLeft' < RequestsLeft
      PROVE  Nearer /\ Timed'
  BY <1>1, <1>2 DEF Nearer, Timed, Polls, WarmPlaces, Cleaning
<1>3. CASE CountFinished
  <2>1. pc = "finished" /\ pc' \in {"total", "metrics"}
    BY <1>3 DEF CountFinished, Goto
  <2>2. my'.polls = n /\ my'.todo = my.todo
    BY <1>3 DEF CountFinished, Set, Shaped, NoLocals
  <2>3. /\ RequestsLeft = 3 * (MaxPolls - n)
        /\ RequestsLeft' \in {3 * (MaxPolls - n) - 1, 3 * (MaxPolls - n) - 2}
    BY <2>1, <2>2, LeftWait DEF RequestsLeft
  <2>4. RequestsLeft' < RequestsLeft
    BY <1>1, <2>3
  <2> QED BY <1>1, <1>2, <2>1, <2>2, <2>4 DEF Polls
<1>4. CASE CountTotal
  <2>1. pc = "total" /\ pc' = "metrics"
    BY <1>4 DEF CountTotal, Goto
  <2>2. my'.polls = n /\ my'.todo = my.todo
    BY <1>4 DEF CountTotal, Set, Shaped, NoLocals
  <2>3. RequestsLeft = 3 * (MaxPolls - n) - 1 /\ RequestsLeft' = 3 * (MaxPolls - n) - 2
    BY <2>1, <2>2, LeftWait DEF RequestsLeft
  <2>4. RequestsLeft' < RequestsLeft
    BY <1>1, <2>3
  <2> QED BY <1>1, <1>2, <2>1, <2>2, <2>4 DEF Polls
<1>5. CASE CountMetrics
  <2>1. pc = "metrics"
    BY <1>5 DEF CountMetrics
  <2>2. CASE End
    BY <2>1, <2>2, EndNearer
  <2>3. CASE \E m : n + 1 < MaxPolls /\ my' = PollAgain(my, m) /\ pc' = "finished"
    <3>1. n + 1 < MaxPolls /\ my'.polls = n + 1 /\ my'.todo = my.todo /\ pc' = "finished"
      BY <2>3 DEF PollAgain, Shaped, NoLocals
    <3>2. RequestsLeft = 3 * (MaxPolls - n) - 2 /\ RequestsLeft' = 3 * (MaxPolls - (n + 1))
      BY <2>1, <3>1, LeftWait DEF RequestsLeft
    <3>3. RequestsLeft' < RequestsLeft
      BY <1>1, <3>2
    <3>4. n + 1 \in 0..(MaxPolls - 1)
      BY <1>1, <3>1
    <3> QED BY <1>2, <3>1, <3>3, <3>4 DEF Polls
  <2> QED BY <1>5, <2>2, <2>3 DEF CountMetrics, Goto
<1> QED BY <1>3, <1>4, <1>5 DEF Wait

-----------------------------------------------------------------------------
\* The cases that are listed are cases of executions.
LEMMA ListedCases ==
  ASSUME CasesOnce
  PROVE  /\ ToSet(cases) \subseteq Ids /\ ToDelete(cases) \subseteq Ids
<1>1. cases \in Seq(Ids) /\ Len(cases) \in Nat /\ Keep \in Nat
  BY CampaignAssumption DEF CasesOnce, CampaignAssumption
<1>2. ToSet(cases) \subseteq Ids
  BY <1>1 DEF ToSet
<1>3. ASSUME NEW k \in 1..(Len(cases) - Keep) PROVE cases[k] \in Ids
  <2>1. k \in 1..Len(cases)
    BY <1>1
  <2> QED BY <1>1, <2>1
<1> QED BY <1>2, <1>3 DEF ToDelete

\* The deletion of a case works the list off.
LEMMA DeleteNearer == ASSUME Shaped, Timed, DeleteCase PROVE Nearer /\ Timed'
<1>1. pc \in {"cases", "warm_cases"} /\ pc' = pc
  BY DEF DeleteCase
<1>2. PICK e \in my.todo : my' = [my EXCEPT !.todo = @ \ {e}]
  BY DEF DeleteCase
<1>3. my'.todo = my.todo \ {e} /\ my'.i = my.i /\ my'.tries = my.tries /\ my'.polls = my.polls
  BY <1>2 DEF Shaped, NoLocals
<1>4. RequestsLeft' = RequestsLeft
  BY <1>1, <1>3 DEF RequestsLeft
<1>5. Timed'
  BY <1>1, <1>3 DEF Timed, Polls, WarmPlaces, Cleaning
<1>6. my'.todo # my.todo /\ my'.todo \subseteq my.todo
  BY <1>3
<1> QED BY <1>4, <1>5, <1>6 DEF Nearer

LEMMA CasesNearer == ASSUME Shaped, Timed, CasesOnce, CleanCases PROVE Nearer /\ Timed'
<1>1. CASE ListCases
  <2>1. pc = "listing"
    BY <1>1 DEF ListCases
  <2>2. CASE End
    BY <2>1, <2>2, EndNearer
  <2>3. CASE pc' = "cases" /\ my' = [my EXCEPT !.todo = ToDelete(cases)]
    <3>1. my'.todo \subseteq Ids
      BY <2>3, ListedCases DEF Shaped, NoLocals
    <3>2. RequestsLeft = 2 /\ RequestsLeft' = 1
      BY <2>1, <2>3, LeftClean DEF RequestsLeft
    <3>3. Timed'
      BY <2>3, <3>1 DEF Timed, Polls, WarmPlaces, Cleaning
    <3> QED BY <3>2, <3>3 DEF Nearer
  <2> QED BY <1>1, <2>2, <2>3 DEF ListCases, Goto
<1>2. CASE CasesEnd
  BY <1>2, EndNearer DEF CasesEnd
<1> QED BY <1>1, <1>2, DeleteNearer DEF CleanCases

-----------------------------------------------------------------------------
\* The warm-up: its tries, its polls and its rounds of deletions are counted.
LEMMA WarmNearer == ASSUME Shaped, Timed, CasesOnce, Warm PROVE Nearer /\ Timed'
<1> USE DEF Goto
<1>0. /\ MaxPolls \in Nat \ {0} /\ WarmTries \in Nat \ {0} /\ my.todo \subseteq Ids
  BY Bounds DEF Timed
<1>a. ASSUME End, pc # "idle" PROVE Nearer /\ Timed'
  BY <1>a, EndNearer
<1>1. CASE CheckHealth
  <2>1. pc = "health" /\ my.tries = 0 /\ my.polls = 0
    BY <1>1 DEF CheckHealth, Timed
  <2>2. CASE pc' = "warm_send" /\ my' = my
    <3>1. RequestsLeft = 11 + MaxPolls + WarmTries /\ RequestsLeft' = 10 + MaxPolls + WarmTries - 0
      BY <2>1, <2>2, LeftWarm DEF RequestsLeft
    <3>2. RequestsLeft' < RequestsLeft /\ 0 \in 0..(WarmTries - 1)
      BY <1>0, <3>1
    <3>3. Timed'
      BY <1>0, <2>1, <2>2, <3>2 DEF Timed, Polls, WarmPlaces, Cleaning
    <3> QED BY <3>2, <3>3 DEF Nearer
  <2> QED BY <1>1, <1>a, <2>1, <2>2 DEF CheckHealth
<1>2. CASE WarmAccepted
  <2>1. pc = "warm_send" /\ my.tries \in 0..(WarmTries - 1) /\ my.polls = 0 /\ pc' = "warm_poll"
    BY <1>2 DEF WarmAccepted, Timed
  <2>2. my'.polls = 0 /\ my'.todo = my.todo
    BY <1>2, <2>1 DEF WarmAccepted, Shaped, NoLocals
  <2>3. RequestsLeft = 10 + MaxPolls + WarmTries - my.tries /\ RequestsLeft' = 10 + MaxPolls - 0
    BY <2>1, <2>2, LeftWarm DEF RequestsLeft
  <2>4. RequestsLeft' < RequestsLeft /\ 0 \in 0..MaxPolls
    BY <1>0, <2>1, <2>3
  <2>5. Timed'
    BY <1>0, <2>1, <2>2, <2>4 DEF Timed, Polls, WarmPlaces, Cleaning
  <2> QED BY <2>4, <2>5 DEF Nearer
<1>3. CASE WarmRefused \/ WarmNoAnswer
  <2>1. pc = "warm_send" /\ my.tries \in 0..(WarmTries - 1) /\ my.polls = 0 /\ WarmAgain
    BY <1>3 DEF WarmRefused, WarmNoAnswer, Timed
  <2>2. CASE my.tries + 1 < WarmTries /\ my' = [my EXCEPT !.tries = @ + 1] /\ pc' = pc
    <3>1. my'.polls = 0 /\ my'.todo = my.todo /\ my'.tries = my.tries + 1
      BY <2>1, <2>2 DEF Shaped, NoLocals
    <3>2. /\ RequestsLeft = 10 + MaxPolls + WarmTries - my.tries
          /\ RequestsLeft' = 10 + MaxPolls + WarmTries - (my.tries + 1)
      BY <2>1, <2>2, <3>1, LeftWarm DEF RequestsLeft
    <3>3. RequestsLeft' < RequestsLeft /\ my.tries + 1 \in 0..(WarmTries - 1)
      BY <1>0, <2>1, <2>2, <3>2
    <3>4. Timed'
      BY <1>0, <2>1, <2>2, <3>1, <3>3 DEF Timed, Polls, WarmPlaces, Cleaning
    <3> QED BY <3>3, <3>4 DEF Nearer
  <2> QED BY <1>a, <2>1, <2>2 DEF WarmAgain
<1>4. CASE WarmPoll
  <2>1. pc = "warm_poll" /\ my.polls \in 0..MaxPolls /\ my.polls < MaxPolls
    BY <1>4 DEF WarmPoll, Timed
  <2>2. RequestsLeft = 10 + MaxPolls - my.polls
    BY <2>1, LeftWarm DEF RequestsLeft
  <2>3. CASE pc' = "warm_delete" /\ my' = my
    <3>1. RequestsLeft' = 9
      BY <2>3, LeftWarm DEF RequestsLeft
    <3>2. RequestsLeft' < RequestsLeft
      BY <1>0, <2>1, <2>2, <3>1
    <3>3. Timed'
      BY <1>0, <2>3 DEF Timed, Polls, WarmPlaces, Cleaning
    <3> QED BY <3>2, <3>3 DEF Nearer
  <2>4. CASE pc' = pc /\ my' = [my EXCEPT !.polls = @ + 1]
    <3>1. my'.polls = my.polls + 1 /\ my'.todo = my.todo
      BY <2>4 DEF Shaped, NoLocals
    <3>2. RequestsLeft' = 10 + MaxPolls - (my.polls + 1)
      BY <2>1, <2>4, <3>1, LeftWarm DEF RequestsLeft
    <3>3. RequestsLeft' < RequestsLeft /\ my.polls + 1 \in 0..MaxPolls
      BY <1>0, <2>1, <2>2, <3>2
    <3>4. Timed'
      BY <1>0, <2>1, <2>4, <3>1, <3>3 DEF Timed, Polls, WarmPlaces, Cleaning
    <3> QED BY <3>3, <3>4 DEF Nearer
  <2> QED BY <1>4, <2>3, <2>4 DEF WarmPoll
<1>5. CASE WarmGiveUp
  <2>1. pc = "warm_poll" /\ my.polls = MaxPolls /\ pc' = "warm_delete" /\ my' = my
    BY <1>5 DEF WarmGiveUp
  <2>2. RequestsLeft = 10 + MaxPolls - MaxPolls /\ RequestsLeft' = 9
    BY <2>1, LeftWarm DEF RequestsLeft
  <2>3. RequestsLeft' < RequestsLeft
    BY <1>0, <2>2
  <2>4. Timed'
    BY <1>0, <2>1 DEF Timed, Polls, WarmPlaces, Cleaning
  <2> QED BY <2>3, <2>4 DEF Nearer
<1>6. CASE WarmDeleteExecution
  <2>1. pc = "warm_delete" /\ pc' = "warm_list" /\ my'.tries = 0 /\ my'.todo = my.todo
    BY <1>6 DEF WarmDeleteExecution, Shaped, NoLocals
  <2>2. RequestsLeft = 9 /\ RequestsLeft' = 8 - 2 * 0
    BY <2>1, LeftWarm DEF RequestsLeft
  <2>3. RequestsLeft' < RequestsLeft
    BY <2>2
  <2>4. Timed'
    BY <1>0, <2>1 DEF Timed, Polls, WarmPlaces, Cleaning
  <2> QED BY <2>3, <2>4 DEF Nearer
<1>7. CASE WarmListCases
  <2>1. pc = "warm_list" /\ my.tries \in 0..2
    BY <1>7 DEF WarmListCases, Timed
  <2>2. RequestsLeft = 8 - 2 * my.tries
    BY <2>1, LeftWarm DEF RequestsLeft
  <2>3. CASE pc' = "warm_rows" /\ my'.todo = my.todo
    <3>1. RequestsLeft' = 1
      BY <2>3, LeftWarm DEF RequestsLeft
    <3>2. RequestsLeft' < RequestsLeft
      BY <2>1, <2>2, <3>1
    <3>3. Timed'
      BY <1>0, <2>3 DEF Timed, Polls, WarmPlaces, Cleaning
    <3> QED BY <3>2, <3>3 DEF Nearer
  <2>4. CASE pc' = "warm_cases" /\ my'.todo \subseteq Ids /\ my'.tries = my.tries + 1
    <3>1. RequestsLeft' = 9 - 2 * (my.tries + 1)
      BY <2>4, LeftWarm DEF RequestsLeft
    <3>2. RequestsLeft' < RequestsLeft /\ my.tries + 1 \in 1..3
      BY <2>1, <2>2, <3>1
    <3>3. Timed'
      BY <2>4, <3>2 DEF Timed, Polls, WarmPlaces, Cleaning
    <3> QED BY <3>2, <3>3 DEF Nearer
  <2>5. CASE my.tries + 1 < 3 /\ pc' = "warm_list" /\ my'.todo = my.todo
             /\ my'.tries = my.tries + 1
    <3>1. RequestsLeft' = 8 - 2 * (my.tries + 1)
      BY <2>5, LeftWarm DEF RequestsLeft
    <3>2. RequestsLeft' < RequestsLeft /\ my.tries + 1 \in 0..2
      BY <2>1, <2>2, <2>5, <3>1
    <3>3. Timed'
      BY <1>0, <2>5, <3>2 DEF Timed, Polls, WarmPlaces, Cleaning
    <3> QED BY <3>2, <3>3 DEF Nearer
  <2>6. \/ pc' = "warm_rows" /\ my'.todo = my.todo
        \/ pc' = "warm_cases" /\ my'.todo \subseteq Ids /\ my'.tries = my.tries + 1
        \/ my.tries + 1 < 3 /\ pc' = "warm_list" /\ my'.todo = my.todo
           /\ my'.tries = my.tries + 1
    <3>1. ASSUME NEW found, found = {e \in ToSet(cases) : alert[e] = Warmup},
                 my' = [my EXCEPT !.todo = found, !.tries = @ + 1]
          PROVE  my'.todo \subseteq Ids /\ my'.tries = my.tries + 1
      BY <3>1, ListedCases DEF Shaped, NoLocals
    <3>2. ASSUME my' = [my EXCEPT !.tries = @ + 1]
          PROVE  my'.todo = my.todo /\ my'.tries = my.tries + 1
      BY <3>2 DEF Shaped, NoLocals
    <3> QED BY <1>7, <3>1, <3>2 DEF WarmListCases
  <2> QED BY <2>3, <2>4, <2>5, <2>6
<1>8. CASE WarmCasesEnd
  <2>1. /\ pc = "warm_cases" /\ my' = my /\ my.tries \in 1..3
        /\ pc' = IF my.tries < 3 THEN "warm_list" ELSE "warm_rows"
    BY <1>8 DEF WarmCasesEnd, Timed
  <2>2. RequestsLeft = 9 - 2 * my.tries
        /\ RequestsLeft' = IF my.tries < 3 THEN 8 - 2 * my.tries ELSE 1
    BY <2>1, LeftWarm DEF RequestsLeft
  <2>3. RequestsLeft' < RequestsLeft
    BY <2>1, <2>2
  <2>4. Timed'
    BY <1>0, <2>1 DEF Timed, Polls, WarmPlaces, Cleaning
  <2> QED BY <2>3, <2>4 DEF Nearer
<1>9. CASE WarmDeleteRows
  BY <1>9, <1>a DEF WarmDeleteRows
<1> QED BY <1>1, <1>2, <1>3, <1>4, <1>5, <1>6, <1>7, <1>8, <1>9 DEF Warm

-----------------------------------------------------------------------------
\* Between two requests of a script the engine may go on for as long as it likes: it
\* leaves the script where it is.
LEMMA ScriptNearer ==
  ASSUME Shaped, Timed, CasesOnce, [Next]_vars
  PROVE  Timed' /\ (Script => Nearer) /\ (Engine => UNCHANGED <<pc, my>>)
<1>1. ASSUME UNCHANGED <<pc, my>> PROVE Timed'
  BY <1>1 DEF Timed
<1>2. Engine => UNCHANGED <<pc, my>>
  BY DEF Engine, Fetch, Deploy, OpenCase, Finish, Break, EngineKeeps
<1>3. ASSUME Start PROVE Timed'
  <2>1. pc' \in {"purge_docs", "send", "finished", "listing", "health"}
    BY <1>3 DEF Start
  <2>2. my'.todo = {} /\ my'.tries = 0 /\ my'.polls = 0 /\ my'.i = 1
    BY <1>3 DEF Start, NoLocals
  <2>3. 0 \in 0..(MaxPolls - 1)
    BY Bounds
  <2>4. CASE pc' \in {"purge_docs", "listing"}
    BY <2>2, <2>4 DEF Timed, Cleaning, Polls, WarmPlaces
  <2>5. CASE pc' = "finished"
    BY <2>2, <2>3, <2>5 DEF Timed, Polls, WarmPlaces
  <2>6. CASE pc' = "health"
    BY <2>2, <2>6 DEF Timed, Polls, WarmPlaces
  <2>7. CASE pc' = "send"
    <3>1. 1 \in 1..(Count + 1) /\ 0 \in 0..(MaxTries - 1)
      BY Bounds
    <3> QED BY <2>2, <2>7, <3>1 DEF Timed, Polls, WarmPlaces
  <2> QED BY <2>1, <2>4, <2>5, <2>6, <2>7
<1>4. Script => Nearer /\ Timed'
  BY CleanNearer, SimulateNearer, WaitNearer, CasesNearer, WarmNearer DEF Script
<1>5. ASSUME UNCHANGED vars PROVE Timed'
  BY <1>1, <1>5 DEF vars
<1>6. Timed'
  BY <1>1, <1>2, <1>3, <1>4, <1>5 DEF Next
<1> QED BY <1>2, <1>4, <1>6

(* A script has a bounded number of requests ahead of it.  Each of its     *)
(* steps leaves fewer of them, or as many and a shorter list of things to  *)
(* delete, and no step of the engine in between changes that: what is left *)
(* is nothing only when the script has ended, so no answer, refusal or     *)
(* loss makes a script go round for ever (ScriptsEnd without its fairness).*)
THEOREM ScriptsRunOut ==
  Spec => /\ [](RequestsLeft \in Nat /\ (RequestsLeft = 0 <=> pc = "idle") /\ IsFiniteSet(my.todo))
          /\ [][(Script => Nearer) /\ (Engine => UNCHANGED <<pc, my>>)]_vars
<1> DEFINE Bound == RequestsLeft \in Nat /\ (RequestsLeft = 0 <=> pc = "idle")
                    /\ IsFiniteSet(my.todo)
           Step == (Script => Nearer) /\ (Engine => UNCHANGED <<pc, my>>)
<1>1. Init => Timed
  BY DEF Init, Timed, NoLocals, Polls, WarmPlaces
<1>2. Kept /\ Warmed /\ Timed /\ [Next]_vars => Timed' /\ Step
  BY ScriptNearer DEF Kept, Warmed
<1>3. Timed => Bound
  <2> SUFFICES ASSUME Timed PROVE IsFiniteSet(my.todo)
    BY LeftIsNat
  <2>1. IsFiniteSet(Ids)
    BY Bounds, FS_Interval DEF Ids
  <2> QED BY <2>1, FS_Subset DEF Timed
<1> HIDE DEF Bound, Step
<1>4. Spec => []Bound /\ [][Step]_vars
  BY <1>1, <1>2, <1>3, KeptInvariant, WarmedInvariant, PTL DEF Spec
<1> QED BY <1>4 DEF Bound, Step
=================================================================================
