------------------------------ MODULE Campaign ------------------------------
(***************************************************************************)
(* A campaign of simulated alerts and the maintenance scripts around it:   *)
(* clean_shuffle_executions.py, simulate_alerts.py, wait_for_workflows.py  *)
(* (chained by the Makefile target simulate-clean), clean_thehive_cases.py *)
(* and warmup_shuffle.py.  The operator runs one script at a time; the     *)
(* Shuffle backend, Orborus and the worker containers go on by themselves  *)
(* between any two requests of a script, a cleaning included: nothing      *)
(* calls clean() with restart_orborus, which would stop Orborus first.     *)
(***************************************************************************)
EXTENDS Integers, Sequences, FiniteSets, SequencesExt

CONSTANTS
  Count,       \* --count and --expected: the alerts of one batch
  Keep,        \* --keep of clean_thehive_cases
  MaxTries,    \* max_retries of simulate_alerts.send_alert (3 in the code)
  WarmTries,   \* --max-retries of warmup_shuffle (20 in the code)
  MaxPolls,    \* polls that fit into --timeout
  MaxRuns,     \* bound: scripts the operator starts
  MaxFaults,   \* bound: requests whose answer is lost
  MaxExec      \* bound: executions the backend creates

ASSUME CampaignAssumption ==
  /\ {Count, MaxTries, WarmTries, MaxPolls, MaxExec} \subseteq Nat \ {0}
  /\ {Keep, MaxRuns, MaxFaults} \subseteq Nat

Warmup == 0                       \* the alert id WARMUP-TEST
Alerts == 1..Count                \* SIM-WIN-0001, ... : the same in every batch
Ids == 1..MaxExec
Terminal == {"FINISHED", "ABORTED", "FAILED"}

VARIABLES
  doc,      \* status of the execution's document in OpenSearch
  stage,    \* where the execution is: queued, fetched by Orborus, in a container
  alert,    \* the alert each execution was started for
  made,     \* executions created so far
  rows,     \* executions with a row in soar-metrics
  cases,    \* executions with a case in TheHive, oldest first
  pc,       \* the request the running script makes next
  my,       \* the variables of the running script
  runs,     \* scripts started
  faults,   \* answers lost
  flaw,     \* the running script has met a failed request
  batch,    \* executions made since the last batch of alerts began
  purged,   \* executions there were when the last flawless cleaning ended
  loose,    \* those of them Orborus held when the containers were listed
  verdict   \* how the last wait ended

engine == <<doc, stage, alert, made, rows, cases>>
history == <<batch, purged, loose, verdict>>
vars == <<engine, pc, my, runs, faults, flaw, history>>

NoLocals == [i |-> 1, tries |-> 0, sent |-> 0, todo |-> {}, polls |-> 0, finished |-> 0,
             total |-> 0, expected |-> 0, last |-> 0, exec |-> 0, held |-> {}]

Init ==
  /\ doc = [e \in Ids |-> "none"] /\ stage = [e \in Ids |-> "none"]
  /\ alert = [e \in Ids |-> Warmup] /\ made = 0 /\ rows = {} /\ cases = <<>>
  /\ pc = "idle" /\ my = NoLocals
  /\ runs = 0 /\ faults = 0 /\ flaw = FALSE
  /\ batch = {} /\ purged = {} /\ loose = {} /\ verdict = "none"

-----------------------------------------------------------------------------
(* The engine: the Shuffle backend, Orborus and the workers (external). *)

Idle(e) == stage[e] \notin {"queued", "fetched", "running", "cased"}

Move(e, from, to) == stage[e] = from /\ stage' = [stage EXCEPT ![e] = to]

EngineKeeps == UNCHANGED <<alert, made, pc, my, runs, faults, flaw, history>>

Fetch(e) == Move(e, "queued", "fetched")
            /\ UNCHANGED <<doc, rows, cases>> /\ EngineKeeps

Deploy(e) == Move(e, "fetched", "running")
             /\ UNCHANGED <<doc, rows, cases>> /\ EngineKeeps

OpenCase(e) == Move(e, "running", "cased") /\ cases' = Append(cases, e)
               /\ UNCHANGED <<doc, rows>> /\ EngineKeeps

(* The last node writes the row, then the worker reports its end; a purged *)
(* document is not written again.                                          *)
Finish(e) ==
  /\ Move(e, "cased", "over")
  /\ rows' = rows \cup {e}
  /\ doc' = [doc EXCEPT ![e] = IF @ = "none" THEN @ ELSE "FINISHED"]
  /\ UNCHANGED cases /\ EngineKeeps

Break(e) ==
  /\ Move(e, "running", "over")
  /\ doc' = [doc EXCEPT ![e] = IF @ = "none" THEN @ ELSE "FAILED"]
  /\ UNCHANGED <<rows, cases>> /\ EngineKeeps

Engine == \E e \in 1..made : Fetch(e) \/ Deploy(e) \/ OpenCase(e) \/ Finish(e) \/ Break(e)

(* What the hook does with an accepted alert a. *)
Create(a) ==
  /\ made < MaxExec
  /\ made' = made + 1
  /\ doc' = [doc EXCEPT ![made + 1] = "EXECUTING"]
  /\ stage' = [stage EXCEPT ![made + 1] = "queued"]
  /\ alert' = [alert EXCEPT ![made + 1] = a]
  /\ batch' = batch \cup {made + 1}
  /\ UNCHANGED <<rows, cases>>

(* What DELETE /executions/e does: an execution that still runs is marked; *)
(* its containers are not stopped (the comment at warmup_shuffle.py:135).  *)
Abort(e) == doc' = [doc EXCEPT ![e] = IF @ = "EXECUTING" THEN "ABORTED" ELSE @]

-----------------------------------------------------------------------------
(* Requests of a script.  A lost answer counts against MaxFaults. *)

Goto(l) == pc' = l
Fault == faults < MaxFaults /\ faults' = faults + 1 /\ flaw' = TRUE
Fine == UNCHANGED <<faults, flaw>>
End == pc' = "idle" /\ my' = NoLocals
Still == UNCHANGED <<runs, purged, loose, verdict>>
EngineStill == UNCHANGED engine /\ UNCHANGED batch

(* A request without effect on the engine when it fails; the script goes on. *)
Lost(at, next) == pc = at /\ Fault /\ Goto(next) /\ UNCHANGED my /\ EngineStill /\ Still

(* The operator starts a script: clean-shuffle or simulate-clean, simulate *)
(* or simulate-and-report, a wait by hand, clean-thehive, or the warm-up.  *)
Start ==
  /\ pc = "idle" /\ runs < MaxRuns /\ runs' = runs + 1
  /\ flaw' = FALSE /\ verdict' = "none" /\ my' = NoLocals
  /\ pc' \in {"purge_docs", "send", "finished", "listing", "health"}
  /\ batch' = IF pc' \in {"send", "health"} THEN {} ELSE batch
  /\ UNCHANGED <<engine, faults, purged, loose>>

-----------------------------------------------------------------------------
(* clean_shuffle_executions: purge the documents that are not FINISHED,    *)
(* purge the queue, abort over the API, remove the workers.  simulate-clean*)
(* sends a batch of alerts next, clean-shuffle ends.                       *)

(* Mutant: every document is purged. *)
StaleStatusAny == {"EXECUTING"} \cup Terminal

StaleStatus == {"EXECUTING", "ABORTED", "FAILED"}

PurgeDocs ==
  /\ pc = "purge_docs" /\ Goto("purge_queue") /\ Fine
  /\ doc' = [e \in Ids |-> IF doc[e] \in StaleStatus THEN "none" ELSE doc[e]]
  /\ UNCHANGED <<stage, alert, made, rows, cases, my, batch>> /\ Still

(* Mutant: the pending items stay in the queue. *)
PurgeQueueNot ==
  /\ pc = "purge_queue" /\ Goto("list") /\ Fine
  /\ UNCHANGED <<engine, my, batch>> /\ Still

PurgeQueue ==
  /\ pc = "purge_queue" /\ Goto("list") /\ Fine
  /\ stage' = [e \in Ids |-> IF stage[e] = "queued" THEN "over" ELSE stage[e]]
  /\ UNCHANGED <<doc, alert, made, rows, cases, my, batch>> /\ Still

ListExecutions ==
  /\ pc = "list" /\ Goto("abort") /\ Fine
  /\ my' = [my EXCEPT !.todo = {e \in Ids : doc[e] \in {"EXECUTING", "ABORTED"}}]
  /\ EngineStill /\ Still

AbortOne ==
  /\ pc = "abort" /\ UNCHANGED pc
  /\ \E e \in my.todo :
       /\ my' = [my EXCEPT !.todo = @ \ {e}]
       /\ \/ Abort(e) /\ Fine
          \/ UNCHANGED doc /\ Fault
  /\ UNCHANGED <<stage, alert, made, rows, cases, batch>> /\ Still

ListWorkers ==
  /\ pc = "abort" /\ my.todo = {} /\ Goto("remove")
  /\ \/ /\ my' = [my EXCEPT !.todo = {e \in Ids : stage[e] \in {"running", "cased"}},
                            !.held = {e \in Ids : stage[e] = "fetched"}]
        /\ Fine
     \/ UNCHANGED my /\ Fault
  /\ EngineStill /\ Still

RemoveOne ==
  /\ pc = "remove" /\ UNCHANGED pc
  /\ \E e \in my.todo :
       /\ my' = [my EXCEPT !.todo = @ \ {e}]
       /\ \/ stage' = [stage EXCEPT ![e] = "over"] /\ Fine
          \/ UNCHANGED stage /\ Fault
  /\ UNCHANGED <<doc, alert, made, rows, cases, batch>> /\ Still

CleanEnd ==
  /\ pc = "remove" /\ my.todo = {} /\ Fine
  /\ pc' \in {"send", "idle"} /\ my' = NoLocals
  /\ batch' = IF pc' = "send" THEN {} ELSE batch
  /\ IF flaw THEN UNCHANGED <<purged, loose>>
             ELSE purged' = 1..made /\ loose' = my.held
  /\ UNCHANGED <<engine, runs, verdict>>

Clean ==
  \/ PurgeDocs \/ Lost("purge_docs", "purge_queue")
  \/ PurgeQueue \/ Lost("purge_queue", "list")
  \/ ListExecutions \/ AbortOne \/ Lost("list", "abort")
  \/ ListWorkers \/ RemoveOne \/ CleanEnd

-----------------------------------------------------------------------------
(* simulate_alerts: up to MaxTries requests per alert; a 500 and an        *)
(* exception are retried, any other answer ends the alert.                 *)

NextAlert(l) == [l EXCEPT !.i = @ + 1, !.tries = 0]

Accepted ==
  /\ pc = "send" /\ my.i <= Count
  /\ Create(my.i) /\ my' = [NextAlert(my) EXCEPT !.sent = @ + 1]
  /\ UNCHANGED pc /\ Fine /\ Still

Retry(l) == IF l.tries + 1 < MaxTries THEN [l EXCEPT !.tries = @ + 1] ELSE NextAlert(l)

Busy ==                                \* HTTP 500
  /\ pc = "send" /\ my.i <= Count
  /\ my' = Retry(my) /\ UNCHANGED pc /\ Fine /\ EngineStill /\ Still

Refused ==                             \* any other status
  /\ pc = "send" /\ my.i <= Count
  /\ my' = NextAlert(my) /\ UNCHANGED pc /\ Fine /\ EngineStill /\ Still

(* The request timed out; the hook may have started the execution. *)
NoAnswer ==
  /\ pc = "send" /\ my.i <= Count /\ Fault
  /\ my' = Retry(my) /\ UNCHANGED pc /\ Still
  /\ Create(my.i) \/ EngineStill

(* make goes on to the wait only when every alert was answered 200, and    *)
(* not at all in the target simulate.                                      *)
SendEnd ==
  /\ pc = "send" /\ my.i > Count
  /\ \/ my.sent = Count /\ Goto("finished") /\ my' = [NoLocals EXCEPT !.expected = Count]
     \/ End
  /\ Fine /\ EngineStill /\ Still

Simulate == Accepted \/ Busy \/ Refused \/ NoAnswer \/ SendEnd

-----------------------------------------------------------------------------
(* wait_for_workflows: each poll counts the documents in a terminal state, *)
(* all documents and the rows of soar-metrics, in three requests.          *)

Set(l, field, n) == [l EXCEPT ![field] = n]

CountFinished ==
  /\ pc = "finished"
  /\ \/ /\ my' = Set(my, "finished", Cardinality({e \in Ids : doc[e] \in Terminal}))
        /\ Goto("total") /\ Fine
     \/ /\ my' = Set(my, "finished", 0) /\ Goto("total") /\ Fault
     \/ /\ my' = Set(Set(my, "finished", 0), "total", 0)
        /\ Goto("metrics") /\ Fault
  /\ EngineStill /\ Still

CountTotal ==
  /\ pc = "total" /\ Goto("metrics")
  /\ \/ my' = Set(my, "total", Cardinality({e \in Ids : doc[e] # "none"})) /\ Fine
     \/ my' = Set(my, "total", 0) /\ Fault
  /\ EngineStill /\ Still

(* Mutant: the rows are not waited for. *)
SatisfiedWithoutRows(metrics) == my.finished >= my.expected

Satisfied(metrics) ==
  IF my.expected > 0
    THEN my.finished >= my.expected /\ metrics >= my.expected
    ELSE my.total > 0 /\ my.finished >= my.total /\ metrics = my.last /\ metrics > 0

(* Mutant: the deadline is moved on with every poll. *)
PollForever(l, metrics) == [l EXCEPT !.last = metrics]

PollAgain(l, metrics) == [l EXCEPT !.last = metrics, !.polls = @ + 1]

CountMetrics ==
  /\ pc = "metrics"
  /\ \E metrics \in {Cardinality(rows), 0} :
       /\ IF metrics = Cardinality(rows) THEN Fine ELSE Fault
       /\ \/ /\ Satisfied(metrics) /\ End
             /\ verdict' = IF my.expected > 0 THEN "done" ELSE "stable"
          \/ /\ ~Satisfied(metrics) /\ my.polls + 1 = MaxPolls
             /\ verdict' = "timeout" /\ End
          \/ /\ ~Satisfied(metrics) /\ my.polls + 1 < MaxPolls
             /\ my' = PollAgain(my, metrics)
             /\ Goto("finished") /\ UNCHANGED verdict
  /\ EngineStill /\ UNCHANGED <<runs, purged, loose>>

Wait == CountFinished \/ CountTotal \/ CountMetrics

-----------------------------------------------------------------------------
(* clean_thehive_cases: all cases are listed, oldest first; those to       *)
(* delete are deleted one by one, and a failed deletion is passed over.    *)

ToDelete(listed) ==
  IF Keep > 0 /\ Len(listed) > Keep
    THEN {listed[k] : k \in 1..(Len(listed) - Keep)}
    ELSE ToSet(listed)

Without(e) == cases' = RemoveFirst(cases, e)

ListCases ==
  /\ pc = "listing"
  /\ \/ Goto("cases") /\ my' = [my EXCEPT !.todo = ToDelete(cases)] /\ Fine
     \/ End /\ Fault
  /\ EngineStill /\ Still

DeleteCase ==
  /\ pc \in {"cases", "warm_cases"}
  /\ \E e \in my.todo :
       /\ my' = [my EXCEPT !.todo = @ \ {e}]
       /\ \/ Without(e) /\ Fine
          \/ UNCHANGED cases /\ Fault
  /\ UNCHANGED <<pc, doc, stage, alert, made, rows, batch>> /\ Still

CasesEnd ==
  /\ pc = "cases" /\ my.todo = {} /\ End
  /\ Fine /\ EngineStill /\ Still

CleanCases == ListCases \/ DeleteCase \/ CasesEnd

-----------------------------------------------------------------------------
(* warmup_shuffle: one alert is run to its end, then its traces are        *)
(* deleted: the document of the execution that answered, every case and    *)
(* every row of the alert.                                                 *)

CheckHealth ==
  /\ pc = "health" /\ EngineStill /\ Still
  /\ \/ Goto("warm_send") /\ UNCHANGED my /\ Fine
     \/ End /\ Fault

WarmAccepted ==
  /\ pc = "warm_send" /\ Create(Warmup)
  /\ my' = [my EXCEPT !.exec = made + 1] /\ Goto("warm_poll")
  /\ Fine /\ Still

WarmAgain ==
  IF my.tries + 1 < WarmTries
    THEN my' = [my EXCEPT !.tries = @ + 1] /\ UNCHANGED pc
    ELSE End

WarmRefused ==
  /\ pc = "warm_send" /\ WarmAgain /\ Fine /\ EngineStill /\ Still

WarmNoAnswer ==
  /\ pc = "warm_send" /\ WarmAgain /\ Fault /\ Still
  /\ Create(Warmup) \/ EngineStill

(* Mutant: the execution is not waited for. *)
WarmOverAtOnce == TRUE

(* The script waits for "FAILURE", a status the engine never reports       *)
(* (clean_shuffle_executions names it FAILED).                             *)
WarmOver == doc[my.exec] \in {"FINISHED", "ABORTED", "FAILURE"}

WarmPoll ==
  /\ pc = "warm_poll" /\ my.polls < MaxPolls
  /\ \/ WarmOver /\ Goto("warm_delete") /\ UNCHANGED my /\ Fine
     \/ ~WarmOver /\ my' = [my EXCEPT !.polls = @ + 1] /\ UNCHANGED pc /\ Fine
     \/ my' = [my EXCEPT !.polls = @ + 1] /\ UNCHANGED pc /\ Fault
  /\ EngineStill /\ Still

(* The time is over: the execution is aborted while it goes on. *)
WarmGiveUp ==
  /\ pc = "warm_poll" /\ my.polls = MaxPolls /\ Goto("warm_delete")
  /\ Abort(my.exec) /\ faults' = faults /\ flaw' = TRUE
  /\ UNCHANGED <<stage, alert, made, rows, cases, my, batch>> /\ Still

WarmDeleteExecution ==
  /\ pc = "warm_delete" /\ Goto("warm_list")
  /\ \/ doc' = [doc EXCEPT ![my.exec] = "none"] /\ Fine
     \/ UNCHANGED doc /\ Fault
  /\ my' = [my EXCEPT !.tries = 0]
  /\ UNCHANGED <<stage, alert, made, rows, cases, batch>> /\ Still

(* Up to three rounds, until a listing shows no case of the alert. *)
WarmListCases ==
  /\ pc = "warm_list"
  /\ \/ \E found \in {{e \in ToSet(cases) : alert[e] = Warmup}} :
          /\ Fine
          /\ IF found = {} THEN Goto("warm_rows") /\ UNCHANGED my
             ELSE Goto("warm_cases") /\ my' = [my EXCEPT !.todo = found, !.tries = @ + 1]
     \/ Fault /\ Goto("warm_rows") /\ UNCHANGED my
     \/ /\ Fault /\ my' = [my EXCEPT !.tries = @ + 1]
        /\ Goto(IF my.tries + 1 < 3 THEN "warm_list" ELSE "warm_rows")
  /\ EngineStill /\ Still

WarmCasesEnd ==
  /\ pc = "warm_cases" /\ my.todo = {}
  /\ Goto(IF my.tries < 3 THEN "warm_list" ELSE "warm_rows")
  /\ UNCHANGED my /\ Fine /\ EngineStill /\ Still

WarmDeleteRows ==
  /\ pc = "warm_rows" /\ End
  /\ \/ rows' = {e \in rows : alert[e] # Warmup} /\ Fine
     \/ UNCHANGED rows /\ Fault
  /\ verdict' = IF flaw' THEN verdict ELSE "warm"
  /\ UNCHANGED <<doc, stage, alert, made, cases, batch, runs, purged, loose>>

Warm == \/ CheckHealth \/ WarmAccepted \/ WarmRefused \/ WarmNoAnswer
        \/ WarmPoll \/ WarmGiveUp \/ WarmDeleteExecution
        \/ WarmListCases \/ WarmCasesEnd \/ WarmDeleteRows

-----------------------------------------------------------------------------
Script == Clean \/ Simulate \/ Wait \/ CleanCases \/ Warm

Next == Start \/ Script \/ Engine

(* Every request of a script has a timeout, so a script goes on; nothing   *)
(* makes the operator start one, and nothing is assumed of the engine.     *)
Spec == Init /\ [][Next]_vars /\ WF_vars(Script)

-----------------------------------------------------------------------------
TypeOK ==
  /\ doc \in [Ids -> {"none", "EXECUTING"} \cup Terminal]
  /\ stage \in [Ids -> {"none", "queued", "fetched", "running", "cased", "over"}]
  /\ alert \in [Ids -> {Warmup} \cup Alerts] /\ made \in 0..MaxExec
  /\ rows \subseteq 1..made /\ ToSet(cases) \subseteq 1..made
  /\ Len(cases) = Cardinality(ToSet(cases))
  /\ my.todo \cup my.held \cup batch \cup purged \cup loose \subseteq 1..made
  /\ my.tries \in 0..(MaxTries + WarmTries + 3) /\ my.polls \in 0..MaxPolls

(* Reports count the FINISHED executions of every campaign: no script but  *)
(* the warm-up, of its own execution, ever removes or changes one.         *)
FinishedSurvive ==
  [][\A e \in Ids : doc[e] = "FINISHED" /\ doc'[e] # doc[e]
                       => pc = "warm_delete" /\ e = my.exec]_vars

(* What a cleaning that met no failed request may leave behind, although   *)
(* Orborus fetches and deploys all the while: only executions Orborus held *)
(* when the containers were listed, neither queued nor in a container any  *)
(* more, and no document of them, so that no wait and no report sees them  *)
(* (the order of the steps of clean_shuffle_executions.py:288-306).        *)
SurvivorsWereHeld == \A e \in purged : Idle(e) \/ (e \in loose /\ doc[e] = "none")

(* What simulate-clean is for: "avoid Orborus re-executing stale workflows *)
(* (which creates duplicate TheHive cases)" (Makefile.win:312-313), by     *)
(* containers removed "so Orborus starts from a clean slate"               *)
(* (clean_shuffle_executions.py:16-17): after a cleaning that met no failed*)
(* request nothing of what there was goes on.  It does not hold.           *)
StaleAreGone == \A e \in purged : Idle(e)

(* A wait without --expected ends only when nothing executes any more; one *)
(* with --expected = Count ends only when every alert of the batch has its *)
(* metrics, provided the batch is the first one and no retry doubled it.   *)
WaitIsHonest ==
  /\ verdict = "stable" => \A e \in Ids : doc[e] # "EXECUTING"
  /\ verdict = "done" /\ batch = 1..made /\ made = Count
       => \A e \in batch : e \in rows /\ doc[e] \in Terminal \cup {"none"}

(* A warm-up that lost no request and whose execution ended in time leaves *)
(* no document, row or case of it, and nothing that could still write one. *)
WarmupLeavesNoTrace ==
  verdict = "warm" =>
    \A e \in batch : /\ doc[e] = "none" /\ Idle(e)
                     /\ e \notin rows /\ e \notin ToSet(cases)

(* Every script ends, whatever the engine does. *)
ScriptsEnd == pc # "idle" ~> pc = "idle"
=============================================================================
