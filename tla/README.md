# Formal models of the SOAR ransomware lab

TLA+ models of the lab's own control logic, TLC configurations that check them
on small instances, and theorems that TLAPS proves for every instance. Paths
are relative to the repository; `workflow/` stands for
`scripts/setup/shuffle_workflow/`, `soar_lab/` for `src/soar_lab/`.

## 1. Inventory of the system

`make up` starts the containers and runs setup scripts that give every service its
accounts and keys and put a workflow into Shuffle. A simulator or a SIEM then posts
ransomware alerts to the webhook of that workflow. Shuffle runs one *execution* of
the playbook per delivery: it opens a TheHive case, asks Cortex, MISP, Tenzir, the
network watcher, Redis and Loki about the indicators, scores the answers, then
either has the host contained or closes the case as a false positive, and
indexes metrics in Elasticsearch. A FastAPI service offers the containment endpoint,
KPIs, backups, views of the other services and a WebSocket; it reaches them through
HTTP clients that have a circuit breaker each.

| Component (code) | State it keeps | Operations | Interacts by | Hard behaviour | Correct when |
|---|---|---|---|---|---|
| Playbook nodes (`workflow/workflow_actions.py`, `workflow/scripts/*`) | results stored per node | about 45 nodes: builders, requests, verifications, guards | results substituted for `$node`; HTTP | parallel branches and joins, failed requests, nodes run twice, aborts, re-delivered alerts | the response matches the decision, the decision the evidence, the metrics what happened |
| Scoring (`workflow/scripts/calc_decision.py`) | none | one straight-line script | reads 11 results | answers missing, malformed, in any order; caps | more evidence never lifts containment |
| Workflow construction (`workflow/cortex_setup.py`, `build_branches`) | the deployed workflow, the analyzers enabled in Cortex | select analyzers, wire the rest, filter nodes and branches | Cortex REST API | what Cortex offers changes, exceptions half way | every node runs, nothing is read too early |
| Service accounts (`scripts/setup/configure_es.py`, `reset_cortex.py`, `init_thehive.py`, preserve and restore) | indices, users, keys of Cortex and TheHive, `.env.full`, `thehive.conf`, a backup of keys | wipe, create the users, issue and store keys | REST APIs, files, container environments | a copy of a key is stale, a script is killed or run again | every party holds the key the other accepts |
| Shuffle accounts (`workflow/es_fixes.py`, `fix_org_users.py`, `clients.py`) | four copies of the admin's key | log in, reindex the users, synchronise | OpenSearch, Shuffle API | an index is deleted and filled again | the admin survives, the copies agree |
| Workflow deployment (`workflow/shuffle_setup.py`, `scripts/setup/init_shuffle_webhook.py`) | workflows, hooks, tokens, `webhook_info.json` | create, repair, delete the old, register the hook, publish the token | Shuffle API, OpenSearch, files | killed between two steps, repeated by hand | the token starts one whole, live workflow |
| Engine, Orborus (vendored Go) | queue, execution status, results | fetch, start ready nodes, store results | containers, HTTP | lost results, stale executions | taken as a contract |
| Simulator and maintenance (`soar_lab/simulator/`, `scripts/maintenance/*`) | none of their own | send a batch, clean, wait, delete cases, warm up | Shuffle API, OpenSearch, Docker, TheHive | run beside live executions, retries after lost answers | finished executions stay, a cleaning leaves only what Orborus held |
| Circuit breaker (`soar_lab/resilience/circuit_breaker.py`) | state, failures, time of the last failure | `call`, context manager, `record_*`, `attempt_reset` | shared by request threads, no lock | unlocked read-modify-write | sequential contract; recovers |
| Retry, timeouts, transactions (`soar_lab/resilience/`, `soar_lab/db/transaction.py`) | attempts, result cells, signal handler | retry, run in a thread with a deadline, commit in a thread | threads, SIGALRM | the work outlives its deadline | the caller is told what happened |
| Integration clients (`soar_lab/infrastructure/integrations/`) | a session and a breaker each | 69 operations of five clients | HTTP through adapter and breaker | resending, lost answers, overload | nothing is created twice; success is true |
| Alert sender (`soar_lab/infrastructure/http_alert_sender.py`) | bounded queue, results by index, counters | `send`, `send_batch` | worker threads | full queue, sentinels, join timeout | one result per alert, in order |
| Network watcher (`soar_lab/infrastructure/network_watcher/`) | containers' networks and hosts files | event loop, attach and injection threads, HTTP handlers | Docker API, threads | list-then-subscribe, read-modify-write of files, restarts | every container it hears of is served |
| Backups (`soar_lab/infrastructure/tar_backup_driver.py`, `backup_service.py`) | archives | create, restore, list, clean up | tar as a child process | tar fails, hangs, or the archive goes | no file is lost, a reported backup is there |
| WebSocket manager (`soar_lab/infrastructure/websocket_manager.py`) | list of connections | connect, disconnect, broadcast | coroutines | list changes across an await | misses are only what removals explain |
| HTTP API (`soar_lab/interfaces/api/`) | none | `/soar/*`, backups, analytics, `/contain`, `/ws/logs` | the clients, the event loop | errors shown as content | an answer shows what the service said |
| KPIs (`soar_lab/domain/`, `soar_lab/application/use_cases/`, `soar_lab/data/calc_kpis.py`) | metrics index, log of runs | statistics, pairing, groups of nodes, KPI alerts | Elasticsearch, files | percentiles, overlapping runs, values of any type | the figures are what they are called |
| Authentication, validation, configuration, reports, persistence, dashboards | rows, files | one statement or one request each | SQLite, files | little | conversions |

`PROJECT.json` lists every component with its status, and every hazard at the
line where it bites with the properties that cover it, or a note why none does.

## 2. Modules

| Module | Models | State and actions |
|---|---|---|
| `CalcDecision` | `calc_decision.py` | no state; one operator per numbered section: `BaseScore` (1-4), `AnalyzerScore` (5, 5b), the bonuses (6-10), `Verdict`, `Decision` |
| `Enrichment` | the same script while answers arrive | `evidence` is what the script would read now; one action per kind of answer |
| `Playbook` | an execution from webhook to metrics, several at once | per execution `status`, `done` (stored results), what scripts read, and the services: `cases`, `events`, `job`, `contained`, `indexed`, `metrics`; one action per effectful node |
| `WorkflowGraph` | the node and branch lists of a deployed workflow | `enabled`, `wiring`; actions `Setup`, `SetupInterrupted` |
| `SetupRun` | what all setup scripts share | the step of the run, `.env.full` (`env`), the container's copy of it (`box`), keys as numbers (`fresh`); the ways a request fails: end the script, be shrugged at (`missed`), with a warning in the log or without (`Untold`) |
| `ServiceAccounts` | Cortex and TheHive | `index`, `users`, `key`, `conf`, `backup`; one action per request or file written |
| `ShuffleAccounts` | Shuffle's admin | `doc` (two indices), `member`, `bearer`, `osenv`; the reindex as read, delete and insert |
| `WorkflowDeployment` | the workflow and its hook | `flows`, `hooks`, `held`, `info`, `hostInfo`; one action per request, `RegisterHook` to `SetupKpis` after it |
| `Deployment` | composes the four above | the order of the Makefile, scripts run by hand, `Crash`, `MakeReset` |
| `Campaign` | `clean_shuffle_executions`, `simulate_alerts`, `wait_for_workflows`, `clean_thehive_cases`, `warmup_shuffle` | `doc` and `stage` of each execution, `rows`, `cases`, the running script; one action per request, the engine's in between |
| `BreakerContract` | what a circuit breaker promises one caller at a time | abstract: `phase`, `streak`, `age` |
| `CircuitBreaker` | `circuit_breaker.py`, an attribute access per step | `state`, `failures`, `age`, a program counter per thread |
| `IntegrationClients` | the public operations of the five clients | no state; an operation is a sequence of requests, each with its verb, its effect, the way it takes (breaker, session or neither) and what a failure does |
| `ServiceCall` | `BaseHTTPClient`, its adapter and breaker | `objects` the service holds, the breaker's variables, the operation under way; a request is admitted, answered, refused, resent, lost |
| `SoarRoutes` | `/soar/*` | the endpoint served and its answer, around an operation of `ServiceCall`; `heard`, what the service said to the last request (something, nothing, a refusal, or silence) |
| `Resilience` | `RetryPolicy`, `TimeoutHandler`, `timeout_context`, `TransactionManager` | the caller, the second thread, what each left for the other, the transaction |
| `ShuffleSession` | the constructor, keepalive thread and end of `ShuffleClient` | the key in Shuffle's index and cache, the session's `header`, the places of the `owner` and of the `keepalive` thread; an action per request |
| `ServiceCalls` | composes the five above | a behaviour is that of one client's caller, of one helper or of one session: the code nests none in another |
| `BatchContract` | what `send_batch` promises its caller | abstract: what became of each alert, what the caller was told |
| `AlertBatch` | `http_alert_sender.py`, caller and workers | `queue`, `results`, the counters; one action per queue operation, request, counter access and result |
| `NetworkWatcher` | the watcher's process beside Docker | `life`, `net`, `hosts`, `resolv`, `socket` of the containers, `events`, `threads`; an action per Docker call |
| `Backups`, `LiveLogs` | the backup service, the WebSocket manager | the directory `tree`, `archives`, the `request` served; `active`, the sockets, the broadcast |
| `ApiServer` | composes the two on one event loop | a request is taken when the loop is free; a backup does not let it go |
| `KpiStatistics` | the statistics, as functions | no state; percentiles, pairing, groups of nodes, figures by type and by service, KPI checks |
| `Kpis` | what is written and asked, in any order | `index`, `log`, the `report` of the request served |
| `MCFigures`, `MCPlaybook`, `MCWorkflowGraph` | instances for TLC | `MCFigures` is of `Enrichment` and `Kpis`, one or the other in a behaviour; the other runs need numbers and model values only |
| `*Proofs` | theorems | |

How actions correspond to code. An action is a request, a write or an access that
something else can come before, with all that the code does on its result up to the
next such point. Its guard is the place of the program (`pc`, `at`, a stored result)
and the conditions of the code; every error path is a disjunct.

In `Playbook` the guard `Ready(e, n, parents)` is the engine's rule: a node starts
when all its parents in `build_branches` have a result. The action is the whole
node with the builder before it and the verification after it, since these only
pass on what they print. Failing requests take the branch `Fail`: HTTP nodes report an
error body and the workflow goes on, scripts log and print nothing, which leaves an
empty message. `Lose` is a worker that dies after the effect and before the
result is stored: the node is run once more. `Raises` is the exception of
`calc_decision` on a port or a counter that `int()` refuses; the message is then no
JSON, which every guard parses as `observe` and the metrics keep as text (`"garbled"`).

In the setup modules `Exit` is a script that ends with an error, which the Makefile
either repeats (three attempts) or gives up on; `Shrugs` is a failure that is
passed over and kept in `missed`, a history that no step reads. Many leave no trace a
reader of the log would look for: the DELETE of an old workflow is logged as a success
whatever its status was, the hook is put by a `curl` without `-f`, and the status of the
PUT that repairs the branches is a number in a line of level info. `Untold` names
them, and a kind that is told in one case and not in another is among them. A key is a number, and a service accepts
the last it issued, so a stale copy is a copy of a smaller number. `Crash` kills the
run between any two steps, and what the script had in hand is gone.

In `Campaign` the engine is what the scripts see of it: a document that says
EXECUTING, a place in the queue, a container, a case, a row of metrics. A script's
request is one step, with the filter it sends taken at that moment; the engine and
Orborus move between any two. Orborus is up all the while: `clean()` can stop it
(`restart_orborus`), but `main()` does not ask for it (line 342), and neither does
anything else.

In `CircuitBreaker` every read and every write of an attribute is a step, because the
class has no lock. `failures` stops at the threshold and `age` at the
recovery time: the code compares them with these and nothing else. `ServiceCall` uses the
breaker as one caller at a time does, which `SerialContract` justifies, and is held to
`BreakerContract` itself.

In `AlertBatch` an alert is its index and the sentinel `None` is 0. A worker's `send` is
three steps: the request, the read of the counter, and its write. `Join` may return before
its worker is over, and the workers are daemons, so they go on while the caller
lists the results.

In `NetworkWatcher` threads at the same place with the same data are one, since what
they do to a container is the same done twice; a creation is handled by the event
loop itself (`sync`), a start in a thread. An exception of Docker ends a thread with a line
in the log, except in `inject_hosts_file`, which tries again.

In `Backups` tar is external: it adds or extracts file by file, may leave out one it
cannot read (status 2) or end with 1 because one changed under it, may be cut short by a
full disk (2) or by its time limit (told as -1), and leaves what it has written. The
blocking `subprocess.run` in an `async` handler is why `ApiServer` serves nothing else in the meantime.

Abstractions of data are of this kind: an alert is a model value with a profile,
a score is the integer the script computes, a report is a status and a set of
taxonomies, the content of a file is a version number, a mean is a total and a count.

## 3. Runs

| Run | Bounds | Shows |
|---|---|---|
| `figures` | 4 alerts, on either side of each threshold and one of a confidence of 150; 2 analyzers, 4 reports, one of 120; 2 or 12 hits, below and above every cap; or 7 kinds of documents on either side of each limit, one or ten at a time, 3 nodes, 3 seconds, 3 writes | the decision to contain is stable under further evidence although the verdict and the score are not; no service convicts alone; the percentiles, the pairing, the groups and the checks are what they are called |
| `workflow_graph` | 6 analyzers, every subset enabled at first, any number of setups | all nodes run, all reads are upstream, everything is awaited |
| `playbook` | 2 executions, 2 alerts (one rejected), `MaxFaults` = 1 | no contained false positive; decision, metrics and notices are true; executions end |
| `breaker` | 2 threads, `Threshold` = 2, `Recovery` = 2 | what the races leave of the contract; recovery |
| `alert_batch` | 4 alerts, 2 workers, a queue of 2 | `AlertBatch` implements `BatchContract`, liveness included |
| `deployment` | 3 starts, one failure or crash anywhere | after a run whose log tells of no failure all copies of every key agree and one workflow serves the token, except for what each untold failure costs (`SetupIsWhole`); the admin is lost only by a reindex that was cut short; only the swap interrupts the service; setup ends |
| `campaign` | batches of 2, 2 scripts, 3 executions, one lost answer, 2 tries and 2 polls | no script removes a finished execution; a cleaning leaves only executions that Orborus held when the containers were listed, and no document of them; a wait and a warm-up mean what they say; scripts end |
| `service_calls` | 4 operations of one client, 2 resends, 2 polls, 2 pages, 2 events fetched, `Threshold` = 2; a helper with at most 2 retries; a session with 3 keys and 2 failing requests | no hidden duplicate; success is true, and an answer is what the service said or, where it is an error, stands for silence or a refusal; the breaker keeps its contract, outcomes are true, a healed key is one Shuffle accepts, calls end |
| `network_watcher` | 2 containers, one of Shuffle; 2 services; one change, one failing call, one restart; 2 attempts | whatever order the threads take, no gap is left; the watcher comes to rest |
| `api_server` | 2 files with 2 contents, 2 seconds, one change, 2 connections, 3 requests; tar with status 0, 1, 2 or -1 | a restore adds and never overwrites; a reported backup is there, and complete if tar ended with 0 or 1; a broadcast misses only through removals; the loop gets free |
| `no_duplicate_case` | as `playbook` | ends in a counterexample, see below |
| `stale_executions` | as `campaign` | ends in a counterexample, see below |

Why the bounds suffice. Interference between executions is through the case
list, the MISP events and the metrics index, pairwise, so two executions of the
same alert show it; the proofs cover any number. The alert in `MCPlaybook` is
worth 75 by itself, so each single piece of evidence turns the decision. A second
optional node of a kind would only commute with the first. Two threads are enough for
every race on one attribute, and a threshold of 2 is the least at which a lost
count matters. With four alerts and a queue of two some are refused while others wait
and others are with a worker, and a refused one can be followed by one that is let in.

In `deployment` three starts are a setup, one that is cut short or a script by hand,
and the repetition that has to live with what it left; the Makefile's three attempts
fit into each. One failure separates every consequence of `SetupIsWhole` from the
others, since each is excepted under its own failures only; the theorem is about any number.
In `campaign` three executions let a retry double one alert of a batch of two, and two
scripts let one meet what the other left. In `service_calls` two resends separate the
first, a middle and the last attempt; four operations open, test and close the
breaker. For a session three keys
are one given, one issued while the client is made and one after; a failing request and a
second one are the probe and the read of the real key. In `network_watcher` the second container is one the watcher must leave alone;
the injections of one container race with each other, those of two do not touch.
In `api_server` two seconds make archives of one name and of two; three requests
are two connections and a broadcast, or a backup beside them. In `figures` batches of
ten push a share of failures over and under 15 per cent, and three nodes make a chain
in which the first and the last are further apart than the window.

Deadlock checking is off where the system may stop: executions are over, services
have answered, the operator starts nothing more. The largest passing runs are `figures`
with 854,294 distinct states, `api_server` with 524,945 and `deployment` with 402,265.

### Where the repository's statements and the code disagree

Two runs end in a counterexample.

* `no_duplicate_case` checks what `tests/integration/test_idempotency.py:64-66` asserts,
  that a duplicate alert creates no duplicate case: the request is unconditional, and
  the idempotent script is loaded by no node.
* `stale_executions` checks what `make simulate-clean` is for (`Makefile.win:312-314`: "to
  avoid Orborus re-executing stale workflows"; `clean_shuffle_executions.py:16-17`: "so
  Orborus starts from a clean slate"). An execution that Orborus fetched before the queue
  was purged and deploys after the containers were listed runs the playbook again,
  although no request of the cleaning failed. `SurvivorsWereHeld` of run `campaign` is what does
  hold: nothing else survives, and no document does.

The others are of the text and the code, and the runs named show what the code does.

* `service_calls`: the docstring of `install_analyzer` (`cortex/client.py:245-248`) says that a
  409 "is treated as success"; the code raises (line 272). `SuccessIsTrue` passes because
  nothing is reported as done.
* `api_server`: `tar_backup_driver.py:61-62` speaks of files that change while tar reads
  them (status 1); line 63 forgives every status if there is an archive with
  bytes in it. With 2 or -1 a file that was there all the time can be missing
  from a backup that is reported, and the archive can be torn.
* `deployment`: "Hook registered correctly" (`shuffle_setup.py:346`) and "Deleted previous
  workflow" (line 302) are logged whatever was answered.
* `campaign`: the module's docstring (`clean_shuffle_executions.py:12-13`, "delete every
  document") is older than lines 97-98 and 108-119, which keep what is FINISHED.
* `figures`: `docs/04-operations.md:6035` and `:6051` give the score as 0 to 100;
  `calc_decision.py:150-152` and `:211-212` cap neither the confidence of an alert nor the
  values of analyzers, only the bonuses cut to 100. So the score may be above 100, and fall
  to 100 when more is heard.

### What else reading the code showed

These are visible in a line or two of the source, so no run is spent on them.

* Playbook: the answer to Cortex's `POST .../run` is read before the job is over; the
  critical notice is sent although the containment request failed; `calc_decision` looks
  for Loki's `data` beside `body`; analyzers with a node of their own are wired a
  second time, because the comparison of names misses their version.
* Setup: `restore` reads a `cortex_api_key` that `preserve` never saves; `make reset`
  deletes the backup of keys it has just made; a reindex of Shuffle's users that is cut
  short loses what it had read (`AdminSurvives` exempts that, and says that nothing else
  does).
* Maintenance: the warm-up waits for a status "FAILURE" that the engine never reports;
  `wait_for_workflows.py:2` promises to wait for all executions, lines 78-80 end with
  `--expected N` as soon as N are over and N rows exist, those of earlier batches included.
* Watcher: a worker that starts between the listing and the subscription is attached by
  neither (lines 362-374). The comment at line 381 says that a creation handled
  synchronously is joined before Orborus calls start; nothing makes Orborus wait.
* Backups: a backup holds the event loop until tar is over. `CleanupService`, whose
  removal of archives is an action of `Backups`, is constructed by nothing in the product.
* Alert sender: `http_alert_sender.py:151` promises an `AlertSendResult` for each alert, line
  193 puts a plain dict for one whose worker timed out; `AlertBatch` tells the two apart by
  what they say, not by their type.
* WebSocket: "Broadcast to all" skips the connection after one that is removed.
* API: every lookup behind `get_execution` shrugs, so an outage shows as 404; a service that
  refuses is shown like one that is away, so the 404 of a case that is not there becomes
  a 502 (`routes_soar.py:83-86`) and a health check that is answered 401 becomes
  "unreachable", which `AnswersAreHeard` admits; MISP's
  `GET`s go round the breaker; `bulk` overwrites documents of the same identifier.
* Helpers: `retry.py:44` calls `max_attempts` the "Maximum number of attempts", and the
  function is called once more than that. The timer of `timeout_context` may fire while
  the block is being left: once the old handler is back, the default of which ends the
  process, or just before, when the exception keeps the old handler from being put back.
* Sessions: `client.py:119` promises that garbage collection cleans the keepalive thread
  up, but the thread's target is a method of the client, which is therefore no garbage
  while the thread runs; only `close()` ends it. The key is healed once, so one that is
  issued later is refused until the API is restarted.
* KPIs: nothing stores test runs, so the health score never sees coverage and cannot
  exceed 80; `aggregated_kpis` ignores its `hours`; nothing writes the `health_score`
  documents that are read; a node that never started has a negative offset
  (`node_timing_extractor.py:175-181`). `KPIAlertManager`, `broadcast`, `CleanupService` and
  the storing methods of the repositories are not called by the product.

## 4. Fairness

`Playbook`: weak fairness of a step of some execution. A worker keeps asking for
the next node until its execution is over, and each node has a timeout. Nothing is
assumed of deliveries, of Cortex (`JobEnds`) or of the operator (`Abort`).
Since `Lose` is bounded by `MaxFaults`, a node is not lost for ever: the result is
conditional on finitely many losses.

`CircuitBreaker`: weak fairness of each thread's step (threads are scheduled and
requests have a timeout), of time, and of some idle thread starting a call (traffic goes
on). `Recovers` asks for recovery only once the service is sound for good.

`AlertBatch`: weak fairness of the calling thread and of each worker. A worker in
`sending` may still take longer than the join of 30 s, the branch of `Join` that
gives up.

`Deployment`, `Campaign`: weak fairness of the running script, whose requests have time
limits; none of the operator who starts it, of crashes, or of the engine.

`ServiceCalls`: weak fairness of the endpoint or operation under way (requests have
time limits, the adapter's resends are counted) and of the helper's caller. Nothing
is assumed of the second thread: the function given to a `TimeoutHandler` may hang.
For a session, weak fairness of the constructor's requests, the join and the garbage
collection of what nothing refers to, and of the keepalive thread; none of the owner who
closes a client or lets go of it.

`NetworkWatcher`: weak fairness of the main thread and of the others together. Orborus,
the services and the end of the process are not fair.

`ApiServer`: weak fairness of the request's handler, the time limit of the child
process among its steps, and of the coroutines' turns; none of tar itself, which may hang.

`Kpis` has no liveness: a request is one step.

## 5. Proofs

Eight modules hold theorems; `PROJECT.json` lists those a reader should know of. The
assumptions are the named ones on constants in the modules proved about: bounds
are numbers, and what is said to be an alert, a container or a file is one. No bound on
faults, runs or time is used beyond that, so the theorems hold of every value of
it. Each inductive invariant was checked by TLC before it was proved, each action
is a lemma or a step that names the parts it can disturb.

`PlaybookProofs` proves the type invariant and the five safety properties of run
`playbook` for any executions, alerts, optional nodes and faults. None is inductive by
itself: that a case closed as a false positive is not contained needs that a decision
is not changed once an effect rests on it. The invariant is a conjunction, in the
order in which each part needs those before it:

1. *order*: a stored result implies the stored results of its parents, and nothing
   is stored before the execution started;
2. *decided*: the decision is stored exactly when `calc_decision` is, and equals
   what the evidence calls for (evidence nodes precede it in the join);
3. *acted*: a served containment, a containment message or a critical notice implies
   the decision to contain, an informational one its absence, and after
   both notification nodes exactly one of them is there;
4. *owned*: the case recorded for an execution is one that it created;
5. *benign*: a case marked as a false positive belongs to an execution that decided
   otherwise than contain;
6. *truthful*: a metrics document belongs to an execution whose response is complete
   and copies its containment and its decision, and no two share an identifier.

`ThreadProofs`: what threads share without a lock. Of the breaker the type invariant and
`SerialContract`, for any threads, threshold and recovery time: a step of an operation
that no other one overlapped refines `BreakerContract`. The invariant says which value
each local variable and attribute has at each place of such an operation; nothing is
claimed of overlapping ones beyond types, which is why any history of races may come
before. Of the network watcher the type invariant, `AllServed`, and that the event
loop is held only while a thread is about to release it. The invariant follows the
obligation: a container that was heard of and is running, and that does not have
everything, has an event waiting or a thread that still owes it what is missing; a
connection is there once it is noted; and what a thread read of a container that has not been
started again since is still so.

`FigureProofs`: what the lab calculates. Of `Enrichment` the type invariant and
`ContainIsStable` and `NoSingleServiceConvicts`, for any confidence, and any scores that
are not negative. The
invariant only adds that what has not answered has said nothing. One lemma for each
section of the script: the score does not fall when more is heard, nor does what the
decision looks at beside it; the caps bound what a single service adds.

Of `Kpis` the other four properties of run `figures`, for any documents, loads, labels and
lengths of time. The invariant is short: an answer is what the statistics are of the
index and the log, which do not change until it is read, and these are finite. The rest
is about the operators, each for every input:

* the sum over a finite set splits at any subset, and does not depend on the way its
  elements are taken; a fold of a sequence is the sum over its places;
* the order of a finite set by the number of those up to each is a bijection,
  ascending if the numbers come of one, and so a sorted sequence has as many
  places with a value up to any limit as the sequence it sorts;
* starts and ends, each sorted for itself, pair so that every difference is
  between 0 and the longest run: where the k-th end came before the k-th
  start, more runs would have ended than started. So no pair is dropped
  and the total telescopes to what the runs took;
* the nearest rank is the least value that enough others do not exceed;
* one step of the loop over the nodes keeps the closed groups bursts and the nodes seen
  before in them, in the order of their starts;
* the mean over the recent documents is within its limit, and each service fails rarely
  enough, when the status of the check is fine, by counting the documents of each kind.

They assume that the times to respond are integers (negative ones, of alerts
said to be detected later than now, among them) and the labels a finite set of
numbers. `PairingKeepsTheTotal` has a condition that the code gives: the
statistics leave out what took an hour or more.

`AlertBatchProofs`: that every step of `AlertBatch` is a step of `BatchContract` or a stutter,
for any alerts, workers and queue (one without a bound among them), with the
invariants that carry it: an alert is refused only after as many as the queue holds were
let in; nobody is forgotten; nothing is posted twice; counters tell of no more than
has been answered. The inductive invariant says where an alert can be: the queue holds
alerts in ascending order and sentinels behind them; an alert that was put and
has no result is in the queue or with exactly one worker; as many sentinels were
put as are in the queue or have stopped a worker. For the counters, what is
recorded or about to be bounds the counter and every stale value read of it.

`ServiceCallsProofs`: the six safety properties of run `service_calls`, for any
retries, threshold, polls and pages. Each of the 69 operations is shown *safe*: what
creates an object uses a verb the adapter does not resend. From it, that a request
in hand that creates leaves room for one more object; that a request reported as done
was applied; that the answer shown is what was said to the last request, and that an error
stands for silence or a refusal. `BreakerKept` needs only that each part
of a request takes the breaker through a step of the contract. For the helpers, the
invariant says for each kind what the caller's place implies about the second
thread's result, the transaction and the number of tries. For a session it says that
what Shuffle accepts has been noted since the client was made, and that the client's key
is among it once the probe or the read of the real key is over.

`SetupProofs`: of `Deployment` `AdminSurvives` and `OnlyTheSwapInterrupts`, for any number of runs
and faults. The invariant: while the reindex holds something, it is the admin; while
a script is logged in, the admin's document is there, unless a reindex was cut short;
issued numbers are fresh, and the old workflows a script has listed are smaller
than the number of its own; the new workflow exists and is not among the old when these are
deleted; its hook leads to it when the token is written, unless the script has logged
that the hook was missed.
Beside it stands what a `make up` leaves whose log tells of no failure (`Sound`):
`KeysAgree` (`EveryPartyHasTheKey`), `OneWorkflowServes` (`TokenLeadsToOne`) and both,
`SetupIsWhole` (`SetupLeavesItWhole`), for any number of faults. Each consequence is claimed unless
one of a few untold failures came before it in the same run, and only those that break it are
named: without the status of a deletion there may be two workflows, but the token still leads to
the new one. A second invariant, `Sequence`, follows a run that has told of
nothing through its scripts; each part says what holds from a step on, under the absence of the kinds
it hangs on, and that what a script is through with no later one of the run changes. `Entered` says
what Cortex's index takes unless a template or a deletion was missed; `Shuffled` and
`Copied` follow Shuffle's key through the indices; `Workflow` follows the new one. A
key in hand is the one the service accepts, then it is in `.env.full`, then in
`thehive.conf`, then in what runs. Shuffle's key is the same in both indices and the
member when the first pass is over, and the second finds it there. The new
workflow is built with TheHive's key, stands beside old ones, then alone, and is
named by token, hook and files in turn. Only `make up` goes on after the webhook script, so
that a script run by hand ends without a claim.

Of `WorkflowGraph` its three properties, for any finite catalog of
analyzers and any choice among them. What is upstream of a node, and whether it runs, are
recursive functions of the number of steps. A depth is given to every node, on
which each branch ascends: then what is reached in as many steps as the depth is
reached for good, and going once through all nodes is enough. The paths that the
properties need are then written down.

`CampaignProofs`: `SurvivorsWereHeld`, `FinishedSurvive`, `WaitIsHonest` and
`WarmupLeavesNoTrace`. The first invariant follows a cleaning that
has lost no request, with Orborus beside it: once the documents are purged none is left of
what was not finished, and nothing writes one for an execution that has none; once the queue is
purged none of them is queued; once the containers are listed, whatever runs is on the list or
was held by Orborus then; what was removed from it is over, and an ended execution does not
start again. The
second follows a wait: it has counted no more ended executions than there are, which only
become more, and when it has counted no fewer than there are documents, the two sets are
the same. What counting a subset says is the library's theorem on finite sets. The
third follows a warm-up that has met no failed request: its execution is the only one made
since it began, has ended when the polling is over, and then loses its document and its
case, which stands in the list of cases once, so that taking out its first occurrence
takes it out.

`ApiServerProofs`: `RestoreAddsWhatIsMissing`, `ReportedBackupIsThere` and
`MissesAreRemovals`, for any files, contents, changes, connections and removals of
archives. The invariant: a file that nobody changed since the request came is, during a
restore, as it was if it was there, and as in the archive once handled; during a backup
the archive holds every handled one as it was, unless the status has become 2; a tar that ended
with 0 or 1 has written its file to the end. The
iterator of a broadcast divides the list of connections: nobody ahead of it was reached,
and of those behind it no more were passed over than were removed, since a removal moves
the list by one place; who joins meanwhile comes last and was not there at the start.

Induction over numbers and finite sets is done without the library's induction theorems,
which take an operator as a parameter: the set of what is true for all smaller
numbers, or for all smaller subsets, has no least counterexample, because a set
of numbers has a least element. For the same reason `KpiStatistics` says what sorting and
selecting give by the places of the elements, instead of taking `SortSeq` and
`SelectSeq`, which no prover can expand.

### What ends

That something ends is liveness, which the prover cannot reach, but most of the argument
is safety: a measure of what is left that each step lessens, and a process that can go
on until nothing is left. Where the code makes either hard to see it is proved, by
an invariant of its own, for all constants:

| theorem | what is left to do | what was in doubt |
|---|---|---|
| `NoDeadlock`, `BatchEnds` | seven steps for each alert and each worker | the caller waits at the full queue, workers at the empty one, the joins for the workers |
| `NoJoinWaits`, `StepsRunOut` | a result for each node, and the faults | a join behind a branch that was not taken would wait for good |
| `WatcherNeverStuck`, `ThreadsEnd` | the retries and injections of a thread; one step leaves at most three threads, each with less | a thread that waits for the event loop while nobody frees it |
| `SetupRunsOut` | at most 1149 steps, and the old workflows a script has listed | scripts that retry, `make up` that goes on after a failed one, the second pass |
| `ScriptsRunOut` | the requests of the script, then its list to delete | polls that read what the engine changes meanwhile |
| `RequestsEnd`, `BroadcastsEnd` | four steps of the handler; two for each client and one more | the list of clients changes under the iterator |
| `TriesRunOut`, `HelpersEnd` | the tries over all requests, pages, polls and retries; the caller's tries | the adapter retries below an operation that retries; a second thread that hangs or answers late |

Each measure is a number, except where a list is worked off: there it does not grow while the
list, a finite set, gets shorter. For the setup, the scripts, the API and the calls the
measure is nothing exactly when the process has ended; that it can take a step until then
is left to TLC, whose runs check the liveness itself, and so is all that fairness adds.

### Only model-checked

All liveness (`ExecutionEnds`, `Recovers`, `SetupEnds`, `ScriptsEnd`, `CallsEnd`, `Settles`,
`LoopGetsFree`, and the fairness of `KeepsContract`): from the theorems above to these
it takes fairness, and so `ENABLED`, which are out of the prover's reach. Nothing of
`Recovers`, nor of what `CallsEnd` says of endpoints and of the keepalive thread of a
session, is proved.
`NoDuplicateCase` and `StaleAreGone` are
violated, as their runs show.

## 6. Not modelled

* The Go code of the engine and of Orborus is vendored and taken by its contract.
* `thehive_create_case_idempotent.py` is loaded by no node.
* Authentication, validation, sanitisation, configuration and logging compare and
  convert values in one step; the repositories make one locked statement per
  call, and nothing that lasts is stored through them.
* Reports and quality scripts turn results of tests and tools into HTML and Markdown;
  they are a third of the code and have no state.
* Dashboards, the documentation site, the thesis and the infrastructure files.
* Of modelled parts: the texts of cases, summaries and notices; the mode `restart_orborus` of
  the cleanup, which nothing asks for; offsets of nodes before the start of their
  execution (the negative sentinel of `node_timing_extractor.py:175-181`); the rounding of success rates
  (`kpi_analyzer.py:319`) and the size limits of searches; the
  delays of backoffs; the checks of parameters, `/health` and the detail of a connection in
  the watcher's HTTP handlers; `/soar/status`, the running of tests and the static
  pages of the API; the file of metadata beside a backup, which nothing reads.

## 7. Order and extensions

The modules were written in the order of what a wrong step costs: the response to an
alert first, then the workflow that gives it and the setup that puts it in place,
then what runs beside it, the layers below it, and the figures made of it.

Two extensions would be next: `/soar/status`, which asks all clients in turn, and what it
tells of services that come and go meanwhile; and how far overlapping operations
can take the breaker's count from what they told it (`SerialCorrect` is about those
that do not overlap).
