------------------------------ MODULE AlertBatch ------------------------------
(***************************************************************************)
(* HTTPAlertSender.send_batch: the calling thread puts the alerts, and     *)
(* then one sentinel for each worker, into a bounded queue that the worker *)
(* threads empty; it waits for each of them for a limited time and lists   *)
(* the results that are there.  The workers are daemons: those it gave up  *)
(* waiting for go on while it lists the results, and after.                *)
(*                                                                         *)
(* Alerts are their indices from 1, and 0 is the sentinel None.  The       *)
(* caller's place in the function follows from its four counters.          *)
(***************************************************************************)
EXTENDS Integers, Sequences, FiniteSets

CONSTANTS
    Total,       \* len(alerts)
    NumWorkers,  \* workers
    Capacity     \* max_queue_size, where 0 means without a bound

ASSUME TotalAssumption == Total \in Nat
ASSUME NumWorkersAssumption == NumWorkers \in Nat
ASSUME CapacityAssumption == Capacity \in Nat

Batch   == 1 .. Total
Workers == 1 .. NumWorkers

VARIABLES
    \* the calling thread
    next,        \* the alert it puts next
    stops,       \* how many sentinels it has put
    joined,      \* how many workers it has waited for
    told,        \* how many results it has listed
    gaveUp,      \* whether a join timed out
    report,      \* the list it returns
    \* the workers
    place,       \* where a worker is
    item,        \* the alert it has got, 0 for none
    answer,      \* what send() is about to return
    seen,        \* the counter that it has read, to add one to it
    \* what they share
    queue,
    results,
    sent,        \* alerts_sent
    failed,      \* alerts_failed
    \* the webhook
    posts        \* how often each alert was posted

caller == <<next, stops, joined, told, gaveUp, report>>
threads == <<place, item, answer, seen>>
counters == <<sent, failed>>
vars == <<caller, threads, queue, results, counters, posts>>

Answers == {"accepted", "rejected"}
Places  == {"getting", "sending", "loading", "adding", "recording", "gone"}

TypeOK ==
    /\ next \in 1 .. Total + 1
    /\ stops \in 0 .. NumWorkers
    /\ joined \in 0 .. NumWorkers
    /\ told \in 0 .. Total
    /\ gaveUp \in BOOLEAN
    /\ report \in [Batch -> Answers \cup {"none", "full", "timeout"}]
    /\ place \in [Workers -> Places]
    /\ item \in [Workers -> 0 .. Total]
    /\ answer \in [Workers -> Answers]
    /\ seen \in [Workers -> Nat]
    /\ queue \in Seq(0 .. Total)
    /\ Capacity > 0 => Len(queue) <= Capacity
    /\ results \in [Batch -> Answers \cup {"none", "full"}]
    /\ sent \in Nat /\ failed \in Nat
    /\ posts \in [Batch -> Nat]

Init ==
    /\ next = 1 /\ stops = 0 /\ joined = 0 /\ told = 0
    /\ gaveUp = FALSE
    /\ report = [i \in Batch |-> "none"]
    /\ place = [w \in Workers |-> "getting"]
    /\ item = [w \in Workers |-> 0]
    /\ answer = [w \in Workers |-> "rejected"]
    /\ seen = [w \in Workers |-> 0]
    /\ queue = <<>>
    /\ results = [i \in Batch |-> "none"]
    /\ sent = 0 /\ failed = 0
    /\ posts = [i \in Batch |-> 0]

-----------------------------------------------------------------------------
(***************************************************************************)
(* The calling thread.                                                     *)
(***************************************************************************)
Full == Capacity > 0 /\ Len(queue) >= Capacity

\* put_nowait, or queue.Full.
PutAlert ==
    /\ next <= Total
    /\ ~Full
    /\ queue' = Append(queue, next)
    /\ next' = next + 1
    /\ UNCHANGED <<stops, joined, told, gaveUp, report, threads, results, counters, posts>>

Refuse ==
    /\ next <= Total
    /\ Full
    /\ results' = [results EXCEPT ![next] = "full"]
    /\ next' = next + 1
    /\ UNCHANGED <<stops, joined, told, gaveUp, report, threads, queue, counters, posts>>

\* put(None), which blocks while the queue is full.
PutStop ==
    /\ next = Total + 1 /\ stops < NumWorkers
    /\ ~Full
    /\ queue' = Append(queue, 0)
    /\ stops' = stops + 1
    /\ UNCHANGED <<next, joined, told, gaveUp, report, threads, results, counters, posts>>

\* t.join(timeout=30): the worker is over, or the time is.
Join ==
    /\ next = Total + 1 /\ stops = NumWorkers /\ joined < NumWorkers
    /\ joined' = joined + 1
    /\ gaveUp' = (gaveUp \/ place[joined + 1] # "gone")
    /\ UNCHANGED <<next, stops, told, report, threads, queue, results, counters, posts>>

\* results.get(i, ..) for one alert after the other, without the lock.
List ==
    /\ next = Total + 1 /\ joined = NumWorkers /\ told < Total
    /\ told' = told + 1
    /\ report' = [report EXCEPT ![told + 1] =
                     IF results[told + 1] = "none" THEN "timeout" ELSE results[told + 1]]
    /\ UNCHANGED <<next, stops, joined, gaveUp, threads, queue, results, counters, posts>>

-----------------------------------------------------------------------------
(***************************************************************************)
(* A worker, and send() in it.                                             *)
(***************************************************************************)
Get(w) ==
    /\ place[w] = "getting"
    /\ queue # <<>>
    /\ queue' = Tail(queue)
    /\ item' = [item EXCEPT ![w] = Head(queue)]
    /\ place' = [place EXCEPT ![w] = IF Head(queue) = 0 THEN "gone" ELSE "sending"]
    /\ UNCHANGED <<caller, answer, seen, results, counters, posts>>

\* The request: answered with 200, 202 or 204, answered otherwise, or ended
\* by an exception, after which the webhook may or may not have got it.
Post(w) ==
    /\ place[w] = "sending"
    /\ place' = [place EXCEPT ![w] = "loading"]
    /\ \/ /\ posts' = [posts EXCEPT ![item[w]] = @ + 1]
          /\ \E a \in Answers : answer' = [answer EXCEPT ![w] = a]
       \/ /\ answer' = [answer EXCEPT ![w] = "rejected"]
          /\ UNCHANGED posts
    /\ UNCHANGED <<caller, item, seen, queue, results, counters>>

\* alerts_sent += 1 or alerts_failed += 1, which read and write.
Load(w) ==
    /\ place[w] = "loading"
    /\ place' = [place EXCEPT ![w] = "adding"]
    /\ seen' = [seen EXCEPT ![w] = IF answer[w] = "accepted" THEN sent ELSE failed]
    /\ UNCHANGED <<caller, item, answer, queue, results, counters, posts>>

Count(w) ==
    /\ place[w] = "adding"
    /\ place' = [place EXCEPT ![w] = "recording"]
    /\ sent' = IF answer[w] = "accepted" THEN seen[w] + 1 ELSE sent
    /\ failed' = IF answer[w] = "rejected" THEN seen[w] + 1 ELSE failed
    /\ UNCHANGED <<caller, item, answer, seen, queue, results, posts>>

\* Mutant of Record: the index is the last one of the caller's loop.
RecordLast(w) ==
    /\ place[w] = "recording"
    /\ place' = [place EXCEPT ![w] = "getting"]
    /\ results' = [results EXCEPT ![next - 1] = answer[w]]
    /\ item' = [item EXCEPT ![w] = 0]
    /\ UNCHANGED <<caller, answer, seen, queue, counters, posts>>

\* results[idx] = result, and task_done, for which nobody waits.
Record(w) ==
    /\ place[w] = "recording"
    /\ place' = [place EXCEPT ![w] = "getting"]
    /\ results' = [results EXCEPT ![item[w]] = answer[w]]
    /\ item' = [item EXCEPT ![w] = 0]
    /\ UNCHANGED <<caller, answer, seen, queue, counters, posts>>

-----------------------------------------------------------------------------
Call    == PutAlert \/ Refuse \/ PutStop \/ Join \/ List
Work(w) == Get(w) \/ Post(w) \/ Load(w) \/ Count(w) \/ Record(w)

Next == Call \/ \E w \in Workers : Work(w)

\* All threads are scheduled, and the session's timeout ends each request.
Fairness == WF_vars(Call) /\ \A w \in Workers : WF_vars(Work(w))

Spec == Init /\ [][Next]_vars /\ Fairness

-----------------------------------------------------------------------------
(***************************************************************************)
(* Properties.                                                             *)
(***************************************************************************)
Taken == {i \in Batch : \E w \in Workers : item[w] = i}

Fate == [i \in Batch |->
    IF results[i] # "none" THEN results[i]
    ELSE IF i \in Taken THEN "underway"
    ELSE IF i < next THEN "queued" ELSE "pending"]

Contract == INSTANCE BatchContract WITH fate <- Fate

\* "One AlertSendResult per input alert, in order": whatever the workers do
\* meanwhile, and even if they are given up, send_batch keeps the contract,
\* and it returns.
KeepsContract == Contract!Spec

\* Backpressure is no pretext: an alert is refused only after as many alerts
\* before it as the queue holds were let in.
RefusalJustified ==
    \A i \in Batch : results[i] = "full" =>
        /\ Capacity > 0
        /\ Cardinality({j \in 1 .. i - 1 : results[j] # "full"}) >= Capacity

\* One sentinel for each worker, behind all alerts, is the right number: if
\* no join timed out then no alert is reported as "worker timeout", and none
\* that was let in is still unsent.
NobodyLeftOut ==
    NumWorkers > 0 /\ joined = NumWorkers /\ ~gaveUp =>
        /\ queue = <<>>
        /\ \A i \in Batch : results[i] # "none" /\ report[i] # "timeout"

\* No alert is posted twice, and one that was refused, and is reported so, is
\* not posted at all: a caller who sends the refused ones again makes no
\* duplicates.
SentAtMostOnce ==
    \A i \in Batch : posts[i] <= 1 /\ (results[i] = "full" => posts[i] = 0)

\* The counters are no promise when workers race, but they never tell of more
\* than the alerts that were let in and have been answered.
CountersModest ==
    sent + failed <= Cardinality({i \in Batch : results[i] \in Answers})
                     + Cardinality({w \in Workers : place[w] = "recording"})
===============================================================================
