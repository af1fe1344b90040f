------------------------------ MODULE Resilience ------------------------------
(***************************************************************************)
(* One use of the helpers of soar_lab.resilience and soar_lab.db: a        *)
(* function run by RetryPolicy.execute ("retry") or by                     *)
(* TransactionManager.execute_with_retry ("again"), a function run by      *)
(* TimeoutHandler.execute_with_timeout ("timeout"), a block under          *)
(* TransactionManager.atomic with or without a time limit ("atomic"), and  *)
(* a block under timeout_context ("context").  In the last three a second  *)
(* thread runs beside the caller.                                          *)
(***************************************************************************)
EXTENDS Integers

CONSTANTS MaxRetries     \* the largest max_retries given to a policy

ASSUME ResilienceAssumption == MaxRetries \in Nat

VARIABLES
  kind,      \* the helper in use
  main,      \* where the caller is
  side,      \* where the second thread is
  limit,     \* the policy's max_retries; time limits are TRUE or FALSE below
  tries,     \* calls of the function
  last,      \* how the last of them ended
  result,    \* what the second thread has left for the caller
  signal,    \* completed is set, done is TRUE, or SIGALRM was raised
  handler,   \* the signal handler of the context is installed
  tx,        \* the transaction
  outcome    \* what the caller was told

resilienceVars ==
  <<kind, main, side, limit, tries, last, result, signal, handler, tx, outcome>>

Kinds == {"retry", "again", "timeout", "atomic", "context"}

(* RetryPolicy.__init__: max_attempts = N is taken for max_retries, and 0  *)
(* for the default.                                                        *)
Limit(retries, attempts) ==
  IF retries >= 0 THEN retries ELSE IF attempts > 0 THEN attempts ELSE 3

ResilienceInit(kinds) ==
  /\ kind \in kinds
  /\ limit \in {Limit(r, a) : r \in -1..MaxRetries, a \in 0..MaxRetries}
  /\ kind \notin {"retry", "again"} => limit = 3
  /\ main = (IF kind = "none" THEN "over" ELSE "start")
  /\ side = "none" /\ tries = 0 /\ last = "none" /\ result = "nothing"
  /\ signal = FALSE /\ handler = FALSE /\ outcome = "none"
  /\ tx = [operations |-> 0, committed |-> FALSE, rolledBack |-> FALSE]

Tell(o) == outcome' = o /\ main' = "over"

-----------------------------------------------------------------------------
(* RetryPolicy.execute and execute_with_retry.  The second treats an error *)
(* as retryable when retry_on is empty or names it.                        *)

Retrying == kind \in {"retry", "again"}

CallFunction ==
  /\ Retrying /\ main = "start"
  /\ tries' = tries + 1
  /\ last' \in {"value", "retryable", "fatal"}
  /\ IF last' = "value" THEN Tell("value") ELSE main' = "caught" /\ UNCHANGED outcome
  /\ UNCHANGED <<kind, side, limit, result, signal, handler, tx>>

MayRetry == tries <= limit /\ last = "retryable"

Caught ==
  /\ Retrying /\ main = "caught"
  /\ IF MayRetry THEN main' = "start" /\ UNCHANGED outcome ELSE Tell(last)
  /\ UNCHANGED <<kind, side, limit, tries, last, result, signal, handler, tx>>

(* The policy's own time limit is looked at before each call. *)
RetryTimeout ==
  /\ kind = "retry" /\ main = "start" /\ Tell("timeout")
  /\ UNCHANGED <<kind, side, limit, tries, last, result, signal, handler, tx>>

-----------------------------------------------------------------------------
(* TimeoutHandler.execute_with_timeout: target() runs the function, keeps  *)
(* what it returned or raised, and sets completed.                         *)

StartThread ==
  /\ kind = "timeout" /\ main = "start" /\ side' = "run" /\ main' = "wait"
  /\ UNCHANGED <<kind, limit, tries, last, result, signal, handler, tx, outcome>>

RunFunction ==
  /\ kind = "timeout" /\ side = "run"
  /\ tries' = tries + 1 /\ last' \in {"value", "fatal"} /\ side' = "keep"
  /\ UNCHANGED <<kind, main, limit, result, signal, handler, tx, outcome>>

(* Mutant: completed is set before the result is kept. *)
KeepLate ==
  /\ kind = "timeout"
  /\ \/ side = "keep" /\ side' = "set" /\ signal' = TRUE /\ UNCHANGED result
     \/ side = "set" /\ side' = "over" /\ result' = last /\ UNCHANGED signal
  /\ UNCHANGED <<kind, main, limit, tries, last, handler, tx, outcome>>

Keep ==
  /\ kind = "timeout"
  /\ \/ side = "keep" /\ side' = "set" /\ result' = last /\ UNCHANGED signal
     \/ side = "set" /\ side' = "over" /\ signal' = TRUE /\ UNCHANGED result
  /\ UNCHANGED <<kind, main, limit, tries, last, handler, tx, outcome>>

(* Mutant: completed.wait() without its deadline. *)
WaitOverWithoutDeadline ==
  /\ kind = "timeout" /\ main = "wait" /\ signal
  /\ Tell(IF result = "fatal" THEN "fatal" ELSE "value")
  /\ UNCHANGED <<kind, side, limit, tries, last, result, signal, handler, tx>>

WaitOver ==
  /\ kind = "timeout" /\ main = "wait"
  /\ \/ signal /\ Tell(IF result = "fatal" THEN "fatal" ELSE "value")
     \/ ~signal /\ main' = "cleanup" /\ UNCHANGED outcome
  /\ UNCHANGED <<kind, side, limit, tries, last, result, signal, handler, tx>>

(* cleanup and on_timeout, whose own exceptions are swallowed. *)
CleanUp ==
  /\ kind = "timeout" /\ main = "cleanup" /\ Tell("timeout")
  /\ UNCHANGED <<kind, side, limit, tries, last, result, signal, handler, tx>>

-----------------------------------------------------------------------------
(* TransactionManager.atomic.  The body records statements and may set and *)
(* return to a savepoint; with a time limit a second thread commits.       *)

Enter ==
  /\ kind = "atomic" /\ main = "start" /\ main' = "body"
  /\ UNCHANGED <<kind, side, limit, tries, last, result, signal, handler, tx, outcome>>

Execute ==
  /\ kind = "atomic" /\ main = "body"
  /\ tx' \in {[tx EXCEPT !.operations = n] : n \in {tx.operations + 1, 0}}
  /\ tx'.operations <= 2
  /\ UNCHANGED <<kind, main, side, limit, tries, last, result, signal, handler, outcome>>

Rollback ==
  /\ kind = "atomic" /\ main = "body"
  /\ tx' = [tx EXCEPT !.operations = 0, !.rolledBack = TRUE]
  /\ Tell("rolled_back")
  /\ UNCHANGED <<kind, side, limit, tries, last, result, signal, handler>>

Commit ==
  /\ kind = "atomic" /\ main = "body"
  /\ tx' = [tx EXCEPT !.committed = TRUE] /\ Tell("value")
  /\ UNCHANGED <<kind, side, limit, tries, last, result, signal, handler>>

CommitThread ==
  /\ kind = "atomic" /\ main = "body" /\ main' = "join" /\ side' = "commit"
  /\ UNCHANGED <<kind, limit, tries, last, result, signal, handler, tx, outcome>>

CommitAside ==
  /\ kind = "atomic"
  /\ \/ /\ side = "commit" /\ side' = "mark"
        /\ tx' = [tx EXCEPT !.committed = TRUE] /\ UNCHANGED signal
     \/ side = "mark" /\ side' = "over" /\ signal' = TRUE /\ UNCHANGED tx
  /\ UNCHANGED <<kind, main, limit, tries, last, result, handler, outcome>>

(* join returns when the thread has ended or the time is over. *)
Join ==
  /\ kind = "atomic" /\ main = "join"
  /\ Tell(IF signal THEN "value" ELSE "timeout")
  /\ UNCHANGED <<kind, side, limit, tries, last, result, signal, handler, tx>>

-----------------------------------------------------------------------------
(* timeout_context: a timer thread raises SIGALRM.  cancel() does not stop *)
(* a timer that has woken up: a signal in the midst of __exit__ raises     *)
(* before the old handler is back, and one after it meets the default      *)
(* action, which ends the process.                                         *)

Arm ==
  /\ kind = "context" /\ main = "start" /\ main' = "block"
  /\ handler' = TRUE /\ side' = "armed"
  /\ UNCHANGED <<kind, limit, tries, last, result, signal, tx, outcome>>

Wake ==
  /\ kind = "context" /\ side = "armed" /\ side' = "woken"
  /\ UNCHANGED <<kind, main, limit, tries, last, result, signal, handler, tx, outcome>>

RaiseSignal ==
  /\ kind = "context" /\ side = "woken" /\ side' = "over" /\ signal' = TRUE
  /\ IF ~handler THEN main' = "over" /\ outcome' = "killed"
     ELSE main' = (IF main = "block" THEN "exit" ELSE "over") /\ outcome' = "timeout"
  /\ UNCHANGED <<kind, limit, tries, last, result, handler, tx>>

LeaveBlock ==
  /\ kind = "context" /\ main = "block" /\ main' = "exit" /\ outcome' = "value"
  /\ UNCHANGED <<kind, side, limit, tries, last, result, signal, handler, tx>>

Cancel ==
  /\ kind = "context" /\ main = "exit" /\ main' = "restore"
  /\ side' = IF side = "armed" THEN "over" ELSE side
  /\ UNCHANGED <<kind, limit, tries, last, result, signal, handler, tx, outcome>>

Restore ==
  /\ kind = "context" /\ main = "restore" /\ main' = "over" /\ handler' = FALSE
  /\ UNCHANGED <<kind, side, limit, tries, last, result, signal, tx, outcome>>

-----------------------------------------------------------------------------
CallerStep ==
  \/ CallFunction \/ Caught \/ RetryTimeout
  \/ StartThread \/ WaitOver \/ CleanUp
  \/ Enter \/ Rollback \/ Commit \/ CommitThread \/ Join
  \/ Arm \/ LeaveBlock \/ Cancel \/ Restore

ThreadStep == RunFunction \/ Keep \/ CommitAside \/ Wake \/ RaiseSignal

ResilienceNext == CallerStep \/ Execute \/ ThreadStep
===============================================================================
