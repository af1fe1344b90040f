---------------------------- MODULE CircuitBreaker ----------------------------
(***************************************************************************)
(* soar_lab.resilience.circuit_breaker, as the threads that share the HTTP *)
(* client of a service run it: without a lock, one access to an attribute  *)
(* at a time.  Every integration client sends its requests through call(); *)
(* the class can also be used as a context manager, and be told of results *)
(* and asked to reset from outside.                                        *)
(*                                                                         *)
(* Instead of last_failure_time there is its age, which stops at Recovery: *)
(* the code only asks whether recovery_timeout has passed.  Likewise       *)
(* failures stops at Threshold, all the code compares it with.             *)
(***************************************************************************)
EXTENDS Integers

CONSTANTS
    Threads,     \* the threads that share the breaker
    Threshold,   \* failure_threshold
    Recovery     \* recovery_timeout

ASSUME ThresholdAssumption == Threshold \in Nat \ {0}
ASSUME RecoveryAssumption == Recovery \in Nat

VARIABLES
    state,       \* the attributes of the breaker
    failures,
    age,         \* time since last_failure_time, at most Recovery
    pc,          \* where each thread is
    op,          \* the operation it is in
    read,        \* the value of failures it has read, to add one to it
    healthy,     \* the service has become sound for good
    overlapped   \* the threads whose operation another one overlapped

breaker == <<state, failures, age>>
vars == <<breaker, pc, op, read, healthy, overlapped>>

Locations ==
    {"idle",
     "blocked",     \* found the circuit open, about to look at the time
     "reopening",   \* found the timeout elapsed, about to set HALF_OPEN
     "running",     \* in the protected function
     "resetting",   \* _handle_success: about to set failures to 0
     "closing",     \* about to set CLOSED
     "failing",     \* _handle_failure: about to read the state
     "tripping",    \* in HALF_OPEN: about to set OPEN
     "restamping",  \* about to set last_failure_time
     "loading",     \* otherwise: about to read failures
     "counting",    \* about to write failures
     "stamping",    \* about to set last_failure_time
     "comparing",   \* about to compare failures with the threshold
     "opening"}     \* about to set OPEN

TypeOK ==
    /\ state \in {"closed", "open", "half_open"}
    /\ failures \in 0 .. Threshold
    /\ age \in 0 .. Recovery
    /\ pc \in [Threads -> Locations]
    /\ op \in [Threads -> {"call", "with", "reset", "record"}]
    /\ read \in [Threads -> 0 .. Threshold]
    /\ healthy \in BOOLEAN
    /\ overlapped \subseteq Threads

Init ==
    /\ state = "closed"
    /\ failures = 0
    /\ age = Recovery
    /\ pc = [t \in Threads |-> "idle"]
    /\ op = [t \in Threads |-> "call"]
    /\ read = [t \in Threads |-> 0]
    /\ healthy = FALSE
    /\ overlapped = {}

-----------------------------------------------------------------------------
Active == {t \in Threads : pc[t] # "idle"}

\* Thread t begins operation o at location l.
Begin(t, o, l) ==
    /\ pc[t] = "idle"
    /\ pc' = [pc EXCEPT ![t] = l]
    /\ op' = [op EXCEPT ![t] = o]
    /\ overlapped' = IF Active = {} THEN {} ELSE overlapped \cup Active \cup {t}
    /\ UNCHANGED <<breaker, read, healthy>>

Goto(t, l) ==
    /\ pc' = [pc EXCEPT ![t] = l]
    /\ UNCHANGED <<op, healthy, overlapped>>

\* call(), up to the first look at the state.
Call(t) == Begin(t, "call", IF state = "open" THEN "blocked" ELSE "running")

\* __enter__ raises without a change while the circuit is open, however long.
Enter(t) == state # "open" /\ Begin(t, "with", "running")

\* attempt_reset()
AttemptReset(t) == state = "open" /\ Begin(t, "reset", "blocked")

\* record_success() and record_failure()
RecordSuccess(t) == Begin(t, "record", "resetting")
RecordFailure(t) == ~healthy /\ Begin(t, "record", "failing")

\* Mutant of CheckTimeout: a blocked thread does not look at the time.
CheckTimeoutNever(t) ==
    /\ pc[t] = "blocked"
    /\ Goto(t, "reopening")
    /\ UNCHANGED <<breaker, read>>

\* time.time() - last_failure_time >= recovery_timeout, or raise.
CheckTimeout(t) ==
    /\ pc[t] = "blocked"
    /\ Goto(t, IF age >= Recovery THEN "reopening" ELSE "idle")
    /\ UNCHANGED <<breaker, read>>

\* Mutant of Reopen: the circuit stays open while the probe runs.
ReopenNot(t) ==
    /\ pc[t] = "reopening"
    /\ Goto(t, "idle")
    /\ UNCHANGED <<breaker, read>>

Reopen(t) ==
    /\ pc[t] = "reopening"
    /\ state' = "half_open"
    /\ Goto(t, IF op[t] = "call" THEN "running" ELSE "idle")
    /\ UNCHANGED <<failures, age, read>>

\* The function returns, raises what is expected, or raises something else.
\* call() lets the last pass unrecorded; __exit__ records it as a success.
Return(t) ==
    /\ pc[t] = "running"
    /\ Goto(t, "resetting")
    /\ UNCHANGED <<breaker, read>>

Raise(t) ==
    /\ pc[t] = "running"
    /\ ~healthy
    /\ Goto(t, "failing")
    /\ UNCHANGED <<breaker, read>>

RaiseOther(t) ==
    /\ pc[t] = "running"
    /\ ~healthy
    /\ Goto(t, IF op[t] = "with" THEN "resetting" ELSE "idle")
    /\ UNCHANGED <<breaker, read>>

\* _handle_success
ResetFailures(t) ==
    /\ pc[t] = "resetting"
    /\ failures' = 0
    /\ Goto(t, "closing")
    /\ UNCHANGED <<state, age, read>>

Close(t) ==
    /\ pc[t] = "closing"
    /\ state' = "closed"
    /\ Goto(t, "idle")
    /\ UNCHANGED <<failures, age, read>>

\* _handle_failure
HandleFailure(t) ==
    /\ pc[t] = "failing"
    /\ Goto(t, IF state = "half_open" THEN "tripping" ELSE "loading")
    /\ UNCHANGED <<breaker, read>>

Trip(t) ==
    /\ pc[t] = "tripping"
    /\ state' = "open"
    /\ Goto(t, "restamping")
    /\ UNCHANGED <<failures, age, read>>

\* failures += 1 reads, then writes.
Load(t) ==
    /\ pc[t] = "loading"
    /\ read' = [read EXCEPT ![t] = failures]
    /\ Goto(t, "counting")
    /\ UNCHANGED breaker

Count(t) ==
    /\ pc[t] = "counting"
    /\ failures' = IF read[t] < Threshold THEN read[t] + 1 ELSE Threshold
    /\ Goto(t, "stamping")
    /\ UNCHANGED <<state, age, read>>

Stamp(t) ==
    /\ pc[t] \in {"stamping", "restamping"}
    /\ age' = 0
    /\ Goto(t, IF pc[t] = "stamping" THEN "comparing" ELSE "idle")
    /\ UNCHANGED <<state, failures, read>>

Compare(t) ==
    /\ pc[t] = "comparing"
    /\ Goto(t, IF failures >= Threshold THEN "opening" ELSE "idle")
    /\ UNCHANGED <<breaker, read>>

Open(t) ==
    /\ pc[t] = "opening"
    /\ state' = "open"
    /\ Goto(t, "idle")
    /\ UNCHANGED <<failures, age, read>>

\* Time passes.
Tick ==
    /\ age < Recovery
    /\ age' = age + 1
    /\ UNCHANGED <<state, failures, pc, op, read, healthy, overlapped>>

\* From here on the service answers every request.
Heal ==
    /\ ~healthy
    /\ healthy' = TRUE
    /\ UNCHANGED <<breaker, pc, op, read, overlapped>>

Start(t) ==
    Call(t) \/ Enter(t) \/ AttemptReset(t) \/ RecordSuccess(t) \/ RecordFailure(t)

Step(t) ==
    \/ CheckTimeout(t) \/ Reopen(t)
    \/ Return(t) \/ Raise(t) \/ RaiseOther(t)
    \/ ResetFailures(t) \/ Close(t)
    \/ HandleFailure(t) \/ Trip(t) \/ Load(t) \/ Count(t) \/ Stamp(t)
    \/ Compare(t) \/ Open(t)

Next == (\E t \in Threads : Start(t) \/ Step(t)) \/ Tick \/ Heal

\* Threads are scheduled, requests have a timeout, time passes, and some
\* thread goes on sending requests.
Fairness ==
    /\ \A t \in Threads : WF_vars(Step(t))
    /\ WF_vars(Tick)
    /\ WF_vars(\E t \in Threads : Call(t))

Spec == Init /\ [][Next]_vars /\ Fairness

-----------------------------------------------------------------------------
(***************************************************************************)
(* Properties.                                                             *)
(***************************************************************************)
At(locations) == \E t \in Threads : pc[t] \in locations

\* The contract sees the effect of a handler with its first assignment.
Phase ==
    IF At({"closing"}) THEN "closed"
    ELSE IF At({"stamping", "comparing", "opening"}) /\ failures >= Threshold
         THEN "open" ELSE state

Age == IF At({"stamping", "restamping"}) THEN 0 ELSE age

Contract == INSTANCE BreakerContract WITH phase <- Phase, streak <- failures, age <- Age

Serial    == overlapped \cap Active = {}
Recording == \E t \in Active : op[t] = "record"

\* An operation that no other one overlapped takes the breaker through a step
\* of the contract, whatever interleavings came before it: in particular it
\* never opens the circuit below the threshold, closes it without a probe, or
\* sends a probe early.  Results recorded from outside are exempt.
SerialContract ==
    [][Serial /\ ~Recording => Contract!Next]_<<Contract!vars>>

\* No interleaving of the unlocked accesses leaves the circuit open, or half
\* open, for ever: when the service is sound again and requests keep coming,
\* the circuit closes for good.
Recovers == []<>(~healthy) \/ <>[](state = "closed")
===============================================================================
