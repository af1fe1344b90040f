--------------------------- MODULE BreakerContract ---------------------------
(***************************************************************************)
(* What a circuit breaker promises to one caller at a time: consecutive    *)
(* failures are counted, Threshold of them open the circuit, nothing but   *)
(* the passing of Recovery units of time lets a probe through, and the     *)
(* outcome of the probe decides.                                           *)
(***************************************************************************)
EXTENDS Integers

CONSTANTS Threshold, Recovery

VARIABLES
    phase,     \* "closed", "open" or "half_open"
    streak,    \* failures since the last success, at most Threshold
    age        \* time since the last failure, at most Recovery

vars == <<phase, streak, age>>

Init ==
    /\ phase = "closed"
    /\ streak = 0
    /\ age = Recovery

Succeed ==
    /\ phase # "open"
    /\ phase' = "closed"
    /\ streak' = 0
    /\ UNCHANGED age

Fail ==
    /\ phase = "closed"
    /\ streak' = IF streak < Threshold THEN streak + 1 ELSE Threshold
    /\ phase' = IF streak + 1 >= Threshold THEN "open" ELSE "closed"
    /\ age' = 0

Probe ==
    /\ phase = "open"
    /\ age = Recovery
    /\ phase' = "half_open"
    /\ UNCHANGED <<streak, age>>

ProbeFails ==
    /\ phase = "half_open"
    /\ phase' = "open"
    /\ age' = 0
    /\ UNCHANGED streak

Tick ==
    /\ age < Recovery
    /\ age' = age + 1
    /\ UNCHANGED <<phase, streak>>

Next == Succeed \/ Fail \/ Probe \/ ProbeFails \/ Tick

Spec == Init /\ [][Next]_vars
==============================================================================
