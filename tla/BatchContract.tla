---------------------------- MODULE BatchContract ----------------------------
(***************************************************************************)
(* What send_batch promises to its caller: the alerts are admitted in      *)
(* their order, those beyond the queue are refused and never sent, the     *)
(* others are taken in order and sent at most once, and there is one       *)
(* report for each alert, in order, which agrees with its fate or admits   *)
(* that this is not known.  How alerts are queued, by whom they are sent   *)
(* and how the senders are stopped is left open.                           *)
(***************************************************************************)
EXTENDS Integers

CONSTANT Total      \* the number of alerts in the batch

VARIABLES
    fate,           \* what has become of each alert
    report          \* what the caller has been told of it

vars == <<fate, report>>

Batch == 1 .. Total

Init ==
    /\ fate = [i \in Batch |-> "pending"]
    /\ report = [i \in Batch |-> "none"]

\* The next alert is queued, or refused.
Admit(i) ==
    /\ fate[i] = "pending"
    /\ \A j \in Batch : j < i => fate[j] # "pending"
    /\ \E f \in {"queued", "full"} : fate' = [fate EXCEPT ![i] = f]
    /\ UNCHANGED report

\* The alert that has waited longest is taken.
Take(i) ==
    /\ fate[i] = "queued"
    /\ \A j \in Batch : j < i => fate[j] # "queued"
    /\ fate' = [fate EXCEPT ![i] = "underway"]
    /\ UNCHANGED report

\* The answer of the webhook, or the lack of one, is known.
Resolve(i) ==
    /\ fate[i] = "underway"
    /\ \E f \in {"accepted", "rejected"} : fate' = [fate EXCEPT ![i] = f]
    /\ UNCHANGED report

Known == {"full", "accepted", "rejected"}

Tell(i) ==
    /\ report[i] = "none"
    /\ \A j \in Batch : fate[j] # "pending"
    /\ \A j \in Batch : j < i => report[j] # "none"
    /\ report' = [report EXCEPT ![i] = IF fate[i] \in Known THEN fate[i] ELSE "timeout"]
    /\ UNCHANGED fate

Next == \E i \in Batch : Admit(i) \/ Take(i) \/ Resolve(i) \/ Tell(i)

\* The caller is told something of every alert.
Fairness ==
    /\ WF_vars(\E i \in Batch : Admit(i))
    /\ WF_vars(\E i \in Batch : Tell(i))

Spec == Init /\ [][Next]_vars /\ Fairness
==============================================================================
