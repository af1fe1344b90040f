----------------------------- MODULE MCPlaybook -----------------------------
(***************************************************************************)
(* Two executions over an alert that is worth 75 by itself, so that any    *)
(* single piece of evidence turns the decision, and one that is rejected.  *)
(* One execution runs a workflow with one optional node of each kind, the  *)
(* other a workflow without any.                                           *)
(***************************************************************************)
EXTENDS Playbook

CONSTANTS borderline, unrated, e1, e2

MCAlerts   == {borderline, unrated}
MCRejected == {unrated}
MCProfile  == [a \in {borderline} |->
    [confidence |-> 0, severity |-> 2, type |-> "ransomware", mitre |-> 0,
     event |-> TRUE]]
MCExecs    == {e1, e2}
MCDeployed == [e \in {e1, e2} |->
    IF e = e1 THEN {"cortex_hash", "tenzir", "redis"} ELSE {}]
=============================================================================
