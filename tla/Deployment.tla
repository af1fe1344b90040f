------------------------------- MODULE Deployment -------------------------------
(***************************************************************************)
(* The setup of the lab, from `make up` to `make reset`: the scripts of    *)
(* ServiceAccounts, ShuffleAccounts and WorkflowDeployment in the order in *)
(* which the Makefile starts them, beside the same scripts started by      *)
(* hand.  A request or a write may fail and the run may be killed, at any  *)
(* step and at most MaxFaults times in all.                                *)
(***************************************************************************)
EXTENDS WorkflowDeployment

vars == <<setupVars, svcVars, accVars, flowVars>>

\* Scripts with a make target or a documented call of their own, at their
\* first step.
Scripts == {"cortex", "hive", "restore", "login"}

-----------------------------------------------------------------------------

Init ==
    /\ pc = "idle" /\ plan = "up" /\ attempt = 1 /\ runs = 0 /\ up = FALSE
    /\ faults = 0 /\ missed = {} /\ got = NoKey /\ fresh = 0
    /\ env = [s \in Secrets |-> NoKey] /\ box = env
    /\ ServiceAccountsInit /\ ShuffleAccountsInit /\ WorkflowDeploymentInit

Begin(script, how) ==
    /\ pc = "idle" /\ runs < MaxRuns /\ runs' = runs + 1
    /\ pc' = script /\ plan' = how /\ attempt' = 1
    /\ up' = FALSE /\ missed' = {} /\ got' = NoKey /\ held' = NothingHeld
    /\ UNCHANGED <<faults, backup>>

\* `make up`: secrets that are missing are drawn, the containers whose
\* environment changed are created anew, and a Shuffle without data starts
\* with a user of its own.
MakeUp ==
    /\ Begin("configure", "up")
    /\ env' = GeneratedEnv /\ Issue /\ box' = env'
    /\ IF doc = [i \in Indices |-> NoIndex] /\ ~torn
         THEN FreshShuffle(env'["shuffle"])
         ELSE UNCHANGED <<doc, keyword, member, linked, torn>>
    /\ UNCHANGED <<templates, index, shell, users, key, conf, analyzers, events, bearer,
                   read, pass, osenv, flows, hooks, environment, lab, info, hostInfo,
                   dashboard>>

\* One script on a running stack.
RunScript ==
    /\ runs > 0
    /\ \E s \in Scripts : Begin(s, "solo")
    /\ UNCHANGED <<envVars, fresh, templates, index, shell, users, key, conf, analyzers,
                   events, accVars, flows, hooks, environment, lab, info, hostInfo, dashboard>>

\* The last target of `make up`.
ShowAccess ==
    /\ Step("show", "idle") /\ Works /\ up' = TRUE
    /\ UNCHANGED <<plan, attempt, runs, missed, envVars, got, fresh, svcVars, accVars,
                   flowVars>>

\* The run is killed: what it had in hand is gone, and what it was about to
\* write back to an index that it had deleted as well.
Crash ==
    /\ pc # "idle" /\ Fails /\ pc' = "idle" /\ attempt' = 1
    /\ torn' = (torn \/ pc \in {"users_delete", "users_insert", "v2_delete", "v2_insert",
                                "sync_users", "sync_member"})
    /\ UNCHANGED <<plan, runs, up, missed, envVars, got, fresh, svcVars, doc, keyword,
                   member, linked, bearer, read, pass, osenv, flowVars>>

\* `make reset`: volumes, runtime/ and reports/ are removed, .env.full stays.
MakeReset ==
    /\ pc = "idle" /\ 0 < runs /\ runs < MaxRuns /\ runs' = runs + 1
    /\ up' = FALSE /\ missed' = {}
    /\ ServicesLost /\ WorkflowsLost
    /\ doc' = [i \in Indices |-> NoIndex] /\ keyword' = [i \in Indices |-> FALSE]
    /\ member' = NoKey /\ linked' = FALSE /\ torn' = FALSE
    /\ UNCHANGED <<pc, plan, attempt, faults, envVars, got, fresh, bearer, read, pass, osenv>>

Scripted ==
    \/ ServiceAccountsNext /\ UNCHANGED <<accVars, flowVars>>
    \/ ShuffleAccountsNext /\ UNCHANGED <<svcVars, flowVars>>
    \/ WorkflowDeploymentNext
    \/ ShowAccess

Next ==
    \/ MakeUp \/ RunScript \/ Crash \/ MakeReset
    \/ Preserve /\ UNCHANGED <<accVars, flowVars>>
    \/ Scripted

\* Whoever starts a run lets it go on; nobody has to start one.
Spec == Init /\ [][Next]_vars /\ WF_vars(Scripted)

-----------------------------------------------------------------------------

Keys == 0..fresh

TypeOK ==
    /\ attempt \in 1..Attempts /\ runs \in 0..MaxRuns /\ faults \in 0..MaxFaults
    /\ env \in [Secrets -> Keys] /\ box \in [Secrets -> Keys]
    /\ got \in Keys
    /\ key \in [Services -> Keys] /\ backup \in Keys \union {NoBackup}
    /\ conf \in [{"file", "running"} -> Keys]
    /\ index \in [Services -> {"none", "plain", "join"}]
    /\ doc \in [Indices -> Keys \union {NoUser, NoIndex}]
    /\ member \in Keys /\ bearer \in Keys /\ osenv \in Keys
    /\ \A f \in flows : f.id \in Keys /\ f.hive \in Keys /\ f.cortex \in Keys
    /\ DOMAIN hooks \subseteq Keys /\ info \in Keys /\ hostInfo \in Keys

\* A run of `make up` that succeeded and whose log has no warning and no error.
\* It may have failed all the same, in the ways of Untold.
Sound == up /\ missed \subseteq Untold

Unhurt(kinds) == missed \intersect kinds = {}

\* It leaves every party with the key that the other accepts: .env.full, the
\* workflow and thehive.conf always, and each copy of Shuffle's key unless one
\* of the overlooked failures that it does not survive came before.
KeysAgree ==
    Sound =>
        /\ \A s \in Services : env[s] = key[s] /\ key[s] # NoKey
        /\ conf.running = key["cortex"]
        /\ \A f \in flows : f.id = env["token"] => f.hive = key["thehive"]
        /\ Unhurt({"read"}) => env["shuffle"] = doc["users"]
        /\ Unhurt({"read", "member"}) => env["shuffle"] = member
        /\ Unhurt({"read", "mapping", "users", "sync"}) =>
              env["shuffle"] = doc["users_v2"]

\* And with a new workflow that the token names.  That it is the only one,
\* whole, wired, served by its hook and named by both copies of
\* webhook_info.json: each of these breaks under a success message of its own,
\* and under no other's.
OneWorkflowServes ==
    Sound => \E f \in flows :
        /\ f.id = env["token"]
        /\ Unhurt({"list", "delete"}) => flows = {f}
        /\ Unhurt({"branches"}) => f.start /\ f.entry
        /\ Unhurt({"patch"}) => f.start
        /\ Unhurt({"template", "index"}) => f.wired
        /\ Unhurt({"hook"}) => Serves(env["token"])
        /\ Unhurt({"copy"}) => info = env["token"] /\ hostInfo = env["token"]

\* Both: what a setup leaves behind of which the log tells no failure.
SetupIsWhole == KeysAgree /\ OneWorkflowServes

\* The admin's document is out of the index only while the reindex holds it,
\* or after one that was cut short.
AdminSurvives ==
    runs > 0 /\ doc["users"] < NoKey =>
        \/ torn
        \/ doc = [i \in Indices |-> NoIndex]
        \/ pc = "users_insert" /\ read >= NoKey

\* What serves the token stops doing so only when the old workflows are
\* deleted, or when a token is written whose hook was missed, or by a reset.
Serving == env["token"] # NoKey /\ Serves(env["token"])

OnlyTheSwapInterrupts ==
    [][Serving /\ ~Serving' =>
          \/ pc = "delete_old"
          \/ pc = "info" /\ "hook" \in missed
          \/ flows' = {} /\ runs' = runs + 1]_vars

\* Setup ends, however often a script is repeated.
SetupEnds == pc # "idle" ~> pc = "idle"
===============================================================================
