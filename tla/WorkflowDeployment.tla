--------------------------- MODULE WorkflowDeployment ---------------------------
(***************************************************************************)
(* init_shuffle_webhook.py from its fourth step on, with shuffle_setup.py, *)
(* credentials.py, env_files.py and clients.get_app_ids, and the scripts   *)
(* `make up` runs after it: the new workflow is built with the keys of the *)
(* moment, created, repaired, put in the place of the old ones, given a    *)
(* hook, and made known in webhook_info.json and in .env.full.             *)
(***************************************************************************)
EXTENDS ServiceAccounts, ShuffleAccounts

VARIABLES
    flows,        \* the lab's workflows in Shuffle, each with its trigger
    hooks,        \* hook documents: trigger |-> id of the workflow it starts
    held,         \* what the script holds: keys, ids of old workflows, its own
    environment,  \* whether Shuffle has the environment its actions run in
    lab,          \* the lab's indices that the setup created
    info,         \* the trigger in the container's webhook_info.json
    hostInfo,     \* the trigger in the host's copy
    dashboard     \* whether Grafana has the dashboard

flowVars == <<flows, hooks, held, environment, lab, info, hostInfo, dashboard>>

NothingHeld == [hive |-> NoKey, cortex |-> NoKey, wired |-> FALSE, old |-> {}, id |-> NoKey]
LabIndices == {"soar-alerts", "soar-metrics"}

\* A script starts the workflow through the hook that the token names.
Serves(trigger) ==
    trigger \in DOMAIN hooks /\ \E f \in flows : f.id = hooks[trigger]

\* The trigger of the workflow in hand: Shuffle draws both ids together.
Mine == CHOOSE f \in flows : f.id = held.id

-----------------------------------------------------------------------------
(* The context of the workflow *)

\* resolve_all_keys: without TheHive's key the script ends; a file that cannot
\* be written does not stop it.
ResolveKeys ==
    LET hive == ReadKey("thehive")
        cortex == ReadKey("cortex")
    IN
    /\ \/ /\ hive # NoKey /\ Step("keys", "list")
          /\ held' = [NothingHeld EXCEPT !.hive = hive, !.cortex = cortex]
          /\ \/ /\ Works /\ UNCHANGED missed
                /\ env' = [env EXCEPT !["thehive"] = hive, !["cortex"] = cortex]
             \/ Shrugs("keys") /\ UNCHANGED env
          /\ UNCHANGED runVars
       \/ hive = NoKey /\ Exit("keys", "login") /\ Works /\ UNCHANGED <<held, env, missed>>
    /\ UNCHANGED <<box, got, fresh, svcVars, accVars, flows, hooks, environment, lab,
                   info, hostInfo, dashboard>>

\* The workflows of the same name; an answer that is no list counts as none.
ListWorkflows ==
    /\ \/ /\ Step("list", "build") /\ UNCHANGED runVars
          /\ osenv # NoKey \/ env["shuffle"] # NoKey
          /\ \/ Works /\ held' = [held EXCEPT !.old = {f.id : f \in flows}] /\ UNCHANGED missed
             \/ Shrugs("list") /\ held' = [held EXCEPT !.old = {}]
       \/ /\ Exit("list", "login") /\ UNCHANGED <<held, missed>>
          /\ IF osenv = NoKey /\ env["shuffle"] = NoKey THEN Works ELSE Fails
    /\ UNCHANGED <<envVars, got, fresh, svcVars, accVars, flows, hooks, environment, lab,
                   info, hostInfo, dashboard>>

\* get_app_ids ends the script when the list of apps fails; the analyzers that
\* are missing are installed, and those that are then there are wired.
BuildContext ==
    /\ \/ /\ Step("build", "environment") /\ UNCHANGED runVars
          /\ \/ /\ Works /\ UNCHANGED missed
                /\ analyzers' = (analyzers \/ index["cortex"] = "join")
                /\ held' = [held EXCEPT !.wired = analyzers']
             \/ /\ Shrugs("discover")
                /\ analyzers' \in {analyzers, analyzers \/ index["cortex"] = "join"}
                /\ held' = [held EXCEPT !.wired = FALSE]
       \/ Exit("build", "login") /\ Fails /\ UNCHANGED <<analyzers, held, missed>>
    /\ UNCHANGED <<envVars, got, fresh, templates, index, shell, users, key, conf, backup,
                   events, accVars, flows, hooks, environment, lab, info, hostInfo, dashboard>>

EnsureEnvironment ==
    /\ Step("environment", "fix_org")
    /\ \/ Works /\ environment' = TRUE /\ UNCHANGED missed
       \/ Shrugs("environment") /\ UNCHANGED environment
    /\ UNCHANGED <<runVars, envVars, got, fresh, svcVars, accVars, flows, hooks, held, lab,
                   info, hostInfo, dashboard>>

-----------------------------------------------------------------------------
(* The new workflow *)

\* Plausible bug: the new workflow is written over the old ones.
CreateWorkflowInPlace ==
    /\ Step("create", "branches") /\ Works /\ Issue
    /\ flows' = {[id |-> fresh + 1, hive |-> held.hive, cortex |-> held.cortex,
                  wired |-> held.wired, start |-> FALSE, entry |-> FALSE]}
    /\ held' = [held EXCEPT !.id = fresh + 1]
    /\ UNCHANGED <<runVars, missed, envVars, got, svcVars, accVars, hooks, environment,
                   lab, info, hostInfo, dashboard>>

\* create_workflow and the question for its trigger: when only the question
\* fails, the workflow stays behind.
CreateWorkflow ==
    LET new == [id |-> fresh + 1, hive |-> held.hive, cortex |-> held.cortex,
                wired |-> held.wired, start |-> FALSE, entry |-> FALSE]
    IN
    /\ \/ /\ Step("create", "branches") /\ Works /\ Issue /\ UNCHANGED runVars
          /\ \E s \in BOOLEAN : flows' = flows \union {[new EXCEPT !.start = s]}
          /\ held' = [held EXCEPT !.id = fresh + 1]
       \/ /\ Exit("create", "login") /\ Fails /\ UNCHANGED held
          /\ \/ UNCHANGED <<flows, fresh>>
             \/ flows' = flows \union {new} /\ Issue
    /\ UNCHANGED <<missed, envVars, got, svcVars, accVars, hooks, environment, lab, info,
                   hostInfo, dashboard>>

Repaired(workflow) ==
    flows' = (flows \ {Mine}) \union {workflow}

\* fix_branches_and_startnode: one PUT, whose status is a number in the line
\* "Branches and startnode updated".
FixBranches ==
    /\ \/ /\ Step("branches", "patch") /\ UNCHANGED runVars
          /\ \/ Works /\ Repaired([Mine EXCEPT !.start = TRUE, !.entry = TRUE]) /\ UNCHANGED missed
             \/ Shrugs("branches") /\ UNCHANGED flows
       \/ Exit("branches", "login") /\ Fails /\ UNCHANGED <<flows, missed>>
    /\ UNCHANGED <<envVars, got, fresh, svcVars, accVars, hooks, held, environment, lab,
                   info, hostInfo, dashboard>>

\* _patch_es_workflow_docs: the stored document of the workflow, then that of
\* its revision, if it shows up in four tries.
PatchDocs ==
    /\ Step("patch", "delete_old")
    /\ \/ Works /\ Repaired([Mine EXCEPT !.start = TRUE]) /\ UNCHANGED missed
       \/ Shrugs("patch") /\ (UNCHANGED flows \/ Repaired([Mine EXCEPT !.start = TRUE]))
    /\ UNCHANGED <<runVars, envVars, got, fresh, svcVars, accVars, hooks, held, environment,
                   lab, info, hostInfo, dashboard>>

-----------------------------------------------------------------------------
(* In the place of the old ones *)

\* delete_old_workflows: one request each, and a failure does not stop it; after
\* any answer the log says that the workflow is deleted.
DeleteOld ==
    /\ pc = "delete_old"
    /\ \/ /\ held.old = {} /\ pc' = "hook" /\ Works
          /\ UNCHANGED <<flows, held, missed>>
       \/ \E i \in held.old :
            /\ UNCHANGED pc
            /\ held' = [held EXCEPT !.old = @ \ {i}]
            /\ \/ Works /\ flows' = {f \in flows : f.id # i} /\ UNCHANGED missed
               \/ Shrugs("delete") /\ UNCHANGED flows
    /\ UNCHANGED <<runVars, envVars, got, fresh, svcVars, accVars, hooks, environment, lab,
                   info, hostInfo, dashboard>>

Hooked(id) == [t \in DOMAIN hooks \union {id} |-> IF t = id THEN id ELSE hooks[t]]

\* register_hook_in_es: curl says nothing of an HTTP error, an error it does
\* report is logged, and then that the hook is registered correctly.
RegisterHook ==
    /\ Step("hook", "indices")
    /\ \/ Works /\ hooks' = Hooked(held.id) /\ UNCHANGED missed
       \/ Shrugs("hook") /\ UNCHANGED hooks
    /\ UNCHANGED <<runVars, envVars, got, fresh, svcVars, accVars, flows, held, environment,
                   lab, info, hostInfo, dashboard>>

EnsureEsIndices ==
    /\ Step("indices", "info")
    /\ \/ Works /\ lab' = LabIndices /\ UNCHANGED missed
       \/ Shrugs("lab") /\ \E i \in LabIndices : lab' = lab \union (LabIndices \ {i})
    /\ UNCHANGED <<runVars, envVars, got, fresh, svcVars, accVars, flows, hooks, held,
                   environment, info, hostInfo, dashboard>>

\* save_webhook_info with _sync_siem_webhook_token: a file that cannot be
\* written leaves the token as it was, and its stand-in in /tmp can fail too.
SaveWebhookInfo ==
    /\ \/ /\ Step("info", "dashboard") /\ UNCHANGED runVars
          /\ \/ Works /\ info' = held.id /\ SetEnv("token", held.id) /\ UNCHANGED missed
             \/ Shrugs("info") /\ UNCHANGED <<info, env>>
             \/ Shrugs("token") /\ info' = held.id /\ UNCHANGED env
       \/ Exit("info", "login") /\ Fails /\ UNCHANGED <<info, env, missed>>
    /\ UNCHANGED <<box, got, fresh, svcVars, accVars, flows, hooks, held, environment, lab,
                   hostInfo, dashboard>>

\* import_grafana_dashboard, the last step of the script.
ImportDashboard ==
    /\ Step("dashboard", Then("update_env"))
    /\ \/ Works /\ dashboard' = TRUE /\ UNCHANGED missed
       \/ Shrugs("dashboard") /\ UNCHANGED dashboard
    /\ attempt' = 1 /\ held' = NothingHeld
    /\ UNCHANGED <<plan, runs, up, envVars, got, fresh, svcVars, accVars, flows, hooks,
                   environment, lab, info, hostInfo>>

-----------------------------------------------------------------------------
(* After the script: the host's copy of webhook_info.json, and Grafana *)

\* docker cp out of the container, whose failure `make up` ignores, the
\* rewriting of its URLs, and the way back: either copy names a trigger, from
\* which its URLs are made.
RewriteInfo ==
    /\ Step("rewrite", "analyzers")
    /\ \/ /\ Works /\ UNCHANGED missed
          /\ hostInfo' = IF info = NoKey THEN hostInfo ELSE info
          /\ info' = hostInfo'
       \/ /\ Shrugs("copy") /\ UNCHANGED hostInfo
          /\ info' \in {info, IF hostInfo = NoKey THEN info ELSE hostInfo}
    /\ UNCHANGED <<runVars, envVars, got, fresh, svcVars, accVars, flows, hooks, held,
                   environment, lab, dashboard>>

\* setup_grafana_kpis.py: three tries for the datasource, one for the dashboard.
SetupKpis ==
    /\ Step("kpis", "org_again")
    /\ \/ Works /\ dashboard' = TRUE /\ UNCHANGED missed
       \/ Shrugs("kpis") /\ UNCHANGED dashboard
    /\ UNCHANGED <<runVars, envVars, got, fresh, svcVars, accVars, flows, hooks, held,
                   environment, lab, info, hostInfo>>

WorkflowDeploymentNext ==
    \/ ResolveKeys \/ ListWorkflows \/ BuildContext \/ EnsureEnvironment
    \/ CreateWorkflow \/ FixBranches \/ PatchDocs
    \/ DeleteOld \/ RegisterHook \/ EnsureEsIndices \/ SaveWebhookInfo \/ ImportDashboard
    \/ RewriteInfo \/ SetupKpis

WorkflowDeploymentInit ==
    /\ flows = {} /\ hooks = <<>> /\ held = NothingHeld
    /\ environment = FALSE /\ lab = {} /\ info = NoKey /\ hostInfo = NoKey
    /\ dashboard = FALSE

WorkflowsLost ==
    /\ flows' = {} /\ hooks' = <<>> /\ held' = NothingHeld
    /\ environment' = FALSE /\ lab' = {} /\ info' = NoKey /\ hostInfo' = NoKey
    /\ dashboard' = FALSE
===============================================================================
