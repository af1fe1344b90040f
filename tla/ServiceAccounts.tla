---------------------------- MODULE ServiceAccounts ----------------------------
(***************************************************************************)
(* configure_es.py, reset_cortex.py, init_thehive.py, the preserve and     *)
(* restore scripts and setup_analyzers_and_iocs.py: the indices, the users *)
(* and the keys of Cortex and TheHive.                                     *)
(*                                                                         *)
(* The services store all they know in an Elasticsearch index that they    *)
(* create on their first write; a join mapping, which child documents      *)
(* need, comes from a template or from whoever created the index before.   *)
(***************************************************************************)
EXTENDS SetupRun

Services == {"cortex", "thehive"}

VARIABLES
    templates,  \* services with an index template
    index,      \* the mapping of a service's index
    shell,      \* services for which an index of the bare name exists
    users,      \* what Cortex and TheHive know of users
    key,        \* the key that a service accepts
    conf,       \* the Cortex key in thehive.conf, and the one TheHive runs with
    backup,     \* the key in credentials_backup.json, or NoBackup
    analyzers,  \* whether Cortex's analyzers are installed
    events      \* events with the lab's indicators in MISP

svcVars == <<templates, index, shell, users, key, conf, backup, analyzers, events>>

NoBackup == -1
Wiped(s) == [user |-> "none", orgs |-> {}, admin |-> FALSE]

\* What a service's first write makes of its index.
Created(s) ==
    IF index[s] # "none" THEN index
    ELSE [index EXCEPT ![s] = IF s \in templates THEN "join" ELSE "plain"]

-----------------------------------------------------------------------------
(* configure_es.py *)

ConfigureTemplates ==
    /\ \/ Step("configure", "preindex") /\ Works /\ UNCHANGED runVars
       \/ Exit("configure", "idle") /\ Fails
    /\ UNCHANGED <<missed, envVars, got, fresh, svcVars>>

\* The indices the services use, made before they ask for them.
PreIndex ==
    /\ Step("preindex", "cortex")
    /\ \/ /\ Works
          /\ index' = [s \in Services |-> IF index[s] = "none" THEN "join" ELSE index[s]]
       \/ Fails /\ UNCHANGED index
    /\ UNCHANGED <<runVars, missed, envVars, got, fresh, templates, shell, users,
                   key, conf, backup, analyzers, events>>

-----------------------------------------------------------------------------
(* reset_cortex.py and init_thehive.py: the index *)

\* create_index_template, whose result is logged, an error like any other.
PutTemplate(s, from, to) ==
    /\ \/ Step(from, to) /\ UNCHANGED <<attempt, plan, runs, up>>
          /\ \/ Works /\ templates' = templates \union {s} /\ UNCHANGED missed
             \/ Shrugs("template") /\ UNCHANGED templates
       \/ Exit(from, IF s = "thehive" THEN "hive" ELSE "idle")
          /\ Fails /\ UNCHANGED <<templates, missed>>
    /\ UNCHANGED <<envVars, got, fresh, index, shell, users, key, conf, backup,
                   analyzers, events>>

\* delete_index takes the service's index along, and its users and keys in it;
\* an index that is not deleted is a result to log.
DeleteIndex(s, reset) ==
    \/ ~reset /\ Works /\ UNCHANGED <<missed, index, shell, users, key, analyzers>>
    \/ /\ reset /\ Works /\ UNCHANGED missed
       /\ index' = [index EXCEPT ![s] = "none"]
       /\ shell' = shell \ {s}
       /\ users' = [users EXCEPT ![s] = Wiped(s)]
       /\ key' = [key EXCEPT ![s] = NoKey]
       /\ analyzers' = (analyzers /\ s # "cortex")
    \/ reset /\ Shrugs("index") /\ UNCHANGED <<index, shell, users, key, analyzers>>

\* `make up` resets Cortex always, and TheHive from the second attempt on.
CortexDelete ==
    /\ Step("cortex_delete", "cortex_index")
    /\ DeleteIndex("cortex", plan = "up")
    /\ UNCHANGED <<runVars, envVars, got, fresh, templates, conf, backup,
                   events>>

HiveDelete ==
    /\ Step("hive_delete", "hive_index")
    /\ DeleteIndex("thehive", plan = "up" /\ attempt > 1)
    /\ UNCHANGED <<runVars, envVars, got, fresh, templates, conf, backup,
                   events>>

\* ensure_cortex_index ends the script when it fails, ensure_thehive_index not.
EnsureIndex(s, from, to, mustExist) ==
    /\ \/ /\ Step(from, to) /\ Works
          /\ shell' = shell \union {s}
          /\ UNCHANGED runVars
       \/ /\ s \notin shell /\ Fails
          /\ IF mustExist THEN Exit(from, "idle")
                          ELSE Step(from, to) /\ UNCHANGED runVars
          /\ UNCHANGED shell
    /\ UNCHANGED <<missed, envVars, got, fresh, templates, index, users, key,
                   conf, backup, analyzers, events>>

\* wait_for_es is part of the template's step; wait_for_cortex and
\* wait_for_thehive are these.
AwaitService(from, to, again) ==
    /\ \/ Step(from, to) /\ Works /\ UNCHANGED runVars
       \/ Exit(from, again) /\ Fails
    /\ UNCHANGED <<missed, envVars, got, fresh, svcVars>>

-----------------------------------------------------------------------------
(* reset_cortex.py: organizations, users and the key *)

\* The user init may write while Cortex has no user; _cortex_api then takes
\* the superadmin instead.
CortexHears == users["cortex"].user \in {"none", "ok"}

CortexOrg ==
    /\ Step("cortex_org", "cortex_admin")
    /\ \/ /\ Works /\ CortexHears
          /\ users' = [users EXCEPT !["cortex"].orgs = @ \union {"cortex"}]
          /\ index' = Created("cortex")
       \/ Works /\ ~CortexHears /\ UNCHANGED <<users, index>>
       \/ Fails /\ UNCHANGED <<users, index>>
    /\ UNCHANGED <<runVars, missed, envVars, got, fresh, templates, shell, key,
                   conf, backup, analyzers, events>>

\* create_superadmin: one POST, and when that fails a look whether the user is
\* there all the same: created late, or with a record no password opens.  A run
\* without --reset then resets the index and tries once more.
CreateSuperadmin ==
    \E done \in BOOLEAN :
        /\ \/ /\ done /\ Works /\ CortexHears
              /\ users' = [users EXCEPT !["cortex"].user = "ok"]
              /\ index' = Created("cortex")
           \/ /\ Fails /\ users["cortex"].user = "none"
              /\ \E u \in {"none", "ok", "corrupt"} :
                    /\ done = (u = "ok")
                    /\ users' = [users EXCEPT !["cortex"].user = u]
              /\ index' = Created("cortex")
           \/ ~done /\ Works /\ ~CortexHears /\ UNCHANGED <<users, index>>
           \/ /\ ~done /\ Fails /\ users["cortex"].user = "ok"
              /\ UNCHANGED <<users, index>>
        /\ \/ done /\ Step("cortex_admin", "cortex_work") /\ UNCHANGED runVars
           \/ ~done /\ (plan = "up" \/ attempt > 1) /\ Exit("cortex_admin", "idle")
           \/ /\ ~done /\ plan # "up" /\ attempt = 1
              /\ Step("cortex_admin", "cortex_recover") /\ UNCHANGED runVars
        /\ UNCHANGED <<missed, envVars, got, fresh, templates, shell, key, conf,
                       backup, analyzers, events>>

CortexRecover ==
    /\ Step("cortex_recover", "cortex_index")
    /\ DeleteIndex("cortex", TRUE)
    /\ attempt' = attempt + 1
    /\ UNCHANGED <<plan, runs, up, envVars, got, fresh, templates, conf, backup, events>>

\* ensure_organization and create_orgadmin, under the superadmin.
CortexWork ==
    /\ \/ /\ Step("cortex_work", "cortex_key") /\ Works
          /\ users' = [users EXCEPT !["cortex"].orgs = @ \union {"soar-lab"},
                                    !["cortex"].admin = TRUE]
          /\ UNCHANGED runVars
       \/ /\ Exit("cortex_work", "idle") /\ Fails
          /\ \E o \in SUBSET {"soar-lab"} :
                users' = [users EXCEPT !["cortex"].orgs = @ \union o]
    /\ UNCHANGED <<missed, envVars, got, fresh, templates, index, shell, key, conf,
                   backup, analyzers, events>>

\* generate_orgadmin_api_key: renewed at Cortex, and in hand unless every
\* answer was lost; the script does not stop over it.
CortexKey ==
    /\ Step("cortex_key", "cortex_env") /\ Issue
    /\ \/ /\ Works /\ UNCHANGED missed
          /\ key' = [key EXCEPT !["cortex"] = fresh + 1] /\ got' = fresh + 1
       \/ /\ Shrugs("key") /\ got' = NoKey
          /\ key' \in {key, [key EXCEPT !["cortex"] = fresh + 1]}
    /\ UNCHANGED <<runVars, envVars, templates, index, shell, users, conf, backup,
                   analyzers, events>>

\* Plausible bug: a key that is in the file is kept.
SaveKeyOnce(s, from, to) ==
    /\ Step(from, to) /\ got' = NoKey /\ Works
    /\ IF env[s] = NoKey THEN SetEnv(s, got) ELSE UNCHANGED env
    /\ attempt' = IF pc' = "idle" THEN 1 ELSE attempt
    /\ UNCHANGED <<plan, runs, up, missed, box, fresh, svcVars>>

\* update_env_file of reset_cortex.py and init_thehive.py.
SaveKey(s, from, to) ==
    /\ Step(from, to) /\ got' = NoKey
    /\ \/ got = NoKey /\ Works /\ UNCHANGED <<env, missed>>
       \/ got # NoKey /\ Works /\ SetEnv(s, got) /\ UNCHANGED missed
       \/ got # NoKey /\ Shrugs("env") /\ UNCHANGED env
    /\ attempt' = IF pc' = "idle" THEN 1 ELSE attempt
    /\ UNCHANGED <<plan, runs, up, box, fresh, svcVars>>

-----------------------------------------------------------------------------
(* init_thehive.py: the admin, the key and the link to Cortex *)

\* create_admin_user: five attempts, after which the script goes on without.
CreateHiveAdmin ==
    /\ \/ /\ Step("hive_admin", "hive_key") /\ Works
          /\ users' = [users EXCEPT !["thehive"].admin = TRUE]
          /\ index' = Created("thehive")
          /\ UNCHANGED <<runVars, missed>>
       \/ /\ Step("hive_admin", "hive_key") /\ Shrugs("admin")
          /\ UNCHANGED <<runVars, users, index>>
       \/ /\ Exit("hive_admin", "hive") /\ Fails
          /\ users' = [users EXCEPT !["thehive"].admin = TRUE]
          /\ index' = Created("thehive")
          /\ UNCHANGED missed
    /\ UNCHANGED <<envVars, got, fresh, templates, shell, key, conf, backup,
                   analyzers, events>>

\* generate_api_key.
HiveKey ==
    /\ \/ /\ Step("hive_key", "hive_env") /\ Works /\ users["thehive"].admin
          /\ key' = [key EXCEPT !["thehive"] = fresh + 1]
          /\ got' = fresh + 1 /\ Issue
          /\ UNCHANGED runVars
       \/ /\ Exit("hive_key", "hive")
          /\ IF users["thehive"].admin THEN Fails ELSE Works
          /\ UNCHANGED <<key, got, fresh>>
    /\ UNCHANGED <<missed, envVars, templates, index, shell, users, conf, backup,
                   analyzers, events>>

\* populate_observable_types and configure_cortex: thehive.conf gets the
\* Cortex key, and TheHive reads it when it is restarted.
ConfigureCortex ==
    /\ Step("hive_conf", Then("restore"))
    /\ LET k == ReadKey("cortex") IN
       \/ k # NoKey /\ Works /\ conf' = [file |-> k, running |-> k] /\ UNCHANGED missed
       \/ k = NoKey /\ Works /\ UNCHANGED <<conf, missed>>
       \/ k # NoKey /\ Shrugs("conf") /\ conf' \in {conf, [conf EXCEPT !.file = k]}
    /\ attempt' = 1
    /\ UNCHANGED <<plan, runs, up, envVars, got, fresh, templates, index, shell,
                   users, key, backup, analyzers, events>>

-----------------------------------------------------------------------------
(* preserve_credentials.py and restore_credentials.py *)

\* The key that the container knows, if TheHive still accepts it.
Preserve ==
    /\ pc = "idle" /\ runs > 0 /\ Works
    /\ backup' = IF box["thehive"] # NoKey /\ box["thehive"] = key["thehive"]
                 THEN box["thehive"] ELSE NoKey
    /\ UNCHANGED <<pc, runVars, missed, envVars, got, fresh, templates, index, shell,
                   users, key, conf, analyzers, events>>

\* restore_thehive_credentials: the key of the file if it is accepted (or the
\* question fails), else the one of the backup, else a new one.
Restore ==
    LET current == env["thehive"]
        live == key["thehive"]
        Known(k) == k # NoKey /\ k = live
        Keep(k) == SetEnv("thehive", k) /\ UNCHANGED <<key, fresh>>
        Leave == UNCHANGED <<env, key, fresh>>
        Otherwise ==
            \/ backup = NoKey /\ Leave
            \/ Known(backup) /\ Keep(backup)
            \/ /\ backup # NoKey /\ ~Known(backup) /\ users["thehive"].admin
               /\ key' = [key EXCEPT !["thehive"] = fresh + 1] /\ Issue
               /\ SetEnv("thehive", fresh + 1)
    IN
    /\ Step("restore", Then("login"))
    /\ \/ backup = NoBackup /\ Works /\ Leave /\ UNCHANGED missed
       \/ /\ backup # NoBackup /\ Works /\ UNCHANGED missed
          /\ IF Known(current) THEN Keep(current) ELSE Otherwise
       \/ /\ backup # NoBackup /\ Known(current) /\ Fails /\ UNCHANGED missed
          /\ Otherwise
       \/ backup # NoBackup /\ Shrugs("restore") /\ Leave
    /\ UNCHANGED <<runVars, box, got, templates, index, shell, users, conf, backup,
                   analyzers, events>>

-----------------------------------------------------------------------------
(* setup_analyzers_and_iocs.py, whose failure `make up` does not mind *)

InstallAnalyzers ==
    /\ Step("analyzers", "iocs")
    /\ \/ Works /\ analyzers' = (analyzers \/ index["cortex"] = "join") /\ UNCHANGED missed
       \/ /\ Shrugs("analyzers")
          /\ analyzers' \in {analyzers, analyzers \/ index["cortex"] = "join"}
    /\ UNCHANGED <<runVars, envVars, got, fresh, templates, index, shell, users, key,
                   conf, backup, events>>

\* Every run puts the event into MISP once more; a POST whose answer is lost is
\* repeated, and a MISP that does not take the key ends the script.
LoadIocs ==
    /\ Step("iocs", "kpis")
    /\ \/ Works /\ events' = events + 1 /\ UNCHANGED missed
       \/ Shrugs("iocs") /\ events' \in {events, events + 2}
    /\ UNCHANGED <<runVars, envVars, got, fresh, templates, index, shell, users, key,
                   conf, backup, analyzers>>

CortexNext ==
    \/ PutTemplate("cortex", "cortex", "cortex_delete")
    \/ CortexDelete
    \/ EnsureIndex("cortex", "cortex_index",
                   IF attempt > 1 THEN "cortex_org" ELSE "cortex_wait", TRUE)
    \/ AwaitService("cortex_wait", "cortex_org", "idle")
    \/ CortexOrg \/ CreateSuperadmin \/ CortexRecover \/ CortexWork \/ CortexKey
    \/ SaveKey("cortex", "cortex_env", Then("hive"))

HiveNext ==
    \/ PutTemplate("thehive", "hive", "hive_delete")
    \/ HiveDelete
    \/ EnsureIndex("thehive", "hive_index", "hive_wait", FALSE)
    \/ AwaitService("hive_wait", "hive_admin", "hive")
    \/ CreateHiveAdmin \/ HiveKey
    \/ SaveKey("thehive", "hive_env", "hive_conf")
    \/ ConfigureCortex

ServiceAccountsNext ==
    ConfigureTemplates \/ PreIndex \/ CortexNext \/ HiveNext \/ Restore
    \/ InstallAnalyzers \/ LoadIocs

-----------------------------------------------------------------------------

ServiceAccountsInit ==
    /\ templates = {}
    /\ index = [s \in Services |-> "none"]
    /\ shell = {}
    /\ users = [s \in Services |-> Wiped(s)]
    /\ key = [s \in Services |-> NoKey]
    /\ conf = [file |-> NoKey, running |-> NoKey]
    /\ backup = NoBackup
    /\ analyzers = FALSE
    /\ events = 0

\* `docker compose down -v` and the removal of runtime/ and of the reports, the
\* backup of the credentials among them.
ServicesLost ==
    /\ templates' = {}
    /\ index' = [s \in Services |-> "none"]
    /\ shell' = {}
    /\ users' = [s \in Services |-> Wiped(s)]
    /\ key' = [s \in Services |-> NoKey]
    /\ conf' = [conf EXCEPT !.running = NoKey]
    /\ backup' = NoBackup
    /\ analyzers' = FALSE
    /\ events' = 0
===============================================================================
