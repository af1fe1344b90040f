------------------------------ MODULE SetupProofs ------------------------------
(***************************************************************************)
(* Proofs about what the setup leaves behind.                              *)
(*                                                                         *)
(* Deployment, for any number of runs and of faults: what no failure and   *)
(* no order of the scripts can cost.  The admin of Shuffle is never lost   *)
(* but by a reindex that was cut short, and a workflow that serves the     *)
(* token stops doing so in three places only.  And what a `make up` leaves *)
(* that told of no failure, whatever failed before and beneath: the keys   *)
(* that the services accept, and a new workflow that the token names; each *)
(* further claim - the copies of Shuffle's key, one workflow only, its     *)
(* start, its analyzers, its hook, both files - is lost to no failure but  *)
(* those of the kinds it is stated with.                                   *)
(* For that the invariant follows the run through its scripts: each part   *)
(* says what holds from a certain step on.  Last, that no run goes on for  *)
(* ever, however often a script fails and is started again.                *)
(*                                                                         *)
(* WorkflowGraph, for any finite catalog of analyzers: the three           *)
(* properties of the graph.  They are about recursive functions over the   *)
(* graph, so that they need induction on natural numbers; the theorem of   *)
(* the library that gives it without an operator as a parameter is that    *)
(* every set has a least element.                                          *)
(***************************************************************************)
EXTENDS Deployment, WorkflowGraph, FiniteSetTheorems, WellFoundedInduction, TLAPS

(* Where the webhook script is between its login and the new workflow, and *)
(* where it has one.                                                       *)
Reindexing == {"users_delete", "users_insert"}
LoggedIn == Reindexing \cup
  {"users_map", "v2_map", "v2_delete", "v2_insert", "copy", "copy_member", "sync_v2",
   "sync_users", "sync_member", "validate", "sync_file", "keys", "list", "build",
   "environment", "fix_org"}
Swapping == {"branches", "patch", "delete_old", "hook", "indices", "info", "dashboard"}
Late == LoggedIn \cup Swapping

Numbers ==
  /\ fresh \in Nat /\ got \in Nat /\ osenv \in Nat /\ bearer \in Nat
  /\ DOMAIN env = Secrets /\ env["shuffle"] \in Nat /\ box["shuffle"] \in Nat
  /\ doc \in [Indices -> Int] /\ read \in Int

(* The admin's document, or what the reindex holds of it.                  *)
NoDocuments == [i \in Indices |-> NoIndex]
AdminKept ==
  /\ pc \in Reindexing => torn \/ read >= NoKey
  /\ pc \in LoggedIn \ {"users_insert"} => torn \/ doc["users"] >= NoKey
  /\ torn \/ doc["users"] >= NoKey \/ pc = "users_insert" \/ doc = NoDocuments

(* Ids are issued once, so the new workflow is none of the old ones.       *)
Issued ==
  /\ DOMAIN held = DOMAIN NothingHeld
  /\ \A f \in flows : "id" \in DOMAIN f /\ f.id \in 1..fresh
  /\ held.old \subseteq 1..fresh

InHand ==
  pc \in Swapping =>
    /\ held.id \in 1..fresh /\ held.id \notin held.old
    /\ \E f \in flows : f.id = held.id

HookInHand ==
  pc \in {"indices", "info"} /\ "hook" \notin missed =>
    held.id \in DOMAIN hooks /\ hooks[held.id] = held.id

Safe == Numbers /\ AdminKept /\ Issued /\ InHand /\ HookInHand

-----------------------------------------------------------------------------
(* The accounts of the services.                                           *)

(* A step of the scripts before the webhook script, or after it: it comes  *)
(* nowhere near the late steps and leaves Shuffle's key and token alone.   *)
Early ==
  /\ pc \notin Late /\ pc' \notin Late
  /\ got' \in Nat /\ fresh' \in Nat /\ fresh <= fresh'
  /\ DOMAIN env' = Secrets /\ env'["shuffle"] = env["shuffle"] /\ env'["token"] = env["token"]
  /\ UNCHANGED box

LEMMA Elsewhere ==
  ASSUME NEW p, p \in {"idle", "configure", "preindex", "cortex", "cortex_delete",
     "cortex_index", "cortex_wait", "cortex_org", "cortex_admin", "cortex_recover",
     "cortex_work", "cortex_key", "cortex_env", "hive", "hive_delete", "hive_index", "hive_wait",
     "hive_admin", "hive_key", "hive_env", "hive_conf", "restore", "login", "update_env",
     "rewrite", "analyzers", "iocs", "kpis", "org_again", "show", "create"}
  PROVE  p \notin Late
BY DEF Late, LoggedIn, Reindexing, Swapping

LEMMA CortexIsEarly == ASSUME Safe, CortexNext PROVE Early
<1> USE DEF Safe, Numbers, Step, Exit, Then, Issue
<1>1. CASE PutTemplate("cortex", "cortex", "cortex_delete")
  BY <1>1, Elsewhere DEF PutTemplate, Early, envVars
<1>2. CASE CortexDelete
  BY <1>2, Elsewhere DEF CortexDelete, Early, envVars
<1>3. CASE EnsureIndex("cortex", "cortex_index",
                   IF attempt > 1 THEN "cortex_org" ELSE "cortex_wait", TRUE)
  BY <1>3, Elsewhere DEF EnsureIndex, Early, envVars
<1>4. CASE AwaitService("cortex_wait", "cortex_org", "idle")
  BY <1>4, Elsewhere DEF AwaitService, Early, envVars
<1>5. CASE CortexOrg
  BY <1>5, Elsewhere DEF CortexOrg, Early, envVars
<1>6. CASE CreateSuperadmin
  BY <1>6, Elsewhere DEF CreateSuperadmin, Early, envVars
<1>7. CASE CortexRecover
  BY <1>7, Elsewhere DEF CortexRecover, Early, envVars
<1>8. CASE CortexWork
  BY <1>8, Elsewhere DEF CortexWork, Early, envVars
<1>9. CASE CortexKey
  <2>1. /\ pc = "cortex_key" /\ pc' = "cortex_env" /\ UNCHANGED <<env, box>>
        /\ fresh' = fresh + 1 /\ got' \in {fresh + 1, 0}
    BY <1>9 DEF CortexKey, envVars, NoKey
  <2> QED BY <2>1, Elsewhere DEF Early
<1>10. CASE SaveKey("cortex", "cortex_env", Then("hive"))
  BY <1>10, Elsewhere DEF SaveKey, SetEnv, Early, NoKey, Secrets
<1> QED BY <1>1, <1>2, <1>3, <1>4, <1>5, <1>6, <1>7, <1>8, <1>9, <1>10 DEF CortexNext

LEMMA HiveIsEarly == ASSUME Safe, HiveNext PROVE Early
<1> USE DEF Safe, Numbers, Step, Exit, Then, Issue
<1>1. CASE PutTemplate("thehive", "hive", "hive_delete")
  BY <1>1, Elsewhere DEF PutTemplate, Early, envVars
<1>2. CASE HiveDelete
  BY <1>2, Elsewhere DEF HiveDelete, Early, envVars
<1>3. CASE EnsureIndex("thehive", "hive_index", "hive_wait", FALSE)
  BY <1>3, Elsewhere DEF EnsureIndex, Early, envVars
<1>4. CASE AwaitService("hive_wait", "hive_admin", "hive")
  BY <1>4, Elsewhere DEF AwaitService, Early, envVars
<1>5. CASE CreateHiveAdmin
  BY <1>5, Elsewhere DEF CreateHiveAdmin, Early, envVars
<1>6. CASE HiveKey
  BY <1>6, Elsewhere DEF HiveKey, Early, envVars
<1>7. CASE SaveKey("thehive", "hive_env", "hive_conf")
  BY <1>7, Elsewhere DEF SaveKey, SetEnv, Early, NoKey, Secrets
<1>8. CASE ConfigureCortex
  BY <1>8, Elsewhere DEF ConfigureCortex, Early, envVars
<1> QED BY <1>1, <1>2, <1>3, <1>4, <1>5, <1>6, <1>7, <1>8 DEF HiveNext

LEMMA ServicesAreEarly == ASSUME Safe, ServiceAccountsNext PROVE Early
<1> USE DEF Safe, Numbers, Step, Exit, Then, Issue
<1>1. CASE ConfigureTemplates
  BY <1>1, Elsewhere DEF ConfigureTemplates, Early, envVars
<1>2. CASE PreIndex
  BY <1>2, Elsewhere DEF PreIndex, Early, envVars
<1>3. CASE Restore
  <2>1. pc \notin Late /\ pc' \notin Late /\ UNCHANGED <<box, got>>
    BY <1>3, Elsewhere DEF Restore
  <2>2. \/ UNCHANGED <<env, fresh>>
        \/ \E k : env' = [env EXCEPT !["thehive"] = k] /\ (fresh' = fresh \/ fresh' = fresh + 1)
    BY <1>3 DEF Restore, SetEnv
  <2> QED BY <2>1, <2>2 DEF Early, Secrets
<1>4. CASE InstallAnalyzers
  BY <1>4, Elsewhere DEF InstallAnalyzers, Early, envVars
<1>5. CASE LoadIocs
  BY <1>5, Elsewhere DEF LoadIocs, Early, envVars
<1> QED BY <1>1, <1>2, <1>3, <1>4, <1>5, CortexIsEarly, HiveIsEarly DEF ServiceAccountsNext

\* An early step that leaves accounts and workflows alone keeps everything.
LEMMA EarlyKeeps == ASSUME Safe, Early, UNCHANGED <<accVars, flowVars>> PROVE Safe'
<1>1. UNCHANGED <<doc, read, osenv, bearer, torn, flows, held, hooks>>
  BY DEF accVars, flowVars
<1>2. Numbers'
  BY <1>1 DEF Safe, Numbers, Early
<1>3. AdminKept'
  <2>1. torn \/ doc["users"] >= NoKey \/ doc = NoDocuments
    BY <1>1 DEF Safe, AdminKept, Early, Late, LoggedIn, Reindexing
  <2> QED BY <1>1, <2>1 DEF AdminKept, Early, Late, LoggedIn, Reindexing
<1>4. Issued' /\ InHand' /\ HookInHand'
  BY <1>1 DEF Safe, Numbers, Issued, InHand, HookInHand, Early, Late, Swapping
<1> QED BY <1>2, <1>3, <1>4 DEF Safe

-----------------------------------------------------------------------------
(* The accounts of Shuffle.                                                *)

(* A step of theirs keeps the numbers and the admin, and leaves the        *)
(* workflows and their token alone.                                        *)
Away ==
  /\ Numbers' /\ AdminKept' /\ pc' \notin Swapping
  /\ fresh <= fresh' /\ env'["token"] = env["token"]

LEMMA LoginIsAway == ASSUME Safe, Login PROVE Away
<1>1. /\ UNCHANGED <<env, box, got, fresh, doc, read, torn>> /\ pc = "login"
  BY DEF Login, Step, Exit, envVars
<1>2. pc' \in {"users_map", "login", "idle"} /\ osenv' \in Nat /\ bearer' \in Nat
  BY DEF Login, Step, Exit, Safe, Numbers, NoKey, Indices
<1>3. pc' = "users_map" => doc["users"] >= NoKey
  BY DEF Login, Step, Exit, NoKey, Safe, Numbers, Indices
<1>4. Numbers'
  BY <1>1, <1>2 DEF Safe, Numbers
<1>5. AdminKept'
  BY <1>1, <1>2, <1>3 DEF Safe, AdminKept, LoggedIn, Reindexing
<1> QED BY <1>1, <1>2, <1>4, <1>5 DEF Away, Swapping, Safe, Numbers

LEMMA ValidateKeyIsAway == ASSUME Safe, ValidateKey PROVE Away
<1>1. pc = "validate" /\ UNCHANGED <<env, box, read, torn, osenv>>
  BY DEF ValidateKey, Step, Exit, envVars
<1>2. pc' \in {"sync_file", "login", "idle"}
  BY DEF ValidateKey, Step, Exit
<1>3. fresh' \in Nat /\ fresh <= fresh' /\ got' \in Nat /\ bearer' \in Nat
  BY DEF ValidateKey, Issue, Safe, Numbers
<1>4. /\ doc' \in [Indices -> Int]
      /\ doc["users"] >= NoKey => doc'["users"] >= NoKey
      /\ doc = NoDocuments => doc' = NoDocuments
  <2>1. CASE doc' = [i \in Indices |-> IF doc[i] >= NoKey THEN fresh + 1 ELSE doc[i]]
    BY <2>1 DEF Safe, Numbers, NoDocuments, Indices, NoKey, NoIndex
  <2>2. CASE doc' = doc
    BY <2>2 DEF Safe, Numbers
  <2> QED BY <2>1, <2>2 DEF ValidateKey
<1>5. Numbers'
  BY <1>1, <1>3, <1>4 DEF Safe, Numbers
<1>6. AdminKept'
  BY <1>1, <1>2, <1>4 DEF Safe, AdminKept, LoggedIn, Reindexing
<1> QED BY <1>1, <1>2, <1>3, <1>5, <1>6 DEF Away, Swapping

LEMMA SyncFileIsAway == ASSUME Safe, SyncFile PROVE Away
<1>1. /\ pc = "sync_file" /\ pc' \in {"sync_v2", "keys"} /\ got' = NoKey
      /\ UNCHANGED <<box, fresh, doc, read, torn, bearer>>
  BY DEF SyncFile
<1>2. osenv' \in Nat /\ env' \in {env, [env EXCEPT !["shuffle"] = got]}
  BY DEF SyncFile, SetEnv, Safe, Numbers
<1>3. Numbers' /\ env'["token"] = env["token"]
  BY <1>1, <1>2 DEF Safe, Numbers, Secrets, NoKey
<1>4. AdminKept'
  BY <1>1 DEF Safe, AdminKept, LoggedIn, Reindexing
<1> QED BY <1>1, <1>3, <1>4 DEF Away, Swapping, Safe, Numbers

\* An index with the right mapping is passed over; what is read of another is what it
\* holds, or the reindex was cut short.
LEMMA ReadOfIndex ==
  ASSUME Safe, NEW i \in Indices, NEW from, NEW to, NEW past, ReindexRead(i, from, to, past)
  PROVE  /\ pc = from /\ UNCHANGED <<env, box, got, fresh, doc, bearer, osenv>>
         /\ (pc' = past \/ (pc' = to /\ (torn' \/ read' = doc[i])))
         /\ (torn => torn') /\ read' \in Int
<1>1. pc = from /\ UNCHANGED <<env, box, got, fresh, doc, bearer, osenv>>
  BY DEF ReindexRead, Step, envVars
<1>2. doc[i] \in Int /\ NoUser \in Int
  BY DEF Safe, Numbers, NoUser
<1>3. CASE Mapped(i)
  <2>1. \/ pc' = past /\ read' = NoUser /\ UNCHANGED torn
        \/ pc' = to /\ read' = doc[i] /\ UNCHANGED torn
    BY <1>3 DEF ReindexRead, Step
  <2> QED BY <1>1, <1>2, <2>1
<1>4. CASE ~Mapped(i)
  <2>1. \/ pc' = to /\ read' = doc[i] /\ UNCHANGED torn
        \/ pc' = to /\ read' = NoUser /\ torn' = TRUE
    BY <1>4 DEF ReindexRead, Step
  <2> QED BY <1>1, <1>2, <2>1
<1> QED BY <1>3, <1>4

\* The first index: what is read of it is the admin, or the reindex was cut short.
LEMMA ReindexIsAway ==
  ASSUME Safe,
         \/ ReindexRead("users", "users_map", "users_delete", "v2_map")
         \/ ReindexDelete("users", "users_delete", "users_insert", "v2_map")
         \/ ReindexInsert("users", "users_insert", "v2_map")
  PROVE  Away
<1>1. CASE ReindexRead("users", "users_map", "users_delete", "v2_map")
  <2>1. /\ pc = "users_map" /\ UNCHANGED <<env, box, got, fresh, doc, bearer, osenv>>
        /\ (pc' = "v2_map" \/ (pc' = "users_delete" /\ (torn' \/ read' = doc["users"])))
        /\ (torn => torn') /\ read' \in Int
    BY <1>1, ReadOfIndex DEF Indices
  <2>2. Numbers'
    BY <2>1 DEF Safe, Numbers
  <2>3. AdminKept'
    BY <2>1 DEF Safe, AdminKept, LoggedIn, Reindexing
  <2> QED BY <2>1, <2>2, <2>3 DEF Away, Swapping, Safe, Numbers
<1>2. CASE ReindexDelete("users", "users_delete", "users_insert", "v2_map")
  <2>1. /\ pc = "users_delete" /\ pc' \in {"users_insert", "v2_map", "login", "idle"}
        /\ UNCHANGED <<env, box, got, fresh, bearer, osenv>>
        /\ \/ pc' = "users_insert" /\ read' = read
           \/ pc' = "v2_map" /\ read' = NoUser /\ UNCHANGED doc
           \/ torn' /\ read' = read
        /\ (torn => torn')
    BY <1>2 DEF ReindexDelete, Step, Exit, envVars
  <2>2. doc' \in [Indices -> Int] /\ (torn => torn')
    BY <1>2 DEF ReindexDelete, Safe, Numbers, NoIndex
  <2>3. Numbers'
    BY <2>1, <2>2 DEF Safe, Numbers, NoUser
  <2>4. AdminKept'
    BY <2>1, <2>2 DEF Safe, AdminKept, LoggedIn, Reindexing
  <2> QED BY <2>1, <2>3, <2>4 DEF Away, Swapping, Safe, Numbers
<1>3. CASE ReindexInsert("users", "users_insert", "v2_map")
  <2>0. \/ /\ doc' = [doc EXCEPT !["users"] = IF read = NoIndex THEN NoUser ELSE read]
           /\ UNCHANGED torn
        \/ (UNCHANGED doc \/ doc' = [doc EXCEPT !["users"] = NoUser]) /\ torn'
    BY <1>3 DEF ReindexInsert
  <2>1. /\ pc = "users_insert" /\ pc' \in {"v2_map", "login", "idle"}
        /\ UNCHANGED <<env, box, got, fresh, bearer, osenv>> /\ read' = NoUser
    BY <1>3 DEF ReindexInsert, Step, Exit, envVars
  <2>2. /\ doc' \in [Indices -> Int] /\ (torn => torn')
        /\ torn' \/ doc'["users"] = IF read = NoIndex THEN NoUser ELSE read
    BY <1>3, <2>0 DEF Safe, Numbers, NoUser, Indices
  <2>3. torn' \/ doc'["users"] >= NoKey
    BY <2>1, <2>2 DEF Safe, Numbers, AdminKept, Reindexing, NoIndex, NoUser, NoKey
  <2>4. Numbers'
    BY <2>1, <2>2 DEF Safe, Numbers, NoUser
  <2>5. AdminKept'
    BY <2>1, <2>3 DEF AdminKept, LoggedIn, Reindexing
  <2> QED BY <2>1, <2>4, <2>5 DEF Away, Swapping, Safe, Numbers
<1> QED BY <1>1, <1>2, <1>3

(* A step while the script is logged in that keeps the admin's document.   *)
LEMMA DocumentStays ==
  ASSUME Safe, pc \in LoggedIn \ Reindexing, pc' \notin Swapping, pc' \notin Reindexing,
         UNCHANGED <<env, box, got, fresh, bearer, osenv>>,
         doc' \in [Indices -> Int], read' \in Int, torn => torn',
         doc["users"] >= NoKey => doc'["users"] >= NoKey
  PROVE  Away
<1>1. torn' \/ doc'["users"] >= NoKey
  BY DEF Safe, AdminKept, Reindexing
<1> QED BY <1>1 DEF Away, Safe, Numbers, AdminKept

LEMMA SecondIndexIsAway ==
  ASSUME Safe,
         \/ ReindexRead("users_v2", "v2_map", "v2_delete", "copy")
         \/ ReindexDelete("users_v2", "v2_delete", "v2_insert", "copy_member")
         \/ ReindexInsert("users_v2", "v2_insert", "copy_member")
         \/ CopyUsers("copy", "copy_member")
  PROVE  Away
<1>1. CASE ReindexRead("users_v2", "v2_map", "v2_delete", "copy")
  <2>1. /\ pc = "v2_map" /\ UNCHANGED <<env, box, got, fresh, doc, bearer, osenv>>
        /\ pc' \in {"v2_delete", "copy"} /\ (torn => torn') /\ read' \in Int
    BY <1>1, ReadOfIndex DEF Indices
  <2> QED BY <2>1, DocumentStays DEF LoggedIn, Reindexing, Swapping, Safe, Numbers
<1>2. CASE ReindexDelete("users_v2", "v2_delete", "v2_insert", "copy_member")
  <2>1. /\ pc = "v2_delete" /\ pc' \in {"v2_insert", "copy_member", "login", "idle"}
        /\ UNCHANGED <<env, box, got, fresh, bearer, osenv>> /\ read' \in {read, NoUser}
        /\ (torn => torn')
    BY <1>2 DEF ReindexDelete, Step, Exit, envVars
  <2>2. doc' \in [Indices -> Int] /\ doc'["users"] = doc["users"]
    BY <1>2 DEF ReindexDelete, Safe, Numbers, NoIndex, Indices
  <2> QED BY <2>1, <2>2, DocumentStays DEF LoggedIn, Reindexing, Swapping, Safe, Numbers, NoUser
<1>3. CASE ReindexInsert("users_v2", "v2_insert", "copy_member")
  <2>0. \/ /\ doc' = [doc EXCEPT !["users_v2"] = IF read = NoIndex THEN NoUser ELSE read]
           /\ UNCHANGED torn
        \/ (UNCHANGED doc \/ doc' = [doc EXCEPT !["users_v2"] = NoUser]) /\ torn'
    BY <1>3 DEF ReindexInsert
  <2>1. /\ pc = "v2_insert" /\ pc' \in {"copy_member", "login", "idle"}
        /\ UNCHANGED <<env, box, got, fresh, bearer, osenv>> /\ read' = NoUser
    BY <1>3 DEF ReindexInsert, Step, Exit, envVars
  <2>2. doc' \in [Indices -> Int] /\ doc'["users"] = doc["users"] /\ (torn => torn')
    BY <2>0 DEF Safe, Numbers, NoUser, Indices
  <2> QED BY <2>1, <2>2, DocumentStays DEF LoggedIn, Reindexing, Swapping, NoUser
<1>4. CASE CopyUsers("copy", "copy_member")
  <2>1. /\ pc = "copy" /\ pc' \in {"copy_member", "login", "idle"}
        /\ UNCHANGED <<env, box, got, fresh, bearer, osenv, read, torn>>
    BY <1>4 DEF CopyUsers, Step, Exit, envVars
  <2>2. doc' \in [Indices -> Int] /\ doc'["users"] = doc["users"]
    BY <1>4 DEF CopyUsers, Safe, Numbers, Indices
  <2> QED BY <2>1, <2>2, DocumentStays DEF LoggedIn, Reindexing, Swapping, Safe, Numbers
<1> QED BY <1>1, <1>2, <1>3, <1>4

LEMMA MappingIsAway == ASSUME Safe, FixUsersMapping PROVE Away
<1> DEFINE after == IF pass = 1 THEN "sync_v2" ELSE "create"
<1>1. after \in {"sync_v2", "create"}
  OBVIOUS
<1>2. CASE Step("users_map", after) /\ Shrugs("es")
           /\ UNCHANGED <<runVars, envVars, got, fresh, accVars>>
  <2>1. /\ pc = "users_map" /\ pc' \in {"sync_v2", "create"}
        /\ UNCHANGED <<env, box, got, fresh, bearer, osenv, doc, read, torn>>
    BY <1>1, <1>2 DEF Step, envVars, accVars
  <2> QED BY <2>1, DocumentStays DEF LoggedIn, Reindexing, Swapping, Safe, Numbers
<1>3. CASE CopyMember("copy_member", after)
  <2>1. /\ pc = "copy_member" /\ pc' \in {"sync_v2", "create"}
        /\ UNCHANGED <<env, box, got, fresh, bearer, osenv, doc, read, torn>>
    BY <1>1, <1>3 DEF CopyMember, Step, envVars
  <2> QED BY <2>1, DocumentStays DEF LoggedIn, Reindexing, Swapping, Safe, Numbers
<1> QED BY <1>2, <1>3, ReindexIsAway, SecondIndexIsAway DEF FixUsersMapping

LEMMA SyncIsAway == ASSUME Safe, SyncV2 \/ SyncUsers \/ SyncMember PROVE Away
<1>1. osenv >= NoKey /\ osenv \in Int
  BY DEF Safe, Numbers, NoKey
<1>2. CASE SyncV2
  <2>1. /\ pc = "sync_v2" /\ pc' \in {"sync_users", "sync_member", "validate", "keys", "login", "idle"}
        /\ UNCHANGED <<env, box, got, fresh, bearer, osenv, read>> /\ (torn => torn')
    BY <1>2 DEF SyncV2, AfterSync, Step, Exit, envVars
  <2>2. doc' \in [Indices -> Int] /\ doc'["users"] = doc["users"]
    BY <1>1, <1>2 DEF SyncV2, Safe, Numbers, Indices
  <2> QED BY <2>1, <2>2, DocumentStays DEF LoggedIn, Reindexing, Swapping, Safe, Numbers
<1>3. CASE SyncUsers
  <2>1. /\ pc = "sync_users" /\ pc' \in {"sync_member", "login", "idle"}
        /\ UNCHANGED <<env, box, got, fresh, bearer, osenv, read>> /\ (torn => torn')
    BY <1>3 DEF SyncUsers, Step, Exit, envVars
  <2>2. doc' \in [Indices -> Int] /\ (doc["users"] >= NoKey => doc'["users"] >= NoKey)
    BY <1>1, <1>3 DEF SyncUsers, Safe, Numbers, Indices
  <2> QED BY <2>1, <2>2, DocumentStays DEF LoggedIn, Reindexing, Swapping, Safe, Numbers
<1>4. CASE SyncMember
  <2>1. /\ pc = "sync_member" /\ pc' \in {"validate", "keys"}
        /\ UNCHANGED <<env, box, got, fresh, bearer, osenv, doc, read, torn>>
    BY <1>4 DEF SyncMember, AfterSync, Step, envVars
  <2> QED BY <2>1, DocumentStays DEF LoggedIn, Reindexing, Swapping, Safe, Numbers
<1> QED BY <1>2, <1>3, <1>4

LEMMA FixOrgIsAway ==
  ASSUME Safe, FixOrgUsers("fix_org", "users_map") \/ FixOrgUsers("org_again", "show")
  PROVE  Away
<1>1. UNCHANGED <<env, box, got, fresh, bearer, osenv, doc, read, torn>>
  BY DEF FixOrgUsers, envVars
<1>2. CASE FixOrgUsers("fix_org", "users_map")
  BY <1>1, <1>2, DocumentStays
     DEF FixOrgUsers, Step, LoggedIn, Reindexing, Swapping, Safe, Numbers
<1>3. CASE FixOrgUsers("org_again", "show")
  <2>1. pc = "org_again" /\ pc' = "show"
    BY <1>3 DEF FixOrgUsers, Step
  <2> QED BY <1>1, <2>1 DEF Away, Safe, Numbers, AdminKept, LoggedIn, Reindexing, Swapping
<1> QED BY <1>2, <1>3

LEMMA UpdateEnvIsAway == ASSUME Safe, UpdateEnv PROVE Away
<1>1. /\ pc = "update_env" /\ pc' \in {"rewrite", "idle"}
      /\ UNCHANGED <<box, got, fresh, bearer, osenv, doc, read, torn>>
  BY DEF UpdateEnv, Step, Exit, accVars
<1>2. env' = env \/ (Admin # NoKey /\ env' = [env EXCEPT !["shuffle"] = Admin])
  BY DEF UpdateEnv, SetEnv
<1>3. Admin \in Nat
  BY DEF Admin, Safe, Numbers, NoKey, Indices
<1>4. Numbers' /\ env'["token"] = env["token"]
  BY <1>1, <1>2, <1>3 DEF Safe, Numbers, Secrets
<1>5. AdminKept'
  BY <1>1 DEF Safe, AdminKept, LoggedIn, Reindexing
<1> QED BY <1>1, <1>4, <1>5 DEF Away, Swapping, Safe, Numbers

LEMMA ShuffleIsAway == ASSUME Safe, ShuffleAccountsNext PROVE Away
BY LoginIsAway, MappingIsAway, SyncIsAway, ValidateKeyIsAway, SyncFileIsAway, FixOrgIsAway,
   UpdateEnvIsAway DEF ShuffleAccountsNext

LEMMA AwayKeeps == ASSUME Safe, Away, UNCHANGED flowVars PROVE Safe'
<1>1. UNCHANGED <<flows, held, hooks>>
  BY DEF flowVars
<1>2. Issued'
  BY <1>1 DEF Safe, Numbers, Issued, Away
<1>3. InHand' /\ HookInHand'
  BY DEF InHand, HookInHand, Away, Swapping
<1> QED BY <1>2, <1>3 DEF Safe, Away

-----------------------------------------------------------------------------
(* The workflow.                                                           *)

(* A step of its deployment leaves the accounts of Shuffle alone.          *)
Steady ==
  /\ UNCHANGED <<box, got, accVars>> /\ fresh' \in Nat /\ fresh <= fresh'
  /\ DOMAIN env' = Secrets /\ env'["shuffle"] = env["shuffle"]
  /\ pc \notin Reindexing /\ pc' \notin Reindexing
  /\ pc' \in LoggedIn => pc \in LoggedIn

LEMMA SteadyKeeps == ASSUME Safe, Steady PROVE Numbers' /\ AdminKept'
<1>1. Numbers'
  BY DEF Safe, Numbers, Steady, accVars
<1>2. AdminKept'
  BY DEF Safe, AdminKept, Steady, accVars, Reindexing
<1> QED BY <1>1, <1>2

(* The token, the hooks and the workflows as they were lead where they led. *)
LEMMA ServingOn ==
  ASSUME Serving, UNCHANGED hooks, env'["token"] = env["token"], flows \subseteq flows'
  PROVE  Serving'
BY DEF Serving, Serves

LEMMA ContextKeeps ==
  ASSUME Safe, ResolveKeys \/ ListWorkflows \/ BuildContext \/ EnsureEnvironment
  PROVE  Safe' /\ (Serving => Serving')
<1>1. CASE ResolveKeys
  <2>1. /\ pc = "keys" /\ pc' \in {"list", "login", "idle"}
        /\ UNCHANGED <<box, got, fresh, accVars, flows, hooks>>
    BY <1>1 DEF ResolveKeys, Step, Exit
  <2>2. \/ env' = env
        \/ \E h, c : env' = [env EXCEPT !["thehive"] = h, !["cortex"] = c]
    BY <1>1 DEF ResolveKeys
  <2>3. /\ DOMAIN env' = Secrets /\ env'["shuffle"] = env["shuffle"]
        /\ env'["token"] = env["token"]
    BY <2>2 DEF Safe, Numbers, Secrets
  <2>4. Steady
    BY <2>1, <2>3 DEF Steady, LoggedIn, Reindexing, Safe, Numbers
  <2>5. held' = held \/ \E h, c : held' = [NothingHeld EXCEPT !.hive = h, !.cortex = c]
    BY <1>1 DEF ResolveKeys
  <2>6. DOMAIN held' = DOMAIN NothingHeld /\ held'.old \subseteq 1..fresh
    BY <2>5 DEF NothingHeld, Safe, Issued
  <2>7. Issued' /\ InHand' /\ HookInHand'
    BY <2>1, <2>6 DEF Safe, Issued, InHand, HookInHand, Swapping
  <2> QED BY <2>1, <2>3, <2>4, <2>7, SteadyKeeps, ServingOn DEF Safe
<1>2. CASE ListWorkflows
  <2>1. /\ pc = "list" /\ pc' \in {"build", "login", "idle"}
        /\ UNCHANGED <<env, box, got, fresh, accVars, flows, hooks>>
    BY <1>2 DEF ListWorkflows, Step, Exit, envVars
  <2>2. Steady
    BY <2>1 DEF Steady, LoggedIn, Reindexing, Safe, Numbers
  <2>3. held' \in {held, [held EXCEPT !.old = {f.id : f \in flows}], [held EXCEPT !.old = {}]}
    BY <1>2 DEF ListWorkflows
  <2>4. DOMAIN held' = DOMAIN NothingHeld /\ held'.old \subseteq 1..fresh
    BY <2>3 DEF NothingHeld, Safe, Issued
  <2>5. Issued' /\ InHand' /\ HookInHand'
    BY <2>1, <2>4 DEF Safe, Issued, InHand, HookInHand, Swapping
  <2> QED BY <2>1, <2>2, <2>5, SteadyKeeps, ServingOn DEF Safe
<1>3. CASE BuildContext
  <2>1. /\ pc = "build" /\ pc' \in {"environment", "login", "idle"}
        /\ UNCHANGED <<env, box, got, fresh, accVars, flows, hooks>>
    BY <1>3 DEF BuildContext, Step, Exit, envVars
  <2>2. Steady
    BY <2>1 DEF Steady, LoggedIn, Reindexing, Safe, Numbers
  <2>3. held' = held \/ \E w : held' = [held EXCEPT !.wired = w]
    BY <1>3 DEF BuildContext
  <2>4. DOMAIN held' = DOMAIN NothingHeld /\ held'.old \subseteq 1..fresh
    BY <2>3 DEF NothingHeld, Safe, Issued
  <2>5. Issued' /\ InHand' /\ HookInHand'
    BY <2>1, <2>4 DEF Safe, Issued, InHand, HookInHand, Swapping
  <2> QED BY <2>1, <2>2, <2>5, SteadyKeeps, ServingOn DEF Safe
<1>4. CASE EnsureEnvironment
  <2>1. /\ pc = "environment" /\ pc' = "fix_org"
        /\ UNCHANGED <<env, box, got, fresh, accVars, flows, hooks, held>>
    BY <1>4 DEF EnsureEnvironment, Step, envVars
  <2>2. Steady
    BY <2>1 DEF Steady, LoggedIn, Reindexing, Safe, Numbers
  <2>3. Issued' /\ InHand' /\ HookInHand'
    BY <2>1 DEF Safe, Issued, InHand, HookInHand, Swapping
  <2> QED BY <2>1, <2>2, <2>3, SteadyKeeps, ServingOn DEF Safe
<1> QED BY <1>1, <1>2, <1>3, <1>4

\* The new workflow has an id that none had before.
LEMMA CreateWorkflowKeeps == ASSUME Safe, CreateWorkflow PROVE Safe' /\ (Serving => Serving')
<1> DEFINE new == [id |-> fresh + 1, hive |-> held.hive, cortex |-> held.cortex,
                   wired |-> held.wired, start |-> FALSE, entry |-> FALSE]
           One(n) == "id" \in DOMAIN n /\ n.id = fresh + 1 /\ flows' = flows \cup {n}
<1>1. /\ pc = "create" /\ pc' \in {"branches", "login", "idle"}
      /\ UNCHANGED <<env, box, got, accVars, hooks>>
  BY DEF CreateWorkflow, Step, Exit, envVars
<1>2. \/ /\ pc' = "branches" /\ fresh' = fresh + 1 /\ held' = [held EXCEPT !.id = fresh + 1]
         /\ \E n : One(n)
      \/ /\ pc' # "branches" /\ UNCHANGED held
         /\ UNCHANGED <<flows, fresh>> \/ (fresh' = fresh + 1 /\ \E n : One(n))
  <2>1. \/ /\ Step("create", "branches") /\ Issue
           /\ \E start \in BOOLEAN : flows' = flows \cup {[new EXCEPT !.start = start]}
           /\ held' = [held EXCEPT !.id = fresh + 1]
        \/ /\ Exit("create", "login") /\ UNCHANGED held
           /\ UNCHANGED <<flows, fresh>> \/ (flows' = flows \cup {new} /\ Issue)
    BY DEF CreateWorkflow
  <2>2. \A start \in BOOLEAN : /\ "id" \in DOMAIN [new EXCEPT !.start = start]
                              /\ [new EXCEPT !.start = start].id = fresh + 1
    OBVIOUS
  <2>3. "id" \in DOMAIN new /\ new.id = fresh + 1
    OBVIOUS
  <2> HIDE DEF new
  <2> QED BY <2>1, <2>2, <2>3 DEF Step, Exit, Issue
<1> HIDE DEF new
<1>4. fresh' \in Nat /\ fresh <= fresh' /\ flows \subseteq flows'
  <2>1. fresh \in Nat /\ fresh' \in {fresh, fresh + 1}
    BY <1>2 DEF Safe, Numbers
  <2>2. flows \subseteq flows'
    BY <1>2
  <2> QED BY <2>1, <2>2
<1>5. Steady
  BY <1>1, <1>4 DEF Steady, LoggedIn, Reindexing, Safe, Numbers
<1>6. Issued'
  <2>1. \A f \in flows' : "id" \in DOMAIN f /\ f.id \in 1..fresh'
    <3>1. fresh \in Nat /\ \A f \in flows : "id" \in DOMAIN f /\ f.id \in 1..fresh
      BY DEF Safe, Numbers, Issued
    <3>2. CASE UNCHANGED <<flows, fresh>>
      BY <3>1, <3>2
    <3>3. ASSUME NEW n, One(n), fresh' = fresh + 1
          PROVE  \A f \in flows' : "id" \in DOMAIN f /\ f.id \in 1..fresh'
      BY <3>1, <3>3
    <3> QED BY <1>2, <3>2, <3>3
  <2>2. DOMAIN held' = DOMAIN NothingHeld /\ held'.old = held.old
    BY <1>2 DEF Safe, Issued, NothingHeld
  <2> QED BY <1>4, <2>1, <2>2 DEF Safe, Numbers, Issued
<1>7. InHand'
  <2> SUFFICES ASSUME pc' = "branches" PROVE InHand'
    BY <1>1 DEF InHand, Swapping
  <2>1. held'.id = fresh + 1 /\ held'.old = held.old /\ fresh' = fresh + 1
    BY <1>2 DEF Safe, Issued, NothingHeld
  <2>2. \E f \in flows' : f.id = fresh + 1
    BY <1>2
  <2> QED BY <2>1, <2>2 DEF InHand, Safe, Numbers, Issued
<1>8. HookInHand'
  BY <1>1 DEF HookInHand
<1> QED BY <1>1, <1>4, <1>5, <1>6, <1>7, <1>8, SteadyKeeps, ServingOn DEF Safe

\* A repaired workflow keeps its id.
LEMMA RepairKeepsIds ==
  ASSUME Safe, pc \in Swapping,
         \/ Repaired([Mine EXCEPT !.start = TRUE, !.entry = TRUE])
         \/ Repaired([Mine EXCEPT !.start = TRUE])
  PROVE  /\ \A f \in flows' : "id" \in DOMAIN f /\ f.id \in 1..fresh
         /\ \A f \in flows : \E h \in flows' : h.id = f.id
<1>1. PICK f \in flows : f.id = held.id
  BY DEF Safe, InHand
<1>2. Mine \in flows /\ Mine.id = held.id
  BY <1>1 DEF Mine
<1>3. "id" \in DOMAIN Mine
  BY <1>2 DEF Safe, Issued
<1>4. PICK g : "id" \in DOMAIN g /\ g.id = Mine.id /\ flows' = (flows \ {Mine}) \cup {g}
  <2> DEFINE one == [Mine EXCEPT !.start = TRUE]
             two == [Mine EXCEPT !.start = TRUE, !.entry = TRUE]
  <2>1. "id" \in DOMAIN one /\ one.id = Mine.id /\ "id" \in DOMAIN two /\ two.id = Mine.id
    BY <1>3
  <2>2. Repaired(one) \/ Repaired(two)
    OBVIOUS
  <2> HIDE DEF one, two
  <2> QED BY <2>1, <2>2 DEF Repaired
<1> QED BY <1>2, <1>4 DEF Safe, Issued

LEMMA RepairKeeps == ASSUME Safe, FixBranches \/ PatchDocs PROVE Safe' /\ (Serving => Serving')
<1>1. /\ pc \in {"branches", "patch"} /\ pc' \in {"patch", "delete_old", "login", "idle"}
      /\ UNCHANGED <<env, box, got, fresh, accVars, hooks, held>>
  BY DEF FixBranches, PatchDocs, Step, Exit, envVars
<1>2. \/ UNCHANGED flows
      \/ Repaired([Mine EXCEPT !.start = TRUE, !.entry = TRUE])
      \/ Repaired([Mine EXCEPT !.start = TRUE])
  BY DEF FixBranches, PatchDocs
<1>3. /\ \A f \in flows' : "id" \in DOMAIN f /\ f.id \in 1..fresh
      /\ \A f \in flows : \E h \in flows' : h.id = f.id
  <2>1. CASE UNCHANGED flows
    BY <2>1 DEF Safe, Issued
  <2>2. CASE \/ Repaired([Mine EXCEPT !.start = TRUE, !.entry = TRUE])
             \/ Repaired([Mine EXCEPT !.start = TRUE])
    BY <1>1, <2>2, RepairKeepsIds DEF Swapping
  <2> QED BY <1>2, <2>1, <2>2
<1>4. Steady
  BY <1>1 DEF Steady, LoggedIn, Reindexing, Safe, Numbers
<1>5. Issued' /\ HookInHand'
  BY <1>1, <1>3 DEF Safe, Issued, HookInHand
<1>6. InHand'
  BY <1>1, <1>3 DEF Safe, InHand, Swapping
<1>7. Serving => Serving'
  BY <1>1, <1>3 DEF Serving, Serves
<1> QED BY <1>4, <1>5, <1>6, <1>7, SteadyKeeps DEF Safe

\* The old workflows go, the new one stays.
LEMMA DeleteOldKeeps == ASSUME Safe, DeleteOld PROVE Safe'
<1>1. /\ pc = "delete_old" /\ pc' \in {"delete_old", "hook"}
      /\ UNCHANGED <<env, box, got, fresh, accVars, hooks>>
  BY DEF DeleteOld, envVars
<1>2. PICK i \in held.old \cup {NoKey} :
        /\ UNCHANGED held \/ held' = [held EXCEPT !.old = @ \ {i}]
        /\ UNCHANGED flows \/ (i \in held.old /\ flows' = {f \in flows : f.id # i})
  <2>1. CASE held.old = {} /\ UNCHANGED <<flows, held>>
    BY <2>1
  <2>2. CASE \E i \in held.old : /\ held' = [held EXCEPT !.old = @ \ {i}]
                                 /\ UNCHANGED flows \/ flows' = {f \in flows : f.id # i}
    BY <2>2
  <2> QED BY <2>1, <2>2 DEF DeleteOld
<1>3. /\ DOMAIN held' = DOMAIN NothingHeld /\ held'.old \subseteq held.old /\ held'.id = held.id
  BY <1>2 DEF Safe, Issued, NothingHeld
<1>4. flows' \subseteq flows /\ \A f \in flows : f.id \notin held.old => f \in flows'
  BY <1>2
<1>5. Steady
  BY <1>1 DEF Steady, LoggedIn, Reindexing, Safe, Numbers
<1>6. Issued' /\ HookInHand'
  BY <1>1, <1>3, <1>4 DEF Safe, Issued, HookInHand
<1>7. InHand'
  BY <1>1, <1>3, <1>4 DEF Safe, InHand, Swapping
<1> QED BY <1>5, <1>6, <1>7, SteadyKeeps DEF Safe

LEMMA RegisterHookKeeps == ASSUME Safe, RegisterHook PROVE Safe' /\ (Serving => Serving')
<1>1. /\ pc = "hook" /\ pc' = "indices"
      /\ UNCHANGED <<env, box, got, fresh, accVars, flows, held>>
  BY DEF RegisterHook, Step, envVars
<1>2. \/ hooks' = Hooked(held.id)
      \/ "hook" \in missed' /\ UNCHANGED hooks
  BY DEF RegisterHook, Shrugs
<1>3. hooks' = Hooked(held.id) =>
        /\ held.id \in DOMAIN hooks' /\ hooks'[held.id] = held.id
        /\ \A t \in DOMAIN hooks : t \in DOMAIN hooks' /\ hooks'[t] \in {hooks[t], held.id}
  BY DEF Hooked
<1>4. Steady
  BY <1>1 DEF Steady, LoggedIn, Reindexing, Safe, Numbers
<1>5. Issued' /\ InHand'
  BY <1>1 DEF Safe, Issued, InHand, Swapping
<1>6. HookInHand'
  BY <1>1, <1>2, <1>3 DEF HookInHand
<1>7. Serving => Serving'
  BY <1>1, <1>2, <1>3 DEF Serving, Serves, Safe, InHand, Swapping
<1> QED BY <1>4, <1>5, <1>6, <1>7, SteadyKeeps DEF Safe

LEMMA IndicesKeep == ASSUME Safe, EnsureEsIndices PROVE Safe' /\ (Serving => Serving')
<1>1. /\ pc = "indices" /\ pc' = "info" /\ missed' \in {missed, missed \cup {"lab"}}
      /\ UNCHANGED <<env, box, got, fresh, accVars, flows, held, hooks>>
  BY DEF EnsureEsIndices, Step, envVars, Shrugs
<1>2. Steady
  BY <1>1 DEF Steady, LoggedIn, Reindexing, Safe, Numbers
<1>3. Issued' /\ InHand' /\ HookInHand'
  BY <1>1 DEF Safe, Issued, InHand, HookInHand, Swapping
<1> QED BY <1>1, <1>2, <1>3, SteadyKeeps, ServingOn DEF Safe

\* A token that is written leads to the new workflow, if its hook was not missed.
LEMMA SaveInfoKeeps ==
  ASSUME Safe, SaveWebhookInfo PROVE Safe' /\ (Serving /\ "hook" \notin missed => Serving')
<1>1. /\ pc = "info" /\ pc' \in {"dashboard", "login", "idle"}
      /\ UNCHANGED <<box, got, fresh, accVars, flows, held, hooks>>
      /\ env' \in {env, [env EXCEPT !["token"] = held.id]}
  BY DEF SaveWebhookInfo, Step, Exit, SetEnv
<1>2. /\ DOMAIN env' = Secrets /\ env'["shuffle"] = env["shuffle"]
      /\ env'["token"] \in {env["token"], held.id}
  BY <1>1 DEF Safe, Numbers, Secrets
<1>3. Steady
  BY <1>1, <1>2 DEF Steady, LoggedIn, Reindexing, Safe, Numbers
<1>4. Issued' /\ InHand' /\ HookInHand'
  BY <1>1 DEF Safe, Issued, InHand, HookInHand, Swapping
<1>5. Serving /\ "hook" \notin missed => Serving'
  BY <1>1, <1>2 DEF Serving, Serves, Safe, Numbers, InHand, HookInHand, Swapping, NoKey
<1> QED BY <1>3, <1>4, <1>5, SteadyKeeps DEF Safe

LEMMA LastStepsKeep ==
  ASSUME Safe, ImportDashboard \/ RewriteInfo \/ SetupKpis
  PROVE  Safe' /\ (Serving => Serving')
<1>1. /\ pc \in {"dashboard", "rewrite", "kpis"}
      /\ pc' \in {"update_env", "idle", "analyzers", "org_again"}
      /\ UNCHANGED <<env, box, got, fresh, accVars, flows, hooks>>
      /\ held' \in {held, NothingHeld}
  BY DEF ImportDashboard, RewriteInfo, SetupKpis, Step, Then, envVars
<1>2. Steady
  BY <1>1 DEF Steady, LoggedIn, Reindexing, Safe, Numbers
<1>3. Issued' /\ InHand' /\ HookInHand'
  BY <1>1 DEF Safe, Issued, InHand, HookInHand, Swapping, NothingHeld
<1> QED BY <1>1, <1>2, <1>3, SteadyKeeps, ServingOn DEF Safe

-----------------------------------------------------------------------------
(* The runs.                                                               *)

LEMMA MakeUpKeeps == ASSUME Safe, MakeUp PROVE Safe' /\ (Serving => Serving')
<1>1. /\ pc = "idle" /\ pc' = "configure" /\ env' = GeneratedEnv /\ fresh' = fresh + 1
      /\ box' = env' /\ got' = NoKey /\ held' = NothingHeld
      /\ UNCHANGED <<bearer, read, osenv, flows, hooks>>
  BY DEF MakeUp, Begin, Issue
<1>2. /\ DOMAIN env' = Secrets /\ env'["shuffle"] \in Nat
      /\ env["token"] # NoKey => env'["token"] = env["token"]
  BY <1>1 DEF GeneratedEnv, Safe, Numbers, Secrets, NoKey
<1>3. /\ doc' \in [Indices -> Int]
      /\ torn' \/ doc'["users"] >= NoKey \/ doc' = NoDocuments
  <2>1. CASE doc = NoDocuments /\ ~torn
    <3>1. doc' = [doc EXCEPT !["users"] = env'["shuffle"], !["users_v2"] = NoIndex]
      BY <2>1 DEF MakeUp, FreshShuffle, NoDocuments
    <3>2. doc' \in [Indices -> Int] /\ doc'["users"] = env'["shuffle"]
      BY <3>1, <1>2 DEF Safe, Numbers, Indices, NoIndex
    <3> QED BY <1>2, <3>2 DEF NoKey
  <2>2. CASE ~(doc = NoDocuments /\ ~torn)
    <3>1. UNCHANGED <<doc, torn>>
      BY <2>2 DEF MakeUp, NoDocuments
    <3> QED BY <1>1, <3>1 DEF Safe, Numbers, AdminKept
  <2> QED BY <2>1, <2>2
<1>4. Numbers'
  BY <1>1, <1>2, <1>3 DEF Safe, Numbers, NoKey
<1>5. AdminKept'
  BY <1>1, <1>3 DEF AdminKept, LoggedIn, Reindexing
<1>6. Issued' /\ InHand' /\ HookInHand'
  BY <1>1 DEF Safe, Numbers, Issued, InHand, HookInHand, Swapping, NothingHeld
<1>7. Serving => Serving'
  BY <1>1, <1>2 DEF Serving, Serves
<1> QED BY <1>4, <1>5, <1>6, <1>7 DEF Safe

LEMMA RunScriptKeeps == ASSUME Safe, RunScript PROVE Safe' /\ (Serving => Serving')
<1>1. /\ pc = "idle" /\ pc' \in {"cortex", "hive", "restore", "login"}
      /\ got' = NoKey /\ held' = NothingHeld
      /\ UNCHANGED <<env, box, fresh, accVars, flows, hooks>>
  BY DEF RunScript, Begin, Scripts, envVars
<1>2. Numbers' /\ AdminKept'
  BY <1>1 DEF Safe, Numbers, AdminKept, accVars, NoKey, LoggedIn, Reindexing
<1>3. Issued' /\ InHand' /\ HookInHand'
  BY <1>1 DEF Safe, Issued, InHand, HookInHand, Swapping, NothingHeld
<1> QED BY <1>1, <1>2, <1>3, ServingOn DEF Safe

LEMMA CrashKeeps == ASSUME Safe, Crash PROVE Safe' /\ (Serving => Serving')
<1>1. /\ pc' = "idle" /\ (torn => torn') /\ (pc = "users_insert" => torn')
      /\ UNCHANGED <<env, box, got, fresh, doc, bearer, read, osenv, flowVars>>
  BY DEF Crash, envVars
<1>2. Numbers'
  BY <1>1 DEF Safe, Numbers
<1>3. AdminKept'
  BY <1>1 DEF Safe, AdminKept, LoggedIn, Reindexing
<1>4. Issued' /\ InHand' /\ HookInHand'
  BY <1>1 DEF Safe, Issued, InHand, HookInHand, Swapping, flowVars
<1> QED BY <1>1, <1>2, <1>3, <1>4, ServingOn DEF Safe, flowVars

LEMMA MakeResetKeeps == ASSUME Safe, MakeReset PROVE Safe' /\ flows' = {} /\ runs' = runs + 1
<1>1. /\ pc = "idle" /\ pc' = "idle" /\ runs' = runs + 1 /\ flows' = {} /\ held' = NothingHeld
      /\ doc' = NoDocuments
      /\ UNCHANGED <<env, box, got, fresh, bearer, read, osenv>>
  BY DEF MakeReset, WorkflowsLost, envVars, NoDocuments
<1>2. Numbers' /\ AdminKept'
  BY <1>1 DEF Safe, Numbers, AdminKept, NoDocuments, NoIndex, LoggedIn, Reindexing
<1>3. Issued' /\ InHand' /\ HookInHand'
  BY <1>1 DEF Issued, InHand, HookInHand, Swapping, NothingHeld
<1> QED BY <1>1, <1>2, <1>3 DEF Safe

\* What ends a run or looks at it changes none of this.
LEMMA ShowAndPreserveKeep ==
  ASSUME Safe, ShowAccess \/ (Preserve /\ UNCHANGED <<accVars, flowVars>>)
  PROVE  Safe' /\ (Serving => Serving')
<1>1. /\ pc \notin Late /\ pc' = "idle"
      /\ UNCHANGED <<env, box, got, fresh, accVars, flows, hooks, held>>
  BY Elsewhere DEF ShowAccess, Preserve, Step, envVars, flowVars
<1>2. Numbers' /\ AdminKept'
  BY <1>1 DEF Safe, Numbers, AdminKept, accVars, Late, LoggedIn, Reindexing
<1>3. Issued' /\ InHand' /\ HookInHand'
  BY <1>1 DEF Safe, Issued, InHand, HookInHand, Swapping
<1> QED BY <1>1, <1>2, <1>3, ServingOn DEF Safe

LEMMA SafeInit == Init => Safe
<1> SUFFICES ASSUME Init PROVE Safe
  OBVIOUS
<1>1. Numbers /\ AdminKept
  BY DEF Init, ShuffleAccountsInit, Numbers, AdminKept, NoKey, NoUser, NoIndex, NoDocuments,
     Secrets, LoggedIn, Reindexing
<1>2. Issued /\ InHand /\ HookInHand
  BY DEF Init, WorkflowDeploymentInit, Issued, InHand, HookInHand, Swapping, NothingHeld
<1> QED BY <1>1, <1>2 DEF Safe

Interrupts ==
  \/ pc = "delete_old"
  \/ pc = "info" /\ "hook" \in missed
  \/ flows' = {} /\ runs' = runs + 1

LEMMA SafeStep ==
  ASSUME Safe, [Next]_vars
  PROVE  Safe' /\ (Serving /\ ~Serving' => Interrupts)
<1>1. CASE UNCHANGED vars
  BY <1>1 DEF vars, setupVars, envVars, runVars, accVars, flowVars, Safe, Numbers, AdminKept,
     Issued, InHand, HookInHand, Serving, Serves
<1>2. CASE ServiceAccountsNext /\ UNCHANGED <<accVars, flowVars>>
  <2>1. Early /\ UNCHANGED <<flows, hooks>>
    BY <1>2, ServicesAreEarly DEF flowVars
  <2> QED BY <1>2, <2>1, EarlyKeeps, ServingOn DEF Early
<1>3. CASE ShuffleAccountsNext /\ UNCHANGED <<svcVars, flowVars>>
  <2>1. Away /\ UNCHANGED <<flows, hooks>>
    BY <1>3, ShuffleIsAway DEF flowVars
  <2> QED BY <1>3, <2>1, AwayKeeps, ServingOn DEF Away
<1>4. CASE WorkflowDeploymentNext
  <2>1. CASE DeleteOld
    BY <2>1, DeleteOldKeeps DEF DeleteOld, Interrupts
  <2>2. CASE SaveWebhookInfo
    BY <2>2, SaveInfoKeeps DEF SaveWebhookInfo, Step, Exit, Interrupts
  <2> QED BY <1>4, <2>1, <2>2, ContextKeeps, CreateWorkflowKeeps, RepairKeeps,
             RegisterHookKeeps, IndicesKeep, LastStepsKeep DEF WorkflowDeploymentNext
<1>5. CASE MakeReset
  BY <1>5, MakeResetKeeps DEF Interrupts
<1> QED BY <1>1, <1>2, <1>3, <1>4, <1>5, MakeUpKeeps, RunScriptKeeps, CrashKeeps,
           ShowAndPreserveKeep DEF Next, Scripted

\* The admin of Shuffle is out of its index only while the reindex holds what was read of
\* it, after one that was cut short, or before Shuffle has any data, whatever fails.
THEOREM AdminKeptSafe == Spec => []AdminSurvives
<1>1. Safe => AdminSurvives
  BY DEF Safe, Numbers, AdminKept, AdminSurvives, NoDocuments, Reindexing, NoKey, Indices
<1>2. Safe /\ [Next]_vars => Safe'
  BY SafeStep
<1> QED BY <1>1, <1>2, SafeInit, PTL DEF Spec

\* A workflow that serves the token stops doing so only when the old workflows are deleted,
\* when a token is written whose hook was missed, or by a reset, whatever fails.
THEOREM SwapInterruptsOnly == Spec => OnlyTheSwapInterrupts
<1>1. Safe /\ [Next]_vars => Safe' /\ (Serving /\ ~Serving' => Interrupts)
  BY SafeStep
<1>2. Spec => [][Serving /\ ~Serving' => Interrupts]_vars
  BY <1>1, SafeInit, PTL DEF Spec
<1> QED BY <1>2 DEF OnlyTheSwapInterrupts, Interrupts

-----------------------------------------------------------------------------
(* The setup, when nothing was missed: the types of what it works with.     *)

(* A run goes on: it is still the same, has forgotten nothing it missed,   *)
(* and failures are counted.                                               *)
Going ==
  /\ pc # "idle" /\ plan' = plan /\ up' = up /\ missed \subseteq missed'
  /\ faults' \in {faults, faults + 1}

Flow == [id : Nat, hive : Nat, cortex : Nat, wired : BOOLEAN, start : BOOLEAN, entry : BOOLEAN]
Held == [hive : Nat, cortex : Nat, wired : BOOLEAN, old : SUBSET Nat, id : Nat]
RunTyped ==
  /\ up \in BOOLEAN /\ faults \in Nat /\ fresh \in Nat /\ got \in Nat
  /\ env \in [Secrets -> Nat] /\ box \in [Secrets -> Nat]
ServicesTyped ==
  /\ key \in [Services -> Nat] /\ backup \in Int
  /\ index \in [Services -> {"none", "plain", "join"}] /\ analyzers \in BOOLEAN
ShuffleTyped ==
  /\ doc \in [Indices -> Int] /\ read \in Int /\ keyword \in [Indices -> BOOLEAN]
  /\ osenv \in Nat /\ bearer \in Nat /\ member \in Nat /\ pass \in {1, 2}
FlowsTyped ==
  /\ flows \subseteq Flow /\ held \in Held /\ info \in Nat /\ hostInfo \in Nat
SetupTyped == RunTyped /\ ServicesTyped /\ ShuffleTyped /\ FlowsTyped

\* With an index go its users, its keys and its analyzers.
LEMMA DeletedTyped ==
  ASSUME ServicesTyped, NEW s \in Services, NEW reset, DeleteIndex(s, reset)
  PROVE  /\ key' \in [Services -> Nat] /\ analyzers' \in BOOLEAN
         /\ index' \in [Services -> {"none", "plain", "join"}]
<1>1. analyzers' \in BOOLEAN
  <2>1. analyzers' = analyzers \/ analyzers' = (analyzers /\ s # "cortex")
    BY DEF DeleteIndex
  <2> QED BY <2>1, Zenon DEF ServicesTyped
<1>2. key' \in {key, [key EXCEPT ![s] = NoKey]} /\ index' \in {index, [index EXCEPT ![s] = "none"]}
  BY DEF DeleteIndex
<1> QED BY <1>1, <1>2 DEF ServicesTyped, NoKey

LEMMA CortexTyped ==
  ASSUME RunTyped, ServicesTyped, CortexNext
  PROVE  RunTyped' /\ ServicesTyped' /\ Going
<1> USE DEF RunTyped, ServicesTyped, Going, Step, Exit, Then, Issue, Works, Fails, Shrugs, runVars,
            Services, envVars
<1>1. CASE PutTemplate("cortex", "cortex", "cortex_delete")
  BY <1>1 DEF PutTemplate
<1>2. CASE CortexDelete
  <2>1. /\ Going /\ UNCHANGED <<up, env, box, got, fresh, backup>> /\ faults' \in Nat
        /\ DeleteIndex("cortex", plan = "up")
    BY <1>2 DEF CortexDelete, DeleteIndex
  <2> QED BY <2>1, DeletedTyped
<1>3. CASE EnsureIndex("cortex", "cortex_index",
                   IF attempt > 1 THEN "cortex_org" ELSE "cortex_wait", TRUE)
  BY <1>3 DEF EnsureIndex
<1>4. CASE AwaitService("cortex_wait", "cortex_org", "idle")
  BY <1>4 DEF AwaitService, svcVars
<1>5. CASE CortexOrg
  BY <1>5 DEF CortexOrg, Created
<1>6. CASE CreateSuperadmin
  BY <1>6 DEF CreateSuperadmin, Created
<1>7. CASE CortexRecover
  <2>1. /\ Going /\ UNCHANGED <<up, env, box, got, fresh, backup>> /\ faults' \in Nat
        /\ DeleteIndex("cortex", TRUE)
    BY <1>7 DEF CortexRecover, DeleteIndex
  <2> QED BY <2>1, DeletedTyped
<1>8. CASE CortexWork
  BY <1>8 DEF CortexWork
<1>9. CASE CortexKey
  <2>1. UNCHANGED <<up, plan, env, box, backup, index, analyzers>>
    BY <1>9 DEF CortexKey
  <2>0. pc = "cortex_key" /\ missed \subseteq missed' /\ faults' \in {faults, faults + 1}
    BY <1>9 DEF CortexKey
  <2>2. fresh' = fresh + 1 /\ (got' = fresh + 1 \/ got' = NoKey)
    BY <1>9 DEF CortexKey
  <2>3. key' = key \/ key' = [key EXCEPT !["cortex"] = fresh + 1]
    BY <1>9 DEF CortexKey
  <2>4. key' \in [Services -> Nat]
    BY <2>3
  <2> QED BY <2>0, <2>1, <2>2, <2>4 DEF NoKey
<1>10. CASE SaveKey("cortex", "cortex_env", Then("hive"))
  BY <1>10 DEF SaveKey, SetEnv, NoKey, svcVars
<1> QED BY <1>1, <1>2, <1>3, <1>4, <1>5, <1>6, <1>7, <1>8, <1>9, <1>10 DEF CortexNext

LEMMA HiveTyped ==
  ASSUME RunTyped, ServicesTyped, HiveNext
  PROVE  RunTyped' /\ ServicesTyped' /\ Going
<1> USE DEF RunTyped, ServicesTyped, Going, Step, Exit, Then, Issue, Works, Fails, Shrugs, runVars,
            Services, envVars
<1>1. CASE PutTemplate("thehive", "hive", "hive_delete")
  BY <1>1 DEF PutTemplate
<1>2. CASE HiveDelete
  BY <1>2 DEF HiveDelete, DeleteIndex, NoKey
<1>3. CASE EnsureIndex("thehive", "hive_index", "hive_wait", FALSE)
  BY <1>3 DEF EnsureIndex
<1>4. CASE AwaitService("hive_wait", "hive_admin", "hive")
  BY <1>4 DEF AwaitService, svcVars
<1>5. CASE CreateHiveAdmin
  BY <1>5 DEF CreateHiveAdmin, Created
<1>6. CASE HiveKey
  BY <1>6 DEF HiveKey
<1>7. CASE SaveKey("thehive", "hive_env", "hive_conf")
  BY <1>7 DEF SaveKey, SetEnv, NoKey, svcVars
<1>8. CASE ConfigureCortex
  BY <1>8 DEF ConfigureCortex, ReadKey, Secrets
<1> QED BY <1>1, <1>2, <1>3, <1>4, <1>5, <1>6, <1>7, <1>8 DEF HiveNext

LEMMA ServicesTypedStep ==
  ASSUME RunTyped, ServicesTyped, ServiceAccountsNext
  PROVE  RunTyped' /\ ServicesTyped' /\ Going
<1> USE DEF RunTyped, ServicesTyped, Going, Step, Exit, Then, Issue, Works, Fails, Shrugs, runVars,
            Services, envVars
<1>1. CASE ConfigureTemplates
  BY <1>1 DEF ConfigureTemplates, svcVars
<1>2. CASE PreIndex
  BY <1>2 DEF PreIndex
<1>3. CASE Restore
  <2>1. /\ Going /\ UNCHANGED <<up, box, got, backup, index, analyzers>>
        /\ faults' \in Nat
    BY <1>3 DEF Restore
  <2>2. \/ UNCHANGED <<env, fresh, key>>
        \/ env' = [env EXCEPT !["thehive"] = env["thehive"]] /\ UNCHANGED <<fresh, key>>
        \/ backup = key["thehive"] /\ env' = [env EXCEPT !["thehive"] = backup]
           /\ UNCHANGED <<fresh, key>>
        \/ /\ env' = [env EXCEPT !["thehive"] = fresh + 1] /\ fresh' = fresh + 1
           /\ key' = [key EXCEPT !["thehive"] = fresh + 1]
    BY <1>3 DEF Restore, SetEnv
  <2> QED BY <2>1, <2>2 DEF Secrets
<1>4. CASE InstallAnalyzers
  <2>1. /\ Going /\ UNCHANGED <<up, env, box, got, fresh, backup, index, key>>
        /\ faults' \in Nat
    BY <1>4 DEF InstallAnalyzers
  <2>2. analyzers' = analyzers \/ analyzers' = (analyzers \/ index["cortex"] = "join")
    BY <1>4 DEF InstallAnalyzers
  <2>3. analyzers' \in BOOLEAN
    BY <2>2, Zenon DEF ServicesTyped
  <2> QED BY <2>1, <2>3
<1>5. CASE LoadIocs
  BY <1>5 DEF LoadIocs
<1> QED BY <1>1, <1>2, <1>3, <1>4, <1>5, CortexTyped, HiveTyped DEF ServiceAccountsNext

LEMMA ShuffleTypedStep ==
  ASSUME RunTyped, ShuffleTyped, ShuffleAccountsNext
  PROVE  RunTyped' /\ ShuffleTyped' /\ Going
<1> USE DEF RunTyped, ShuffleTyped, Going, Step, Exit, Issue, Works, Fails, Shrugs, runVars,
            envVars
<1>1. CASE Login
  BY <1>1 DEF Login, NoKey, Secrets, Indices
<1>2. CASE FixUsersMapping
  <2> DEFINE after == IF pass = 1 THEN "sync_v2" ELSE "create"
  <2>1. CASE Step("users_map", after) /\ Shrugs("es")
             /\ UNCHANGED <<runVars, envVars, got, fresh, accVars>>
    BY <2>1 DEF accVars
  <2>2. ASSUME NEW i \in Indices, NEW from, NEW to, NEW past, from # "idle",
               ReindexRead(i, from, to, past)
        PROVE  RunTyped' /\ ShuffleTyped' /\ Going
    <3> HIDE DEF Indices
    <3>1. read' \in {read, NoUser, doc[i]} \cup {doc[j] : j \in Indices}
      BY <2>2 DEF ReindexRead
    <3>2. UNCHANGED <<doc, keyword, osenv, bearer, member, pass>>
      BY <2>2 DEF ReindexRead
    <3>3. /\ UNCHANGED <<plan, up, env, box, got, fresh>> /\ pc = from
          /\ missed \subseteq missed' /\ faults' \in {faults, faults + 1}
      BY <2>2 DEF ReindexRead
    <3> QED BY <2>2, <3>1, <3>2, <3>3 DEF NoUser
  <2>3. ASSUME NEW i \in Indices, NEW from, NEW to, NEW past, from # "idle",
               ReindexDelete(i, from, to, past)
        PROVE  RunTyped' /\ ShuffleTyped' /\ Going
    BY <2>3 DEF ReindexDelete, NoIndex, NoUser
  <2>4. ASSUME NEW i \in Indices, NEW from, NEW to, from # "idle", ReindexInsert(i, from, to)
        PROVE  RunTyped' /\ ShuffleTyped' /\ Going
    <3>1. /\ UNCHANGED <<plan, up, env, box, got, fresh, osenv, bearer, member, pass>>
          /\ pc = from /\ missed \subseteq missed' /\ faults' \in {faults, faults + 1}
      BY <2>4 DEF ReindexInsert
    <3>2. /\ doc' = doc \/ doc' = [doc EXCEPT ![i] = NoUser]
             \/ doc' = [doc EXCEPT ![i] = IF read = NoIndex THEN NoUser ELSE read]
          /\ keyword' = keyword \/ keyword' = [keyword EXCEPT ![i] = TRUE]
          /\ read' = NoUser
      BY <2>4 DEF ReindexInsert
    <3>3. doc' \in [Indices -> Int] /\ read' \in Int
      BY <3>2 DEF NoUser
    <3>4. keyword' \in [Indices -> BOOLEAN]
      BY <3>2
    <3> QED BY <2>4, <3>1, <3>3, <3>4
  <2>5. CASE CopyUsers("copy", "copy_member")
    BY <2>5 DEF CopyUsers, Indices
  <2>6. CASE CopyMember("copy_member", after)
    BY <2>6 DEF CopyMember, Admin, NoKey, Indices
  <2> QED BY <1>2, <2>1, <2>2, <2>3, <2>4, <2>5, <2>6 DEF FixUsersMapping, Indices
<1>3. CASE SyncV2
  BY <1>3 DEF SyncV2, AfterSync, Indices
<1>4. CASE SyncUsers
  BY <1>4 DEF SyncUsers, Indices
<1>5. CASE SyncMember
  BY <1>5 DEF SyncMember
<1>6. CASE ValidateKey
  BY <1>6 DEF ValidateKey, NoKey
<1>7. CASE SyncFile
  BY <1>7 DEF SyncFile, SetEnv, NoKey
<1>8. CASE FixOrgUsers("fix_org", "users_map") \/ FixOrgUsers("org_again", "show")
  BY <1>8 DEF FixOrgUsers, Admin, NoKey, Indices
<1>9. CASE UpdateEnv
  <2>1. Admin \in Nat
    BY DEF Admin, NoKey, Indices
  <2>2. env' = env \/ env' = [env EXCEPT !["shuffle"] = Admin]
    BY <1>9 DEF UpdateEnv, SetEnv
  <2>3. /\ UNCHANGED <<plan, up, box, got, fresh, accVars>> /\ pc = "update_env"
        /\ missed \subseteq missed' /\ faults' \in {faults, faults + 1}
    BY <1>9 DEF UpdateEnv
  <2> QED BY <2>1, <2>2, <2>3 DEF accVars
<1> QED BY <1>1, <1>2, <1>3, <1>4, <1>5, <1>6, <1>7, <1>8, <1>9 DEF ShuffleAccountsNext

LEMMA MineTyped ==
  ASSUME Safe, FlowsTyped, pc \in Swapping
  PROVE  Mine \in Flow /\ Mine \in flows /\ Mine.id = held.id
<1>1. PICK f \in flows : f.id = held.id
  BY DEF Safe, InHand
<1>2. Mine \in flows /\ Mine.id = held.id
  BY <1>1 DEF Mine
<1> QED BY <1>2 DEF FlowsTyped

LEMMA NothingTyped == NothingHeld \in Held
BY DEF NothingHeld, NoKey, Held

LEMMA WorkflowTypedStep ==
  ASSUME Safe, SetupTyped, WorkflowDeploymentNext
  PROVE  RunTyped' /\ ServicesTyped' /\ FlowsTyped' /\ Going
<1> USE DEF SetupTyped, RunTyped, ServicesTyped, FlowsTyped, Going, Step, Exit, Then, Issue,
            Works, Fails, Shrugs, runVars, envVars
<1>1. CASE ResolveKeys
  <2>1. ReadKey("thehive") \in Nat /\ ReadKey("cortex") \in Nat
    BY DEF ReadKey, Secrets
  <2>2. held' \in {held, [NothingHeld EXCEPT !.hive = ReadKey("thehive"),
                                             !.cortex = ReadKey("cortex")]}
    BY <1>1 DEF ResolveKeys
  <2>3. held' \in Held
    BY <2>1, <2>2, NothingTyped DEF Held
  <2> QED BY <1>1, <2>1, <2>3 DEF ResolveKeys, svcVars, Secrets
<1>2. CASE ListWorkflows
  <2>1. {f.id : f \in flows} \in SUBSET Nat
    BY DEF Flow
  <2>2. held' \in {held, [held EXCEPT !.old = {f.id : f \in flows}], [held EXCEPT !.old = {}]}
    BY <1>2 DEF ListWorkflows
  <2>3. held' \in Held
    BY <2>1, <2>2 DEF Held
  <2> QED BY <1>2, <2>3 DEF ListWorkflows, svcVars
<1>3. CASE BuildContext
  <2>1. \/ analyzers' = analyzers \/ analyzers' = (analyzers \/ index["cortex"] = "join")
    BY <1>3 DEF BuildContext
  <2>2. analyzers' \in BOOLEAN
    BY <2>1, Zenon
  <2>3. held' = held \/ held' = [held EXCEPT !.wired = analyzers']
        \/ held' = [held EXCEPT !.wired = FALSE]
    BY <1>3 DEF BuildContext
  <2>4. held' \in Held
    BY <2>2, <2>3 DEF Held
  <2> QED BY <1>3, <2>2, <2>4 DEF BuildContext
<1>4. CASE EnsureEnvironment
  BY <1>4 DEF EnsureEnvironment, svcVars
<1>5. CASE CreateWorkflow
  <2> DEFINE new == [id |-> fresh + 1, hive |-> held.hive, cortex |-> held.cortex,
                     wired |-> held.wired, start |-> FALSE, entry |-> FALSE]
  <2>1. new \in Flow /\ \A b \in BOOLEAN : [new EXCEPT !.start = b] \in Flow
    <3>1. fresh + 1 \in Nat /\ held.hive \in Nat /\ held.cortex \in Nat /\ held.wired \in BOOLEAN
      BY DEF Held
    <3>2. new \in Flow
      BY <3>1 DEF Flow
    <3> HIDE DEF new
    <3> QED BY <3>2 DEF Flow
  <2>2. [held EXCEPT !.id = fresh + 1] \in Held
    BY DEF Held
  <2>3. \/ UNCHANGED flows \/ flows' = flows \cup {new}
        \/ \E b \in BOOLEAN : flows' = flows \cup {[new EXCEPT !.start = b]}
    BY <1>5 DEF CreateWorkflow
  <2> HIDE DEF new
  <2>4. flows' \subseteq Flow
    BY <2>1, <2>3
  <2> QED BY <1>5, <2>2, <2>4 DEF CreateWorkflow, svcVars
<1>6. CASE FixBranches \/ PatchDocs
  <2>1. pc \in Swapping
    BY <1>6 DEF FixBranches, PatchDocs, Swapping
  <2>2. Mine \in Flow
    BY <2>1, MineTyped
  <2>3. [Mine EXCEPT !.start = TRUE] \in Flow /\ [Mine EXCEPT !.start = TRUE, !.entry = TRUE] \in Flow
    BY <2>2 DEF Flow
  <2>4. \/ UNCHANGED flows
        \/ Repaired([Mine EXCEPT !.start = TRUE, !.entry = TRUE])
        \/ Repaired([Mine EXCEPT !.start = TRUE])
    BY <1>6 DEF FixBranches, PatchDocs
  <2>5. flows' \subseteq Flow
    BY <2>3, <2>4 DEF Repaired
  <2> QED BY <1>6, <2>5 DEF FixBranches, PatchDocs, svcVars
<1>7. CASE DeleteOld
  <2>1. held' = held \/ \E i \in held.old : held' = [held EXCEPT !.old = @ \ {i}]
    BY <1>7 DEF DeleteOld
  <2>2. held' \in Held
    BY <2>1 DEF Held
  <2>3. flows' \subseteq flows
    BY <1>7 DEF DeleteOld
  <2> QED BY <1>7, <2>2, <2>3 DEF DeleteOld, svcVars
<1>8. CASE RegisterHook \/ EnsureEsIndices
  BY <1>8 DEF RegisterHook, EnsureEsIndices, svcVars
<1>9. CASE SaveWebhookInfo
  <2>1. held.id \in Nat
    BY DEF Held
  <2> QED BY <1>9, <2>1 DEF SaveWebhookInfo, SetEnv, svcVars
<1>10. CASE ImportDashboard \/ SetupKpis
  BY <1>10, NothingTyped DEF ImportDashboard, SetupKpis, svcVars
<1>11. CASE RewriteInfo
  BY <1>11 DEF RewriteInfo, svcVars
<1> QED BY <1>1, <1>2, <1>3, <1>4, <1>5, <1>6, <1>7, <1>8, <1>9, <1>10, <1>11
        DEF WorkflowDeploymentNext

-----------------------------------------------------------------------------
LEMMA AccountsStay == ASSUME WorkflowDeploymentNext PROVE UNCHANGED accVars
<1>1. CASE ResolveKeys \/ ListWorkflows \/ BuildContext \/ EnsureEnvironment
  BY <1>1 DEF ResolveKeys, ListWorkflows, BuildContext, EnsureEnvironment
<1>2. CASE CreateWorkflow \/ FixBranches \/ PatchDocs
  BY <1>2 DEF CreateWorkflow, FixBranches, PatchDocs
<1>3. CASE DeleteOld \/ RegisterHook \/ EnsureEsIndices \/ SaveWebhookInfo \/ ImportDashboard
           \/ RewriteInfo \/ SetupKpis
  BY <1>3 DEF DeleteOld, RegisterHook, EnsureEsIndices, SaveWebhookInfo, ImportDashboard,
              RewriteInfo, SetupKpis
<1> QED BY <1>1, <1>2, <1>3 DEF WorkflowDeploymentNext

\* A run that has ended well has ended; the container has a key of Shuffle once something
\* was started.
Runs ==
  /\ up => pc = "idle"
  /\ pc # "idle" \/ runs > 0 => box["shuffle"] # NoKey

(* A run of `make up` that has told of no failure.                         *)
Clean == plan = "up" /\ missed \subseteq Untold

(* Where a run has not yet got to, part by part.                           *)
ToUsers == {"idle", "configure", "preindex", "cortex", "cortex_delete", "cortex_index",
            "cortex_wait", "cortex_org", "cortex_admin", "cortex_recover"}
ToCortex == ToUsers \cup {"cortex_work", "cortex_key", "cortex_env"}
ToHive == ToCortex \cup {"hive", "hive_delete", "hive_index", "hive_wait", "hive_admin",
                         "hive_key", "hive_env"}
ToConf == ToHive \cup {"hive_conf"}
ToLogin == ToConf \cup {"restore", "login"}
Past(places) == up \/ pc \notin places

\* A scripted step takes a run from one place to another.
LEMMA GoingOn ==
  ASSUME Runs, Going
  PROVE  ~up /\ ~up' /\ (Clean' => Clean) /\ missed \subseteq missed'
BY DEF Runs, Going, Clean

LEMMA ServicesLiterals ==
  /\ [s \in Services |-> 0] \in [Services -> Nat] /\ -1 \in Int /\ FALSE \in BOOLEAN
  /\ [s \in Services |-> "none"] \in [Services -> {"none", "plain", "join"}]
<1>1. [s \in Services |-> 0] \in [Services -> Nat] /\ -1 \in Int
  OBVIOUS
<1>2. FALSE \in BOOLEAN
  BY Zenon
<1>3. [s \in Services |-> "none"] \in [Services -> {"none", "plain", "join"}]
  OBVIOUS
<1> QED BY <1>1, <1>2, <1>3

LEMMA SetupTypedInit == Init => SetupTyped /\ Runs
<1> SUFFICES ASSUME Init PROVE SetupTyped /\ Runs
  OBVIOUS
<1>1. RunTyped /\ Runs
  <2>1. env = [s \in Secrets |-> 0] /\ box = env
    BY DEF Init, NoKey
  <2>2. up = FALSE /\ faults = 0 /\ fresh = 0 /\ got = 0 /\ pc = "idle" /\ runs = 0
    BY DEF Init, NoKey
  <2>3. env \in [Secrets -> Nat]
    BY <2>1
  <2>4. box \in [Secrets -> Nat]
    BY <2>1, <2>3
  <2>5. up \in BOOLEAN
    BY <2>2, Zenon
  <2>6. Runs
    BY <2>2 DEF Runs
  <2> QED BY <2>2, <2>3, <2>4, <2>5, <2>6 DEF RunTyped
<1>2. ServicesTyped
  <2>1. /\ key = [s \in Services |-> 0] /\ index = [s \in Services |-> "none"]
        /\ backup = -1 /\ analyzers = FALSE
    BY DEF Init, ServiceAccountsInit, NoKey, NoBackup
  <2> QED BY <2>1, ServicesLiterals DEF ServicesTyped
<1>3. ShuffleTyped
  BY DEF Init, ShuffleAccountsInit, ShuffleTyped, NoKey, NoUser, NoIndex
<1>4. FlowsTyped
  BY NothingTyped DEF Init, WorkflowDeploymentInit, FlowsTyped, NoKey
<1> QED BY <1>1, <1>2, <1>3, <1>4 DEF SetupTyped

LEMMA MakeUpTyped ==
  ASSUME SetupTyped, Runs, MakeUp
  PROVE  SetupTyped' /\ Runs' /\ pc' = "configure" /\ ~up' /\ missed' = {} /\ faults' = faults
<1> USE DEF SetupTyped
<1>1. /\ pc' = "configure" /\ plan' = "up" /\ up' = FALSE /\ missed' = {} /\ got' = NoKey
      /\ env' = GeneratedEnv /\ box' = env' /\ fresh' = fresh + 1 /\ held' = NothingHeld
      /\ UNCHANGED <<faults, key, backup, index, analyzers, read, bearer, osenv, pass,
                     flows, info, hostInfo>>
  BY DEF MakeUp, Begin, Issue
<1>2. env' \in [Secrets -> Nat] /\ env'["shuffle"] # NoKey
  BY <1>1 DEF GeneratedEnv, RunTyped, Secrets, NoKey
<1>3. RunTyped' /\ Runs'
  <2>1. RunTyped'
    <3>1. faults' \in Nat /\ fresh' \in Nat /\ got' \in Nat
      BY <1>1 DEF RunTyped, NoKey
    <3>3. up' \in BOOLEAN
      BY <1>1, Zenon
    <3>2. box' \in [Secrets -> Nat]
      BY <1>1, <1>2
    <3> QED BY <1>2, <3>1, <3>2, <3>3 DEF RunTyped
  <2>2. box'["shuffle"] # NoKey /\ env'["shuffle"] # NoKey /\ ~up'
    BY <1>1, <1>2
  <2> QED BY <2>1, <2>2 DEF Runs
<1>4. ServicesTyped'
  BY <1>1 DEF ServicesTyped
<1>5. ShuffleTyped'
  <2>1. CASE UNCHANGED <<doc, keyword, member, linked, torn>>
    BY <1>1, <2>1 DEF ShuffleTyped
  <2>2. CASE FreshShuffle(env'["shuffle"])
    <3>0. env'["shuffle"] \in Int /\ NoIndex \in Int
      BY <1>2 DEF Secrets, NoIndex
    <3>1. doc' \in [Indices -> Int]
      BY <3>0, <2>2 DEF FreshShuffle, ShuffleTyped
    <3>2. keyword' \in [Indices -> BOOLEAN] /\ member' = NoKey
      BY <2>2 DEF FreshShuffle
    <3> QED BY <1>1, <3>1, <3>2 DEF ShuffleTyped, NoKey
  <2> QED BY <2>1, <2>2 DEF MakeUp
<1>6. FlowsTyped'
  BY <1>1, NothingTyped DEF FlowsTyped
<1> QED BY <1>1, <1>3, <1>4, <1>5, <1>6

LEMMA RunScriptTyped ==
  ASSUME SetupTyped, Runs, RunScript
  PROVE  /\ SetupTyped' /\ Runs' /\ plan' = "solo" /\ ~up' /\ faults' = faults
         /\ pc' \in Scripts /\ UNCHANGED index
<1>1. /\ pc' \in Scripts /\ plan' = "solo" /\ up' = FALSE /\ missed' = {} /\ got' = NoKey
      /\ held' = NothingHeld /\ runs > 0
      /\ UNCHANGED <<faults, backup, env, box, fresh, key, index, analyzers, accVars, flows,
                     info, hostInfo>>
  BY DEF RunScript, Begin, envVars
<1>2. RunTyped' /\ ServicesTyped' /\ ShuffleTyped' /\ FlowsTyped'
  BY <1>1, NothingTyped DEF SetupTyped, RunTyped, ServicesTyped, ShuffleTyped, FlowsTyped, accVars,
     NoKey
<1>3. Runs'
  BY <1>1 DEF Runs
<1> QED BY <1>1, <1>2, <1>3 DEF SetupTyped

\* A run that was killed has not ended well.
LEMMA CrashTyped ==
  ASSUME SetupTyped, Runs, Crash
  PROVE  SetupTyped' /\ Runs' /\ ~up' /\ pc' = "idle" /\ faults' = faults + 1 /\ UNCHANGED index
<1>1. /\ pc # "idle" /\ pc' = "idle" /\ faults' = faults + 1
      /\ UNCHANGED <<plan, runs, up, missed, env, box, got, fresh, svcVars, doc, keyword,
                     member, bearer, read, pass, osenv, flowVars>>
  BY DEF Crash, Fails, envVars
<1>2. RunTyped' /\ ServicesTyped' /\ ShuffleTyped' /\ FlowsTyped'
  BY <1>1 DEF SetupTyped, RunTyped, ServicesTyped, ShuffleTyped, FlowsTyped, svcVars, flowVars
<1>3. Runs'
  BY <1>1 DEF Runs
<1> QED BY <1>1, <1>2, <1>3 DEF SetupTyped, Runs, svcVars

LEMMA MakeResetTyped ==
  ASSUME SetupTyped, Runs, MakeReset
  PROVE  /\ SetupTyped' /\ Runs' /\ ~up' /\ pc' = "idle" /\ faults' = faults
         /\ index' = [s \in Services |-> "none"]
<1> USE DEF SetupTyped
<1>1. /\ pc' = "idle" /\ up' = FALSE /\ runs > 0
      /\ UNCHANGED <<plan, faults, env, box, got, fresh, bearer, read, pass, osenv>>
  BY DEF MakeReset, envVars
<1>2. RunTyped' /\ Runs'
  BY <1>1 DEF RunTyped, Runs
<1>3. ServicesTyped'
  <2>1. /\ key' = [s \in Services |-> 0] /\ index' = [s \in Services |-> "none"]
        /\ backup' = -1 /\ analyzers' = FALSE
    BY DEF MakeReset, ServicesLost, NoKey, NoBackup
  <2> QED BY <2>1, ServicesLiterals DEF ServicesTyped
<1>4. ShuffleTyped'
  BY <1>1 DEF MakeReset, ShuffleTyped, NoIndex, NoKey
<1>5. FlowsTyped'
  BY NothingTyped DEF MakeReset, WorkflowsLost, FlowsTyped, NoKey
<1> QED BY <1>1, <1>2, <1>3, <1>4, <1>5 DEF MakeReset, ServicesLost

LEMMA PreserveTyped ==
  ASSUME SetupTyped, Runs, Preserve, UNCHANGED <<accVars, flowVars>>
  PROVE  /\ SetupTyped' /\ Runs' /\ pc = "idle"
         /\ UNCHANGED <<pc, runVars, missed, env, box, got, fresh, faults, index, key>>
<1>1. /\ pc = "idle" /\ UNCHANGED <<pc, runVars, missed, env, box, got, fresh, faults, index, key,
                                    analyzers, accVars, flowVars>>
      /\ backup' \in {box["thehive"], NoKey}
  BY DEF Preserve, envVars, Works
<1>2. RunTyped' /\ ServicesTyped' /\ ShuffleTyped' /\ FlowsTyped'
  BY <1>1 DEF SetupTyped, RunTyped, ServicesTyped, ShuffleTyped, FlowsTyped, runVars, accVars,
     flowVars, NoKey, Secrets
<1>3. Runs'
  BY <1>1 DEF Runs, runVars
<1> QED BY <1>1, <1>2, <1>3 DEF SetupTyped

LEMMA ShowTyped ==
  ASSUME SetupTyped, Runs, ShowAccess
  PROVE  /\ SetupTyped' /\ pc = "show" /\ pc' = "idle" /\ up'
         /\ UNCHANGED <<plan, runs, missed, envVars, got, fresh, svcVars, accVars, flowVars, faults>>
<1>1. /\ pc = "show" /\ pc' = "idle" /\ up' = TRUE
      /\ UNCHANGED <<plan, runs, missed, envVars, got, fresh, svcVars, accVars, flowVars, faults>>
  BY DEF ShowAccess, Step, Works
<1>2. RunTyped' /\ ServicesTyped' /\ ShuffleTyped' /\ FlowsTyped'
  BY <1>1 DEF SetupTyped, RunTyped, ServicesTyped, ShuffleTyped, FlowsTyped, envVars, svcVars,
     accVars, flowVars
<1> QED BY <1>1, <1>2 DEF SetupTyped

-----------------------------------------------------------------------------
(* Only `make up` gets to the templates and beyond the webhook script.     *)
UpOnly == {"configure", "preindex", "update_env", "rewrite", "analyzers", "iocs", "kpis",
           "org_again", "show"}
Ordered == up \/ pc \in UpOnly => plan = "up"

CortexPlaces == {"cortex", "cortex_delete", "cortex_index", "cortex_wait", "cortex_org",
                 "cortex_admin", "cortex_recover", "cortex_work", "cortex_key", "cortex_env"}
HivePlaces == {"hive", "hive_delete", "hive_index", "hive_wait", "hive_admin", "hive_key",
               "hive_env", "hive_conf"}
Mapping == {"users_map", "users_delete", "users_insert", "v2_map", "v2_delete", "v2_insert",
            "copy", "copy_member"}
Syncing == {"sync_v2", "sync_users", "sync_member"}
Context == {"keys", "list", "build", "environment", "fix_org"}
WebhookPlaces == {"login", "validate", "sync_file", "create"} \cup Mapping \cup Syncing
                   \cup Context \cup Swapping
Closing == {"update_env", "rewrite", "analyzers", "iocs", "kpis", "org_again"}

\* The way through reset_cortex.py and init_thehive.py.
LEMMA CortexGoes ==
  ASSUME CortexNext
  PROVE  /\ pc \in CortexPlaces /\ pc' \in CortexPlaces \cup {"hive", "idle"}
<1> USE DEF CortexPlaces, Step, Exit, Then
<1>1. CASE PutTemplate("cortex", "cortex", "cortex_delete")
  BY <1>1 DEF PutTemplate
<1>2. CASE CortexDelete
  BY <1>2 DEF CortexDelete
<1>3. CASE EnsureIndex("cortex", "cortex_index",
                   IF attempt > 1 THEN "cortex_org" ELSE "cortex_wait", TRUE)
  BY <1>3 DEF EnsureIndex
<1>4. CASE AwaitService("cortex_wait", "cortex_org", "idle")
  BY <1>4 DEF AwaitService
<1>5. CASE CortexOrg
  BY <1>5 DEF CortexOrg
<1>6. CASE CreateSuperadmin
  BY <1>6 DEF CreateSuperadmin
<1>7. CASE CortexRecover
  BY <1>7 DEF CortexRecover
<1>8. CASE CortexWork
  BY <1>8 DEF CortexWork
<1>9. CASE CortexKey
  BY <1>9 DEF CortexKey
<1>10. CASE SaveKey("cortex", "cortex_env", Then("hive"))
  BY <1>10 DEF SaveKey
<1> QED BY <1>1, <1>2, <1>3, <1>4, <1>5, <1>6, <1>7, <1>8, <1>9, <1>10 DEF CortexNext

LEMMA HiveGoes ==
  ASSUME HiveNext
  PROVE  pc \in HivePlaces /\ pc' \in HivePlaces \cup {"restore", "idle"}
<1> USE DEF HivePlaces, Step, Exit, Then
<1>1. CASE PutTemplate("thehive", "hive", "hive_delete")
  BY <1>1 DEF PutTemplate
<1>2. CASE HiveDelete
  BY <1>2 DEF HiveDelete
<1>3. CASE EnsureIndex("thehive", "hive_index", "hive_wait", FALSE)
  BY <1>3 DEF EnsureIndex
<1>4. CASE AwaitService("hive_wait", "hive_admin", "hive")
  BY <1>4 DEF AwaitService
<1>5. CASE CreateHiveAdmin
  BY <1>5 DEF CreateHiveAdmin
<1>6. CASE HiveKey
  BY <1>6 DEF HiveKey
<1>7. CASE SaveKey("thehive", "hive_env", "hive_conf")
  BY <1>7 DEF SaveKey
<1>8. CASE ConfigureCortex
  BY <1>8 DEF ConfigureCortex
<1> QED BY <1>1, <1>2, <1>3, <1>4, <1>5, <1>6, <1>7, <1>8 DEF HiveNext

\* The other scripts do not go back to them.
LEMMA OthersGo ==
  ASSUME Ordered
  PROVE  /\ ConfigureTemplates => pc = "configure" /\ pc' \in {"preindex", "idle"} /\ plan = "up"
         /\ PreIndex => pc = "preindex" /\ pc' = "cortex" /\ plan = "up"
         /\ Restore => pc = "restore" /\ pc' \in {"login", "idle"}
         /\ InstallAnalyzers \/ LoadIocs => /\ pc \in Closing /\ pc' \in Closing /\ plan = "up"
BY DEF Ordered, UpOnly, Closing, ConfigureTemplates, PreIndex, Restore, InstallAnalyzers, LoadIocs,
       Step, Exit, Then

LEMMA ShuffleGoes ==
  ASSUME ShuffleAccountsNext, Ordered
  PROVE  \/ pc \in WebhookPlaces /\ pc' \in WebhookPlaces \cup {"idle"}
         \/ pc \in Closing /\ pc' \in Closing \cup {"show", "idle"} /\ plan = "up"
<1> USE DEF WebhookPlaces, Mapping, Syncing, Context, Swapping, Closing, Step, Exit
<1>1. CASE Login \/ ValidateKey \/ SyncFile \/ FixOrgUsers("fix_org", "users_map")
  BY <1>1 DEF Login, ValidateKey, SyncFile, FixOrgUsers
<1>2. CASE FixUsersMapping
  BY <1>2 DEF FixUsersMapping, ReindexRead, ReindexDelete, ReindexInsert, CopyUsers, CopyMember
<1>3. CASE SyncV2 \/ SyncUsers \/ SyncMember
  BY <1>3 DEF SyncV2, SyncUsers, SyncMember, AfterSync
<1>4. CASE FixOrgUsers("org_again", "show") \/ UpdateEnv
  BY <1>4 DEF FixOrgUsers, UpdateEnv, Ordered, UpOnly
<1> QED BY <1>1, <1>2, <1>3, <1>4 DEF ShuffleAccountsNext

LEMMA WorkflowGoes ==
  ASSUME WorkflowDeploymentNext, Ordered
  PROVE  \/ pc \in WebhookPlaces /\ pc' \in WebhookPlaces \cup {"idle"}
         \/ pc \in Closing \cup {"dashboard"} /\ pc' \in Closing /\ plan = "up"
<1> USE DEF WebhookPlaces, Mapping, Syncing, Context, Swapping, Closing, Step, Exit, Then
<1>1. CASE ResolveKeys \/ ListWorkflows \/ BuildContext \/ EnsureEnvironment
  BY <1>1 DEF ResolveKeys, ListWorkflows, BuildContext, EnsureEnvironment
<1>2. CASE CreateWorkflow \/ FixBranches \/ PatchDocs
  BY <1>2 DEF CreateWorkflow, FixBranches, PatchDocs
<1>3. CASE DeleteOld \/ RegisterHook \/ EnsureEsIndices \/ SaveWebhookInfo
  BY <1>3 DEF DeleteOld, RegisterHook, EnsureEsIndices, SaveWebhookInfo
<1>4. CASE ImportDashboard
  BY <1>4 DEF ImportDashboard
<1>5. CASE RewriteInfo \/ SetupKpis
  BY <1>5 DEF RewriteInfo, SetupKpis, Ordered, UpOnly
<1> QED BY <1>1, <1>2, <1>3, <1>4, <1>5 DEF WorkflowDeploymentNext

LEMMA OrderedStep ==
  ASSUME SetupTyped, Runs, Safe, Ordered, Scripted
  PROVE  Ordered'
<1>1. CASE ServiceAccountsNext /\ UNCHANGED <<accVars, flowVars>>
  <2>1. Going /\ ~up'
    BY <1>1, ServicesTypedStep, GoingOn DEF SetupTyped
  <2>2. pc' \in UpOnly => plan = "up"
    BY <1>1, CortexGoes, HiveGoes, OthersGo
       DEF ServiceAccountsNext, UpOnly, CortexPlaces, HivePlaces
  <2> QED BY <2>1, <2>2 DEF Ordered, Going
<1>2. CASE ShuffleAccountsNext
  <2>1. Going /\ ~up'
    BY <1>2, ShuffleTypedStep, GoingOn DEF SetupTyped
  <2> QED BY <1>2, <2>1, ShuffleGoes
          DEF Ordered, Going, UpOnly, WebhookPlaces, Mapping, Syncing, Context, Swapping
<1>3. CASE WorkflowDeploymentNext
  <2>1. Going /\ ~up'
    BY <1>3, WorkflowTypedStep, GoingOn
  <2> QED BY <1>3, <2>1, WorkflowGoes
          DEF Ordered, Going, UpOnly, WebhookPlaces, Mapping, Syncing, Context, Swapping
<1>4. CASE ShowAccess
  BY <1>4 DEF ShowAccess, Step, Ordered, UpOnly
<1> QED BY <1>1, <1>2, <1>3, <1>4 DEF Scripted

LEMMA OrderedNext ==
  ASSUME SetupTyped, Runs, Safe, Ordered, Next
  PROVE  Ordered'
<1>1. CASE MakeUp
  BY <1>1 DEF MakeUp, Begin, Ordered
<1>2. CASE RunScript \/ Crash \/ MakeReset
  BY <1>2, RunScriptTyped, CrashTyped, MakeResetTyped DEF Ordered, UpOnly, Scripts
<1>3. CASE Preserve /\ UNCHANGED <<accVars, flowVars>>
  BY <1>3, PreserveTyped DEF Ordered, runVars
<1> QED BY <1>1, <1>2, <1>3, OrderedStep DEF Next

LEMMA RunsStep == ASSUME Runs, Going, UNCHANGED <<runs, box>> PROVE Runs'
BY DEF Runs, Going

\* No scripted step changes the environment of the container, or counts a run.
LEMMA ServicesKeepBox ==
  ASSUME ServiceAccountsNext PROVE UNCHANGED <<runs, box>>
<1> USE DEF Step, Exit, runVars, envVars
<1>1. CASE CortexNext
  BY <1>1 DEF CortexNext, PutTemplate, CortexDelete, EnsureIndex, AwaitService, CortexOrg,
              CreateSuperadmin, CortexRecover, CortexWork, CortexKey, SaveKey
<1>2. CASE HiveNext
  BY <1>2 DEF HiveNext, PutTemplate, HiveDelete, EnsureIndex, AwaitService, CreateHiveAdmin,
              HiveKey, SaveKey, ConfigureCortex
<1>3. CASE ConfigureTemplates \/ PreIndex \/ Restore \/ InstallAnalyzers \/ LoadIocs
  BY <1>3 DEF ConfigureTemplates, PreIndex, Restore, InstallAnalyzers, LoadIocs
<1> QED BY <1>1, <1>2, <1>3 DEF ServiceAccountsNext

LEMMA ShuffleKeepsBox ==
  ASSUME ShuffleAccountsNext PROVE UNCHANGED <<runs, box>>
<1> USE DEF Step, Exit, runVars, envVars
<1>1. CASE FixUsersMapping
  BY <1>1 DEF FixUsersMapping, ReindexRead, ReindexDelete, ReindexInsert, CopyUsers, CopyMember
<1>2. CASE Login \/ ValidateKey \/ SyncFile \/ SyncV2 \/ SyncUsers \/ SyncMember
  BY <1>2 DEF Login, ValidateKey, SyncFile, SyncV2, SyncUsers, SyncMember
<1>3. CASE FixOrgUsers("fix_org", "users_map") \/ FixOrgUsers("org_again", "show") \/ UpdateEnv
  BY <1>3 DEF FixOrgUsers, UpdateEnv
<1> QED BY <1>1, <1>2, <1>3 DEF ShuffleAccountsNext

LEMMA WorkflowKeepsBox ==
  ASSUME WorkflowDeploymentNext PROVE UNCHANGED <<runs, box>>
<1> USE DEF Step, Exit, runVars, envVars
<1>1. CASE ResolveKeys \/ ListWorkflows \/ BuildContext \/ EnsureEnvironment
  BY <1>1 DEF ResolveKeys, ListWorkflows, BuildContext, EnsureEnvironment
<1>2. CASE CreateWorkflow \/ FixBranches \/ PatchDocs
  BY <1>2 DEF CreateWorkflow, FixBranches, PatchDocs
<1>3. CASE DeleteOld \/ RegisterHook \/ EnsureEsIndices \/ SaveWebhookInfo
  BY <1>3 DEF DeleteOld, RegisterHook, EnsureEsIndices, SaveWebhookInfo
<1>4. CASE ImportDashboard \/ RewriteInfo \/ SetupKpis
  BY <1>4 DEF ImportDashboard, RewriteInfo, SetupKpis
<1> QED BY <1>1, <1>2, <1>3, <1>4 DEF WorkflowDeploymentNext

LEMMA TypedNext ==
  ASSUME SetupTyped, Runs, Safe, Next
  PROVE  SetupTyped' /\ Runs'
<1> USE DEF SetupTyped
<1>1. CASE ServiceAccountsNext /\ UNCHANGED <<accVars, flowVars>>
  <2>1. RunTyped' /\ ServicesTyped' /\ Going
    BY <1>1, ServicesTypedStep
  <2>2. ShuffleTyped' /\ FlowsTyped'
    BY <1>1 DEF ShuffleTyped, FlowsTyped, accVars, flowVars
  <2> QED BY <1>1, <2>1, <2>2, RunsStep, ServicesKeepBox
<1>2. CASE ShuffleAccountsNext /\ UNCHANGED <<svcVars, flowVars>>
  <2>1. RunTyped' /\ ShuffleTyped' /\ Going
    BY <1>2, ShuffleTypedStep
  <2>2. ServicesTyped' /\ FlowsTyped'
    BY <1>2 DEF ServicesTyped, FlowsTyped, svcVars, flowVars
  <2> QED BY <1>2, <2>1, <2>2, RunsStep, ShuffleKeepsBox
<1>3. CASE WorkflowDeploymentNext
  <2>1. RunTyped' /\ ServicesTyped' /\ FlowsTyped' /\ Going
    BY <1>3, WorkflowTypedStep
  <2>2. ShuffleTyped'
    BY <1>3, AccountsStay DEF ShuffleTyped, accVars
  <2> QED BY <1>3, <2>1, <2>2, RunsStep, WorkflowKeepsBox
<1>4. CASE ShowAccess
  <2>1. Runs'
    BY <1>4 DEF ShowAccess, Step, Runs, envVars
  <2> QED BY <1>4, <2>1, ShowTyped
<1>5. CASE Preserve /\ UNCHANGED <<accVars, flowVars>>
  BY <1>5, PreserveTyped
<1> QED BY <1>1, <1>2, <1>3, <1>4, <1>5, MakeUpTyped, RunScriptTyped, CrashTyped, MakeResetTyped
        DEF Next, Scripted

-----------------------------------------------------------------------------
(* The index of Cortex takes child documents, unless its template or the   *)
(* deletion of the old one was missed.                                     *)
Resetting == {"cortex_delete", "cortex_index", "cortex_wait", "cortex_org", "cortex_admin",
              "cortex_recover"}
Plain == index["cortex"] = "plain"
Templated == Unhurt({"template", "index"})
Joins ==
  Clean /\ Templated =>
    /\ pc \in Resetting \ {"cortex_recover"} => "cortex" \in templates
    /\ pc \in Resetting \ {"cortex_recover", "cortex_delete"} => ~Plain
    /\ Past(ToUsers) => index["cortex"] = "join"
Cortex ==
  /\ pc = "cortex_recover" => plan # "up"
  /\ Joins

LEMMA CortexStep ==
  ASSUME SetupTyped, Runs, Cortex, CortexNext
  PROVE  Cortex'
<1>0. /\ Going /\ ~up /\ ~up' /\ (Clean' => Clean) /\ (Templated' => Templated)
      /\ index["cortex"] \in {"none", "plain", "join"}
  <2>1. Going
    BY CortexTyped DEF SetupTyped
  <2>2. index["cortex"] \in {"none", "plain", "join"}
    BY DEF SetupTyped, ServicesTyped, Services
  <2> QED BY <2>1, <2>2, GoingOn DEF Templated, Unhurt
<1>1. CASE PutTemplate("cortex", "cortex", "cortex_delete")
  <2>1. UNCHANGED <<index, plan>> /\ pc = "cortex"
    BY <1>1 DEF PutTemplate, Step, Exit, Works, Fails, Shrugs, runVars, Then
  <2>2. \/ pc' = "cortex_delete" /\ "cortex" \in templates'
        \/ pc' = "cortex_delete" /\ missed' = missed \cup {"template"}
        \/ pc' = "idle"
    BY <1>1 DEF PutTemplate, Step, Exit, Works, Fails, Shrugs, runVars, Then
  <2> QED BY <1>0, <2>1, <2>2 DEF Templated, Unhurt, Cortex, Plain, Joins, Resetting, Clean, Past, ToUsers
<1>2. CASE CortexDelete
  <2>1. /\ pc = "cortex_delete" /\ pc' = "cortex_index" /\ UNCHANGED <<templates, plan>>
        /\ DeleteIndex("cortex", plan = "up")
    BY <1>2 DEF CortexDelete, Step, Exit, Works, Fails, Shrugs, runVars, Then
  <2>2. \/ plan # "up"
        \/ index'["cortex"] = "none"
        \/ missed' = missed \cup {"index"}
    BY <2>1 DEF DeleteIndex, Fails, Works, Shrugs, SetupTyped, ServicesTyped, Services
  <2>3. Clean' /\ Templated' => ~Plain'
    BY <2>1, <2>2 DEF Plain, Clean, Templated, Unhurt
  <2> QED BY <1>0, <2>1, <2>3 DEF Cortex, Plain, Joins, Resetting, Clean, Past, ToUsers
<1>3. CASE EnsureIndex("cortex", "cortex_index",
                   IF attempt > 1 THEN "cortex_org" ELSE "cortex_wait", TRUE)
  <2>1. /\ pc = "cortex_index" /\ pc' \in {"cortex_org", "cortex_wait", "idle"}
        /\ UNCHANGED <<templates, index, plan, missed>>
    BY <1>3 DEF EnsureIndex, Step, Exit, Works, Fails, Shrugs, runVars, Then
  <2> QED BY <1>0, <2>1 DEF Cortex, Plain, Joins, Resetting, Clean, Past, ToUsers
<1>4. CASE AwaitService("cortex_wait", "cortex_org", "idle")
  <2>1. /\ pc = "cortex_wait" /\ pc' \in {"cortex_org", "idle"}
        /\ UNCHANGED <<templates, index, plan, missed>>
    BY <1>4 DEF AwaitService, svcVars, Step, Exit, Works, Fails, Shrugs, runVars, Then
  <2> QED BY <1>0, <2>1 DEF Cortex, Plain, Joins, Resetting, Clean, Past, ToUsers
<1>5. CASE CortexOrg \/ CreateSuperadmin
  <2>1. /\ pc \in {"cortex_org", "cortex_admin"}
        /\ pc' \in {"cortex_admin", "cortex_work", "cortex_recover", "idle"}
        /\ UNCHANGED <<templates, plan, missed>>
        /\ index' = index \/ index' = Created("cortex")
    BY <1>5 DEF CortexOrg, CreateSuperadmin, Step, Exit, Works, Fails, Shrugs, runVars, Then
  <2>2. pc' = "cortex_work" => index' = Created("cortex")
    BY <1>5 DEF CortexOrg, CreateSuperadmin, Step, Exit, Works, Fails, Shrugs, runVars, Then
  <2>3. /\ Created("cortex")["cortex"] \in {"none", "plain", "join"}
        /\ Created("cortex")["cortex"] # "none"
        /\ Created("cortex")["cortex"] = "plain" =>
             index["cortex"] = "plain" \/ "cortex" \notin templates
    BY DEF Created, SetupTyped, ServicesTyped, Services
  <2>4. pc' = "cortex_recover" => plan' # "up"
    BY <1>5 DEF CortexOrg, CreateSuperadmin, Step, Exit, Works, Fails, Shrugs, runVars, Then
  <2> QED BY <1>0, <2>1, <2>2, <2>3, <2>4 DEF Cortex, Plain, Joins, Resetting, Clean, Past, ToUsers
<1>6. CASE CortexRecover
  <2>1. /\ pc = "cortex_recover" /\ pc' = "cortex_index" /\ UNCHANGED plan
        /\ DeleteIndex("cortex", TRUE)
    BY <1>6 DEF CortexRecover, Step, Exit, Works, Fails, Shrugs, runVars, Then
  <2>2. plan # "up"
    BY <2>1 DEF Cortex
  <2> QED BY <1>0, <2>1, <2>2 DEF Cortex, Plain, Joins, Resetting, Clean, Past, ToUsers
<1>7. CASE CortexWork \/ CortexKey
  <2>1. /\ pc \in {"cortex_work", "cortex_key"} /\ pc' \in {"cortex_key", "cortex_env", "idle"}
        /\ UNCHANGED <<templates, index, plan>>
    BY <1>7 DEF CortexWork, CortexKey, Step, Exit, Works, Fails, Shrugs, runVars, Then
  <2> QED BY <1>0, <2>1 DEF Cortex, Plain, Joins, Resetting, Clean, Past, ToUsers
<1>8. CASE SaveKey("cortex", "cortex_env", Then("hive"))
  <2>1. /\ pc = "cortex_env" /\ pc' \in {"hive", "idle"}
        /\ UNCHANGED <<templates, index, plan>>
    BY <1>8 DEF SaveKey, svcVars, Step, Exit, Works, Fails, Shrugs, runVars, Then
  <2> QED BY <1>0, <2>1 DEF Cortex, Plain, Joins, Resetting, Clean, Past, ToUsers
<1> QED BY <1>1, <1>2, <1>3, <1>4, <1>5, <1>6, <1>7, <1>8 DEF CortexNext

\* The other scripts leave the index and its template alone.
LEMMA HiveKeepsIndex ==
  ASSUME HiveNext, SetupTyped
  PROVE  index'["cortex"] = index["cortex"] /\ templates \subseteq templates'
<1> USE DEF SetupTyped, ServicesTyped, Services
<1>1. CASE PutTemplate("thehive", "hive", "hive_delete")
  BY <1>1 DEF PutTemplate
<1>2. CASE HiveDelete
  BY <1>2 DEF HiveDelete, DeleteIndex
<1>3. CASE EnsureIndex("thehive", "hive_index", "hive_wait", FALSE) \/ HiveKey \/ ConfigureCortex
  BY <1>3 DEF EnsureIndex, HiveKey, ConfigureCortex
<1>4. CASE AwaitService("hive_wait", "hive_admin", "hive") \/ SaveKey("thehive", "hive_env", "hive_conf")
  BY <1>4 DEF AwaitService, SaveKey, svcVars
<1>5. CASE CreateHiveAdmin
  <2>1. index' = index \/ index' = Created("thehive")
    BY <1>5 DEF CreateHiveAdmin
  <2>2. templates' = templates
    BY <1>5 DEF CreateHiveAdmin
  <2> QED BY <2>1, <2>2 DEF Created
<1> QED BY <1>1, <1>2, <1>3, <1>4, <1>5 DEF HiveNext

LEMMA OthersKeepIndex ==
  ASSUME ConfigureTemplates \/ Restore \/ InstallAnalyzers \/ LoadIocs
  PROVE  UNCHANGED <<index, templates>>
BY DEF ConfigureTemplates, Restore, InstallAnalyzers, LoadIocs, svcVars

LEMMA WorkflowKeepsServices ==
  ASSUME WorkflowDeploymentNext
  PROVE  UNCHANGED <<templates, index, key, conf>>
<1> USE DEF svcVars
<1>1. CASE ResolveKeys \/ ListWorkflows \/ BuildContext \/ EnsureEnvironment
  BY <1>1 DEF ResolveKeys, ListWorkflows, BuildContext, EnsureEnvironment
<1>2. CASE CreateWorkflow \/ FixBranches \/ PatchDocs
  BY <1>2 DEF CreateWorkflow, FixBranches, PatchDocs
<1>3. CASE DeleteOld \/ RegisterHook \/ EnsureEsIndices \/ SaveWebhookInfo
  BY <1>3 DEF DeleteOld, RegisterHook, EnsureEsIndices, SaveWebhookInfo
<1>4. CASE ImportDashboard \/ RewriteInfo \/ SetupKpis
  BY <1>4 DEF ImportDashboard, RewriteInfo, SetupKpis
<1> QED BY <1>1, <1>2, <1>3, <1>4 DEF WorkflowDeploymentNext

LEMMA IndexKept ==
  ASSUME SetupTyped, Runs, Cortex, Going, index'["cortex"] = index["cortex"],
         templates \subseteq templates',
         (pc \notin ToUsers /\ pc' \notin ToUsers \ {"idle"}) \/ pc' \in {"idle", "preindex"}
  PROVE  Cortex'
<1>1. ~up /\ ~up' /\ (Clean' => Clean) /\ (Templated' => Templated)
  BY GoingOn DEF Templated, Unhurt
<1> QED BY <1>1 DEF Cortex, Plain, Joins, Resetting, Clean, Past, ToUsers

LEMMA CortexKept ==
  ASSUME SetupTyped, Runs, Cortex, Safe, Ordered, Scripted
  PROVE  Cortex'
<1>1. CASE ServiceAccountsNext
  <2>0. Going
    BY <1>1, ServicesTypedStep DEF SetupTyped
  <2>1. CASE CortexNext
    BY <2>1, CortexStep
  <2>2. CASE HiveNext
    BY <2>0, <2>2, HiveGoes, HiveKeepsIndex, IndexKept DEF HivePlaces, ToUsers
  <2>3. CASE ConfigureTemplates \/ Restore \/ InstallAnalyzers \/ LoadIocs
    BY <2>0, <2>3, OthersGo, OthersKeepIndex, IndexKept DEF Closing, ToUsers
  <2>4. CASE PreIndex
    <3>1. pc' = "cortex" /\ ~up'
      BY <2>0, <2>4, GoingOn DEF PreIndex, Step
    <3> QED BY <3>1 DEF Cortex, Plain, Joins, Resetting, Past, ToUsers
  <2> QED BY <1>1, <2>1, <2>2, <2>3, <2>4 DEF ServiceAccountsNext
<1>2. CASE ShuffleAccountsNext /\ UNCHANGED <<svcVars, flowVars>>
  <2>1. Going /\ UNCHANGED <<index, templates>>
    BY <1>2, ShuffleTypedStep DEF SetupTyped, svcVars
  <2> QED BY <1>2, <2>1, ShuffleGoes, IndexKept
          DEF WebhookPlaces, Mapping, Syncing, Context, Swapping, Closing, ToUsers
<1>3. CASE WorkflowDeploymentNext
  <2>1. Going /\ UNCHANGED <<index, templates>>
    BY <1>3, WorkflowTypedStep, WorkflowKeepsServices
  <2> QED BY <1>3, <2>1, WorkflowGoes, IndexKept
          DEF WebhookPlaces, Mapping, Syncing, Context, Swapping, Closing, ToUsers
<1>4. CASE ShowAccess
  BY <1>4 DEF ShowAccess, Step, Works, svcVars, Cortex, Plain, Joins, Templated, Unhurt, Resetting, Clean, Past, ToUsers
<1> QED BY <1>1, <1>2, <1>3, <1>4 DEF Scripted

LEMMA CortexAlways ==
  ASSUME SetupTyped, Runs, Cortex, Safe, Ordered, Next
  PROVE  Cortex'
<1>1. CASE MakeUp
  BY <1>1, MakeUpTyped DEF MakeUp, Cortex, Plain, Joins, Resetting, Past, ToUsers
<1>2. CASE RunScript
  <2>1. /\ pc' \in Scripts /\ plan' = "solo" /\ UNCHANGED <<index, faults, templates>>
    BY <1>2, RunScriptTyped DEF RunScript
  <2> QED BY <2>1 DEF Cortex, Plain, Joins, Resetting, Clean, Scripts
<1>3. CASE Crash \/ MakeReset
  <2>1. pc' = "idle" /\ ~up'
    BY <1>3, CrashTyped, MakeResetTyped
  <2> QED BY <2>1 DEF Cortex, Plain, Joins, Resetting, Past, ToUsers
<1>4. CASE Preserve /\ UNCHANGED <<accVars, flowVars>>
  <2>1. UNCHANGED <<pc, plan, up, missed, faults, index, templates>>
    BY <1>4, PreserveTyped DEF Preserve, runVars
  <2> QED BY <2>1 DEF Cortex, Plain, Joins, Templated, Unhurt, Resetting, Clean, Past
<1> QED BY <1>1, <1>2, <1>3, <1>4, CortexKept DEF Next

-----------------------------------------------------------------------------
(* The keys of the services, in a run that told of no failure: what is     *)
(* issued is in hand, then in the file, and from there in thehive.conf.    *)
ServiceKeys ==
  Clean =>
    /\ pc = "cortex_env" => got = key["cortex"] /\ got # NoKey
    /\ pc = "hive_env" => got = key["thehive"] /\ got # NoKey
    /\ Past(ToCortex) => env["cortex"] = key["cortex"] /\ key["cortex"] # NoKey
    /\ Past(ToHive) => env["thehive"] = key["thehive"] /\ key["thehive"] # NoKey
    /\ Past(ToConf) => conf.running = key["cortex"]

LEMMA CortexIssues ==
  ASSUME SetupTyped, Runs, ServiceKeys, CortexNext
  PROVE  ServiceKeys'
<1>0. Going /\ ~up' /\ (Clean' => Clean)
  BY CortexTyped, GoingOn DEF SetupTyped
<1> USE DEF ServiceKeys, Past, ToConf, ToHive, ToCortex, ToUsers
<1>1. CASE CortexKey
  <2>1. pc' = "cortex_env" /\ fresh \in Nat
    BY <1>1 DEF CortexKey, Step, SetupTyped, RunTyped
  <2>2. ASSUME Clean'
        PROVE  key' = [key EXCEPT !["cortex"] = fresh + 1] /\ got' = fresh + 1
    <3>1. "key" \notin missed'
      BY <2>2 DEF Clean, Untold
    <3> QED BY <1>1, <3>1 DEF CortexKey, Shrugs
  <2> QED BY <1>0, <2>1, <2>2 DEF SetupTyped, ServicesTyped, Services, NoKey
<1>2. CASE SaveKey("cortex", "cortex_env", Then("hive"))
  <2>1. pc = "cortex_env" /\ pc' \in {"hive", "idle"} /\ UNCHANGED <<key, conf>>
    BY <1>2 DEF SaveKey, Step, Then, svcVars
  <2>2. Clean' /\ got # NoKey => env' = [env EXCEPT !["cortex"] = got]
    BY <1>2 DEF SaveKey, SetEnv, Shrugs, Clean, Untold
  <2> QED BY <1>0, <2>1, <2>2 DEF SetupTyped, RunTyped, Secrets
<1>3. CASE pc' \in {"idle", "cortex", "cortex_delete", "cortex_index", "cortex_wait",
                    "cortex_org", "cortex_admin", "cortex_recover", "cortex_work", "cortex_key"}
  BY <1>0, <1>3
<1>4. \/ CortexKey \/ SaveKey("cortex", "cortex_env", Then("hive"))
      \/ pc' \in {"idle", "cortex", "cortex_delete", "cortex_index", "cortex_wait",
                  "cortex_org", "cortex_admin", "cortex_recover", "cortex_work", "cortex_key"}
  BY DEF CortexNext, PutTemplate, CortexDelete, EnsureIndex, AwaitService, CortexOrg,
         CreateSuperadmin, CortexRecover, CortexWork, Step, Exit
<1> QED BY <1>1, <1>2, <1>3, <1>4

LEMMA HiveIssues ==
  ASSUME SetupTyped, Runs, ServiceKeys, HiveNext
  PROVE  ServiceKeys'
<1>0. Going /\ ~up /\ ~up' /\ (Clean' => Clean)
  BY HiveTyped, GoingOn DEF SetupTyped
<1> USE DEF ServiceKeys, Past, ToConf, ToHive, ToCortex, ToUsers
<1>1. CASE HiveKey
  <2>1. /\ pc = "hive_key" /\ pc' \in {"hive_env", "hive", "idle"} /\ env' = env
        /\ key'["cortex"] = key["cortex"] /\ fresh \in Nat
    BY <1>1 DEF HiveKey, Step, Exit, envVars, SetupTyped, ServicesTyped, RunTyped, Services
  <2>2. pc' = "hive_env" => got' = fresh + 1 /\ key'["thehive"] = fresh + 1
    BY <1>1 DEF HiveKey, Step, Exit, SetupTyped, ServicesTyped, Services
  <2> QED BY <1>0, <2>1, <2>2 DEF NoKey
<1>2. CASE SaveKey("thehive", "hive_env", "hive_conf")
  <2>1. pc = "hive_env" /\ pc' = "hive_conf" /\ UNCHANGED <<key, conf>>
    BY <1>2 DEF SaveKey, Step, svcVars
  <2>2. Clean' /\ got # NoKey => env' = [env EXCEPT !["thehive"] = got]
    BY <1>2 DEF SaveKey, SetEnv, Shrugs, Clean, Untold
  <2> QED BY <1>0, <2>1, <2>2 DEF SetupTyped, RunTyped, Secrets
<1>3. CASE ConfigureCortex
  <2>1. pc = "hive_conf" /\ pc' \in {"restore", "idle"} /\ UNCHANGED <<key, env>>
    BY <1>3 DEF ConfigureCortex, Step, Then, envVars
  <2>2. Clean' /\ env["cortex"] # NoKey => conf'.running = env["cortex"]
    BY <1>3 DEF ConfigureCortex, ReadKey, Shrugs, Clean, Untold
  <2> QED BY <1>0, <2>1, <2>2
<1>4. CASE HiveDelete
  <2>1. /\ pc = "hive_delete" /\ pc' = "hive_index" /\ env' = env
        /\ key'["cortex"] = key["cortex"]
    BY <1>4 DEF HiveDelete, DeleteIndex, Step, envVars, SetupTyped, ServicesTyped, Services
  <2> QED BY <1>0, <2>1
<1>5. CASE \/ PutTemplate("thehive", "hive", "hive_delete") \/ CreateHiveAdmin
           \/ EnsureIndex("thehive", "hive_index", "hive_wait", FALSE)
           \/ AwaitService("hive_wait", "hive_admin", "hive")
  <2>1. /\ pc \in HivePlaces /\ pc' \in {"hive", "hive_delete", "hive_wait", "hive_admin", "hive_key",
                                         "idle"}
        /\ UNCHANGED <<key, env>>
    BY <1>5 DEF PutTemplate, EnsureIndex, AwaitService, CreateHiveAdmin, Step, Exit, envVars,
                svcVars, HivePlaces
  <2> QED BY <1>0, <2>1 DEF HivePlaces
<1> QED BY <1>1, <1>2, <1>3, <1>4, <1>5 DEF HiveNext

LEMMA KeysKept ==
  ASSUME Runs, ServiceKeys, Going, UNCHANGED <<key, conf>>,
         Clean' => env'["cortex"] = env["cortex"] /\ env'["thehive"] = env["thehive"],
         pc \notin ToConf, pc' \notin ToConf \ {"idle"}
  PROVE  ServiceKeys'
<1>1. ~up /\ ~up' /\ (Clean' => Clean)
  BY GoingOn
<1> QED BY <1>1 DEF ServiceKeys, Past, ToConf, ToHive, ToCortex, ToUsers

LEMMA ShuffleKeepsKeys ==
  ASSUME ShuffleAccountsNext, SetupTyped
  PROVE  env'["cortex"] = env["cortex"] /\ env'["thehive"] = env["thehive"]
<1> USE DEF envVars, SetupTyped, RunTyped, Secrets
<1>1. CASE FixUsersMapping
  BY <1>1 DEF FixUsersMapping, ReindexRead, ReindexDelete, ReindexInsert, CopyUsers, CopyMember
<1>2. CASE Login \/ ValidateKey \/ SyncV2 \/ SyncUsers \/ SyncMember
  BY <1>2 DEF Login, ValidateKey, SyncV2, SyncUsers, SyncMember
<1>3. CASE SyncFile
  BY <1>3 DEF SyncFile, SetEnv
<1>4. CASE FixOrgUsers("fix_org", "users_map") \/ FixOrgUsers("org_again", "show")
  BY <1>4 DEF FixOrgUsers
<1>5. CASE UpdateEnv
  <2>1. env' = env \/ env' = [env EXCEPT !["shuffle"] = Admin]
    BY <1>5 DEF UpdateEnv, SetEnv
  <2> QED BY <2>1
<1> QED BY <1>1, <1>2, <1>3, <1>4, <1>5 DEF ShuffleAccountsNext

LEMMA WorkflowKeepsKeys ==
  ASSUME WorkflowDeploymentNext, SetupTyped, Runs, ServiceKeys, Clean, ~up
  PROVE  env'["cortex"] = env["cortex"] /\ env'["thehive"] = env["thehive"]
<1> USE DEF envVars, SetupTyped, RunTyped, Secrets
<1>1. CASE ResolveKeys
  <2>1. pc = "keys"
    BY <1>1 DEF ResolveKeys, Step, Exit
  <2>2. ReadKey("cortex") = env["cortex"] /\ ReadKey("thehive") = env["thehive"]
    BY <2>1 DEF ServiceKeys, ReadKey, Past, ToConf, ToHive, ToCortex, ToUsers
  <2> QED BY <1>1, <2>2 DEF ResolveKeys
<1>2. CASE ListWorkflows \/ BuildContext \/ EnsureEnvironment
  BY <1>2 DEF ListWorkflows, BuildContext, EnsureEnvironment
<1>3. CASE CreateWorkflow \/ FixBranches \/ PatchDocs
  BY <1>3 DEF CreateWorkflow, FixBranches, PatchDocs
<1>4. CASE DeleteOld \/ RegisterHook \/ EnsureEsIndices
  BY <1>4 DEF DeleteOld, RegisterHook, EnsureEsIndices
<1>5. CASE SaveWebhookInfo
  BY <1>5 DEF SaveWebhookInfo, SetEnv
<1>6. CASE ImportDashboard \/ RewriteInfo \/ SetupKpis
  BY <1>6 DEF ImportDashboard, RewriteInfo, SetupKpis
<1> QED BY <1>1, <1>2, <1>3, <1>4, <1>5, <1>6 DEF WorkflowDeploymentNext

LEMMA RestoreKeeps ==
  ASSUME Restore, SetupTyped, Runs, ServiceKeys
  PROVE  ServiceKeys'
<1>0. Going /\ ~up /\ ~up' /\ (Clean' => Clean)
  <2>1. ServiceAccountsNext
    BY DEF ServiceAccountsNext
  <2> QED BY <2>1, ServicesTypedStep, GoingOn DEF SetupTyped
<1>1. pc = "restore" /\ pc' \in {"login", "idle"} /\ UNCHANGED conf
  BY DEF Restore, Step, Then
<1>2. \/ UNCHANGED <<env, key>>
      \/ /\ \E k \in {env["thehive"], backup, key["thehive"]} :
              k = key["thehive"] /\ k # NoKey /\ env' = [env EXCEPT !["thehive"] = k]
         /\ key' = key
      \/ /\ env' = [env EXCEPT !["thehive"] = fresh + 1]
         /\ key' = [key EXCEPT !["thehive"] = fresh + 1]
  BY DEF Restore, SetEnv
<1>3. CASE UNCHANGED <<env, key>>
  BY <1>0, <1>1, <1>3 DEF ServiceKeys, Past, ToConf, ToHive, ToCortex, ToUsers
<1>4. ASSUME NEW k, k = key["thehive"], env' = [env EXCEPT !["thehive"] = k], key' = key
      PROVE  ServiceKeys'
  <2>1. env'["thehive"] = key["thehive"] /\ env'["cortex"] = env["cortex"]
    BY <1>4 DEF SetupTyped, RunTyped, Secrets
  <2> QED BY <1>0, <1>1, <1>4, <2>1 DEF ServiceKeys, Past, ToConf, ToHive, ToCortex, ToUsers
<1>5. CASE /\ env' = [env EXCEPT !["thehive"] = fresh + 1]
           /\ key' = [key EXCEPT !["thehive"] = fresh + 1]
  <2>1. /\ env'["thehive"] = fresh + 1 /\ env'["cortex"] = env["cortex"] /\ fresh + 1 # NoKey
        /\ key'["thehive"] = fresh + 1 /\ key'["cortex"] = key["cortex"]
    BY <1>5 DEF SetupTyped, RunTyped, Secrets, ServicesTyped, Services, NoKey
  <2> QED BY <1>0, <1>1, <2>1 DEF ServiceKeys, Past, ToConf, ToHive, ToCortex, ToUsers
<1> QED BY <1>2, <1>3, <1>4, <1>5

LEMMA ServiceKeysStep ==
  ASSUME SetupTyped, Runs, ServiceKeys, Safe, Ordered, Scripted
  PROVE  ServiceKeys'
<1>1. CASE ServiceAccountsNext
  <2>0. Going /\ ~up'
    BY <1>1, ServicesTypedStep, GoingOn DEF SetupTyped
  <2>1. CASE ConfigureTemplates \/ PreIndex
    <3>1. pc' \in {"preindex", "cortex", "idle"}
      BY <2>1, OthersGo
    <3> QED BY <2>0, <3>1 DEF ServiceKeys, Past, ToConf, ToHive, ToCortex, ToUsers
  <2>2. CASE InstallAnalyzers \/ LoadIocs
    <3>1. UNCHANGED <<env, key, conf>>
      BY <2>2 DEF InstallAnalyzers, LoadIocs, envVars
    <3> QED BY <2>0, <2>2, <3>1, OthersGo, KeysKept DEF Closing, ToConf, ToHive, ToCortex, ToUsers
  <2> QED BY <1>1, <2>1, <2>2, CortexIssues, HiveIssues, RestoreKeeps DEF ServiceAccountsNext
<1>2. CASE ShuffleAccountsNext /\ UNCHANGED <<svcVars, flowVars>>
  <2>1. Going /\ UNCHANGED <<key, conf>>
    BY <1>2, ShuffleTypedStep DEF SetupTyped, svcVars
  <2> QED BY <1>2, <2>1, ShuffleGoes, KeysKept, ShuffleKeepsKeys
          DEF WebhookPlaces, Mapping, Syncing, Context, Swapping, Closing, ToConf, ToHive, ToCortex,
              ToUsers
<1>3. CASE WorkflowDeploymentNext
  <2>1. Going /\ UNCHANGED <<key, conf>>
    BY <1>3, WorkflowTypedStep, WorkflowKeepsServices
  <2>2. Clean' => env'["cortex"] = env["cortex"] /\ env'["thehive"] = env["thehive"]
    BY <1>3, <2>1, GoingOn, WorkflowKeepsKeys
  <2> QED BY <1>3, <2>1, <2>2, WorkflowGoes, KeysKept
          DEF WebhookPlaces, Mapping, Syncing, Context, Swapping, Closing, ToConf, ToHive, ToCortex,
              ToUsers
<1>4. CASE ShowAccess
  BY <1>4 DEF ShowAccess, Step, svcVars, envVars, ServiceKeys, Clean, Past, ToConf, ToHive,
              ToCortex, ToUsers
<1> QED BY <1>1, <1>2, <1>3, <1>4 DEF Scripted

-----------------------------------------------------------------------------
(* Keys of Shuffle are numbers that were issued.                           *)
Known ==
  /\ env["shuffle"] <= fresh /\ box["shuffle"] <= fresh
  /\ got <= fresh /\ osenv <= fresh /\ bearer <= fresh
  /\ doc["users"] \in NoIndex .. fresh /\ doc["users_v2"] \in NoIndex .. fresh
  /\ read \in NoIndex .. fresh

LEMMA ServicesIssue ==
  ASSUME SetupTyped, ServiceAccountsNext
  PROVE  /\ env'["shuffle"] = env["shuffle"] /\ fresh' \in {fresh, fresh + 1}
         /\ got' = got \/ got' = NoKey \/ got' = fresh'
<1> USE DEF SetupTyped, RunTyped, Secrets, envVars
<1>1. CASE CortexNext
  <2>1. CASE CortexKey
    BY <2>1 DEF CortexKey, Issue
  <2>2. CASE SaveKey("cortex", "cortex_env", Then("hive"))
    <3>1. (env' = env \/ env' = [env EXCEPT !["cortex"] = got]) /\ got' = NoKey /\ fresh' = fresh
      BY <2>2 DEF SaveKey, SetEnv
    <3> QED BY <3>1
  <2>3. CASE \/ PutTemplate("cortex", "cortex", "cortex_delete") \/ CortexDelete
             \/ EnsureIndex("cortex", "cortex_index",
                            IF attempt > 1 THEN "cortex_org" ELSE "cortex_wait", TRUE)
             \/ AwaitService("cortex_wait", "cortex_org", "idle")
    BY <2>3 DEF PutTemplate, CortexDelete, EnsureIndex, AwaitService
  <2>4. CASE CortexOrg \/ CreateSuperadmin \/ CortexRecover \/ CortexWork
    BY <2>4 DEF CortexOrg, CreateSuperadmin, CortexRecover, CortexWork
  <2> QED BY <1>1, <2>1, <2>2, <2>3, <2>4 DEF CortexNext
<1>2. CASE HiveNext
  <2>1. CASE HiveKey
    BY <2>1 DEF HiveKey, Issue
  <2>2. CASE SaveKey("thehive", "hive_env", "hive_conf")
    <3>1. (env' = env \/ env' = [env EXCEPT !["thehive"] = got]) /\ got' = NoKey /\ fresh' = fresh
      BY <2>2 DEF SaveKey, SetEnv
    <3> QED BY <3>1
  <2>3. CASE \/ PutTemplate("thehive", "hive", "hive_delete") \/ HiveDelete
             \/ EnsureIndex("thehive", "hive_index", "hive_wait", FALSE)
             \/ AwaitService("hive_wait", "hive_admin", "hive") \/ CreateHiveAdmin
             \/ ConfigureCortex
    BY <2>3 DEF PutTemplate, HiveDelete, EnsureIndex, AwaitService, CreateHiveAdmin, ConfigureCortex
  <2> QED BY <1>2, <2>1, <2>2, <2>3 DEF HiveNext
<1>3. CASE Restore
  <2>1. got' = got /\ fresh' \in {fresh, fresh + 1}
    BY <1>3 DEF Restore, Issue
  <2>2. env' = env \/ \E k : env' = [env EXCEPT !["thehive"] = k]
    BY <1>3 DEF Restore, SetEnv
  <2> QED BY <2>1, <2>2
<1>4. CASE ConfigureTemplates \/ PreIndex \/ InstallAnalyzers \/ LoadIocs
  BY <1>4 DEF ConfigureTemplates, PreIndex, InstallAnalyzers, LoadIocs
<1> QED BY <1>1, <1>2, <1>3, <1>4 DEF ServiceAccountsNext

LEMMA WorkflowIssues ==
  ASSUME SetupTyped, WorkflowDeploymentNext
  PROVE  env'["shuffle"] = env["shuffle"] /\ fresh' \in {fresh, fresh + 1} /\ got' = got
<1> USE DEF SetupTyped, RunTyped, Secrets, envVars
<1>1. CASE ResolveKeys
  <2>1. got' = got /\ fresh' = fresh
    BY <1>1 DEF ResolveKeys
  <2>2. env' = env \/ \E h, c : env' = [env EXCEPT !["thehive"] = h, !["cortex"] = c]
    BY <1>1 DEF ResolveKeys
  <2> QED BY <2>1, <2>2
<1>2. CASE ListWorkflows \/ BuildContext \/ EnsureEnvironment
  BY <1>2 DEF ListWorkflows, BuildContext, EnsureEnvironment
<1>3. CASE CreateWorkflow \/ FixBranches \/ PatchDocs
  BY <1>3 DEF CreateWorkflow, FixBranches, PatchDocs, Issue
<1>4. CASE DeleteOld \/ RegisterHook \/ EnsureEsIndices
  BY <1>4 DEF DeleteOld, RegisterHook, EnsureEsIndices
<1>5. CASE SaveWebhookInfo
  BY <1>5 DEF SaveWebhookInfo, SetEnv
<1>6. CASE ImportDashboard \/ RewriteInfo \/ SetupKpis
  BY <1>6 DEF ImportDashboard, RewriteInfo, SetupKpis
<1> QED BY <1>1, <1>2, <1>3, <1>4, <1>5, <1>6 DEF WorkflowDeploymentNext

LEMMA KnownMapping ==
  ASSUME SetupTyped, Known, FixUsersMapping
  PROVE  Known'
<1> USE DEF SetupTyped, RunTyped, ShuffleTyped, Known, Indices, NoUser, NoIndex, NoKey, envVars
<1>1. ASSUME NEW i \in Indices, NEW from, NEW to, NEW past, ReindexRead(i, from, to, past)
      PROVE  Known'
  <2>1. read' \in {NoUser, doc[i]}
    BY <1>1 DEF ReindexRead
  <2>2. UNCHANGED <<env, box, got, osenv, bearer, fresh, doc>>
    BY <1>1 DEF ReindexRead
  <2>3. doc[i] \in NoIndex .. fresh
    OBVIOUS
  <2> QED BY <2>1, <2>2, <2>3
<1>2. ASSUME NEW i \in Indices, NEW from, NEW to, NEW past, ReindexDelete(i, from, to, past)
      PROVE  Known'
  <2>1. doc' = doc \/ doc' = [doc EXCEPT ![i] = NoIndex]
    BY <1>2 DEF ReindexDelete
  <2> QED BY <1>2, <2>1 DEF ReindexDelete
<1>3. ASSUME NEW i \in Indices, NEW from, NEW to, ReindexInsert(i, from, to)
      PROVE  Known'
  <2>1. \E k \in {NoUser, read} : doc' = doc \/ doc' = [doc EXCEPT ![i] = k]
    BY <1>3 DEF ReindexInsert
  <2>2. /\ doc'["users"] \in {doc["users"], NoUser, read}
        /\ doc'["users_v2"] \in {doc["users_v2"], NoUser, read}
    BY <2>1
  <2>3. read' = NoUser /\ UNCHANGED <<env, box, got, osenv, bearer, fresh>>
    BY <1>3 DEF ReindexInsert
  <2> QED BY <2>2, <2>3
<1>4. CASE CopyUsers("copy", "copy_member")
  BY <1>4 DEF CopyUsers
<1>5. CASE \/ CopyMember("copy_member", IF pass = 1 THEN "sync_v2" ELSE "create")
           \/ /\ Step("users_map", IF pass = 1 THEN "sync_v2" ELSE "create") /\ Shrugs("es")
              /\ UNCHANGED <<runVars, envVars, got, fresh, accVars>>
  BY <1>5 DEF CopyMember, accVars
<1> QED BY <1>1, <1>2, <1>3, <1>4, <1>5 DEF FixUsersMapping

LEMMA KnownShuffle ==
  ASSUME SetupTyped, Known, ShuffleAccountsNext
  PROVE  Known'
<1> USE DEF SetupTyped, RunTyped, ShuffleTyped, Known, Indices, Secrets, NoUser, NoIndex, NoKey, envVars
<1>1. CASE Login
  <2>1. /\ osenv' \in {osenv, box["shuffle"], env["shuffle"]} /\ bearer' \in {bearer, 0, doc["users"]}
        /\ UNCHANGED <<env, box, got, fresh, doc, read>>
    BY <1>1 DEF Login
  <2> QED BY <2>1
<1>2. CASE SyncV2
  <2>1. \/ doc' = doc
        \/ doc' = [doc EXCEPT !["users_v2"] = osenv]
        \/ doc' = [doc EXCEPT !["users_v2"] = IF @ >= NoKey THEN osenv ELSE @]
    BY <1>2 DEF SyncV2
  <2>2. doc'["users"] = doc["users"] /\ doc'["users_v2"] \in {doc["users_v2"], osenv}
    BY <2>1
  <2>3. UNCHANGED <<env, box, got, osenv, bearer, fresh, read>>
    BY <1>2 DEF SyncV2
  <2> QED BY <2>2, <2>3
<1>3. CASE SyncUsers \/ SyncMember
  <2>1. doc' = doc \/ doc' = [doc EXCEPT !["users"] = osenv]
    BY <1>3 DEF SyncUsers, SyncMember
  <2>2. UNCHANGED <<env, box, got, osenv, bearer, fresh, read>>
    BY <1>3 DEF SyncUsers, SyncMember
  <2> QED BY <2>1, <2>2
<1>4. CASE ValidateKey
  <2>1. \/ UNCHANGED <<doc, fresh, bearer>> /\ got' \in {got, bearer}
        \/ /\ got' = fresh + 1 /\ fresh' = fresh + 1 /\ bearer' = fresh + 1
           /\ doc' = [i \in Indices |-> IF doc[i] >= NoKey THEN fresh + 1 ELSE doc[i]]
    BY <1>4 DEF ValidateKey, Issue
  <2>2. UNCHANGED <<env, box, osenv, read>>
    BY <1>4 DEF ValidateKey
  <2> QED BY <2>1, <2>2
<1>5. CASE SyncFile
  <2>1. /\ env' \in {env, [env EXCEPT !["shuffle"] = got]} /\ osenv' \in {osenv, got} /\ got' = 0
        /\ UNCHANGED <<box, doc, fresh, bearer, read>>
    BY <1>5 DEF SyncFile, SetEnv
  <2> QED BY <2>1
<1>6. CASE FixOrgUsers("fix_org", "users_map") \/ FixOrgUsers("org_again", "show")
  BY <1>6 DEF FixOrgUsers
<1>7. CASE UpdateEnv
  <2>1. Admin \in 0 .. fresh
    BY DEF Admin
  <2>2. env' = env \/ env' = [env EXCEPT !["shuffle"] = Admin]
    BY <1>7 DEF UpdateEnv, SetEnv
  <2>3. env'["shuffle"] \in {env["shuffle"], Admin}
    BY <2>2
  <2>4. UNCHANGED <<box, got, osenv, bearer, doc, fresh, read>>
    BY <1>7 DEF UpdateEnv, accVars
  <2> QED BY <2>1, <2>3, <2>4
<1> QED BY <1>1, <1>2, <1>3, <1>4, <1>5, <1>6, <1>7, KnownMapping DEF ShuffleAccountsNext

LEMMA KnownNext ==
  ASSUME SetupTyped, Known, Next
  PROVE  Known'
<1> USE DEF SetupTyped, RunTyped, ShuffleTyped, Known, Indices, Secrets, NoUser, NoIndex, NoKey, envVars
<1>1. CASE ServiceAccountsNext /\ UNCHANGED <<accVars, flowVars>>
  <2>1. UNCHANGED <<box, doc, read, osenv, bearer>>
    BY <1>1, ServicesKeepBox DEF accVars
  <2> QED BY <1>1, <2>1, ServicesIssue
<1>2. CASE WorkflowDeploymentNext
  <2>1. UNCHANGED <<box, doc, read, osenv, bearer>>
    BY <1>2, WorkflowKeepsBox, AccountsStay DEF accVars
  <2> QED BY <1>2, <2>1, WorkflowIssues
<1>3. CASE MakeUp
  <2>1. /\ env' = GeneratedEnv /\ box' = env' /\ fresh' = fresh + 1 /\ got' = 0
        /\ UNCHANGED <<read, osenv, bearer>>
    BY <1>3 DEF MakeUp, Begin, Issue
  <2>2. env'["shuffle"] \in {env["shuffle"], fresh + 1}
    BY <2>1 DEF GeneratedEnv
  <2>3. doc' = doc \/ doc' = [doc EXCEPT !["users"] = env'["shuffle"], !["users_v2"] = NoIndex]
    BY <1>3 DEF MakeUp, FreshShuffle
  <2>4. env["shuffle"] \in Nat /\ env'["shuffle"] \in Nat
    BY <2>2
  <2>5. /\ doc'["users"] \in {doc["users"], env'["shuffle"]}
        /\ doc'["users_v2"] \in {doc["users_v2"], NoIndex}
    BY <2>3
  <2> QED BY <2>1, <2>2, <2>4, <2>5
<1>4. CASE RunScript
  <2>1. got' = 0 /\ UNCHANGED <<env, box, fresh, doc, read, osenv, bearer>>
    BY <1>4 DEF RunScript, Begin, accVars
  <2> QED BY <2>1
<1>5. CASE Crash
  BY <1>5 DEF Crash
<1>6. CASE MakeReset
  BY <1>6 DEF MakeReset
<1>7. CASE Preserve /\ UNCHANGED <<accVars, flowVars>>
  BY <1>7 DEF Preserve, accVars
<1>8. CASE ShowAccess
  BY <1>8 DEF ShowAccess, accVars
<1> QED BY <1>1, <1>2, <1>3, <1>4, <1>5, <1>6, <1>7, <1>8, KnownShuffle DEF Next, Scripted

-----------------------------------------------------------------------------
(* The key of Shuffle in its two indices, in a run that told of no failure *)
(* and overlooked none in the reindexing and the sync, from the login on.  *)
(* The first pass ends with the script's key in users_v2, and with it or   *)
(* with the session's in users; the key that the session is then found to  *)
(* have goes to the file unless it is the same, and the second pass brings *)
(* it to both.                                                             *)
Copied == Clean /\ Unhurt({"read", "mapping", "users", "sync"})
ToCreated == ToLogin \cup {"validate", "sync_file"} \cup Mapping \cup Syncing \cup Context
ToToken == ToCreated \cup {"create"} \cup Swapping
Users == IF pc = "users_insert" THEN read ELSE doc["users"]
Second == IF pc = "v2_insert" THEN read ELSE doc["users_v2"]
Unset == doc["users_v2"] = NoUser /\ keyword["users_v2"]
Bears == bearer = NoKey \/ Users = bearer

LoginKeys ==
  Copied /\ Past(ToLogin) =>
    /\ osenv > NoKey /\ Users > NoKey
    /\ pc = "users_delete" => read = doc["users"]
    /\ pc = "v2_delete" => read = doc["users_v2"]
    /\ pc = "copy" => Mapped("users_v2")
FirstPass ==
  Copied /\ pass = 1 /\ Past(ToLogin) =>
    /\ pc \in Mapping \cup Syncing \cup {"validate"}
    /\ pc \in Mapping \cup {"sync_v2", "sync_users"} => Bears
    /\ pc \in {"copy_member", "sync_v2"} => doc["users_v2"] >= NoKey \/ Unset
    /\ pc = "sync_users" => doc["users_v2"] = osenv
    /\ pc \in {"sync_member", "validate"} =>
         \/ doc["users_v2"] = osenv /\ (Bears \/ doc["users"] = osenv)
         \/ Unset /\ Bears

\* The keys that are about to be compared with key k.
Copies(k) ==
  \/ Unset /\ doc["users"] = k
  \/ doc["users_v2"] >= NoKey /\ doc["users_v2"] # k
  \/ doc["users_v2"] = k /\ doc["users"] = k
SecondPass ==
  Copied /\ pass = 2 /\ Past(ToLogin) =>
    /\ pc # "validate"
    /\ pc = "sync_file" =>
         /\ got > NoKey /\ Copies(got)
         /\ got = osenv => /\ doc["users"] = got
                           /\ doc["users_v2"] = got \/ Unset
    /\ pc = "sync_v2" => Copies(osenv)
    /\ pc = "sync_users" => doc["users_v2"] = osenv
    /\ pc = "sync_member" => doc["users"] = osenv /\ (doc["users_v2"] = osenv \/ Unset)
    /\ pc \in Context \cup Mapping =>
         /\ Users = osenv
         /\ Second = osenv \/ (Unset /\ pc \notin {"v2_delete", "v2_insert", "copy_member"})
    /\ Past(ToCreated) => doc["users"] = osenv /\ doc["users_v2"] = osenv
    /\ Past(ToToken \cup {"update_env"}) => env["shuffle"] = osenv
Shuffled == LoginKeys /\ FirstPass /\ SecondPass

\* A step between two places after the login.
Midway == Copied' /\ Copied /\ ~up /\ ~up' /\ pc' \notin ToLogin

LEMMA ShuffledElse ==
  ASSUME Runs, Going, Midway => Shuffled'
  PROVE  Shuffled'
BY GoingOn DEF Midway, Copied, Unhurt, Shuffled, LoginKeys, FirstPass, SecondPass, Past

LEMMA LoginShuffles ==
  ASSUME SetupTyped, Runs, Shuffled, Midway, Login
  PROVE  Shuffled'
<1>1. /\ pc = "login" /\ pc' = "users_map" /\ doc["users"] > NoKey /\ bearer' \in {NoKey, doc["users"]}
      /\ pass' = 1 /\ UNCHANGED <<doc, keyword>> /\ osenv' = box["shuffle"]
  BY DEF Login, Step, Exit, Midway, ToLogin, ToConf, ToHive, ToCortex, ToUsers, Runs
<1>2. osenv' > NoKey
  BY <1>1 DEF Runs, SetupTyped, RunTyped, Secrets, NoKey
<1>3. Users' > NoKey /\ Bears'
  BY <1>1 DEF Users, Bears
<1>4. LoginKeys'
  BY <1>1, <1>2, <1>3 DEF LoginKeys
<1>5. FirstPass' /\ SecondPass'
  BY <1>1, <1>3 DEF FirstPass, SecondPass, Mapping
<1> QED BY <1>4, <1>5 DEF Shuffled

LEMMA ValidateShuffles ==
  ASSUME SetupTyped, Known, Shuffled, Midway, ValidateKey
  PROVE  Shuffled'
<1>1. /\ pc = "validate" /\ pc' = "sync_file" /\ pass' = 2
      /\ UNCHANGED <<osenv, keyword>>
      /\ \/ bearer # NoKey /\ got' = bearer /\ UNCHANGED <<doc, bearer>>
         \/ got' = fresh + 1
            /\ doc' = [i \in Indices |-> IF doc[i] >= NoKey THEN fresh + 1 ELSE doc[i]]
  BY DEF ValidateKey, Step, Exit, Midway, ToLogin, ToConf, ToHive, ToCortex, ToUsers
<1>2. /\ osenv \in Nat /\ bearer \in Nat /\ fresh \in Nat /\ osenv <= fresh /\ pass \in {1, 2}
      /\ doc["users"] \in Int /\ doc["users_v2"] \in Int
  BY DEF SetupTyped, RunTyped, ShuffleTyped, Known, Indices
<1>3. /\ osenv > 0 /\ doc["users"] > 0
      /\ \/ /\ doc["users_v2"] = osenv
            /\ bearer = 0 \/ doc["users"] = bearer \/ doc["users"] = osenv
         \/ /\ doc["users_v2"] = NoUser /\ keyword["users_v2"]
            /\ bearer = 0 \/ doc["users"] = bearer
  BY <1>1, <1>2 DEF Shuffled, LoginKeys, FirstPass, SecondPass, Users, Unset, Bears, Midway, Past,
     ToLogin, ToConf, ToHive, ToCortex, ToUsers, NoKey
<1>4. /\ got' > NoKey /\ Copies(got)' /\ doc'["users"] > NoKey
      /\ got' = osenv => /\ doc'["users"] = got'
                         /\ doc'["users_v2"] = got' \/ Unset'
  <2>1. CASE bearer # NoKey /\ got' = bearer /\ UNCHANGED <<doc, bearer>>
    BY <1>1, <1>2, <1>3, <2>1 DEF Copies, Unset, NoKey
  <2>2. CASE got' = fresh + 1
             /\ doc' = [i \in Indices |-> IF doc[i] >= NoKey THEN fresh + 1 ELSE doc[i]]
    <3>1. /\ doc'["users"] = fresh + 1
          /\ doc'["users_v2"] = IF doc["users_v2"] = NoUser THEN NoUser ELSE fresh + 1
      BY <1>2, <1>3, <2>2 DEF Indices, NoKey, NoUser
    <3> QED BY <1>1, <1>2, <1>3, <2>2, <3>1 DEF Copies, Unset, NoKey
  <2> QED BY <1>1, <2>1, <2>2
<1>5. LoginKeys'
  BY <1>1, <1>2, <1>3, <1>4 DEF LoginKeys, Users, NoKey
<1>6. FirstPass'
  BY <1>1 DEF FirstPass
<1>7. SecondPass'
  BY <1>1, <1>4 DEF SecondPass, Past, ToToken, ToCreated, Context, Mapping, Swapping, Syncing, Midway
<1> QED BY <1>5, <1>6, <1>7 DEF Shuffled

LEMMA SyncFileShuffles ==
  ASSUME SetupTyped, Shuffled, Midway, SyncFile
  PROVE  Shuffled'
<1>1. /\ pc = "sync_file" /\ UNCHANGED <<doc, keyword, pass>>
      /\ \/ got # osenv /\ osenv' = got /\ pc' = "sync_v2"
         \/ got = osenv /\ osenv' = osenv /\ pc' = "keys"
  BY DEF SyncFile
<1>2. pass = 2
  BY <1>1 DEF Shuffled, FirstPass, Midway, Past, ToLogin, ToConf, ToHive, ToCortex, ToUsers,
     Mapping, Syncing, SetupTyped, ShuffleTyped
<1>3. /\ osenv > NoKey /\ doc["users"] > NoKey /\ got > NoKey /\ Copies(got)
      /\ got = osenv => /\ doc["users"] = got
                        /\ doc["users_v2"] = got \/ Unset
  BY <1>1, <1>2 DEF Shuffled, LoginKeys, SecondPass, Users, Midway, Past, ToLogin, ToConf, ToHive,
     ToCortex, ToUsers
<1>4. pc' = "sync_v2" => Copies(osenv)'
  BY <1>1, <1>3 DEF Copies, Unset
<1> QED BY <1>1, <1>2, <1>3, <1>4 DEF Shuffled, LoginKeys, FirstPass, SecondPass, Users, Second,
        Unset, Midway, Past, ToToken, ToCreated, Context, Mapping, Swapping, Syncing

LEMMA SyncV2Shuffles ==
  ASSUME SetupTyped, Shuffled, Midway, SyncV2
  PROVE  Shuffled'
<1>1. /\ pc = "sync_v2" /\ UNCHANGED <<keyword, pass, bearer, osenv, env>>
      /\ \/ /\ doc["users_v2"] >= NoKey /\ doc["users_v2"] # osenv /\ pc' = "sync_users"
            /\ doc' = [doc EXCEPT !["users_v2"] = osenv]
         \/ /\ ~(doc["users_v2"] >= NoKey /\ doc["users_v2"] # osenv) /\ pc' = "sync_member"
            /\ doc' = doc
  <2>1. /\ pc = "sync_v2" /\ UNCHANGED <<keyword, pass, bearer, osenv, env>>
        /\ missed' # missed \cup {"sync"} /\ pc' \notin {"login", "idle"}
    BY DEF SyncV2, Step, Exit, Midway, Copied, Unhurt, envVars, ToLogin, ToConf, ToHive, ToCortex, ToUsers
  <2> QED BY <2>1 DEF SyncV2, Shrugs, Exit
<1>2. doc'["users"] = doc["users"] /\ doc["users"] \in Int /\ doc["users_v2"] \in Int /\ osenv \in Nat
      /\ pass \in {1, 2}
  BY <1>1 DEF SetupTyped, ShuffleTyped, Indices
<1>3. doc'["users_v2"] = IF pc' = "sync_users" THEN osenv ELSE doc["users_v2"]
  BY <1>1 DEF SetupTyped, ShuffleTyped, Indices
<1>4. osenv > NoKey /\ doc["users"] > NoKey
  BY <1>1 DEF Shuffled, LoginKeys, Midway, Past, ToLogin, ToConf, ToHive, ToCortex, ToUsers, Users
<1>5. LoginKeys'
  BY <1>1, <1>2, <1>4 DEF LoginKeys, Users
<1>6. FirstPass'
  <2>1. SUFFICES ASSUME pass = 1 PROVE FirstPass'
    BY <1>1 DEF FirstPass
  <2>2. (bearer = NoKey \/ doc["users"] = bearer) /\ (doc["users_v2"] >= NoKey \/ Unset)
    BY <1>1, <2>1 DEF Shuffled, FirstPass, Bears, Users, Midway, Past, ToLogin, ToConf, ToHive,
       ToCortex, ToUsers, Mapping
  <2> QED BY <1>1, <1>2, <1>3, <2>2 DEF FirstPass, Bears, Users, Unset, Mapping, Syncing, NoKey, NoUser
<1>7. SecondPass'
  <2>1. SUFFICES ASSUME pass = 2 PROVE SecondPass'
    BY <1>1 DEF SecondPass
  <2>2. Copies(osenv)
    BY <1>1, <2>1 DEF Shuffled, SecondPass, Midway, Past, ToLogin, ToConf, ToHive, ToCortex, ToUsers
  <2>3. Unset => ~(doc["users_v2"] >= NoKey)
    BY DEF Unset, NoUser, NoKey
  <2>4. /\ pc' = "sync_users" => doc'["users_v2"] = osenv
        /\ pc' = "sync_member" => doc'["users"] = osenv /\ (doc'["users_v2"] = osenv \/ Unset')
    BY <1>1, <1>2, <1>3, <2>2, <2>3 DEF Copies, Unset
  <2> QED BY <1>1, <2>4 DEF SecondPass, Past, ToToken, ToCreated, Context, Mapping, Swapping,
             Syncing, Midway
<1> QED BY <1>5, <1>6, <1>7 DEF Shuffled

LEMMA SyncUsersShuffles ==
  ASSUME SetupTyped, Shuffled, Midway, SyncUsers
  PROVE  Shuffled'
<1>1. /\ pc = "sync_users" /\ pc' = "sync_member" /\ doc["users"] > NoKey /\ osenv > NoKey
      /\ UNCHANGED <<keyword, pass, bearer, osenv, env>>
      /\ doc' = IF doc["users"] >= NoKey THEN [doc EXCEPT !["users"] = osenv] ELSE doc
  <2>1. /\ pc = "sync_users" /\ UNCHANGED <<keyword, pass, bearer, osenv, env>>
        /\ missed' # missed \cup {"sync"} /\ pc' \notin {"login", "idle"}
    BY DEF SyncUsers, Step, Exit, Midway, Copied, Unhurt, envVars, ToLogin, ToConf, ToHive, ToCortex, ToUsers
  <2>2. doc["users"] > NoKey /\ osenv > NoKey
    BY <2>1 DEF Shuffled, LoginKeys, Midway, Past, ToLogin, ToConf, ToHive, ToCortex, ToUsers, Users
  <2> QED BY <2>1, <2>2 DEF SyncUsers, Shrugs, Exit, Step
<1>2. /\ doc'["users"] = osenv /\ doc'["users_v2"] = doc["users_v2"]
      /\ doc["users"] \in Int /\ pass \in {1, 2} /\ doc["users_v2"] = osenv
  BY <1>1 DEF SetupTyped, ShuffleTyped, Indices, NoKey, Shuffled, FirstPass, SecondPass, Midway,
     Past, ToLogin, ToConf, ToHive, ToCortex, ToUsers
<1>3. LoginKeys'
  BY <1>1, <1>2 DEF LoginKeys, Users
<1>4. FirstPass'
  BY <1>1, <1>2 DEF FirstPass, Mapping, Syncing
<1>5. SecondPass'
  BY <1>1, <1>2 DEF SecondPass, Past, ToToken, ToCreated, Context, Mapping, Swapping, Syncing, Midway
<1> QED BY <1>3, <1>4, <1>5 DEF Shuffled

LEMMA SyncMemberShuffles ==
  ASSUME SetupTyped, Shuffled, Midway, SyncMember
  PROVE  Shuffled'
<1>1. /\ pc = "sync_member" /\ pc' = AfterSync
      /\ UNCHANGED <<doc, keyword, pass, bearer, osenv, env>>
  BY DEF SyncMember, Step, envVars
<1>2. pass \in {1, 2} /\ osenv > NoKey /\ doc["users"] > NoKey
  BY <1>1 DEF SetupTyped, ShuffleTyped, Shuffled, LoginKeys, Midway, Past, ToLogin, ToConf, ToHive,
     ToCortex, ToUsers, Users
<1>3. LoginKeys'
  BY <1>1, <1>2 DEF LoginKeys, Users, AfterSync
<1>4. FirstPass'
  <2>1. SUFFICES ASSUME pass = 1 PROVE FirstPass'
    BY <1>1 DEF FirstPass
  <2>2. \/ doc["users_v2"] = osenv /\ (Bears \/ doc["users"] = osenv)
        \/ Unset /\ Bears
    BY <1>1, <2>1 DEF Shuffled, FirstPass, Midway, Past, ToLogin, ToConf, ToHive, ToCortex, ToUsers
  <2> QED BY <1>1, <2>1, <2>2 DEF FirstPass, AfterSync, Bears, Users, Unset, Mapping, Syncing
<1>5. SecondPass'
  <2>1. SUFFICES ASSUME pass = 2 PROVE SecondPass'
    BY <1>1 DEF SecondPass
  <2>2. doc["users"] = osenv /\ (doc["users_v2"] = osenv \/ Unset)
    BY <1>1, <2>1 DEF Shuffled, SecondPass, Midway, Past, ToLogin, ToConf, ToHive, ToCortex, ToUsers
  <2> QED BY <1>1, <2>1, <2>2 DEF SecondPass, AfterSync, Users, Second, Unset, Past, ToToken,
             ToCreated, Context, Mapping, Swapping, Syncing, Midway
<1> QED BY <1>3, <1>4, <1>5 DEF Shuffled

LEMMA CopyMemberShuffles ==
  ASSUME SetupTyped, Shuffled, Midway,
         CopyMember("copy_member", IF pass = 1 THEN "sync_v2" ELSE "create")
  PROVE  Shuffled'
<1>1. /\ pc = "copy_member" /\ pc' = (IF pass = 1 THEN "sync_v2" ELSE "create")
      /\ UNCHANGED <<doc, keyword, pass, bearer, osenv, env>>
  BY DEF CopyMember, Step, envVars
<1>2. pass \in {1, 2} /\ osenv > NoKey /\ doc["users"] > NoKey
  BY <1>1 DEF SetupTyped, ShuffleTyped, Shuffled, LoginKeys, Midway, Past, ToLogin, ToConf, ToHive,
     ToCortex, ToUsers, Users
<1>3. LoginKeys'
  BY <1>1, <1>2 DEF LoginKeys, Users
<1>4. FirstPass'
  <2>1. SUFFICES ASSUME pass = 1 PROVE FirstPass'
    BY <1>1 DEF FirstPass
  <2>2. Bears /\ (doc["users_v2"] >= NoKey \/ Unset)
    BY <1>1, <2>1 DEF Shuffled, FirstPass, Midway, Past, ToLogin, ToConf, ToHive, ToCortex, ToUsers,
       Mapping
  <2> QED BY <1>1, <2>1, <2>2 DEF FirstPass, Bears, Users, Unset, Mapping, Syncing
<1>5. SecondPass'
  <2>1. SUFFICES ASSUME pass = 2 PROVE SecondPass'
    BY <1>1 DEF SecondPass
  <2>2. doc["users"] = osenv /\ doc["users_v2"] = osenv
    BY <1>1, <2>1 DEF Shuffled, SecondPass, Users, Second, Midway, Past, ToLogin, ToConf, ToHive,
       ToCortex, ToUsers, Mapping
  <2> QED BY <1>1, <2>1, <2>2 DEF SecondPass, Past, ToToken, Context, Mapping, Midway
<1> QED BY <1>3, <1>4, <1>5 DEF Shuffled

\* What a step into or within the mapping must see to.
LEMMA MappingOn ==
  ASSUME SetupTyped, Shuffled, Midway, pc \in Mapping \cup {"fix_org"}, pc' \in Mapping,
         UNCHANGED <<osenv, bearer, pass>>, Users' = Users,
         pass = 2 => Second' = osenv
                     \/ (Unset' /\ pc' \notin {"v2_delete", "v2_insert", "copy_member"}),
         pc' = "users_delete" => read' = doc'["users"],
         pc' = "v2_delete" => read' = doc'["users_v2"],
         pc' = "copy" => Mapped("users_v2")',
         pc' = "copy_member" => doc'["users_v2"] >= NoKey \/ Unset'
  PROVE  Shuffled'
<1>1. Past(ToLogin) /\ Copied /\ pass \in {1, 2}
  BY DEF Midway, Past, ToLogin, ToConf, ToHive, ToCortex, ToUsers, Mapping, SetupTyped, ShuffleTyped
<1>2. osenv > NoKey /\ Users > NoKey
  BY <1>1 DEF Shuffled, LoginKeys
<1>3. LoginKeys'
  BY <1>2 DEF LoginKeys
<1>4. FirstPass'
  <2>1. SUFFICES ASSUME pass = 1 PROVE FirstPass'
    BY DEF FirstPass
  <2>2. bearer = NoKey \/ Users = bearer
    BY <1>1, <2>1 DEF Shuffled, FirstPass, Bears, Mapping, Syncing
  <2>3. Bears'
    BY <2>2 DEF Bears
  <2> QED BY <2>3 DEF FirstPass, Mapping, Syncing
<1>5. SecondPass'
  <2>1. SUFFICES ASSUME pass = 2 PROVE SecondPass'
    BY DEF SecondPass
  <2>2. Users = osenv
    BY <1>1, <2>1 DEF Shuffled, SecondPass, Context
  <2> QED BY <2>1, <2>2 DEF SecondPass, Past, ToToken, ToCreated, Mapping, Midway
<1> QED BY <1>3, <1>4, <1>5 DEF Shuffled

LEMMA OldSecond ==
  ASSUME Shuffled, Midway, pc \in Mapping \cup {"fix_org"}, pass = 2
  PROVE  Second = osenv \/ (Unset /\ pc \notin {"v2_delete", "v2_insert", "copy_member"})
<1>1. Past(ToLogin)
  BY DEF Midway, Past, ToLogin, ToConf, ToHive, ToCortex, ToUsers, Mapping
<1> QED BY <1>1 DEF Shuffled, SecondPass, Midway, Context

LEMMA ReadingShuffles ==
  ASSUME SetupTyped, Shuffled, Midway,
         \/ ReindexRead("users", "users_map", "users_delete", "v2_map")
         \/ ReindexRead("users_v2", "v2_map", "v2_delete", "copy")
  PROVE  Shuffled'
<1>0. UNCHANGED <<osenv, bearer, pass, doc, keyword>> /\ pass \in {1, 2}
  BY DEF ReindexRead, SetupTyped, ShuffleTyped
<1>1. CASE ReindexRead("users", "users_map", "users_delete", "v2_map")
  <2>1. /\ pc = "users_map"
        /\ pc' = "v2_map" \/ (pc' = "users_delete" /\ read' = doc["users"])
    BY <1>1 DEF ReindexRead, Shrugs, Step, Midway, Copied, Unhurt
  <2> QED BY <1>0, <2>1, MappingOn, OldSecond DEF Users, Second, Unset, Mapping
<1>2. CASE ReindexRead("users_v2", "v2_map", "v2_delete", "copy")
  <2>0. /\ Works /\ pc = "v2_map" /\ pc' = IF Mapped("users_v2") THEN "copy" ELSE "v2_delete"
        /\ read' = IF Mapped("users_v2") THEN NoUser ELSE doc["users_v2"]
    BY <1>2 DEF ReindexRead, Shrugs, Step, Midway, Copied, Unhurt
  <2>1. /\ pc = "v2_map"
        /\ \/ pc' = "copy" /\ Mapped("users_v2")
           \/ pc' = "v2_delete" /\ read' = doc["users_v2"] /\ ~Mapped("users_v2")
    BY <2>0
  <2>2. pc' = "copy" => Mapped("users_v2")'
    BY <1>0, <2>1 DEF Mapped
  <2>3. Unset => Mapped("users_v2")
    BY DEF Unset, Mapped, NoUser, NoIndex
  <2>4. Users' = Users /\ Second' = Second /\ Unset' = Unset
    BY <1>0, <2>1 DEF Users, Second, Unset
  <2>5. pass = 2 => Second' = osenv
                    \/ (Unset' /\ pc' \notin {"v2_delete", "v2_insert", "copy_member"})
    BY <2>1, <2>3, <2>4, OldSecond DEF Mapping
  <2> QED BY <1>0, <2>1, <2>2, <2>4, <2>5, MappingOn DEF Mapping
<1> QED BY <1>1, <1>2

LEMMA DeletingShuffles ==
  ASSUME SetupTyped, Shuffled, Midway,
         \/ ReindexDelete("users", "users_delete", "users_insert", "v2_map")
         \/ ReindexDelete("users_v2", "v2_delete", "v2_insert", "copy_member")
  PROVE  Shuffled'
<1>0. UNCHANGED <<osenv, bearer, pass, keyword>> /\ pass \in {1, 2} /\ "drop" \notin missed'
  BY DEF ReindexDelete, SetupTyped, ShuffleTyped, Midway, Copied, Clean, Untold
<1>1. CASE ReindexDelete("users", "users_delete", "users_insert", "v2_map")
  <2>1. /\ pc = "users_delete" /\ pc' = "users_insert"
        /\ doc' = [doc EXCEPT !["users"] = NoIndex] /\ read' = read
    BY <1>0, <1>1 DEF ReindexDelete, Step, Exit, Shrugs, Midway, ToLogin, ToConf, ToHive, ToCortex, ToUsers
  <2>2. doc'["users_v2"] = doc["users_v2"]
    BY <2>1 DEF SetupTyped, ShuffleTyped, Indices
  <2>3. read = doc["users"]
    BY <2>1 DEF Shuffled, LoginKeys, Midway, Past, ToLogin, ToConf, ToHive, ToCortex, ToUsers
  <2> QED BY <1>0, <2>1, <2>2, <2>3, MappingOn, OldSecond DEF Users, Second, Unset, Mapping
<1>2. CASE ReindexDelete("users_v2", "v2_delete", "v2_insert", "copy_member")
  <2>1. /\ pc = "v2_delete" /\ pc' = "v2_insert"
        /\ doc' = [doc EXCEPT !["users_v2"] = NoIndex] /\ read' = read
    BY <1>0, <1>2 DEF ReindexDelete, Step, Exit, Shrugs, Midway, ToLogin, ToConf, ToHive, ToCortex, ToUsers
  <2>2. doc'["users"] = doc["users"]
    BY <2>1 DEF SetupTyped, ShuffleTyped, Indices
  <2>3. read = doc["users_v2"]
    BY <2>1 DEF Shuffled, LoginKeys, Midway, Past, ToLogin, ToConf, ToHive, ToCortex, ToUsers
  <2>4. Users' = Users /\ Second' = Second
    BY <1>0, <2>1, <2>2, <2>3 DEF Users, Second
  <2>5. pass = 2 => Second' = osenv
    BY <2>1, <2>4, OldSecond DEF Mapping
  <2> QED BY <1>0, <2>1, <2>4, <2>5, MappingOn DEF Mapping
<1> QED BY <1>1, <1>2

LEMMA InsertingShuffles ==
  ASSUME SetupTyped, Known, Shuffled, Midway,
         \/ ReindexInsert("users", "users_insert", "v2_map")
         \/ ReindexInsert("users_v2", "v2_insert", "copy_member")
  PROVE  Shuffled'
<1>0. UNCHANGED <<osenv, bearer, pass>> /\ pass \in {1, 2} /\ "insert" \notin missed'
  BY DEF ReindexInsert, SetupTyped, ShuffleTyped, Midway, Copied, Clean, Untold
<1>1. CASE ReindexInsert("users", "users_insert", "v2_map")
  <2>1. /\ pc = "users_insert" /\ pc' = "v2_map"
        /\ doc' = [doc EXCEPT !["users"] = IF read = NoIndex THEN NoUser ELSE read]
        /\ keyword' = [keyword EXCEPT !["users"] = TRUE]
    BY <1>0, <1>1 DEF ReindexInsert, Step, Exit, Shrugs, Midway, ToLogin, ToConf, ToHive, ToCortex,
                ToUsers
  <2>2. read > NoKey
    BY <2>1 DEF Shuffled, LoginKeys, Midway, Past, ToLogin, ToConf, ToHive, ToCortex, ToUsers, Users
  <2>3. /\ doc'["users_v2"] = doc["users_v2"] /\ doc'["users"] = read
        /\ keyword'["users_v2"] = keyword["users_v2"]
    BY <2>1, <2>2 DEF SetupTyped, ShuffleTyped, Indices, NoIndex, NoKey
  <2> QED BY <1>0, <2>1, <2>3, MappingOn, OldSecond DEF Users, Second, Unset, Mapping
<1>2. CASE ReindexInsert("users_v2", "v2_insert", "copy_member")
  <2>1. /\ pc = "v2_insert" /\ pc' = "copy_member"
        /\ doc' = [doc EXCEPT !["users_v2"] = IF read = NoIndex THEN NoUser ELSE read]
        /\ keyword' = [keyword EXCEPT !["users_v2"] = TRUE]
    BY <1>0, <1>2 DEF ReindexInsert, Step, Exit, Shrugs, Midway, ToLogin, ToConf, ToHive, ToCortex,
                ToUsers
  <2>2. /\ doc'["users"] = doc["users"] /\ keyword'["users_v2"] = TRUE
        /\ doc'["users_v2"] = IF read = NoIndex THEN NoUser ELSE read
    BY <2>1 DEF SetupTyped, ShuffleTyped, Indices
  <2>3. read \in Int /\ read >= NoIndex /\ osenv \in Nat
    BY DEF Known, SetupTyped, ShuffleTyped, NoIndex
  <2>4. doc'["users_v2"] >= NoKey \/ Unset'
    BY <2>2, <2>3 DEF Unset, NoUser, NoIndex, NoKey
  <2>5. pass = 2 => read = osenv
    BY <2>1, OldSecond DEF Second, Mapping
  <2>6. pass = 2 => doc'["users_v2"] = osenv
    BY <2>2, <2>3, <2>5 DEF NoIndex
  <2>7. Users' = Users /\ (pass = 2 => Second' = osenv)
    BY <2>1, <2>2, <2>6 DEF Users, Second
  <2> QED BY <1>0, <2>1, <2>4, <2>7, MappingOn DEF Mapping
<1> QED BY <1>1, <1>2

LEMMA CopyingShuffles ==
  ASSUME SetupTyped, Known, Shuffled, Midway, CopyUsers("copy", "copy_member")
  PROVE  Shuffled'
<1>1. /\ pc = "copy" /\ pc' = "copy_member"
      /\ doc' = IF doc["users_v2"] = NoUser /\ doc["users"] >= NoKey
                THEN [doc EXCEPT !["users_v2"] = doc["users"]] ELSE doc
      /\ UNCHANGED <<osenv, bearer, pass, keyword>> /\ pass \in {1, 2}
  BY DEF CopyUsers, Step, Exit, Shrugs, SetupTyped, ShuffleTyped, Midway, Copied, Unhurt, ToLogin,
         ToConf, ToHive, ToCortex, ToUsers
<1>2. doc["users"] > NoKey /\ Mapped("users_v2")
  BY <1>1 DEF Shuffled, LoginKeys, Midway, Past, ToLogin, ToConf, ToHive, ToCortex, ToUsers, Users
<1>3. /\ doc["users"] \in Int /\ doc["users_v2"] \in Int /\ doc["users_v2"] >= NoIndex
      /\ doc["users_v2"] # NoIndex
  BY <1>2 DEF SetupTyped, ShuffleTyped, Indices, Known, NoIndex, Mapped
<1>4. /\ doc'["users"] = doc["users"]
      /\ doc'["users_v2"] = IF doc["users_v2"] = NoUser THEN doc["users"] ELSE doc["users_v2"]
  BY <1>1, <1>2, <1>3 DEF SetupTyped, ShuffleTyped, Indices, NoKey
<1>5. doc'["users_v2"] >= NoKey
  BY <1>2, <1>3, <1>4 DEF NoKey, NoUser, NoIndex
<1>6. pass = 2 => doc'["users_v2"] = osenv
  <2>1. SUFFICES ASSUME pass = 2 PROVE doc'["users_v2"] = osenv
    OBVIOUS
  <2>2. doc["users"] = osenv
    BY <1>1, <2>1 DEF Shuffled, SecondPass, Midway, Past, ToLogin, ToConf, ToHive, ToCortex, ToUsers,
       Users, Mapping
  <2>3. doc["users_v2"] = osenv \/ doc["users_v2"] = NoUser
    BY <1>1, <2>1, OldSecond DEF Second, Unset, Mapping
  <2> QED BY <1>4, <2>2, <2>3
<1>7. Users' = Users /\ (pass = 2 => Second' = osenv)
  BY <1>1, <1>4, <1>6 DEF Users, Second
<1> QED BY <1>1, <1>5, <1>7, MappingOn DEF Mapping

LEMMA FixOrgShuffles ==
  ASSUME SetupTyped, Runs, Shuffled, Midway,
         FixOrgUsers("fix_org", "users_map") \/ FixOrgUsers("org_again", "show")
  PROVE  Shuffled'
<1>1. /\ UNCHANGED <<doc, keyword, osenv, bearer, pass, env>> /\ pass \in {1, 2}
      /\ (pc = "fix_org" /\ pc' = "users_map") \/ (pc = "org_again" /\ pc' = "show")
  BY DEF FixOrgUsers, Step, SetupTyped, ShuffleTyped, envVars
<1>2. Past(ToLogin) /\ Copied /\ ~up /\ ~up' /\ osenv > NoKey
  BY <1>1 DEF Midway, Past, ToLogin, ToConf, ToHive, ToCortex, ToUsers, Shuffled, LoginKeys
<1>3. pass = 2
  BY <1>1, <1>2 DEF Shuffled, FirstPass, Mapping, Syncing
<1>4. CASE pc = "fix_org" /\ pc' = "users_map"
  <2> QED BY <1>1, <1>4, MappingOn, OldSecond DEF Users, Second, Unset, Mapping
<1>5. CASE pc = "org_again" /\ pc' = "show"
  <2>1. /\ doc["users"] = osenv /\ doc["users_v2"] = osenv
        /\ env["shuffle"] = osenv
    BY <1>2, <1>3, <1>5 DEF Shuffled, SecondPass, Past, ToToken, ToCreated, Context, Mapping, Syncing,
       Swapping, ToLogin, ToConf, ToHive, ToCortex, ToUsers
  <2> QED BY <1>1, <1>2, <1>3, <1>5, <2>1 DEF Shuffled, LoginKeys, FirstPass, SecondPass, Users,
             Context, Mapping
<1> QED BY <1>1, <1>4, <1>5

LEMMA UpdateEnvShuffles ==
  ASSUME SetupTyped, Runs, Shuffled, Midway, UpdateEnv
  PROVE  Shuffled'
<1>1. /\ pc = "update_env" /\ pc' = "rewrite"
      /\ UNCHANGED <<doc, keyword, osenv, pass>> /\ pass \in {1, 2}
      /\ Admin # NoKey => env' = [env EXCEPT !["shuffle"] = Admin]
  BY DEF UpdateEnv, Step, Exit, Shrugs, SetEnv, Midway, Copied, Clean, Untold, accVars, SetupTyped, ShuffleTyped,
         ToLogin, ToConf, ToHive, ToCortex, ToUsers
<1>2. Past(ToLogin) /\ Past(ToCreated) /\ Copied /\ ~up /\ ~up' /\ osenv > NoKey
  BY <1>1 DEF Midway, Past, ToLogin, ToConf, ToHive, ToCortex, ToUsers, Shuffled, LoginKeys,
     ToCreated, Context, Mapping, Syncing
<1>3. pass = 2
  BY <1>1, <1>2 DEF Shuffled, FirstPass, Mapping, Syncing
<1>4. doc["users"] = osenv /\ doc["users_v2"] = osenv
  BY <1>2, <1>3 DEF Shuffled, SecondPass
<1>5. env'["shuffle"] = osenv
  BY <1>1, <1>2, <1>4 DEF Admin, NoKey, SetupTyped, RunTyped, ShuffleTyped, Secrets
<1> QED BY <1>1, <1>2, <1>3, <1>4, <1>5 DEF Shuffled, LoginKeys, FirstPass, SecondPass, Users,
           Context, Mapping

LEMMA ShuffleShuffles ==
  ASSUME SetupTyped, Runs, Known, Shuffled, ShuffleAccountsNext
  PROVE  Shuffled'
<1>1. Going
  BY ShuffleTypedStep DEF SetupTyped
<1>2. SUFFICES ASSUME Midway PROVE Shuffled'
  BY <1>1, ShuffledElse
<1>3. CASE FixUsersMapping
  <2>1. ~(/\ Step("users_map", IF pass = 1 THEN "sync_v2" ELSE "create") /\ Shrugs("es")
          /\ UNCHANGED <<runVars, envVars, got, fresh, accVars>>)
    BY <1>2 DEF Shrugs, Midway, Copied, Clean, Untold
  <2> QED BY <1>2, <1>3, <2>1, ReadingShuffles, DeletingShuffles, InsertingShuffles, CopyingShuffles,
             CopyMemberShuffles DEF FixUsersMapping
<1> QED BY <1>2, <1>3, LoginShuffles, ValidateShuffles, SyncFileShuffles, SyncV2Shuffles,
           SyncUsersShuffles, SyncMemberShuffles, FixOrgShuffles, UpdateEnvShuffles
        DEF ShuffleAccountsNext

\* The way through the second half of the webhook script, and after it.
LEMMA WorkflowStages ==
  ASSUME WorkflowDeploymentNext, pc' \notin ToLogin
  PROVE  \/ pc \in Context \ {"fix_org"} /\ pc' \in Context
         \/ pc \in {"create"} \cup Swapping /\ pc' \in Swapping \cup {"update_env"}
         \/ pc \in {"rewrite", "kpis"} /\ pc' \in {"analyzers", "org_again"}
<1> USE DEF Context, Swapping, Step, Exit, Then, ToLogin, ToConf, ToHive, ToCortex, ToUsers
<1>1. CASE ResolveKeys \/ ListWorkflows \/ BuildContext \/ EnsureEnvironment
  BY <1>1 DEF ResolveKeys, ListWorkflows, BuildContext, EnsureEnvironment
<1>2. CASE CreateWorkflow \/ FixBranches \/ PatchDocs
  BY <1>2 DEF CreateWorkflow, FixBranches, PatchDocs
<1>3. CASE DeleteOld \/ RegisterHook \/ EnsureEsIndices \/ SaveWebhookInfo
  BY <1>3 DEF DeleteOld, RegisterHook, EnsureEsIndices, SaveWebhookInfo
<1>4. CASE ImportDashboard \/ RewriteInfo \/ SetupKpis
  BY <1>4 DEF ImportDashboard, RewriteInfo, SetupKpis
<1> QED BY <1>1, <1>2, <1>3, <1>4 DEF WorkflowDeploymentNext

LEMMA ServicesStages ==
  ASSUME ServiceAccountsNext, Ordered, pc' \notin ToLogin
  PROVE  /\ InstallAnalyzers \/ LoadIocs
         /\ pc \in {"analyzers", "iocs"} /\ pc' \in {"iocs", "kpis"}
<1>1. ~CortexNext /\ ~HiveNext
  BY CortexGoes, HiveGoes DEF CortexPlaces, HivePlaces, ToLogin, ToConf, ToHive, ToCortex, ToUsers
<1>2. ~ConfigureTemplates /\ ~PreIndex /\ ~Restore
  BY OthersGo DEF ToLogin, ToConf, ToHive, ToCortex, ToUsers
<1>3. InstallAnalyzers \/ LoadIocs
  BY <1>1, <1>2 DEF ServiceAccountsNext
<1> QED BY <1>3 DEF InstallAnalyzers, LoadIocs, Step

LEMMA ShuffledKept ==
  ASSUME SetupTyped, Runs, Shuffled, Ordered, Going, env'["shuffle"] = env["shuffle"], UNCHANGED accVars,
         ServiceAccountsNext \/ WorkflowDeploymentNext
  PROVE  Shuffled'
<1> SUFFICES ASSUME Midway PROVE Shuffled'
  BY ShuffledElse
<1>0. UNCHANGED <<doc, keyword, osenv, pass, read>> /\ pass \in {1, 2}
  BY DEF accVars, SetupTyped, ShuffleTyped
<1>1. \/ pc \in Context /\ pc' \in Context
      \/ pc \in {"create"} \cup Swapping /\ pc' \in Swapping \cup {"update_env"}
      \/ pc \in Closing \ {"update_env"} /\ pc' \in Closing \ {"update_env"}
  BY WorkflowStages, ServicesStages DEF Closing, Midway
<1>2. Past(ToLogin) /\ Copied
  BY <1>1 DEF Midway, Past, ToLogin, ToConf, ToHive, ToCortex, ToUsers, Context, Swapping, Closing
<1>3. pass = 2 /\ osenv > NoKey /\ Users = doc["users"] /\ Users' = doc["users"] /\ Users > NoKey
  BY <1>0, <1>1, <1>2 DEF Shuffled, LoginKeys, FirstPass, Users, Mapping, Syncing, Context, Swapping,
     Closing
<1>4. LoginKeys' /\ FirstPass'
  BY <1>0, <1>1, <1>3 DEF LoginKeys, FirstPass, Context, Swapping, Closing
<1>5. SecondPass'
  <2>1. CASE pc \in Context /\ pc' \in Context
    <3>1. Users = osenv /\ (Second = osenv \/ Unset)
      BY <1>2, <1>3, <2>1 DEF Shuffled, SecondPass
    <3>2. Second' = Second /\ Unset' = Unset
      BY <1>0, <2>1 DEF Second, Unset, Context
    <3> QED BY <1>0, <1>3, <2>1, <3>1, <3>2 DEF SecondPass, Past, ToToken, ToCreated, Context, Midway
  <2>2. CASE pc \in {"create"} \cup Swapping /\ pc' \in Swapping \cup {"update_env"}
    <3>1. doc["users"] = osenv /\ doc["users_v2"] = osenv
      BY <1>2, <1>3, <2>2 DEF Shuffled, SecondPass, Past, ToCreated, ToLogin, ToConf, ToHive, ToCortex,
         ToUsers, Context, Swapping, Mapping, Syncing
    <3> QED BY <1>0, <2>2, <3>1 DEF SecondPass, Past, ToToken, Context, Mapping, Swapping, Midway
  <2>3. CASE pc \in Closing \ {"update_env"} /\ pc' \in Closing \ {"update_env"}
    <3>1. /\ doc["users"] = osenv /\ doc["users_v2"] = osenv
          /\ env["shuffle"] = osenv
      BY <1>2, <1>3, <2>3 DEF Shuffled, SecondPass, Past, ToCreated, ToLogin, ToConf, ToHive, ToCortex,
         ToUsers, Context, Swapping, Mapping, Syncing, Closing, ToToken
    <3> QED BY <1>0, <2>3, <3>1 DEF SecondPass, Past, ToToken, Context, Mapping, Closing, Midway
  <2> QED BY <1>1, <2>1, <2>2, <2>3
<1> QED BY <1>4, <1>5 DEF Shuffled

LEMMA ShuffledStep ==
  ASSUME SetupTyped, Runs, Known, Shuffled, Safe, Ordered, Scripted
  PROVE  Shuffled'
<1>1. CASE ServiceAccountsNext /\ UNCHANGED <<accVars, flowVars>>
  <2>1. Going
    BY <1>1, ServicesTypedStep DEF SetupTyped
  <2> QED BY <1>1, <2>1, ServicesIssue, ShuffledKept
<1>2. CASE WorkflowDeploymentNext
  <2>1. Going
    BY <1>2, WorkflowTypedStep
  <2> QED BY <1>2, <2>1, WorkflowIssues, ShuffledKept, AccountsStay
<1>3. CASE ShowAccess
  <2>1. /\ pc = "show" /\ pc' = "idle"
        /\ UNCHANGED <<plan, missed, env, doc, keyword, osenv, pass, bearer, read>>
    BY <1>3 DEF ShowAccess, Step, envVars, accVars
  <2>2. Users' = Users /\ Second' = Second /\ Unset' = Unset /\ Copied' = Copied
    BY <2>1 DEF Users, Second, Unset, Copied, Clean, Unhurt
  <2>3. LoginKeys'
    BY <2>1, <2>2 DEF Shuffled, LoginKeys, Past, ToLogin, ToConf, ToHive, ToCortex, ToUsers
  <2>4. FirstPass'
    BY <2>1, <2>2 DEF Shuffled, FirstPass, Past, ToLogin, ToConf, ToHive, ToCortex, ToUsers, Mapping,
       Syncing
  <2>5. SecondPass'
    BY <2>1, <2>2 DEF Shuffled, SecondPass, Past, ToToken, ToCreated, ToLogin, ToConf, ToHive, ToCortex,
       ToUsers, Mapping, Syncing, Context, Swapping
  <2> QED BY <2>3, <2>4, <2>5 DEF Shuffled
<1> QED BY <1>1, <1>2, <1>3, ShuffleShuffles DEF Scripted

-----------------------------------------------------------------------------
(* The admin's key, and the organization's copy of it, in a run that told  *)
(* of no failure and read the documents that it put back: the document is  *)
(* there from the login on, update_env makes the file agree with it, and,  *)
(* unless a request for the organization was lost, fix_org names the admin *)
(* in the entry, whose key the second pass then sets.                      *)
Owned == Clean /\ Unhurt({"read"})
Entered ==
  Owned /\ Past(ToLogin) =>
    /\ osenv > NoKey /\ Users > NoKey
    /\ pc = "users_delete" => read = doc["users"]
    /\ pc = "sync_file" => got > NoKey
    /\ pass = 1 => pc \in Mapping \cup Syncing \cup {"validate"}
    /\ Past(ToToken \cup {"update_env"}) => env["shuffle"] = doc["users"]
    /\ Unhurt({"member"}) =>
         /\ pass = 2 /\ pc \in Mapping => linked
         /\ Past(ToCreated) => member = doc["users"]

\* A step between two places after the login.
Between == Owned' /\ Owned /\ ~up /\ ~up' /\ pc' \notin ToLogin

LEMMA EnteredElse ==
  ASSUME Runs, Going, Between => Entered'
  PROVE  Entered'
BY GoingOn DEF Between, Owned, Unhurt, Entered, Past

\* Before the workflow is created, only these have to be seen to.
LEMMA EnteredBefore ==
  ASSUME Between, pc' \in ToCreated, osenv' > NoKey, Users' > NoKey,
         pc' = "users_delete" => read' = doc'["users"],
         pc' = "sync_file" => got' > NoKey,
         pass' = 1 => pc' \in Mapping \cup Syncing \cup {"validate"},
         Unhurt({"member"})' /\ pass' = 2 /\ pc' \in Mapping => linked'
  PROVE  Entered'
BY DEF Entered, Between, Past, ToToken

\* What holds at a step after the login.
LEMMA EnteredNow ==
  ASSUME Entered, Between, pc \notin ToLogin
  PROVE  /\ osenv > NoKey /\ Users > NoKey
         /\ pc = "users_delete" => read = doc["users"]
         /\ pc = "sync_file" => got > NoKey
         /\ pass = 1 => pc \in Mapping \cup Syncing \cup {"validate"}
         /\ pc \notin ToToken \cup {"update_env"} => env["shuffle"] = doc["users"]
         /\ Unhurt({"member"}) =>
              /\ pass = 2 /\ pc \in Mapping => linked
              /\ pc \notin ToCreated => member = doc["users"]
BY DEF Entered, Between, Past

LEMMA LoginEnters ==
  ASSUME SetupTyped, Runs, Entered, Between, Login
  PROVE  Entered'
<1>1. /\ pc = "login" /\ pc' = "users_map" /\ doc["users"] > NoKey
      /\ pass' = 1 /\ doc' = doc /\ osenv' = box["shuffle"]
  BY DEF Login, Step, Exit, Between, ToLogin, ToConf, ToHive, ToCortex, ToUsers, Runs
<1>2. osenv' > NoKey /\ Users' > NoKey
  BY <1>1 DEF Runs, SetupTyped, RunTyped, Secrets, NoKey, Users
<1> QED BY <1>1, <1>2, EnteredBefore DEF ToCreated, Mapping

LEMMA SessionEnters ==
  ASSUME SetupTyped, Entered, Between, ValidateKey \/ SyncFile
  PROVE  Entered'
<1>1. pc \notin ToLogin /\ pc' \in {"sync_file", "sync_v2", "keys"} /\ pass \in {1, 2}
  BY DEF ValidateKey, SyncFile, Step, Exit, Between, ToLogin, ToConf, ToHive, ToCortex, ToUsers,
         SetupTyped, ShuffleTyped
<1>2. osenv > NoKey /\ Users > NoKey /\ doc["users"] > NoKey
  BY <1>1, EnteredNow DEF ValidateKey, SyncFile, Step, Exit, Users
<1>3. osenv' > NoKey /\ Users' > NoKey /\ (pc' = "sync_file" => got' > NoKey)
  <2>1. CASE ValidateKey
    <3>1. /\ pc' = "sync_file" /\ osenv' = osenv
          /\ \/ bearer # NoKey /\ got' = bearer /\ doc' = doc
             \/ got' = fresh + 1
                /\ doc' = [i \in Indices |-> IF doc[i] >= NoKey THEN fresh + 1 ELSE doc[i]]
      BY <1>1, <2>1 DEF ValidateKey, Step, Exit, Between, ToLogin, ToConf, ToHive, ToCortex, ToUsers
    <3>2. got' > NoKey
      BY <3>1 DEF SetupTyped, RunTyped, ShuffleTyped, NoKey
    <3>3. doc'["users"] \in {doc["users"], fresh + 1} /\ fresh + 1 > NoKey
      BY <3>1 DEF SetupTyped, RunTyped, Indices, NoKey
    <3> QED BY <1>2, <3>1, <3>2, <3>3 DEF Users
  <2>2. CASE SyncFile
    <3>1. pc = "sync_file" /\ doc' = doc /\ osenv' \in {osenv, got} /\ pc' \in {"sync_v2", "keys"}
      BY <2>2 DEF SyncFile
    <3>2. got > NoKey
      BY <1>1, <3>1, EnteredNow
    <3> QED BY <1>2, <3>1, <3>2 DEF Users
  <2> QED BY <2>1, <2>2
<1>4. pass' = 2
  <2>1. CASE ValidateKey
    BY <2>1 DEF ValidateKey
  <2>2. CASE SyncFile
    BY <1>1, <2>2, EnteredNow DEF SyncFile, Mapping, Syncing
  <2> QED BY <2>1, <2>2
<1> QED BY <1>1, <1>3, <1>4, EnteredBefore DEF ToCreated, Mapping, Syncing, Context

LEMMA SyncEnters ==
  ASSUME SetupTyped, Entered, Between, SyncV2 \/ SyncUsers \/ SyncMember
  PROVE  Entered'
<1>1. /\ pc \in Syncing /\ UNCHANGED <<osenv, pass>>
      /\ pc' \in {"sync_users", "sync_member"} \/ pc' = AfterSync
  BY DEF SyncV2, SyncUsers, SyncMember, Step, Exit, Between, ToLogin, ToConf, ToHive, ToCortex,
         ToUsers, Syncing, AfterSync
<1>2. doc'["users"] \in {doc["users"], osenv}
  <2>1. CASE SyncV2
    <3>1. \/ doc' = doc \/ doc' = [doc EXCEPT !["users_v2"] = osenv]
          \/ doc' = [doc EXCEPT !["users_v2"] = IF @ >= NoKey THEN osenv ELSE @]
      BY <2>1 DEF SyncV2
    <3> QED BY <3>1 DEF SetupTyped, ShuffleTyped, Indices
  <2>2. CASE SyncUsers \/ SyncMember
    <3>1. doc' = doc \/ doc' = [doc EXCEPT !["users"] = osenv]
      BY <2>2 DEF SyncUsers, SyncMember
    <3> QED BY <3>1 DEF SetupTyped, ShuffleTyped, Indices
  <2> QED BY <2>1, <2>2
<1>3. osenv > NoKey /\ doc["users"] > NoKey
  BY <1>1, EnteredNow DEF Syncing, Users, ToLogin, ToConf, ToHive, ToCortex, ToUsers
<1>4. Users' > NoKey
  BY <1>1, <1>2, <1>3 DEF Users, AfterSync
<1> QED BY <1>1, <1>3, <1>4, EnteredBefore DEF ToCreated, Mapping, Syncing, Context, AfterSync

LEMMA MappingEnters ==
  ASSUME SetupTyped, Entered, Between, FixUsersMapping, pc # "copy_member"
  PROVE  Entered'
<1>0. /\ pc \in Mapping \ {"copy_member"} /\ pc \notin ToLogin /\ UNCHANGED <<osenv, pass, linked>>
      /\ pass \in {1, 2} /\ missed' \intersect {"drop", "insert", "es", "read"} = {}
  BY DEF FixUsersMapping, ReindexRead, ReindexDelete, ReindexInsert, CopyUsers, CopyMember, Step, Exit,
         Mapping, ToLogin, ToConf, ToHive, ToCortex, ToUsers, accVars, SetupTyped, ShuffleTyped,
         Between, Owned, Clean, Unhurt, Untold
<1>1. osenv > NoKey /\ Users > NoKey /\ (pc = "users_delete" => read = doc["users"])
  BY <1>0, EnteredNow
<1>2. ASSUME pc' \in Mapping, Users' = Users, pc' = "users_delete" => read' = doc'["users"]
      PROVE  Entered'
  <2>1. Unhurt({"member"})' => Unhurt({"member"})
    BY DEF FixUsersMapping, ReindexRead, ReindexDelete, ReindexInsert, CopyUsers, Shrugs, Unhurt,
           CopyMember
  <2>2. Unhurt({"member"})' /\ pass' = 2 /\ pc' \in Mapping => linked'
    BY <1>0, <2>1, EnteredNow
  <2> QED BY <1>0, <1>1, <1>2, <2>2, EnteredBefore DEF ToCreated, Mapping
<1>3. CASE ReindexRead("users", "users_map", "users_delete", "v2_map")
  <2>1. /\ pc = "users_map" /\ doc' = doc
        /\ pc' = "v2_map" \/ (pc' = "users_delete" /\ read' = doc["users"])
    BY <1>0, <1>3 DEF ReindexRead, Shrugs, Step
  <2> QED BY <1>2, <2>1 DEF Users, Mapping
<1>4. CASE ReindexDelete("users", "users_delete", "users_insert", "v2_map")
  <2>1. pc = "users_delete" /\ pc' = "users_insert" /\ read' = read
    BY <1>0, <1>4 DEF ReindexDelete, Step, Exit, Shrugs, Between, ToLogin, ToConf, ToHive, ToCortex, ToUsers
  <2> QED BY <1>1, <1>2, <2>1 DEF Users, Mapping
<1>5. CASE ReindexInsert("users", "users_insert", "v2_map")
  <2>1. /\ pc = "users_insert" /\ pc' = "v2_map"
        /\ doc' = [doc EXCEPT !["users"] = IF read = NoIndex THEN NoUser ELSE read]
    BY <1>0, <1>5 DEF ReindexInsert, Step, Exit, Shrugs, Between, ToLogin, ToConf, ToHive, ToCortex,
                ToUsers
  <2>2. read > NoKey
    BY <1>1, <2>1 DEF Users
  <2>3. doc'["users"] = read
    BY <2>1, <2>2 DEF SetupTyped, ShuffleTyped, Indices, NoIndex, NoKey
  <2> QED BY <1>2, <2>1, <2>3 DEF Users, Mapping
<1>6. CASE \/ ReindexRead("users_v2", "v2_map", "v2_delete", "copy")
           \/ ReindexDelete("users_v2", "v2_delete", "v2_insert", "copy_member")
           \/ ReindexInsert("users_v2", "v2_insert", "copy_member")
           \/ CopyUsers("copy", "copy_member")
  <2>1. /\ pc \notin {"users_insert", "users_delete"}
        /\ pc' \in {"v2_delete", "v2_insert", "copy", "copy_member"}
    BY <1>0, <1>6 DEF ReindexRead, ReindexDelete, ReindexInsert, CopyUsers, Step, Exit, Shrugs, Between,
                ToLogin, ToConf, ToHive, ToCortex, ToUsers
  <2>2. doc' = doc \/ \E k : doc' = [doc EXCEPT !["users_v2"] = k]
    BY <1>6 DEF ReindexRead, ReindexDelete, ReindexInsert, CopyUsers
  <2>3. doc'["users"] = doc["users"]
    BY <2>2 DEF SetupTyped, ShuffleTyped, Indices
  <2> QED BY <1>2, <2>1, <2>3 DEF Users, Mapping
<1>7. /\ ~(/\ Step("users_map", IF pass = 1 THEN "sync_v2" ELSE "create") /\ Shrugs("es")
           /\ UNCHANGED <<runVars, envVars, got, fresh, accVars>>)
      /\ ~CopyMember("copy_member", IF pass = 1 THEN "sync_v2" ELSE "create")
  BY <1>0 DEF CopyMember, Step, Shrugs
<1> QED BY <1>3, <1>4, <1>5, <1>6, <1>7 DEF FixUsersMapping

LEMMA CopyMemberEnters ==
  ASSUME SetupTyped, Entered, Between, FixUsersMapping, pc = "copy_member"
  PROVE  Entered'
<1>1. CopyMember("copy_member", IF pass = 1 THEN "sync_v2" ELSE "create")
  BY DEF FixUsersMapping, ReindexRead, ReindexDelete, ReindexInsert, CopyUsers, Step, Exit
<1>2. /\ pc' = (IF pass = 1 THEN "sync_v2" ELSE "create") /\ UNCHANGED <<doc, osenv, pass>>
      /\ pass \in {1, 2}
      /\ \/ "member" \in missed'
         \/ missed' = missed /\ member' = IF linked /\ Admin # NoKey THEN Admin ELSE member
  BY <1>1 DEF CopyMember, Step, Shrugs, SetupTyped, ShuffleTyped
<1>3. osenv > NoKey /\ doc["users"] > NoKey /\ (pass = 2 /\ Unhurt({"member"}) => linked)
  BY EnteredNow DEF ToLogin, ToConf, ToHive, ToCortex, ToUsers, Users, Mapping
<1>4. osenv' > NoKey /\ Users' > NoKey
  BY <1>2, <1>3 DEF Users
<1>5. CASE pass = 1
  BY <1>2, <1>4, <1>5, EnteredBefore DEF ToCreated, Syncing
<1>6. CASE pass = 2
  <2>1. Admin = doc["users"] /\ Admin # NoKey
    BY <1>3 DEF Admin, NoKey, SetupTyped, ShuffleTyped, Indices
  <2>2. Unhurt({"member"})' => member' = doc'["users"]
    BY <1>2, <1>3, <1>6, <2>1 DEF Unhurt
  <2> QED BY <1>2, <1>4, <1>6, <2>2 DEF Entered, Between, Past, ToToken, Mapping
<1> QED BY <1>2, <1>5, <1>6

LEMMA FixOrgEnters ==
  ASSUME SetupTyped, Entered, Between,
         FixOrgUsers("fix_org", "users_map") \/ FixOrgUsers("org_again", "show")
  PROVE  Entered'
<1>1. /\ UNCHANGED <<doc, osenv, pass, env>> /\ pass \in {1, 2}
      /\ (pc = "fix_org" /\ pc' = "users_map") \/ (pc = "org_again" /\ pc' = "show")
      /\ \/ "member" \in missed'
         \/ /\ missed' = missed
            /\ IF (~linked \/ member = NoKey) /\ doc["users"] >= NoKey
                 THEN linked' = TRUE /\ member' = Admin
                 ELSE UNCHANGED <<linked, member>>
  BY DEF FixOrgUsers, Step, Shrugs, SetupTyped, ShuffleTyped, envVars
<1>2. pc \notin ToLogin
  BY <1>1 DEF ToLogin, ToConf, ToHive, ToCortex, ToUsers
<1>3. /\ osenv > NoKey /\ doc["users"] > NoKey /\ pass = 2
      /\ pc = "org_again" => env["shuffle"] = doc["users"] /\ (Unhurt({"member"}) => member = doc["users"])
  BY <1>1, <1>2, EnteredNow DEF Users, Mapping, Syncing, ToToken, ToCreated, ToLogin, ToConf, ToHive,
     ToCortex, ToUsers, Context, Swapping
<1>4. Admin = doc["users"]
  BY <1>3 DEF Admin, NoKey, SetupTyped, ShuffleTyped, Indices
<1>5. osenv' > NoKey /\ Users' > NoKey
  BY <1>1, <1>3 DEF Users
<1>6. CASE pc = "fix_org" /\ pc' = "users_map"
  <2>1. doc["users"] >= NoKey
    BY <1>3 DEF NoKey, SetupTyped, ShuffleTyped, Indices
  <2>2. Unhurt({"member"})' => linked'
    BY <1>1, <2>1 DEF Unhurt, SetupTyped, ShuffleTyped
  <2> QED BY <1>1, <1>3, <1>5, <1>6, <2>2, EnteredBefore DEF ToCreated, Mapping
<1>7. CASE pc = "org_again" /\ pc' = "show"
  <2>1. Unhurt({"member"})' => member' = doc'["users"]
    BY <1>1, <1>3, <1>4, <1>7 DEF Unhurt
  <2> QED BY <1>1, <1>3, <1>5, <1>7, <2>1 DEF Entered, Mapping
<1> QED BY <1>1, <1>6, <1>7

LEMMA UpdateEnvEnters ==
  ASSUME SetupTyped, Entered, Between, UpdateEnv
  PROVE  Entered'
<1>1. /\ pc = "update_env" /\ pc' = "rewrite"
      /\ UNCHANGED <<doc, osenv, pass, member, missed>> /\ pass \in {1, 2}
      /\ Admin # NoKey => env' = [env EXCEPT !["shuffle"] = Admin]
  BY DEF UpdateEnv, Step, Exit, Shrugs, SetEnv, Between, Owned, Clean, Untold, accVars, SetupTyped,
         ShuffleTyped, ToLogin, ToConf, ToHive, ToCortex, ToUsers
<1>2. pc \notin ToLogin /\ pc \notin ToCreated
  BY <1>1 DEF ToLogin, ToConf, ToHive, ToCortex, ToUsers, ToCreated, Mapping, Syncing, Context
<1>3. /\ osenv > NoKey /\ doc["users"] > NoKey /\ pass = 2
      /\ Unhurt({"member"}) => member = doc["users"]
  BY <1>1, <1>2, EnteredNow DEF Users, Mapping, Syncing
<1>4. Admin = doc["users"] /\ Admin # NoKey
  BY <1>3 DEF Admin, NoKey, SetupTyped, ShuffleTyped, Indices
<1>5. env'["shuffle"] = doc["users"]
  BY <1>1, <1>4 DEF SetupTyped, RunTyped, Secrets
<1> QED BY <1>1, <1>3, <1>5 DEF Entered, Users, Unhurt, Mapping

LEMMA ShuffleEnters ==
  ASSUME SetupTyped, Runs, Entered, ShuffleAccountsNext
  PROVE  Entered'
<1>1. Going
  BY ShuffleTypedStep DEF SetupTyped
<1>2. SUFFICES ASSUME Between PROVE Entered'
  BY <1>1, EnteredElse
<1> QED BY <1>2, LoginEnters, SessionEnters, SyncEnters, MappingEnters, CopyMemberEnters, FixOrgEnters,
           UpdateEnvEnters DEF ShuffleAccountsNext

LEMMA EnteredStep ==
  ASSUME SetupTyped, Runs, Entered, Safe, Ordered, Scripted
  PROVE  Entered'
<1>1. ASSUME Going, env'["shuffle"] = env["shuffle"], UNCHANGED accVars,
             ServiceAccountsNext \/ WorkflowDeploymentNext
      PROVE  Entered'
  <2> SUFFICES ASSUME Between PROVE Entered'
    BY <1>1, EnteredElse
  <2>0. UNCHANGED <<doc, osenv, pass, member, linked>> /\ pass \in {1, 2} /\ missed \subseteq missed'
    BY <1>1 DEF accVars, SetupTyped, ShuffleTyped, Going
  <2>1. \/ pc \in Context /\ pc' \in Context
        \/ pc \in {"create"} \cup Swapping /\ pc' \in Swapping \cup {"update_env"}
        \/ pc \in Closing \ {"update_env"} /\ pc' \in Closing \ {"update_env"}
    BY <1>1, WorkflowStages, ServicesStages DEF Closing, Between
  <2>2. pc \notin ToLogin
    BY <2>1 DEF ToLogin, ToConf, ToHive, ToCortex, ToUsers, Context, Swapping, Closing
  <2>3. pass = 2 /\ osenv > NoKey /\ doc["users"] > NoKey
    BY <2>0, <2>1, <2>2, EnteredNow DEF Users, Mapping, Syncing, Context, Swapping, Closing
  <2>4. osenv' > NoKey /\ Users' > NoKey
    BY <2>0, <2>1, <2>3 DEF Users, Context, Swapping, Closing
  <2>5. CASE pc' \in Context
    BY <2>0, <2>3, <2>4, <2>5, EnteredBefore DEF ToCreated, Context, Mapping
  <2>6. CASE pc \in {"create"} \cup Swapping /\ pc' \in Swapping \cup {"update_env"}
    <3>1. Unhurt({"member"})' => member' = doc'["users"]
      BY <2>0, <2>2, <2>6, EnteredNow DEF Unhurt, ToCreated, ToLogin, ToConf, ToHive, ToCortex, ToUsers,
         Mapping, Syncing, Context, Swapping
    <3> QED BY <2>0, <2>3, <2>4, <2>6, <3>1 DEF Entered, Between, Past, ToToken, Mapping, Swapping
  <2>7. CASE pc \in Closing \ {"update_env"} /\ pc' \in Closing \ {"update_env"}
    <3>1. env'["shuffle"] = doc'["users"] /\ (Unhurt({"member"})' => member' = doc'["users"])
      BY <1>1, <2>0, <2>2, <2>7, EnteredNow DEF Unhurt, ToToken, ToCreated, ToLogin, ToConf, ToHive,
         ToCortex, ToUsers, Mapping, Syncing, Context, Swapping, Closing
    <3> QED BY <2>0, <2>3, <2>4, <2>7, <3>1 DEF Entered, Mapping, Closing
  <2> QED BY <2>1, <2>5, <2>6, <2>7
<1>2. CASE ServiceAccountsNext /\ UNCHANGED <<accVars, flowVars>>
  <2>1. Going
    BY <1>2, ServicesTypedStep DEF SetupTyped
  <2> QED BY <1>1, <1>2, <2>1, ServicesIssue
<1>3. CASE WorkflowDeploymentNext
  <2>1. Going
    BY <1>3, WorkflowTypedStep
  <2> QED BY <1>1, <1>3, <2>1, WorkflowIssues, AccountsStay
<1>4. CASE ShowAccess
  <2>1. /\ pc = "show" /\ pc' = "idle"
        /\ UNCHANGED <<plan, missed, env, doc, osenv, pass, member, linked>>
    BY <1>4 DEF ShowAccess, Step, envVars, accVars
  <2> QED BY <2>1 DEF Entered, Owned, Clean, Unhurt, Users, Past, ToToken, ToCreated, ToLogin, ToConf,
             ToHive, ToCortex, ToUsers, Mapping, Syncing, Context, Swapping
<1> QED BY <1>2, <1>3, <1>4, ShuffleEnters DEF Scripted

-----------------------------------------------------------------------------
(* The new workflow, in a run that told of no failure: it is built with    *)
(* the key of TheHive and, if the template and the index of Cortex were    *)
(* made, wired; the repairs give it its start and its entry; it is the     *)
(* only one when the old ones were listed and deleted; and token, hook and *)
(* both files name it.  What a failure that nobody told of can cost stands *)
(* behind that failure's kind.                                             *)
IsBuilding ==
  \/ pc \in {"build", "environment", "fix_org", "create"}
  \/ pc \in Mapping /\ pass = 2
Good(m) == m.hive = key["thehive"] /\ (Templated => m.wired)
Repair(m) == Unhurt({"branches"}) => m.start /\ m.entry
Patch(m) == Unhurt({"patch"}) => m.start
Sole(t) ==
  \E m \in flows :
    /\ m.id = t /\ Good(m) /\ Repair(m) /\ Patch(m)
    /\ \A f \in flows : f.id = t => f = m
    /\ Unhurt({"list", "delete"}) => flows = {m}
Leads(t) == t \in DOMAIN hooks /\ hooks[t] = t
Built ==
  /\ held.hive = key["thehive"]
  /\ Unhurt({"list"}) => \A f \in flows : f.id \in held.old
  /\ pc # "build" /\ Templated => held.wired
Beside ==
  \E m \in flows :
    /\ m.id = held.id /\ Good(m)
    /\ pc # "branches" => Repair(m)
    /\ pc = "delete_old" => Patch(m)
    /\ \A f \in flows : f.id = held.id => f = m
    /\ Unhurt({"list", "delete"}) => \A f \in flows : f = m \/ f.id \in held.old
Named ==
  /\ env["token"] > NoKey /\ Sole(env["token"])
  /\ Unhurt({"hook"}) => Leads(env["token"])
  /\ Unhurt({"copy"}) => info = env["token"]
HostNamed == Unhurt({"copy"}) => hostInfo = env["token"]
Workflow ==
  Clean =>
    /\ pc = "list" => held.hive = key["thehive"]
    /\ IsBuilding => Built
    /\ pc \in {"branches", "patch", "delete_old"} => Beside
    /\ pc \in {"hook", "indices", "info"} => Sole(held.id)
    /\ pc = "dashboard" => Named
    /\ Past(ToToken) => Named
    /\ Past(ToToken \cup {"update_env", "rewrite"}) => HostNamed

\* A step between two places after the login.
Onward == Clean' /\ Clean /\ ~up /\ ~up' /\ pc' \notin ToLogin

LEMMA WorkflowElse ==
  ASSUME Runs, Going, Onward => Workflow'
  PROVE  Workflow'
BY GoingOn DEF Onward, Workflow, IsBuilding, Mapping, Past, ToToken, ToCreated, ToLogin, ToConf,
       ToHive, ToCortex, ToUsers

\* What a state needs that has the same workflows.
LEMMA GoodKept ==
  ASSUME missed \subseteq missed', key'["thehive"] = key["thehive"]
  PROVE  \A m : /\ Good(m) => Good(m)'
                /\ Repair(m) => Repair(m)'
                /\ Patch(m) => Patch(m)'
BY DEF Good, Repair, Patch, Templated, Unhurt

LEMMA SoleKept ==
  ASSUME missed \subseteq missed', key'["thehive"] = key["thehive"], flows' = flows, NEW t, Sole(t)
  PROVE  \E m \in flows' :
           /\ m.id = t /\ Good(m)' /\ Repair(m)' /\ Patch(m)'
           /\ \A f \in flows' : f.id = t => f = m
           /\ Unhurt({"list", "delete"})' => flows' = {m}
<1>1. PICK m \in flows : /\ m.id = t /\ Good(m) /\ Repair(m) /\ Patch(m)
                         /\ \A f \in flows : f.id = t => f = m
                         /\ Unhurt({"list", "delete"}) => flows = {m}
  BY DEF Sole
<1>2. Good(m)' /\ Repair(m)' /\ Patch(m)'
  BY <1>1, GoodKept
<1>3. Unhurt({"list", "delete"})' => Unhurt({"list", "delete"})
  BY DEF Unhurt
<1> QED BY <1>1, <1>2, <1>3

LEMMA NamedKept ==
  ASSUME missed \subseteq missed', key'["thehive"] = key["thehive"], Named,
         UNCHANGED <<flows, hooks>>, Unhurt({"copy"})' => info' = info, env'["token"] = env["token"]
  PROVE  Named'
<1>1. Sole(env["token"])'
  BY SoleKept DEF Named, Sole
<1>2. (Unhurt({"hook"})' => Unhurt({"hook"})) /\ (Unhurt({"copy"})' => Unhurt({"copy"}))
  BY DEF Unhurt
<1> QED BY <1>1, <1>2 DEF Named, Leads

LEMMA ResolveKeysBuilds ==
  ASSUME SetupTyped, Runs, ServiceKeys, Workflow, Going, Onward, ResolveKeys
  PROVE  Workflow'
<1>1. /\ pc = "keys" /\ pc' = "list" /\ held' = [NothingHeld EXCEPT !.hive = ReadKey("thehive"),
                                                                 !.cortex = ReadKey("cortex")]
      /\ key' = key
  BY DEF ResolveKeys, Step, Exit, Onward, ToLogin, ToConf, ToHive, ToCortex, ToUsers, svcVars
<1>2. ReadKey("thehive") = key["thehive"]
  BY <1>1 DEF ServiceKeys, ReadKey, Onward, Past, ToConf, ToHive, ToCortex, ToUsers
<1>3. held'.hive = key'["thehive"]
  BY <1>1, <1>2 DEF NothingHeld
<1> QED BY <1>1, <1>3 DEF Workflow, IsBuilding, Mapping, Onward, Past, ToToken, ToCreated, Context

LEMMA ListBuilds ==
  ASSUME SetupTyped, Runs, Workflow, Going, Onward, ListWorkflows
  PROVE  Workflow'
<1>1. /\ pc = "list" /\ pc' = "build" /\ UNCHANGED <<key, flows>>
      /\ \/ held' = [held EXCEPT !.old = {f.id : f \in flows}]
         \/ held' = [held EXCEPT !.old = {}] /\ "list" \in missed'
  BY DEF ListWorkflows, Step, Exit, Shrugs, Onward, ToLogin, ToConf, ToHive, ToCortex, ToUsers, svcVars
<1>2. held.hive = key["thehive"]
  BY <1>1 DEF Workflow, Onward
<1>3. held'.hive = held.hive /\ (held'.old = {f.id : f \in flows} \/ "list" \in missed')
  BY <1>1 DEF SetupTyped, FlowsTyped, Held
<1>4. Built'
  BY <1>1, <1>2, <1>3 DEF Built, Unhurt
<1> QED BY <1>1, <1>4 DEF Workflow, Mapping, Onward, Past, ToToken, ToCreated, Context

LEMMA BuildBuilds ==
  ASSUME SetupTyped, Runs, Cortex, Workflow, Going, Onward, BuildContext
  PROVE  Workflow'
<1>1. /\ pc = "build" /\ pc' = "environment" /\ analyzers' = (analyzers \/ index["cortex"] = "join")
      /\ held' = [held EXCEPT !.wired = analyzers'] /\ UNCHANGED <<key, flows, missed>>
  BY DEF BuildContext, Step, Exit, Shrugs, Onward, Clean, Untold, ToLogin, ToConf, ToHive, ToCortex,
         ToUsers, svcVars
<1>2. Built
  BY <1>1 DEF Workflow, IsBuilding, Onward
<1>3. held'.hive = held.hive /\ held'.old = held.old /\ held'.wired = analyzers'
  BY <1>1 DEF SetupTyped, FlowsTyped, Held
<1>4. (Templated' => Templated) /\ (Unhurt({"list"})' => Unhurt({"list"}))
  BY <1>1 DEF Templated, Unhurt
<1>5. Templated => index["cortex"] = "join"
  BY <1>1 DEF Cortex, Joins, Onward, Past, ToUsers
<1>6. Templated' => held'.wired
  <2>1. ASSUME index["cortex"] = "join" PROVE analyzers'
    BY <1>1, <2>1, Zenon
  <2> QED BY <1>3, <1>4, <1>5, <2>1
<1>7. Built'
  BY <1>1, <1>2, <1>3, <1>4, <1>6 DEF Built
<1> QED BY <1>1, <1>7 DEF Workflow, Mapping, Onward, Past, ToToken, ToCreated, Context

\* From the context on, the mapping and the entry are seen to once more.
LEMMA BuiltKept ==
  ASSUME Built, missed \subseteq missed', UNCHANGED <<key, flows, held>>, pc # "build"
  PROVE  Built'
BY DEF Built, Templated, Unhurt

LEMMA EnvironmentBuilds ==
  ASSUME SetupTyped, Runs, Workflow, Going, Onward, EnsureEnvironment
  PROVE  Workflow'
<1>1. pc = "environment" /\ pc' = "fix_org" /\ UNCHANGED <<key, flows, held>>
  BY DEF EnsureEnvironment, Step, svcVars
<1>2. Built'
  BY <1>1, BuiltKept DEF Workflow, IsBuilding, Onward, Going
<1> QED BY <1>1, <1>2 DEF Workflow, Mapping, Onward, Past, ToToken, ToCreated, Context

LEMMA CreateBuilds ==
  ASSUME SetupTyped, Runs, Safe, Workflow, Going, Onward, CreateWorkflow
  PROVE  Workflow'
<1> DEFINE new == [id |-> fresh + 1, hive |-> held.hive, cortex |-> held.cortex,
                   wired |-> held.wired, start |-> FALSE, entry |-> FALSE]
<1>1. /\ pc = "create" /\ pc' = "branches" /\ UNCHANGED <<key, missed>>
      /\ \E s \in BOOLEAN : flows' = flows \cup {[new EXCEPT !.start = s]}
      /\ held' = [held EXCEPT !.id = fresh + 1]
  BY DEF CreateWorkflow, Step, Exit, Onward, ToLogin, ToConf, ToHive, ToCortex, ToUsers, svcVars
<1>2. PICK m : /\ flows' = flows \cup {m} /\ m.id = fresh + 1 /\ m.hive = held.hive
               /\ m.wired = held.wired
  <2>1. PICK s \in BOOLEAN : flows' = flows \cup {[new EXCEPT !.start = s]}
    BY <1>1
  <2>2. /\ [new EXCEPT !.start = s].id = fresh + 1 /\ [new EXCEPT !.start = s].hive = held.hive
        /\ [new EXCEPT !.start = s].wired = held.wired
    OBVIOUS
  <2> HIDE DEF new
  <2> QED BY <2>1, <2>2
<1> HIDE DEF new
<1>4. Built
  BY <1>1 DEF Workflow, IsBuilding, Onward
<1>5. held'.id = fresh + 1 /\ held'.old = held.old
  BY <1>1 DEF SetupTyped, FlowsTyped, Held
<1>6. Good(m)
  BY <1>1, <1>2, <1>4 DEF Built, Good
<1>7. Good(m)'
  BY <1>1, <1>6, GoodKept
<1>8. m \in flows' /\ \A f \in flows' : f = m \/ f \in flows
  BY <1>2
<1>9. \A f \in flows : f.id # fresh + 1
  <2>1. fresh \in Nat /\ \A f \in flows : f.id \in 1 .. fresh
    BY DEF Safe, Numbers, Issued
  <2> QED BY <2>1
<1>10. \A f \in flows' : f.id = held'.id => f = m
  BY <1>5, <1>8, <1>9
<1>11. Unhurt({"list", "delete"})' => \A f \in flows' : f = m \/ f.id \in held'.old
  BY <1>1, <1>4, <1>5, <1>8 DEF Built, Unhurt
<1>12. Beside'
  BY <1>1, <1>2, <1>5, <1>7, <1>8, <1>10, <1>11 DEF Beside
<1> QED BY <1>1, <1>12 DEF Workflow, IsBuilding, Mapping, Onward, Past, ToToken, Swapping

\* The workflow in hand.
LEMMA MineIs ==
  ASSUME NEW m \in flows, m.id = held.id, \A f \in flows : f.id = held.id => f = m
  PROVE  Mine = m
BY DEF Mine

LEMMA RepairBuilds ==
  ASSUME SetupTyped, Runs, Workflow, Going, Onward, FixBranches \/ PatchDocs
  PROVE  Workflow'
<1>1. /\ key' = key /\ held' = held /\ missed \subseteq missed'
      /\ \/ /\ pc = "branches" /\ pc' = "patch"
            /\ \/ Repaired([Mine EXCEPT !.start = TRUE, !.entry = TRUE])
               \/ flows' = flows /\ "branches" \in missed'
         \/ /\ pc = "patch" /\ pc' = "delete_old"
            /\ \/ Repaired([Mine EXCEPT !.start = TRUE])
               \/ flows' = flows /\ "patch" \in missed'
  BY DEF FixBranches, PatchDocs, Step, Exit, Shrugs, Onward, Going, ToLogin, ToConf, ToHive, ToCortex,
         ToUsers, svcVars
<1>2. PICK m \in flows :
        /\ m.id = held.id /\ Good(m)
        /\ pc # "branches" => Repair(m)
        /\ \A f \in flows : f.id = held.id => f = m
        /\ Unhurt({"list", "delete"}) => \A f \in flows : f = m \/ f.id \in held.old
  BY <1>1 DEF Workflow, Beside, Onward
<1>3. Mine = m /\ m \in Flow
  BY <1>1, <1>2, MineIs DEF SetupTyped, FlowsTyped
<1>4. Good(m)' /\ (Repair(m) => Repair(m)')
  BY <1>1, <1>2, GoodKept
<1>5. \E n : /\ flows' = (flows \ {m}) \cup {n} /\ n.id = m.id /\ n.hive = m.hive /\ n.wired = m.wired
             /\ Repair(n)' /\ (pc = "patch" => Patch(n)')
  <2>1. CASE pc = "branches" /\ Repaired([Mine EXCEPT !.start = TRUE, !.entry = TRUE])
    <3> DEFINE n == [m EXCEPT !.start = TRUE, !.entry = TRUE]
    <3>1. n.id = m.id /\ n.hive = m.hive /\ n.wired = m.wired /\ n.start = TRUE /\ n.entry = TRUE
      BY <1>3 DEF Flow
    <3>2. flows' = (flows \ {m}) \cup {n}
      BY <1>3, <2>1 DEF Repaired
    <3> HIDE DEF n
    <3>3. Repair(n)'
      BY <3>1 DEF Repair
    <3> QED BY <2>1, <3>1, <3>2, <3>3
  <2>2. CASE pc = "patch" /\ Repaired([Mine EXCEPT !.start = TRUE])
    <3> DEFINE n == [m EXCEPT !.start = TRUE]
    <3>1. n.id = m.id /\ n.hive = m.hive /\ n.wired = m.wired /\ n.start = TRUE /\ n.entry = m.entry
      BY <1>3 DEF Flow
    <3>2. flows' = (flows \ {m}) \cup {n}
      BY <1>3, <2>2 DEF Repaired
    <3> HIDE DEF n
    <3>3. Repair(n)' /\ Patch(n)'
      BY <1>2, <1>4, <2>2, <3>1 DEF Repair, Patch
    <3> QED BY <3>1, <3>2, <3>3
  <2>3. CASE flows' = flows /\ \/ pc = "branches" /\ "branches" \in missed'
                               \/ pc = "patch" /\ "patch" \in missed'
    <3>1. flows' = (flows \ {m}) \cup {m}
      BY <1>2, <2>3
    <3>2. Repair(m)' /\ (pc = "patch" => Patch(m)')
      BY <1>2, <1>4, <2>3 DEF Repair, Patch, Unhurt
    <3> QED BY <3>1, <3>2
  <2> QED BY <1>1, <2>1, <2>2, <2>3
<1>6. Beside'
  <2>1. PICK n : /\ flows' = (flows \ {m}) \cup {n} /\ n.id = m.id /\ n.hive = m.hive
                 /\ n.wired = m.wired /\ Repair(n)' /\ (pc = "patch" => Patch(n)')
    BY <1>5
  <2>2. Good(n)'
    BY <1>4, <2>1 DEF Good
  <2>3. n \in flows' /\ \A f \in flows' : f.id = held.id => f = n
    BY <1>2, <2>1
  <2>4. Unhurt({"list", "delete"})' => \A f \in flows' : f = n \/ f.id \in held.old
    BY <1>1, <1>2, <2>1 DEF Unhurt
  <2> QED BY <1>1, <1>2, <2>1, <2>2, <2>3, <2>4 DEF Beside
<1> QED BY <1>1, <1>6 DEF Workflow, IsBuilding, Mapping, Onward, Past, ToToken, Swapping

LEMMA DeleteBuilds ==
  ASSUME SetupTyped, Runs, Safe, Workflow, Going, Onward, DeleteOld
  PROVE  Workflow'
<1>1. /\ pc = "delete_old" /\ key' = key /\ missed \subseteq missed'
      /\ \/ held.old = {} /\ pc' = "hook" /\ UNCHANGED <<flows, held>>
         \/ pc' = "delete_old" /\ \E i \in held.old :
              /\ held' = [held EXCEPT !.old = @ \ {i}]
              /\ \/ flows' = {f \in flows : f.id # i}
                 \/ flows' = flows /\ "delete" \in missed'
  BY DEF DeleteOld, Shrugs, Onward, svcVars, Going
<1>2. PICK m \in flows :
        /\ m.id = held.id /\ Good(m) /\ Repair(m) /\ Patch(m)
        /\ \A f \in flows : f.id = held.id => f = m
        /\ Unhurt({"list", "delete"}) => \A f \in flows : f = m \/ f.id \in held.old
  BY <1>1 DEF Workflow, Beside, Onward
<1>3. Good(m)' /\ Repair(m)' /\ Patch(m)'
  BY <1>1, <1>2, GoodKept
<1>4. CASE held.old = {} /\ pc' = "hook" /\ UNCHANGED <<flows, held>>
  <2>1. Unhurt({"list", "delete"})' => flows = {m}
    BY <1>1, <1>2, <1>4 DEF Unhurt
  <2>2. Sole(held.id)'
    BY <1>2, <1>3, <1>4, <2>1 DEF Sole
  <2> QED BY <1>4, <2>2 DEF Workflow, IsBuilding, Mapping, Onward, Past, ToToken, Swapping
<1>5. ASSUME pc' = "delete_old", NEW i \in held.old, held' = [held EXCEPT !.old = @ \ {i}],
             flows' = {f \in flows : f.id # i} \/ (flows' = flows /\ "delete" \in missed')
      PROVE  Workflow'
  <2>1. held'.id = held.id /\ held'.old = held.old \ {i}
    BY <1>5 DEF SetupTyped, FlowsTyped, Held
  <2>2. m.id # i
    BY <1>1, <1>2 DEF Safe, InHand, Swapping
  <2>3. m \in flows' /\ \A f \in flows' : f \in flows
    BY <1>2, <1>5, <2>2
  <2>4. Unhurt({"list", "delete"})' => \A f \in flows' : f = m \/ f.id \in held'.old
    BY <1>1, <1>2, <1>5, <2>1, <2>3 DEF Unhurt
  <2>5. Beside'
    BY <1>2, <1>3, <2>1, <2>3, <2>4 DEF Beside
  <2> QED BY <1>5, <2>5 DEF Workflow, IsBuilding, Mapping, Onward, Past, ToToken, Swapping
<1> QED BY <1>1, <1>4, <1>5

LEMMA HookBuilds ==
  ASSUME SetupTyped, Runs, Workflow, Going, Onward, RegisterHook \/ EnsureEsIndices
  PROVE  Workflow'
<1>1. /\ key' = key /\ UNCHANGED <<held, flows>>
      /\ pc \in {"hook", "indices"} /\ pc' \in {"indices", "info"}
  BY DEF RegisterHook, EnsureEsIndices, Step, svcVars
<1>2. Sole(held.id)
  BY <1>1 DEF Workflow, Onward
<1>3. Sole(held.id)'
  BY <1>1, <1>2, SoleKept DEF Sole, Going
<1> QED BY <1>1, <1>3 DEF Workflow, IsBuilding, Mapping, Onward, Past, ToToken, Swapping

LEMMA InfoBuilds ==
  ASSUME SetupTyped, Runs, Safe, Workflow, Going, Onward, SaveWebhookInfo
  PROVE  Workflow'
<1>1. /\ pc = "info" /\ pc' = "dashboard" /\ key' = key /\ UNCHANGED <<flows, held, hooks, missed>>
      /\ info' = held.id /\ env' = [env EXCEPT !["token"] = held.id]
  BY DEF SaveWebhookInfo, Step, Exit, Shrugs, SetEnv, Onward, Clean, Untold, ToLogin, ToConf, ToHive,
         ToCortex, ToUsers, svcVars
<1>2. Sole(held.id)
  BY <1>1 DEF Workflow, Onward
<1>3. held.id > NoKey /\ (Unhurt({"hook"}) => Leads(held.id))
  <2>1. fresh \in Nat /\ held.id \in 1 .. fresh
    BY <1>1 DEF Safe, Numbers, InHand, Swapping
  <2>2. Unhurt({"hook"}) => "hook" \notin missed
    BY DEF Unhurt
  <2> QED BY <1>1, <2>1, <2>2 DEF Safe, HookInHand, Leads, NoKey
<1>4. env'["token"] = held.id
  BY <1>1 DEF SetupTyped, RunTyped, Secrets
<1>5. Sole(env["token"])'
  BY <1>1, <1>2, <1>4, SoleKept DEF Sole, Going
<1>6. Named'
  BY <1>1, <1>3, <1>4, <1>5 DEF Named, Leads, Unhurt
<1> QED BY <1>1, <1>6 DEF Workflow, IsBuilding, Mapping, Onward, Past, ToToken, Swapping

LEMMA LastBuild ==
  ASSUME SetupTyped, Runs, Workflow, Going, Onward, ImportDashboard \/ RewriteInfo \/ SetupKpis
  PROVE  Workflow'
<1>1. /\ UNCHANGED <<key, flows, hooks, env>>
      /\ \/ pc = "dashboard" /\ pc' = "update_env" /\ UNCHANGED <<info, hostInfo>>
         \/ /\ pc = "rewrite" /\ pc' = "analyzers"
            /\ \/ hostInfo' = (IF info = NoKey THEN hostInfo ELSE info) /\ info' = hostInfo'
               \/ "copy" \in missed'
         \/ pc = "kpis" /\ pc' = "org_again" /\ UNCHANGED <<info, hostInfo>>
  BY DEF ImportDashboard, RewriteInfo, SetupKpis, Step, Then, Shrugs, Onward, Clean, ToLogin, ToConf,
         ToHive, ToCortex, ToUsers, svcVars, envVars
<1>2. Past(ToToken) \/ pc = "dashboard"
  BY <1>1 DEF Past, ToToken, ToCreated, ToLogin, ToConf, ToHive, ToCortex, ToUsers, Mapping, Syncing,
     Context, Swapping
<1>3. Named
  BY <1>2 DEF Workflow, Onward
<1>4. env["token"] # NoKey
  BY <1>3 DEF Named, SetupTyped, RunTyped, Secrets, NoKey
<1>5. Unhurt({"copy"})' => Unhurt({"copy"}) /\ "copy" \notin missed'
  BY DEF Unhurt, Going
<1>6. Unhurt({"copy"})' => info' = info
  BY <1>1, <1>3, <1>4, <1>5 DEF Named
<1>7. Named'
  BY <1>1, <1>3, <1>6, NamedKept DEF Going
<1>8. pc' # "update_env" => HostNamed'
  <2>1. CASE pc = "rewrite"
    BY <1>1, <1>3, <1>4, <1>5, <2>1 DEF Named, HostNamed
  <2>2. CASE pc = "kpis"
    <3>1. Past(ToToken \cup {"update_env", "rewrite"})
      BY <2>2 DEF Past, ToToken, ToCreated, ToLogin, ToConf, ToHive, ToCortex, ToUsers, Mapping, Syncing,
         Context, Swapping
    <3> QED BY <1>1, <1>5, <2>2, <3>1 DEF Workflow, Onward, HostNamed
  <2> QED BY <1>1, <2>1, <2>2
<1>9. pc' \in {"update_env", "analyzers", "org_again"}
  BY <1>1
<1>10. ~Past(ToToken \cup {"update_env", "rewrite"})' \/ pc' # "update_env"
  BY <1>9 DEF Past, Onward
<1> QED BY <1>7, <1>8, <1>9, <1>10 DEF Workflow, IsBuilding, Mapping

LEMMA WorkflowBuilds ==
  ASSUME SetupTyped, Runs, Safe, Cortex, ServiceKeys, Workflow, Going, WorkflowDeploymentNext
  PROVE  Workflow'
<1> SUFFICES ASSUME Onward PROVE Workflow'
  BY WorkflowElse
<1> QED BY ResolveKeysBuilds, ListBuilds, BuildBuilds, EnvironmentBuilds, CreateBuilds, RepairBuilds,
           DeleteBuilds, HookBuilds, InfoBuilds, LastBuild DEF WorkflowDeploymentNext

LEMMA ShuffleStages ==
  ASSUME ShuffleAccountsNext, SetupTyped, Onward
  PROVE  /\ env'["token"] = env["token"]
         /\ IsBuilding' => IsBuilding /\ pc # "build"
         /\ pc' \notin {"list", "build"} \cup Swapping
         /\ \/ pc' \in Mapping \cup Syncing \cup {"validate", "sync_file", "keys", "create"}
            \/ pc = "update_env" /\ pc' = "rewrite"
            \/ pc = "org_again" /\ pc' = "show"
<1> USE DEF Mapping, Syncing, Swapping, IsBuilding, Step, Exit, envVars, SetupTyped, RunTyped,
            ShuffleTyped, Secrets, Onward, ToLogin, ToConf, ToHive, ToCortex, ToUsers
<1>1. CASE Login
  BY <1>1 DEF Login
<1>2. CASE SyncV2 \/ SyncUsers \/ SyncMember
  BY <1>2 DEF SyncV2, SyncUsers, SyncMember, AfterSync
<1>3. CASE ValidateKey
  BY <1>3 DEF ValidateKey
<1>4. CASE SyncFile
  BY <1>4 DEF SyncFile, SetEnv
<1>5. CASE FixUsersMapping
  <2>1. UNCHANGED <<env, pass>>
    BY <1>5 DEF FixUsersMapping, ReindexRead, ReindexDelete, ReindexInsert, CopyUsers, CopyMember,
                accVars
  <2>2. /\ pc \in Mapping
        /\ pc' \in Mapping \/ pc' = IF pass = 1 THEN "sync_v2" ELSE "create"
    BY <1>5 DEF FixUsersMapping, ReindexRead, ReindexDelete, ReindexInsert, CopyUsers, CopyMember
  <2> QED BY <2>1, <2>2
<1>6. CASE UpdateEnv
  <2>1. env' = env \/ env' = [env EXCEPT !["shuffle"] = Admin]
    BY <1>6 DEF UpdateEnv, SetEnv
  <2>2. pc = "update_env" /\ pc' = "rewrite"
    BY <1>6 DEF UpdateEnv
  <2> QED BY <2>1, <2>2
<1>7. CASE FixOrgUsers("fix_org", "users_map") \/ FixOrgUsers("org_again", "show")
  BY <1>7 DEF FixOrgUsers
<1> QED BY <1>1, <1>2, <1>3, <1>4, <1>5, <1>6, <1>7 DEF ShuffleAccountsNext

LEMMA ShuffleBuilds ==
  ASSUME SetupTyped, Runs, Workflow, Going, ShuffleAccountsNext,
         UNCHANGED <<svcVars, flowVars>>
  PROVE  Workflow'
<1> SUFFICES ASSUME Onward PROVE Workflow'
  BY WorkflowElse
<1>1. UNCHANGED <<key, flows, hooks, held, info, hostInfo>>
  BY DEF svcVars, flowVars
<1>2. IsBuilding' => Built'
  BY <1>1, ShuffleStages, BuiltKept DEF Workflow, Onward, Going
<1>3. CASE pc' \in Mapping \cup Syncing \cup {"validate", "sync_file", "keys", "create"}
  BY <1>2, <1>3 DEF Workflow, Mapping, Syncing, Onward, Past, ToToken, ToCreated, Context
<1>4. CASE \/ pc = "update_env" /\ pc' = "rewrite"
           \/ pc = "org_again" /\ pc' = "show"
  <2>1. Past(ToToken) /\ (pc # "update_env" => Past(ToToken \cup {"update_env", "rewrite"}))
    BY <1>4 DEF Past, ToToken, ToCreated, ToLogin, ToConf, ToHive, ToCortex, ToUsers, Mapping, Syncing,
       Context, Swapping
  <2>2. Named'
    BY <1>1, <2>1, ShuffleStages, NamedKept DEF Workflow, Onward, Going
  <2>3. pc # "update_env" => HostNamed'
    BY <1>1, <2>1, ShuffleStages DEF Workflow, Onward, HostNamed, Unhurt, Going
  <2> QED BY <1>2, <1>4, <2>2, <2>3 DEF Workflow, Onward, Past
<1> QED BY <1>3, <1>4, ShuffleStages

LEMMA WorkflowStep ==
  ASSUME SetupTyped, Runs, Workflow, Safe, Cortex, ServiceKeys, Ordered, Scripted
  PROVE  Workflow'
<1>1. CASE ServiceAccountsNext /\ UNCHANGED <<accVars, flowVars>>
  <2>1. Going
    BY <1>1, ServicesTypedStep DEF SetupTyped
  <2> SUFFICES ASSUME Onward PROVE Workflow'
    BY <2>1, WorkflowElse
  <2>2. /\ InstallAnalyzers \/ LoadIocs
        /\ pc \in {"analyzers", "iocs"} /\ pc' \in {"iocs", "kpis"}
    BY <1>1, ServicesStages DEF Onward
  <2>3. UNCHANGED <<key, env, flows, hooks, held, info, hostInfo>>
    BY <1>1, <2>2 DEF InstallAnalyzers, LoadIocs, envVars, flowVars
  <2>4. Past(ToToken) /\ Past(ToToken \cup {"update_env", "rewrite"})
    BY <2>2 DEF Past, ToToken, ToCreated, ToLogin, ToConf, ToHive, ToCortex, ToUsers, Mapping, Syncing,
       Context, Swapping
  <2>5. Named' /\ HostNamed'
    BY <2>1, <2>3, <2>4, NamedKept DEF Workflow, Onward, Going, HostNamed, Unhurt
  <2> QED BY <2>2, <2>5 DEF Workflow, IsBuilding, Mapping
<1>2. CASE ShuffleAccountsNext /\ UNCHANGED <<svcVars, flowVars>>
  BY <1>2, ShuffleTypedStep, ShuffleBuilds DEF SetupTyped
<1>3. CASE WorkflowDeploymentNext
  BY <1>3, WorkflowTypedStep, WorkflowBuilds
<1>4. CASE ShowAccess
  <2>1. /\ pc = "show" /\ pc' = "idle" /\ plan' = plan /\ missed' = missed /\ faults' = faults
        /\ UNCHANGED <<key, env, flows, hooks, info, hostInfo>>
    BY <1>4 DEF ShowAccess, Step, Works, svcVars, envVars, flowVars
  <2>2. Past(ToToken) /\ Past(ToToken \cup {"update_env", "rewrite"})
    BY <2>1 DEF Past, ToToken, ToCreated, ToLogin, ToConf, ToHive, ToCortex, ToUsers, Mapping, Syncing,
       Context, Swapping
  <2>3. Clean => Named /\ HostNamed
    BY <2>2 DEF Workflow
  <2>4. Clean' => Named' /\ HostNamed'
    BY <2>1, <2>3, NamedKept DEF Clean, HostNamed, Unhurt
  <2> QED BY <2>1, <2>4 DEF Workflow, IsBuilding, Mapping
<1> QED BY <1>1, <1>2, <1>3, <1>4 DEF Scripted

-----------------------------------------------------------------------------
\* What a run that told of no failure leaves behind, when it has ended well.
Sequel == ServiceKeys /\ Shuffled /\ Entered /\ Workflow

\* There is nothing to show of a run that has only begun, or that has ended.
LEMMA AtStart ==
  ASSUME ~up', pc' \in {"idle", "configure"}
  PROVE  Sequel'
BY DEF Sequel, ServiceKeys, Shuffled, LoginKeys, FirstPass, SecondPass, Entered, Workflow, IsBuilding,
       Mapping, Past, ToToken, ToCreated, ToLogin, ToConf, ToHive, ToCortex, ToUsers

LEMMA SequelNext ==
  ASSUME SetupTyped, Runs, Known, Safe, Ordered, Cortex, Sequel, Next
  PROVE  Sequel'
<1>1. CASE MakeUp \/ Crash \/ MakeReset
  BY <1>1, AtStart, MakeUpTyped, CrashTyped, MakeResetTyped
<1>2. CASE RunScript
  <2>1. ~Clean'
    BY <1>2, RunScriptTyped DEF Clean
  <2> QED BY <2>1 DEF Sequel, ServiceKeys, Shuffled, LoginKeys, FirstPass, SecondPass, Entered,
             Workflow, Copied, Owned
<1>3. CASE Preserve /\ UNCHANGED <<accVars, flowVars>>
  <2>1. UNCHANGED <<pc, plan, up, missed, env, got, faults, key, conf, doc, keyword, osenv, member, pass,
                    linked, bearer, read, flows, hooks, held, info, hostInfo>>
    BY <1>3, PreserveTyped DEF Preserve, runVars, accVars, flowVars
  <2>2. ServiceKeys'
    BY <2>1 DEF Sequel, ServiceKeys, Clean, Past
  <2>3. Shuffled'
    BY <2>1 DEF Sequel, Shuffled, LoginKeys, FirstPass, SecondPass, Copied, Unhurt, Clean, Past, Users,
       Second, Unset, Bears, Mapped, Copies
  <2>4. Entered'
    BY <2>1 DEF Sequel, Entered, Owned, Unhurt, Clean, Past, Users
  <2>5. Workflow'
    BY <2>1 DEF Sequel, Workflow, IsBuilding, Built, Beside, Named, HostNamed, Sole, Good, Repair, Patch,
       Templated, Unhurt, Leads, Clean, Past
  <2> QED BY <2>2, <2>3, <2>4, <2>5 DEF Sequel
<1>4. CASE Scripted
  BY <1>4, ServiceKeysStep, ShuffledStep, EnteredStep, WorkflowStep DEF Sequel
<1> QED BY <1>1, <1>2, <1>3, <1>4 DEF Next

Sequence == SetupTyped /\ Runs /\ Known /\ Ordered /\ Cortex /\ Sequel

LEMMA SequenceInit == Init => Sequence
<1> SUFFICES ASSUME Init PROVE Sequence
  OBVIOUS
<1>1. /\ pc = "idle" /\ ~up /\ fresh = 0 /\ got = 0 /\ env = [s \in Secrets |-> 0] /\ box = env
      /\ index = [s \in Services |-> "none"] /\ doc = [i \in Indices |-> NoIndex]
      /\ osenv = 0 /\ bearer = 0 /\ read = NoUser
  BY DEF Init, ServiceAccountsInit, ShuffleAccountsInit, NoKey
<1>2. SetupTyped /\ Runs
  BY SetupTypedInit
<1>3. Known
  BY <1>1 DEF Known, Secrets, Indices, NoIndex, NoUser
<1>4. Ordered /\ Cortex
  BY <1>1 DEF Ordered, UpOnly, Cortex, Plain, Joins, Resetting, Past, ToUsers, Services
<1>5. Sequel
  BY <1>1 DEF Sequel, ServiceKeys, Shuffled, LoginKeys, FirstPass, SecondPass, Entered, Workflow,
     IsBuilding, Mapping, Past, ToToken, ToCreated, ToLogin, ToConf, ToHive, ToCortex, ToUsers
<1> QED BY <1>2, <1>3, <1>4, <1>5 DEF Sequence

LEMMA SequenceStep == Sequence /\ Safe /\ [Next]_vars => Sequence'
<1> SUFFICES ASSUME Sequence, Safe, [Next]_vars PROVE Sequence'
  OBVIOUS
<1> USE DEF Sequence
<1>1. CASE Next
  BY <1>1, TypedNext, KnownNext, OrderedNext, CortexAlways, SequelNext
<1>2. CASE UNCHANGED vars
  <2>1. UNCHANGED <<pc, plan, runs, up, faults, missed, env, box, got, fresh, templates, index, key,
                    conf, backup, analyzers>>
    BY <1>2 DEF vars, setupVars, runVars, envVars, svcVars
  <2>2. UNCHANGED <<doc, keyword, osenv, member, linked, pass, bearer, read, flows, hooks, held, info, hostInfo>>
    BY <1>2 DEF vars, accVars, flowVars
  <2>3. SetupTyped' /\ Runs' /\ Known'
    BY <2>1, <2>2 DEF SetupTyped, RunTyped, ServicesTyped, ShuffleTyped, FlowsTyped, Runs, Known
  <2>4. Ordered' /\ Cortex'
    BY <2>1 DEF Ordered, Cortex, Plain, Joins, Templated, Unhurt, Clean, Past
  <2>5. ServiceKeys'
    BY <2>1 DEF Sequel, ServiceKeys, Clean, Past
  <2>6. Shuffled'
    BY <2>1, <2>2 DEF Sequel, Shuffled, LoginKeys, FirstPass, SecondPass, Copied, Unhurt, Clean, Past,
       Users, Second, Unset, Bears, Mapped, Copies
  <2>7. Entered'
    BY <2>1, <2>2 DEF Sequel, Entered, Owned, Unhurt, Clean, Past, Users
  <2>8. Workflow'
    BY <2>1, <2>2 DEF Sequel, Workflow, IsBuilding, Built, Beside, Named, HostNamed, Sole, Good, Repair,
       Patch, Templated, Unhurt, Leads, Clean, Past
  <2> QED BY <2>3, <2>4, <2>5, <2>6, <2>7, <2>8 DEF Sequel
<1> QED BY <1>1, <1>2

LEMMA InTheEnd ==
  ASSUME Sequence, Sound
  PROVE  /\ Clean /\ \A places : Past(places)
         /\ ServiceKeys /\ Shuffled /\ Entered /\ Named /\ HostNamed /\ pass \in {1, 2}
<1>1. Clean /\ \A places : Past(places)
  BY DEF Sequence, Sound, Ordered, Clean, Past
<1>2. ServiceKeys /\ Shuffled /\ Entered /\ Workflow
  BY DEF Sequence, Sequel
<1> QED BY <1>1, <1>2 DEF Workflow, Sequence, SetupTyped, ShuffleTyped

LEMMA KeysInTheEnd ==
  ASSUME Sequence, Sound
  PROVE  KeysAgree
<1>1. /\ env["cortex"] = key["cortex"] /\ key["cortex"] # NoKey
      /\ env["thehive"] = key["thehive"] /\ key["thehive"] # NoKey
      /\ conf.running = key["cortex"]
  BY InTheEnd DEF ServiceKeys
<1>2. \A f \in flows : f.id = env["token"] => f.hive = key["thehive"]
  BY InTheEnd DEF Named, Sole, Good
<1>3. Unhurt({"read"}) => env["shuffle"] = doc["users"]
  BY InTheEnd DEF Entered, Owned
<1>4. Unhurt({"read", "member"}) => env["shuffle"] = member
  <2>1. Unhurt({"read", "member"}) => Unhurt({"read"}) /\ Unhurt({"member"})
    BY DEF Unhurt
  <2> QED BY <2>1, InTheEnd DEF Entered, Owned
<1>5. Unhurt({"read", "mapping", "users", "sync"}) => env["shuffle"] = doc["users_v2"]
  <2>1. SUFFICES ASSUME Unhurt({"read", "mapping", "users", "sync"}) PROVE env["shuffle"] = doc["users_v2"]
    OBVIOUS
  <2>2. Copied
    BY <2>1, InTheEnd DEF Copied
  <2>3. pass = 2
    <3>1. pc = "idle"
      BY DEF Sequence, Runs, Sound
    <3> QED BY <2>2, <3>1, InTheEnd DEF Shuffled, FirstPass, Mapping, Syncing
  <2> QED BY <2>2, <2>3, InTheEnd DEF Shuffled, SecondPass
<1> QED BY <1>1, <1>2, <1>3, <1>4, <1>5 DEF KeysAgree, Services

LEMMA WorkflowInTheEnd ==
  ASSUME Sequence, Sound
  PROVE  OneWorkflowServes
<1>1. PICK f \in flows :
        /\ f.id = env["token"] /\ Good(f) /\ Repair(f) /\ Patch(f)
        /\ Unhurt({"list", "delete"}) => flows = {f}
  BY InTheEnd DEF Named, Sole
<1>2. Unhurt({"hook"}) => Serves(env["token"])
  BY <1>1, InTheEnd DEF Named, Leads, Serves
<1>3. Unhurt({"copy"}) => info = env["token"] /\ hostInfo = env["token"]
  BY InTheEnd DEF Named, HostNamed
<1> QED BY <1>1, <1>2, <1>3 DEF OneWorkflowServes, Good, Repair, Patch, Templated

\* Whatever failed before, a `make up` that succeeded and told of no failure leaves
\* .env.full, the workflow and thehive.conf with the keys that the services accept, and each
\* copy of Shuffle's key in agreement unless one of the failures came before that cost it
\* this and that no log tells.
THEOREM EveryPartyHasTheKey == Spec => []KeysAgree
<1>1. Init => Sequence /\ Safe
  BY SequenceInit, SafeInit
<1>2. Sequence /\ Safe /\ [Next]_vars => (Sequence /\ Safe)'
  BY SequenceStep, SafeStep
<1>3. Sequence /\ Safe => KeysAgree
  BY KeysInTheEnd DEF KeysAgree
<1> QED BY <1>1, <1>2, <1>3, PTL DEF Spec

\* And with a new workflow that the token names; whether it is the only one, starts at its
\* start, is wired, is served by its hook and is named by both files hangs, each of them, on
\* the one or two failures only that the log tells as a success.
THEOREM TokenLeadsToOne == Spec => []OneWorkflowServes
<1>1. Init => Sequence /\ Safe
  BY SequenceInit, SafeInit
<1>2. Sequence /\ Safe /\ [Next]_vars => (Sequence /\ Safe)'
  BY SequenceStep, SafeStep
<1>3. Sequence /\ Safe => OneWorkflowServes
  BY WorkflowInTheEnd DEF OneWorkflowServes
<1> QED BY <1>1, <1>2, <1>3, PTL DEF Spec

\* The two together, for any number of failures.
THEOREM SetupLeavesItWhole == Spec => []SetupIsWhole
BY EveryPartyHasTheKey, TokenLeadsToOne, PTL DEF SetupIsWhole

-----------------------------------------------------------------------------
(* How long a run can go on.                                               *)

(* The steps that a script still has, with room for the attempts between   *)
(* one script and the next.                                                *)
ToGo ==
  [show |-> 1, org_again |-> 2, kpis |-> 3, iocs |-> 4, analyzers |-> 5, rewrite |-> 6,
   update_env |-> 7,
   dashboard |-> 201, info |-> 202, indices |-> 203, hook |-> 204, delete_old |-> 205,
   patch |-> 206, branches |-> 207, create |-> 208,
   copy_member |-> 209, copy |-> 210, v2_insert |-> 211, v2_delete |-> 212, v2_map |-> 213,
   users_insert |-> 214, users_delete |-> 215, users_map |-> 216,
   fix_org |-> 217, environment |-> 218, build |-> 219, list |-> 220, keys |-> 221,
   sync_member |-> 222, sync_users |-> 223, sync_v2 |-> 224, sync_file |-> 225,
   validate |-> 226, login |-> 249,
   restore |-> 401,
   hive_conf |-> 601, hive_env |-> 602, hive_key |-> 603, hive_admin |-> 604, hive_wait |-> 605,
   hive_index |-> 606, hive_delete |-> 607, hive |-> 608,
   cortex_env |-> 801, cortex_key |-> 802, cortex_work |-> 803, cortex_recover |-> 804,
   cortex_admin |-> 805, cortex_org |-> 806, cortex_wait |-> 807, cortex_index |-> 808,
   cortex_delete |-> 809, cortex |-> 810,
   preindex |-> 1001, configure |-> 1002]

(* In the first pass the accounts of Shuffle are still to be gone through  *)
(* once more.                                                              *)
FirstToGo ==
  [sync_member |-> 227, sync_users |-> 228, sync_v2 |-> 229,
   copy_member |-> 230, copy |-> 231, v2_insert |-> 232, v2_delete |-> 233, v2_map |-> 234,
   users_insert |-> 235, users_delete |-> 236, users_map |-> 237]

Here(p, n) == IF n = 1 /\ p \in Mapping \cup Syncing THEN FirstToGo[p] ELSE ToGo[p]
LeftAt(p, n, a) == IF p = "idle" THEN 0 ELSE Here(p, n) + 50 * (Attempts - a)
StepsLeft == LeftAt(pc, pass, attempt)

(* Every step of a run leaves fewer, or deletes one of the old workflows.  *)
Nearer ==
  \/ StepsLeft' < StepsLeft
  \/ StepsLeft' = StepsLeft /\ held.old # held'.old /\ held'.old \subseteq held.old

Places == {"configure", "preindex", "restore", "show"} \cup CortexPlaces \cup HivePlaces
            \cup WebhookPlaces \cup Closing

Placed ==
  /\ pc \in Places \cup {"idle"} /\ attempt \in 1..Attempts /\ pass \in {1, 2}
  /\ pc = "validate" => pass = 1
  /\ pc \in Context \cup {"sync_file"} => pass = 2
  /\ pc = "cortex_recover" => attempt = 1

LEMMA ToGoValues ==
  /\ ToGo["show"] = 1 /\ ToGo["org_again"] = 2 /\ ToGo["kpis"] = 3 /\ ToGo["iocs"] = 4
  /\ ToGo["analyzers"] = 5 /\ ToGo["rewrite"] = 6 /\ ToGo["update_env"] = 7
  /\ ToGo["dashboard"] = 201 /\ ToGo["info"] = 202 /\ ToGo["indices"] = 203
  /\ ToGo["hook"] = 204 /\ ToGo["delete_old"] = 205 /\ ToGo["patch"] = 206
  /\ ToGo["branches"] = 207 /\ ToGo["create"] = 208 /\ ToGo["copy_member"] = 209
  /\ ToGo["copy"] = 210 /\ ToGo["v2_insert"] = 211 /\ ToGo["v2_delete"] = 212
  /\ ToGo["v2_map"] = 213 /\ ToGo["users_insert"] = 214 /\ ToGo["users_delete"] = 215
  /\ ToGo["users_map"] = 216 /\ ToGo["fix_org"] = 217 /\ ToGo["environment"] = 218
  /\ ToGo["build"] = 219 /\ ToGo["list"] = 220 /\ ToGo["keys"] = 221
  /\ ToGo["sync_member"] = 222 /\ ToGo["sync_users"] = 223 /\ ToGo["sync_v2"] = 224
  /\ ToGo["sync_file"] = 225 /\ ToGo["validate"] = 226 /\ ToGo["login"] = 249
  /\ ToGo["restore"] = 401 /\ ToGo["hive_conf"] = 601 /\ ToGo["hive_env"] = 602
  /\ ToGo["hive_key"] = 603 /\ ToGo["hive_admin"] = 604 /\ ToGo["hive_wait"] = 605
  /\ ToGo["hive_index"] = 606 /\ ToGo["hive_delete"] = 607 /\ ToGo["hive"] = 608
  /\ ToGo["cortex_env"] = 801 /\ ToGo["cortex_key"] = 802 /\ ToGo["cortex_work"] = 803
  /\ ToGo["cortex_recover"] = 804 /\ ToGo["cortex_admin"] = 805 /\ ToGo["cortex_org"] = 806
  /\ ToGo["cortex_wait"] = 807 /\ ToGo["cortex_index"] = 808 /\ ToGo["cortex_delete"] = 809
  /\ ToGo["cortex"] = 810 /\ ToGo["preindex"] = 1001 /\ ToGo["configure"] = 1002
<1>1. /\ ToGo["show"] = 1 /\ ToGo["org_again"] = 2 /\ ToGo["kpis"] = 3 /\ ToGo["iocs"] = 4
      /\ ToGo["analyzers"] = 5 /\ ToGo["rewrite"] = 6 /\ ToGo["update_env"] = 7
      /\ ToGo["dashboard"] = 201 /\ ToGo["info"] = 202 /\ ToGo["indices"] = 203
      /\ ToGo["hook"] = 204 /\ ToGo["delete_old"] = 205 /\ ToGo["patch"] = 206
      /\ ToGo["branches"] = 207 /\ ToGo["create"] = 208 /\ ToGo["copy_member"] = 209
  BY DEF ToGo
<1>2. /\ ToGo["copy"] = 210 /\ ToGo["v2_insert"] = 211 /\ ToGo["v2_delete"] = 212
      /\ ToGo["v2_map"] = 213 /\ ToGo["users_insert"] = 214 /\ ToGo["users_delete"] = 215
      /\ ToGo["users_map"] = 216 /\ ToGo["fix_org"] = 217 /\ ToGo["environment"] = 218
      /\ ToGo["build"] = 219 /\ ToGo["list"] = 220 /\ ToGo["keys"] = 221
      /\ ToGo["sync_member"] = 222 /\ ToGo["sync_users"] = 223 /\ ToGo["sync_v2"] = 224
  BY DEF ToGo
<1>3. /\ ToGo["sync_file"] = 225 /\ ToGo["validate"] = 226 /\ ToGo["login"] = 249
      /\ ToGo["restore"] = 401 /\ ToGo["hive_conf"] = 601 /\ ToGo["hive_env"] = 602
      /\ ToGo["hive_key"] = 603 /\ ToGo["hive_admin"] = 604 /\ ToGo["hive_wait"] = 605
      /\ ToGo["hive_index"] = 606 /\ ToGo["hive_delete"] = 607 /\ ToGo["hive"] = 608
      /\ ToGo["cortex_env"] = 801 /\ ToGo["cortex_key"] = 802 /\ ToGo["cortex_work"] = 803
  BY DEF ToGo
<1>4. /\ ToGo["cortex_recover"] = 804 /\ ToGo["cortex_admin"] = 805 /\ ToGo["cortex_org"] = 806
      /\ ToGo["cortex_wait"] = 807 /\ ToGo["cortex_index"] = 808 /\ ToGo["cortex_delete"] = 809
      /\ ToGo["cortex"] = 810 /\ ToGo["preindex"] = 1001 /\ ToGo["configure"] = 1002
  BY DEF ToGo
<1> QED BY <1>1, <1>2, <1>3, <1>4

LEMMA FirstValues ==
  /\ FirstToGo["sync_member"] = 227 /\ FirstToGo["sync_users"] = 228
  /\ FirstToGo["sync_v2"] = 229 /\ FirstToGo["copy_member"] = 230 /\ FirstToGo["copy"] = 231
  /\ FirstToGo["v2_insert"] = 232 /\ FirstToGo["v2_delete"] = 233 /\ FirstToGo["v2_map"] = 234
  /\ FirstToGo["users_insert"] = 235 /\ FirstToGo["users_delete"] = 236
  /\ FirstToGo["users_map"] = 237
BY DEF FirstToGo

(* The part of the setup that a place is in.                               *)
Block(p, low) == \A n \in {1, 2} : Here(p, n) \in (low + 1)..(low + 49)

LEMMA ClosingBlock == \A p \in Closing \cup {"show"} : Block(p, 0)
BY ToGoValues DEF Block, Here, Closing, Mapping, Syncing

LEMMA WebhookBlock == \A p \in WebhookPlaces : Block(p, 200)
<1>1. \A p \in Mapping \cup Syncing : Block(p, 200)
  BY ToGoValues, FirstValues DEF Block, Here, Mapping, Syncing
<1>2. \A p \in Context \cup Swapping \cup {"login", "validate", "sync_file", "create"} : Block(p, 200)
  BY ToGoValues DEF Block, Here, Context, Swapping, Mapping, Syncing
<1> QED BY <1>1, <1>2 DEF WebhookPlaces

LEMMA HiveBlock == Block("restore", 400) /\ \A p \in HivePlaces : Block(p, 600)
BY ToGoValues DEF Block, Here, HivePlaces, Mapping, Syncing

LEMMA CortexBlock ==
  /\ \A p \in CortexPlaces : Block(p, 800)
  /\ Block("preindex", 1000) /\ Block("configure", 1000)
BY ToGoValues DEF Block, Here, CortexPlaces, Mapping, Syncing

LEMMA LeftOf ==
  ASSUME NEW p \in Places, NEW n \in {1, 2}, NEW a \in 1..Attempts
  PROVE  /\ LeftAt(p, n, a) = Here(p, n) + 50 * (3 - a)
         /\ Here(p, n) \in 1..1049 /\ LeftAt(p, n, a) \in Nat /\ LeftAt(p, n, a) > 0
<1>1. p # "idle"
  BY DEF Places, CortexPlaces, HivePlaces, WebhookPlaces, Closing, Mapping, Syncing, Context, Swapping
<1>2. Here(p, n) \in 1..1049
  <2>1. \E low \in {0, 200, 400, 600, 800, 1000} : Block(p, low)
    BY ClosingBlock, WebhookBlock, HiveBlock, CortexBlock DEF Places
  <2> QED BY <2>1 DEF Block
<1>3. LeftAt(p, n, a) = Here(p, n) + 50 * (3 - a)
  BY <1>1 DEF LeftAt, Attempts
<1>4. 50 * (3 - a) \in Nat
  BY DEF Attempts
<1>5. PICK k \in Nat : k = 50 * (3 - a)
  BY <1>4
<1>6. LeftAt(p, n, a) = Here(p, n) + k
  BY <1>3, <1>5
<1>7. \A h \in 1..1049 : h + k \in Nat /\ h + k > 0
  OBVIOUS
<1>8. LeftAt(p, n, a) \in Nat /\ LeftAt(p, n, a) > 0
  BY <1>2, <1>6, <1>7
<1> QED BY <1>2, <1>3, <1>8

\* What ends a run leaves nothing.
LEMMA Ends ==
  ASSUME Placed, pc # "idle", pc' = "idle"
  PROVE  StepsLeft' < StepsLeft
<1>1. StepsLeft' = 0
  BY DEF StepsLeft, LeftAt
<1>2. StepsLeft \in Nat /\ StepsLeft > 0
  BY LeftOf DEF StepsLeft, Placed
<1> QED BY <1>1, <1>2

\* A step to a place nearer to the end of the script, in the same attempt.
LEMMA GoesOn ==
  ASSUME Placed, pc \in Places, pc' \in Places, attempt' = attempt, pass' \in {1, 2},
         Here(pc', pass') < Here(pc, pass)
  PROVE  StepsLeft' < StepsLeft
<1>0. pass \in {1, 2} /\ attempt \in 1..Attempts
  BY DEF Placed
<1>1. StepsLeft = Here(pc, pass) + 50 * (3 - attempt) /\ Here(pc, pass) \in 1..1049
  BY <1>0, LeftOf DEF StepsLeft
<1>2. StepsLeft' = Here(pc', pass') + 50 * (3 - attempt') /\ Here(pc', pass') \in 1..1049
  BY <1>0, LeftOf DEF StepsLeft
<1> DEFINE h == Here(pc, pass)  g == Here(pc', pass')
<1>3. g \in 1..1049 /\ h \in 1..1049 /\ g < h
  BY <1>1, <1>2
<1>4. PICK k \in Int : k = 50 * (3 - attempt)
  BY <1>0 DEF Attempts
<1>5. StepsLeft = h + k /\ StepsLeft' = g + k
  BY <1>1, <1>2, <1>4
<1> HIDE DEF g, h
<1>6. g + k < h + k
  BY <1>3
<1> QED BY <1>5, <1>6

\* A step back to a place of the same script, in the next attempt.
LEMMA GoesBack ==
  ASSUME Placed, NEW low \in Nat, pc \in Places, pc' \in Places, Block(pc, low), Block(pc', low),
         attempt' = attempt + 1, attempt' \in 1..Attempts, pass' \in {1, 2}
  PROVE  StepsLeft' < StepsLeft
<1>0. pass \in {1, 2} /\ attempt \in 1..Attempts
  BY DEF Placed
<1>1. StepsLeft = Here(pc, pass) + 50 * (3 - attempt) /\ Here(pc, pass) \in low + 1 .. low + 49
  BY <1>0, LeftOf DEF StepsLeft, Block
<1>2. StepsLeft' = Here(pc', pass') + 50 * (3 - attempt') /\ Here(pc', pass') \in low + 1 .. low + 49
  BY LeftOf DEF StepsLeft, Block
<1> QED BY <1>0, <1>1, <1>2 DEF Attempts

\* A step to the next script.
LEMMA GoesOver ==
  ASSUME Placed, NEW low \in Nat, NEW next \in Nat, next + 200 <= low,
         pc \in Places, pc' \in Places, Block(pc, low), Block(pc', next),
         attempt' \in 1..Attempts, pass' \in {1, 2}
  PROVE  StepsLeft' < StepsLeft
<1>0. pass \in {1, 2} /\ attempt \in 1..Attempts
  BY DEF Placed
<1>1. StepsLeft = Here(pc, pass) + 50 * (3 - attempt) /\ Here(pc, pass) \in low + 1 .. low + 49
  BY <1>0, LeftOf DEF StepsLeft, Block
<1>2. StepsLeft' = Here(pc', pass') + 50 * (3 - attempt') /\ Here(pc', pass') \in next + 1 .. next + 49
  BY LeftOf DEF StepsLeft, Block
<1> QED BY <1>0, <1>1, <1>2 DEF Attempts

\* An error that ends a script ends the run or starts the script once more.
LEMMA ExitsEnd ==
  ASSUME Placed, NEW from, NEW again, Exit(from, again), pass' \in {1, 2},
         \/ again = "idle" /\ from \in Places
         \/ again = "hive" /\ from \in HivePlaces
         \/ again = "login" /\ from \in WebhookPlaces
  PROVE  StepsLeft' < StepsLeft /\ Placed'
<1>1. pc = from /\ pc' \in {"idle", again} /\ pc \in Places
  BY DEF Exit, Places
<1>2. pc' # "idle" => attempt < Attempts /\ attempt' = attempt + 1
  BY DEF Exit
<1>3. attempt' \in 1..Attempts
  BY DEF Exit, Placed, Attempts
<1>4. Placed'
  <2>1. pc' \in {"idle", "hive", "login"}
    BY <1>1
  <2>2. pc' \in Places \cup {"idle"}
    BY <2>1 DEF Places, HivePlaces, WebhookPlaces
  <2> QED BY <1>3, <2>1, <2>2 DEF Placed, Context
<1>5. CASE pc' = "idle"
  <2>1. pc # "idle"
    BY <1>1 DEF Places, CortexPlaces, HivePlaces, WebhookPlaces, Closing, Mapping, Syncing, Context,
       Swapping
  <2> QED BY <1>4, <1>5, <2>1, Ends
<1>6. CASE pc' = "hive" /\ from \in HivePlaces
  <2>1. Block(pc, 600) /\ Block(pc', 600) /\ pc' \in Places
    BY <1>1, <1>6, HiveBlock DEF HivePlaces, Places
  <2>2. attempt' = attempt + 1
    BY <1>2, <1>6
  <2> QED BY <1>1, <1>3, <1>4, <2>1, <2>2, GoesBack
<1>7. CASE pc' = "login" /\ from \in WebhookPlaces
  <2>1. Block(pc, 200) /\ Block(pc', 200) /\ pc' \in Places
    BY <1>1, <1>7, WebhookBlock DEF WebhookPlaces, Places
  <2>2. attempt' = attempt + 1
    BY <1>2, <1>7
  <2> QED BY <1>1, <1>3, <1>4, <2>1, <2>2, GoesBack
<1> QED BY <1>1, <1>5, <1>6, <1>7

-----------------------------------------------------------------------------
(* Step by step. *)

\* What a step does that is no exit: the run is at a known place with a known attempt.
Passing ==
  /\ pc' = "validate" => pass' = 1
  /\ pc' \in Context \cup {"sync_file"} => pass' = 2
  /\ pc' = "cortex_recover" => attempt' = 1

LEMMA OnPlace ==
  ASSUME Placed, pc \in Places, pc' \in Places, attempt' = attempt, pass' \in {1, 2}, Passing,
         Here(pc', pass') < Here(pc, pass)
  PROVE  StepsLeft' < StepsLeft /\ Placed'
<1>1. Placed'
  BY DEF Placed, Passing
<1> QED BY <1>1, GoesOn

LEMMA CortexNearer == ASSUME Placed, CortexNext, UNCHANGED accVars PROVE StepsLeft' < StepsLeft /\ Placed'
<1> USE DEF Step, Then
<1>0. pass' = pass /\ pass \in {1, 2}
  BY DEF Placed, accVars
<1>a. \A p \in CortexPlaces : p \in Places /\ p \notin Mapping \cup Syncing
  BY DEF Places, CortexPlaces, Mapping, Syncing
<1>b. \A p \in CortexPlaces, n \in {1, 2} : Here(p, n) = ToGo[p]
  BY <1>a DEF Here
<1>1. ASSUME pc \in CortexPlaces, pc' \in CortexPlaces, attempt' = attempt, ToGo[pc'] < ToGo[pc],
             pc' = "cortex_recover" => attempt = 1
      PROVE  StepsLeft' < StepsLeft /\ Placed'
  <2>1. Passing
    BY <1>1 DEF Passing, CortexPlaces, Context
  <2>2. Here(pc, pass) = ToGo[pc] /\ Here(pc', pass') = ToGo[pc']
    BY <1>0, <1>1, <1>b
  <2> QED BY <1>0, <1>1, <1>a, <2>1, <2>2, OnPlace
<1>2. CASE PutTemplate("cortex", "cortex", "cortex_delete")
  <2>1. CASE Exit("cortex", "idle")
    BY <2>1, <1>0, ExitsEnd DEF Places, CortexPlaces
  <2>2. CASE pc = "cortex" /\ pc' = "cortex_delete" /\ attempt' = attempt
    BY <2>2, <1>1, ToGoValues DEF CortexPlaces
  <2> QED BY <1>2, <2>1, <2>2 DEF PutTemplate
<1>3. CASE CortexDelete
  <2>1. pc = "cortex_delete" /\ pc' = "cortex_index" /\ attempt' = attempt
    BY <1>3 DEF CortexDelete, runVars
  <2> QED BY <2>1, <1>1, ToGoValues DEF CortexPlaces
<1>4. CASE EnsureIndex("cortex", "cortex_index",
                   IF attempt > 1 THEN "cortex_org" ELSE "cortex_wait", TRUE)
  <2>1. CASE Exit("cortex_index", "idle")
    BY <2>1, <1>0, ExitsEnd DEF Places, CortexPlaces
  <2>2. CASE pc = "cortex_index" /\ pc' \in {"cortex_org", "cortex_wait"} /\ attempt' = attempt
    BY <2>2, <1>1, ToGoValues DEF CortexPlaces
  <2> QED BY <1>4, <2>1, <2>2 DEF EnsureIndex, runVars
<1>5. CASE AwaitService("cortex_wait", "cortex_org", "idle")
  <2>1. CASE Exit("cortex_wait", "idle")
    BY <2>1, <1>0, ExitsEnd DEF Places, CortexPlaces
  <2>2. CASE pc = "cortex_wait" /\ pc' = "cortex_org" /\ attempt' = attempt
    BY <2>2, <1>1, ToGoValues DEF CortexPlaces
  <2> QED BY <1>5, <2>1, <2>2 DEF AwaitService, runVars
<1>6. CASE CortexOrg
  <2>1. pc = "cortex_org" /\ pc' = "cortex_admin" /\ attempt' = attempt
    BY <1>6 DEF CortexOrg, runVars
  <2> QED BY <2>1, <1>1, ToGoValues DEF CortexPlaces
<1>7. CASE CreateSuperadmin
  <2>1. CASE Exit("cortex_admin", "idle")
    BY <2>1, <1>0, ExitsEnd DEF Places, CortexPlaces
  <2>2. CASE pc = "cortex_admin" /\ pc' = "cortex_work" /\ attempt' = attempt
    BY <2>2, <1>1, ToGoValues DEF CortexPlaces
  <2>3. CASE pc = "cortex_admin" /\ pc' = "cortex_recover" /\ attempt = 1 /\ attempt' = attempt
    BY <2>3, <1>1, ToGoValues DEF CortexPlaces
  <2> QED BY <1>7, <2>1, <2>2, <2>3 DEF CreateSuperadmin, runVars
<1>8. CASE CortexRecover
  <2>1. pc = "cortex_recover" /\ pc' = "cortex_index" /\ attempt = 1 /\ attempt' = attempt + 1
    BY <1>8 DEF CortexRecover, Placed
  <2>2. pc \in CortexPlaces /\ pc' \in CortexPlaces /\ attempt' \in 1..Attempts
    BY <2>1 DEF CortexPlaces, Attempts
  <2>3. StepsLeft' < StepsLeft
    BY <1>0, <1>a, <2>1, <2>2, CortexBlock, GoesBack
  <2>4. Placed'
    BY <1>0, <1>a, <2>1, <2>2 DEF Placed, Context
  <2> QED BY <2>3, <2>4
<1>9. CASE CortexWork
  <2>1. CASE Exit("cortex_work", "idle")
    BY <2>1, <1>0, ExitsEnd DEF Places, CortexPlaces
  <2>2. CASE pc = "cortex_work" /\ pc' = "cortex_key" /\ attempt' = attempt
    BY <2>2, <1>1, ToGoValues DEF CortexPlaces
  <2> QED BY <1>9, <2>1, <2>2 DEF CortexWork, runVars
<1>10. CASE CortexKey
  <2>1. pc = "cortex_key" /\ pc' = "cortex_env" /\ attempt' = attempt
    BY <1>10 DEF CortexKey, runVars
  <2> QED BY <2>1, <1>1, ToGoValues DEF CortexPlaces
<1>11. CASE SaveKey("cortex", "cortex_env", Then("hive"))
  <2>1. pc = "cortex_env" /\ pc' \in {"idle", "hive"} /\ attempt' \in {1, attempt}
    BY <1>11 DEF SaveKey
  <2>2. attempt' \in 1..Attempts
    BY <2>1 DEF Placed, Attempts
  <2>3. Placed'
    BY <1>0, <2>1, <2>2 DEF Placed, Places, HivePlaces, Context
  <2>4. CASE pc' = "hive"
    <3>1. Block(pc, 800) /\ Block(pc', 600) /\ pc \in Places /\ pc' \in Places
      BY <2>1, <2>4, CortexBlock, HiveBlock DEF CortexPlaces, HivePlaces, Places
    <3> QED BY <1>0, <2>2, <2>3, <3>1, GoesOver
  <2> QED BY <2>1, <2>3, <2>4, Ends
<1> QED BY <1>2, <1>3, <1>4, <1>5, <1>6, <1>7, <1>8, <1>9, <1>10, <1>11 DEF CortexNext

LEMMA HiveNearer == ASSUME Placed, HiveNext, UNCHANGED accVars PROVE StepsLeft' < StepsLeft /\ Placed'
<1> USE DEF Step, Then
<1>0. pass' = pass /\ pass \in {1, 2}
  BY DEF Placed, accVars
<1>a. \A p \in HivePlaces : p \in Places /\ p \notin Mapping \cup Syncing
  BY DEF Places, HivePlaces, Mapping, Syncing
<1>b. \A p \in HivePlaces, n \in {1, 2} : Here(p, n) = ToGo[p]
  BY <1>a DEF Here
<1>1. ASSUME pc \in HivePlaces, pc' \in HivePlaces, attempt' = attempt, ToGo[pc'] < ToGo[pc]
      PROVE  StepsLeft' < StepsLeft /\ Placed'
  <2>1. Passing
    BY <1>1 DEF Passing, HivePlaces, Context
  <2>2. Here(pc, pass) = ToGo[pc] /\ Here(pc', pass') = ToGo[pc']
    BY <1>0, <1>1, <1>b
  <2> QED BY <1>0, <1>1, <1>a, <2>1, <2>2, OnPlace
<1>2. CASE PutTemplate("thehive", "hive", "hive_delete")
  <2>1. CASE Exit("hive", "hive")
    BY <2>1, <1>0, ExitsEnd DEF HivePlaces
  <2>2. CASE pc = "hive" /\ pc' = "hive_delete" /\ attempt' = attempt
    BY <2>2, <1>1, ToGoValues DEF HivePlaces
  <2> QED BY <1>2, <2>1, <2>2 DEF PutTemplate
<1>3. CASE HiveDelete
  <2>1. pc = "hive_delete" /\ pc' = "hive_index" /\ attempt' = attempt
    BY <1>3 DEF HiveDelete, runVars
  <2> QED BY <2>1, <1>1, ToGoValues DEF HivePlaces
<1>4. CASE EnsureIndex("thehive", "hive_index", "hive_wait", FALSE)
  <2>1. pc = "hive_index" /\ pc' = "hive_wait" /\ attempt' = attempt
    BY <1>4 DEF EnsureIndex, runVars
  <2> QED BY <2>1, <1>1, ToGoValues DEF HivePlaces
<1>5. CASE AwaitService("hive_wait", "hive_admin", "hive")
  <2>1. CASE Exit("hive_wait", "hive")
    BY <2>1, <1>0, ExitsEnd DEF HivePlaces
  <2>2. CASE pc = "hive_wait" /\ pc' = "hive_admin" /\ attempt' = attempt
    BY <2>2, <1>1, ToGoValues DEF HivePlaces
  <2> QED BY <1>5, <2>1, <2>2 DEF AwaitService, runVars
<1>6. CASE CreateHiveAdmin
  <2>1. CASE Exit("hive_admin", "hive")
    BY <2>1, <1>0, ExitsEnd DEF HivePlaces
  <2>2. CASE pc = "hive_admin" /\ pc' = "hive_key" /\ attempt' = attempt
    BY <2>2, <1>1, ToGoValues DEF HivePlaces
  <2> QED BY <1>6, <2>1, <2>2 DEF CreateHiveAdmin, runVars
<1>7. CASE HiveKey
  <2>1. CASE Exit("hive_key", "hive")
    BY <2>1, <1>0, ExitsEnd DEF HivePlaces
  <2>2. CASE pc = "hive_key" /\ pc' = "hive_env" /\ attempt' = attempt
    BY <2>2, <1>1, ToGoValues DEF HivePlaces
  <2> QED BY <1>7, <2>1, <2>2 DEF HiveKey, runVars
<1>8. CASE SaveKey("thehive", "hive_env", "hive_conf")
  <2>1. pc = "hive_env" /\ pc' = "hive_conf" /\ attempt' = attempt
    BY <1>8 DEF SaveKey
  <2> QED BY <2>1, <1>1, ToGoValues DEF HivePlaces
<1>9. CASE ConfigureCortex
  <2>1. pc = "hive_conf" /\ pc' \in {"idle", "restore"} /\ attempt' = 1
    BY <1>9 DEF ConfigureCortex
  <2>2. attempt' \in 1..Attempts
    BY <2>1 DEF Attempts
  <2>3. Placed'
    BY <1>0, <2>1, <2>2 DEF Placed, Places, Context
  <2>4. CASE pc' = "restore"
    <3>1. Block(pc, 600) /\ Block(pc', 400) /\ pc \in Places /\ pc' \in Places
      BY <2>1, <2>4, HiveBlock DEF HivePlaces, Places
    <3> QED BY <1>0, <2>2, <2>3, <3>1, GoesOver
  <2> QED BY <2>1, <2>3, <2>4, Ends
<1> QED BY <1>2, <1>3, <1>4, <1>5, <1>6, <1>7, <1>8, <1>9 DEF HiveNext

\* The steps of `make up` around the scripts that are repeated, and the two scripts between.
LEMMA ServicesNearer ==
  ASSUME Placed, ServiceAccountsNext, UNCHANGED accVars
  PROVE  StepsLeft' < StepsLeft /\ Placed'
<1> USE DEF Step, Then
<1>0. pass' = pass /\ pass \in {1, 2} /\ attempt \in 1..Attempts
  BY DEF Placed, accVars
<1>1. CASE ConfigureTemplates
  <2>1. CASE Exit("configure", "idle")
    BY <2>1, <1>0, ExitsEnd DEF Places
  <2>2. CASE pc = "configure" /\ pc' = "preindex" /\ attempt' = attempt
    <3>1. pc \in Places /\ pc' \in Places /\ Passing
      BY <2>2 DEF Places, Passing, Context
    <3>2. Here(pc', pass') < Here(pc, pass)
      BY <2>2, ToGoValues DEF Here, Mapping, Syncing
    <3> QED BY <1>0, <2>2, <3>1, <3>2, OnPlace
  <2> QED BY <1>1, <2>1, <2>2 DEF ConfigureTemplates, runVars
<1>2. CASE PreIndex
  <2>1. pc = "preindex" /\ pc' = "cortex" /\ attempt' = attempt
    BY <1>2 DEF PreIndex, runVars
  <2>2. pc \in Places /\ pc' \in Places /\ Block(pc, 1000) /\ Block(pc', 800)
    BY <2>1, CortexBlock DEF Places, CortexPlaces
  <2>3. Placed'
    BY <1>0, <2>1, <2>2 DEF Placed, Context
  <2> QED BY <1>0, <2>1, <2>2, <2>3, GoesOver
<1>3. CASE Restore
  <2>1. pc = "restore" /\ pc' \in {"idle", "login"} /\ attempt' = attempt
    BY <1>3 DEF Restore, runVars
  <2>2. Placed'
    BY <1>0, <2>1 DEF Placed, Context, Places, WebhookPlaces
  <2>3. CASE pc' = "login"
    <3>1. pc \in Places /\ pc' \in Places /\ Block(pc, 400) /\ Block(pc', 200)
      BY <2>1, <2>3, HiveBlock, WebhookBlock DEF Places, WebhookPlaces
    <3> QED BY <1>0, <2>1, <2>2, <3>1, GoesOver
  <2> QED BY <2>1, <2>2, <2>3, Ends
<1>4. CASE InstallAnalyzers \/ LoadIocs
  <2>1. /\ (pc = "analyzers" /\ pc' = "iocs") \/ (pc = "iocs" /\ pc' = "kpis")
        /\ attempt' = attempt
    <3>1. CASE InstallAnalyzers
      BY <3>1 DEF InstallAnalyzers, runVars
    <3>2. CASE LoadIocs
      BY <3>2 DEF LoadIocs, runVars
    <3> QED BY <1>4, <3>1, <3>2
  <2>2. pc \in Places /\ pc' \in Places /\ Passing
    BY <2>1 DEF Places, Closing, Passing, Context
  <2>3. Here(pc', pass') < Here(pc, pass)
    BY <2>1, ToGoValues DEF Here, Mapping, Syncing
  <2> QED BY <1>0, <2>1, <2>2, <2>3, OnPlace
<1> QED BY <1>1, <1>2, <1>3, <1>4, CortexNearer, HiveNearer DEF ServiceAccountsNext

-----------------------------------------------------------------------------
(* The webhook script. *)

\* Between two places of the webhook script, in the same pass or the next.
LEMMA WebhookGoes ==
  ASSUME Placed, pc \in WebhookPlaces, pc' \in WebhookPlaces, attempt' = attempt,
         pass' \in {1, 2}, Passing, Here(pc', pass') < Here(pc, pass)
  PROVE  StepsLeft' < StepsLeft /\ Placed'
BY OnPlace DEF Places

LEMMA MappingNearer ==
  ASSUME Placed, FixUsersMapping
  PROVE  StepsLeft' < StepsLeft /\ Placed'
<1> USE DEF Step
<1>0. pass \in {1, 2} /\ attempt \in 1..Attempts
  BY DEF Placed
<1> DEFINE after == IF pass = 1 THEN "sync_v2" ELSE "create"
<1>a. \A p \in Mapping : p \in WebhookPlaces
  BY DEF WebhookPlaces
<1>b. /\ \A p \in Mapping \cup Syncing : Here(p, 1) = FirstToGo[p]
      /\ \A p \in Mapping \cup {"create"} : Here(p, 2) = ToGo[p]
  BY DEF Here
<1>c. after \in WebhookPlaces /\ Here(after, pass) = IF pass = 1 THEN 229 ELSE 208
  BY <1>0, <1>b, ToGoValues, FirstValues DEF WebhookPlaces, Syncing
<1>d. after \notin Context \cup {"validate", "sync_file", "cortex_recover"}
  BY DEF Context
<1>1. ASSUME pc \in Mapping, pc' \in Mapping, attempt' = attempt, pass' = pass,
             ToGo[pc'] < ToGo[pc], FirstToGo[pc'] < FirstToGo[pc]
      PROVE  StepsLeft' < StepsLeft /\ Placed'
  <2>1. Passing
    BY <1>1 DEF Passing, Mapping, Context
  <2>2. Here(pc', pass') < Here(pc, pass)
    BY <1>0, <1>1, <1>b
  <2> QED BY <1>0, <1>1, <1>a, <2>1, <2>2, WebhookGoes
<1>2. ASSUME pc \in Mapping, pc' = after, attempt' = attempt, pass' = pass
      PROVE  StepsLeft' < StepsLeft /\ Placed'
  <2>1. Passing
    BY <1>2, <1>d DEF Passing
  <2>2. Here(pc, pass) > (IF pass = 1 THEN 229 ELSE 208)
    BY <1>0, <1>2, <1>b, ToGoValues, FirstValues DEF Mapping
  <2>3. Here(pc', pass') = IF pass = 1 THEN 229 ELSE 208
    BY <1>2, <1>c
  <2> QED BY <1>0, <1>2, <1>a, <1>c, <2>1, <2>2, <2>3, WebhookGoes
<1>3. CASE Step("users_map", after) /\ Shrugs("es") /\ UNCHANGED <<runVars, envVars, got, fresh, accVars>>
  <2>1. pc = "users_map" /\ pc' = after /\ attempt' = attempt /\ pass' = pass
    BY <1>3 DEF runVars, accVars
  <2> QED BY <2>1, <1>2 DEF Mapping
<1>4. ASSUME NEW i, NEW from, NEW to, NEW past, ReindexRead(i, from, to, past),
             from \in Mapping, to \in Mapping, past \in Mapping,
             ToGo[to] < ToGo[from], FirstToGo[to] < FirstToGo[from],
             ToGo[past] < ToGo[from], FirstToGo[past] < FirstToGo[from]
      PROVE  StepsLeft' < StepsLeft /\ Placed'
  <2>1. pc = from /\ pc' \in {to, past} /\ attempt' = attempt /\ pass' = pass
    BY <1>4 DEF ReindexRead, runVars
  <2> QED BY <2>1, <1>1, <1>4
<1>5. ASSUME NEW i, NEW from, NEW to, NEW past, ReindexDelete(i, from, to, past),
             from \in Mapping, to \in Mapping, past \in Mapping,
             ToGo[to] < ToGo[from], FirstToGo[to] < FirstToGo[from],
             ToGo[past] < ToGo[from], FirstToGo[past] < FirstToGo[from]
      PROVE  StepsLeft' < StepsLeft /\ Placed'
  <2>0. pass' = pass
    BY <1>5 DEF ReindexDelete
  <2>1. CASE Exit(from, "login")
    BY <1>0, <1>5, <1>a, <2>0, <2>1, ExitsEnd
  <2>2. CASE pc = from /\ pc' \in {to, past} /\ attempt' = attempt
    BY <2>0, <2>2, <1>1, <1>5
  <2> QED BY <1>5, <2>1, <2>2 DEF ReindexDelete, runVars
<1>6. ASSUME NEW i, NEW from, NEW to, ReindexInsert(i, from, to), from \in Mapping, to \in Mapping,
             ToGo[to] < ToGo[from], FirstToGo[to] < FirstToGo[from]
      PROVE  StepsLeft' < StepsLeft /\ Placed'
  <2>0. pass' = pass
    BY <1>6 DEF ReindexInsert
  <2>1. CASE Exit(from, "login")
    BY <1>0, <1>6, <1>a, <2>0, <2>1, ExitsEnd
  <2>2. CASE pc = from /\ pc' = to /\ attempt' = attempt
    BY <2>0, <2>2, <1>1, <1>6
  <2> QED BY <1>6, <2>1, <2>2 DEF ReindexInsert, runVars
<1>7. CASE ReindexRead("users", "users_map", "users_delete", "v2_map")
  BY <1>7, <1>4, ToGoValues, FirstValues DEF Mapping
<1>8. CASE ReindexDelete("users", "users_delete", "users_insert", "v2_map")
  BY <1>8, <1>5, ToGoValues, FirstValues DEF Mapping
<1>9. CASE ReindexInsert("users", "users_insert", "v2_map")
  BY <1>9, <1>6, ToGoValues, FirstValues DEF Mapping
<1>10. CASE ReindexRead("users_v2", "v2_map", "v2_delete", "copy")
  BY <1>10, <1>4, ToGoValues, FirstValues DEF Mapping
<1>11. CASE ReindexDelete("users_v2", "v2_delete", "v2_insert", "copy_member")
  BY <1>11, <1>5, ToGoValues, FirstValues DEF Mapping
<1>12. CASE ReindexInsert("users_v2", "v2_insert", "copy_member")
  BY <1>12, <1>6, ToGoValues, FirstValues DEF Mapping
<1>13. CASE CopyUsers("copy", "copy_member")
  <2>0. pass' = pass
    BY <1>13 DEF CopyUsers
  <2>1. CASE Exit("copy", "login")
    BY <1>0, <1>a, <2>0, <2>1, ExitsEnd DEF Mapping
  <2>2. CASE pc = "copy" /\ pc' = "copy_member" /\ attempt' = attempt
    BY <2>0, <2>2, <1>1, ToGoValues, FirstValues DEF Mapping
  <2> QED BY <1>13, <2>1, <2>2 DEF CopyUsers, runVars
<1>14. CASE CopyMember("copy_member", after)
  <2>1. pc = "copy_member" /\ pc' = after /\ attempt' = attempt /\ pass' = pass
    BY <1>14 DEF CopyMember, runVars
  <2> QED BY <2>1, <1>2 DEF Mapping
<1> QED BY <1>3, <1>7, <1>8, <1>9, <1>10, <1>11, <1>12, <1>13, <1>14 DEF FixUsersMapping

\* Login and the key are on the way to the second pass.
LEMMA ShuffleNearer ==
  ASSUME Placed, ShuffleAccountsNext
  PROVE  StepsLeft' < StepsLeft /\ Placed'
<1> USE DEF Step
<1>0. pass \in {1, 2} /\ attempt \in 1..Attempts
  BY DEF Placed
<1>a. \A p \in Mapping \cup Syncing \cup Context \cup {"login", "validate", "sync_file"} :
         p \in WebhookPlaces
  BY DEF WebhookPlaces
<1>b. /\ \A p \in Mapping \cup Syncing : Here(p, 1) = FirstToGo[p] /\ Here(p, 2) = ToGo[p]
      /\ \A n \in {1, 2} : /\ Here("validate", n) = 226 /\ Here("keys", n) = 221
                           /\ Here("login", n) = 249 /\ Here("sync_file", n) = 225
                           /\ Here("fix_org", n) = 217
  BY ToGoValues DEF Here, Mapping, Syncing
<1>c. AfterSync \in WebhookPlaces /\ AfterSync = IF pass = 1 THEN "validate" ELSE "keys"
  BY <1>a DEF AfterSync, Context
<1>1. CASE Login
  <2>1. CASE Exit("login", "login")
    <3>1. pass' = pass
      BY <1>1, <2>1 DEF Login, Exit
    <3> QED BY <1>0, <1>a, <2>1, <3>1, ExitsEnd
  <2>2. CASE pc = "login" /\ pc' = "users_map" /\ attempt' = attempt /\ pass' = 1
    <3>1. pc \in WebhookPlaces /\ pc' \in Mapping /\ Passing
      BY <2>2, <1>a DEF Mapping, Passing, Context
    <3>2. Here(pc, pass) = 249 /\ Here(pc', pass') = 237
      BY <1>0, <1>b, <2>2, <3>1, FirstValues
    <3> QED BY <1>a, <2>2, <3>1, <3>2, WebhookGoes
  <2> QED BY <1>1, <2>1, <2>2 DEF Login, runVars
<1>2. CASE ValidateKey
  <2>0. pass' = 2
    BY <1>2 DEF ValidateKey
  <2>1. CASE Exit("validate", "login")
    BY <1>a, <2>0, <2>1, ExitsEnd
  <2>2. CASE pc = "validate" /\ pc' = "sync_file" /\ attempt' = attempt
    <3>1. pc \in WebhookPlaces /\ pc' \in WebhookPlaces /\ Passing
      BY <2>0, <2>2, <1>a DEF Passing
    <3>2. Here(pc, pass) = 226 /\ Here(pc', pass') = 225
      BY <1>0, <1>b, <2>0, <2>2
    <3> QED BY <2>0, <2>2, <3>1, <3>2, WebhookGoes
  <2> QED BY <1>2, <2>1, <2>2 DEF ValidateKey, runVars
<1>3. CASE SyncFile
  <2>1. pc = "sync_file" /\ pc' \in {"sync_v2", "keys"} /\ attempt' = attempt /\ pass' = pass
    BY <1>3 DEF SyncFile, runVars
  <2>2. pass = 2
    BY <2>1 DEF Placed
  <2>3. pc \in WebhookPlaces /\ pc' \in WebhookPlaces /\ Passing
    BY <2>1, <2>2, <1>a DEF Passing, Syncing, Context
  <2>4. Here(pc, pass) = 225 /\ Here(pc', pass') \in {224, 221}
    BY <1>b, <2>1, <2>2, ToGoValues DEF Syncing
  <2> QED BY <2>1, <2>2, <2>3, <2>4, WebhookGoes
\* The three copies of the key, after which the pass decides.
<1>4. ASSUME pc \in Syncing, pc' = AfterSync, attempt' = attempt, pass' = pass
      PROVE  StepsLeft' < StepsLeft /\ Placed'
  <2>1. Passing
    BY <1>0, <1>c, <1>4 DEF Passing, Context
  <2>2. Here(pc, pass) > IF pass = 1 THEN 226 ELSE 221
    BY <1>0, <1>b, <1>4, ToGoValues, FirstValues DEF Syncing
  <2>3. Here(pc', pass') = IF pass = 1 THEN 226 ELSE 221
    BY <1>0, <1>b, <1>c, <1>4
  <2> QED BY <1>0, <1>a, <1>c, <1>4, <2>1, <2>2, <2>3, WebhookGoes
<1>5. ASSUME pc \in Syncing, pc' \in Syncing, attempt' = attempt, pass' = pass,
             ToGo[pc'] < ToGo[pc], FirstToGo[pc'] < FirstToGo[pc]
      PROVE  StepsLeft' < StepsLeft /\ Placed'
  <2>1. Passing
    BY <1>5 DEF Passing, Syncing, Context
  <2>2. Here(pc', pass') < Here(pc, pass)
    BY <1>0, <1>5, <1>b
  <2> QED BY <1>0, <1>5, <1>a, <2>1, <2>2, WebhookGoes
<1>6. CASE SyncV2
  <2>0. pass' = pass
    BY <1>6 DEF SyncV2
  <2>1. CASE Exit("sync_v2", "login")
    BY <1>0, <1>a, <2>0, <2>1, ExitsEnd DEF Syncing
  <2>2. CASE pc = "sync_v2" /\ pc' = AfterSync /\ attempt' = attempt
    BY <2>0, <2>2, <1>4 DEF Syncing
  <2>3. CASE pc = "sync_v2" /\ pc' \in {"sync_users", "sync_member"} /\ attempt' = attempt
    BY <2>0, <2>3, <1>5, ToGoValues, FirstValues DEF Syncing
  <2> QED BY <1>6, <2>1, <2>2, <2>3 DEF SyncV2, runVars
<1>7. CASE SyncUsers
  <2>0. pass' = pass
    BY <1>7 DEF SyncUsers
  <2>1. CASE Exit("sync_users", "login")
    BY <1>0, <1>a, <2>0, <2>1, ExitsEnd DEF Syncing
  <2>2. CASE pc = "sync_users" /\ pc' = "sync_member" /\ attempt' = attempt
    BY <2>0, <2>2, <1>5, ToGoValues, FirstValues DEF Syncing
  <2> QED BY <1>7, <2>1, <2>2 DEF SyncUsers, runVars
<1>8. CASE SyncMember
  <2>1. pc = "sync_member" /\ pc' = AfterSync /\ attempt' = attempt /\ pass' = pass
    BY <1>8 DEF SyncMember, runVars
  <2> QED BY <2>1, <1>4 DEF Syncing
<1>9. CASE FixOrgUsers("fix_org", "users_map")
  <2>1. pc = "fix_org" /\ pc' = "users_map" /\ attempt' = attempt /\ pass' = pass
    BY <1>9 DEF FixOrgUsers, runVars
  <2>2. pass = 2
    BY <2>1 DEF Placed, Context
  <2>3. pc \in WebhookPlaces /\ pc' \in Mapping /\ Passing
    BY <2>1, <1>a DEF Passing, Mapping, Context
  <2>4. Here(pc, pass) = 217 /\ Here(pc', pass') = 216
    BY <1>b, <2>1, <2>2, <2>3, ToGoValues
  <2> QED BY <1>a, <2>1, <2>2, <2>3, <2>4, WebhookGoes
<1>10. CASE FixOrgUsers("org_again", "show")
  <2>1. pc = "org_again" /\ pc' = "show" /\ attempt' = attempt /\ pass' = pass
    BY <1>10 DEF FixOrgUsers, runVars
  <2>2. pc \in Places /\ pc' \in Places /\ Passing
    BY <2>1 DEF Places, Closing, Passing, Context
  <2>3. Here(pc', pass') < Here(pc, pass)
    BY <2>1, ToGoValues DEF Here, Mapping, Syncing
  <2> QED BY <1>0, <2>1, <2>2, <2>3, OnPlace
<1>11. CASE UpdateEnv
  <2>0. pass' = pass
    BY <1>11 DEF UpdateEnv, accVars
  <2>1. CASE Exit("update_env", "idle")
    BY <1>0, <2>0, <2>1, ExitsEnd DEF Places, Closing
  <2>2. CASE pc = "update_env" /\ pc' = "rewrite" /\ attempt' = attempt
    <3>1. pc \in Places /\ pc' \in Places /\ Passing
      BY <2>2 DEF Places, Closing, Passing, Context
    <3>2. Here(pc', pass') < Here(pc, pass)
      BY <2>2, ToGoValues DEF Here, Mapping, Syncing
    <3> QED BY <1>0, <2>0, <2>2, <3>1, <3>2, OnPlace
  <2> QED BY <1>11, <2>1, <2>2 DEF UpdateEnv, runVars
<1> QED BY <1>1, <1>2, <1>3, <1>6, <1>7, <1>8, <1>9, <1>10, <1>11, MappingNearer
        DEF ShuffleAccountsNext

LEMMA WorkflowNearer ==
  ASSUME Placed, FlowsTyped, WorkflowDeploymentNext
  PROVE  Nearer /\ Placed'
<1> USE DEF Step, Then
<1>0. pass' = pass /\ pass \in {1, 2} /\ attempt \in 1..Attempts
  BY AccountsStay DEF Placed, accVars
<1>a. \A p \in Context \cup Swapping \cup {"create"} :
         p \in WebhookPlaces /\ p \notin Mapping \cup Syncing
  BY DEF WebhookPlaces, Context, Swapping, Mapping, Syncing
<1>b. \A p \in Context \cup Swapping \cup {"create"}, n \in {1, 2} : Here(p, n) = ToGo[p]
  BY <1>a DEF Here
<1>1. ASSUME pc \in Context \cup Swapping \cup {"create"}, attempt' = attempt,
             pc' \in Context \cup Swapping \cup {"create"}, ToGo[pc'] < ToGo[pc],
             pc' \in Context => pc \in Context
      PROVE  StepsLeft' < StepsLeft /\ Placed'
  <2>1. Passing
    BY <1>0, <1>1 DEF Passing, Context, Swapping, Placed
  <2>2. Here(pc, pass) = ToGo[pc] /\ Here(pc', pass') = ToGo[pc']
    BY <1>0, <1>1, <1>b
  <2> QED BY <1>0, <1>1, <1>a, <2>1, <2>2, WebhookGoes
<1>2. ASSUME NEW from \in Context \cup Swapping \cup {"create"}, Exit(from, "login")
      PROVE  StepsLeft' < StepsLeft /\ Placed'
  BY <1>0, <1>2, <1>a, ExitsEnd
<1>3. CASE ResolveKeys
  <2>1. CASE pc = "keys" /\ pc' = "list" /\ attempt' = attempt
    BY <2>1, <1>1, ToGoValues DEF Context, Nearer
  <2> QED BY <1>3, <2>1, <1>2 DEF ResolveKeys, runVars, Context, Nearer
<1>4. CASE ListWorkflows
  <2>1. CASE pc = "list" /\ pc' = "build" /\ attempt' = attempt
    BY <2>1, <1>1, ToGoValues DEF Context, Nearer
  <2> QED BY <1>4, <2>1, <1>2 DEF ListWorkflows, runVars, Context, Nearer
<1>5. CASE BuildContext
  <2>1. CASE pc = "build" /\ pc' = "environment" /\ attempt' = attempt
    BY <2>1, <1>1, ToGoValues DEF Context, Nearer
  <2> QED BY <1>5, <2>1, <1>2 DEF BuildContext, runVars, Context, Nearer
<1>6. CASE EnsureEnvironment
  <2>1. pc = "environment" /\ pc' = "fix_org" /\ attempt' = attempt
    BY <1>6 DEF EnsureEnvironment, runVars
  <2> QED BY <2>1, <1>1, ToGoValues DEF Context, Nearer
<1>7. CASE CreateWorkflow
  <2>1. CASE pc = "create" /\ pc' = "branches" /\ attempt' = attempt
    BY <2>1, <1>1, ToGoValues DEF Context, Swapping, Nearer
  <2>2. CASE Exit("create", "login")
    BY <2>2, <1>2 DEF Nearer
  <2> QED BY <1>7, <2>1, <2>2 DEF CreateWorkflow, runVars
<1>8. CASE FixBranches
  <2>1. CASE pc = "branches" /\ pc' = "patch" /\ attempt' = attempt
    BY <2>1, <1>1, ToGoValues DEF Context, Swapping, Nearer
  <2>2. CASE Exit("branches", "login")
    BY <2>2, <1>2 DEF Swapping, Nearer
  <2> QED BY <1>8, <2>1, <2>2 DEF FixBranches, runVars
<1>9. CASE PatchDocs
  <2>1. pc = "patch" /\ pc' = "delete_old" /\ attempt' = attempt
    BY <1>9 DEF PatchDocs, runVars
  <2> QED BY <2>1, <1>1, ToGoValues DEF Context, Swapping, Nearer
<1>10. CASE DeleteOld
  <2>0. pc = "delete_old" /\ attempt' = attempt
    BY <1>10 DEF DeleteOld, runVars
  <2>1. CASE pc' = "hook"
    BY <2>0, <2>1, <1>1, ToGoValues DEF Context, Swapping, Nearer
  <2>2. CASE pc' = pc /\ \E i \in held.old : held' = [held EXCEPT !.old = @ \ {i}]
    <3>1. PICK i \in held.old : held' = [held EXCEPT !.old = @ \ {i}]
      BY <2>2
    <3>2. held'.old = held.old \ {i}
      BY <3>1 DEF FlowsTyped, Held
    <3>3. StepsLeft' = StepsLeft
      BY <1>0, <2>0, <2>2 DEF StepsLeft
    <3>4. Placed'
      BY <1>0, <2>0, <2>2 DEF Placed
    <3>5. held.old # held'.old /\ held'.old \subseteq held.old
      BY <3>2
    <3> QED BY <3>3, <3>4, <3>5 DEF Nearer
  <2> QED BY <1>10, <2>1, <2>2 DEF DeleteOld
<1>11. CASE RegisterHook
  <2>1. pc = "hook" /\ pc' = "indices" /\ attempt' = attempt
    BY <1>11 DEF RegisterHook, runVars
  <2> QED BY <2>1, <1>1, ToGoValues DEF Context, Swapping, Nearer
<1>12. CASE EnsureEsIndices
  <2>1. pc = "indices" /\ pc' = "info" /\ attempt' = attempt
    BY <1>12 DEF EnsureEsIndices, runVars
  <2> QED BY <2>1, <1>1, ToGoValues DEF Context, Swapping, Nearer
<1>13. CASE SaveWebhookInfo
  <2>1. CASE pc = "info" /\ pc' = "dashboard" /\ attempt' = attempt
    BY <2>1, <1>1, ToGoValues DEF Context, Swapping, Nearer
  <2>2. CASE Exit("info", "login")
    BY <2>2, <1>2 DEF Swapping, Nearer
  <2> QED BY <1>13, <2>1, <2>2 DEF SaveWebhookInfo, runVars
<1>14. CASE ImportDashboard
  <2>1. pc = "dashboard" /\ pc' \in {"idle", "update_env"} /\ attempt' = 1
    BY <1>14 DEF ImportDashboard
  <2>2. attempt' \in 1..Attempts
    BY <2>1 DEF Attempts
  <2>3. Placed'
    BY <1>0, <2>1, <2>2 DEF Placed, Places, Closing, Context
  <2>4. CASE pc' = "update_env"
    <3>1. Block(pc, 200) /\ Block(pc', 0) /\ pc \in Places /\ pc' \in Places
      BY <2>1, <2>4, WebhookBlock, ClosingBlock DEF WebhookPlaces, Swapping, Closing, Places
    <3>2. StepsLeft' < StepsLeft
      BY <1>0, <2>2, <3>1, GoesOver
    <3> QED BY <2>3, <3>2 DEF Nearer
  <2> QED BY <2>1, <2>3, <2>4, Ends DEF Nearer
<1>15. CASE RewriteInfo \/ SetupKpis
  <2>1. /\ (pc = "rewrite" /\ pc' = "analyzers") \/ (pc = "kpis" /\ pc' = "org_again")
        /\ attempt' = attempt
    <3>1. CASE RewriteInfo
      BY <3>1 DEF RewriteInfo, runVars
    <3>2. CASE SetupKpis
      BY <3>2 DEF SetupKpis, runVars
    <3> QED BY <1>15, <3>1, <3>2
  <2>2. pc \in Places /\ pc' \in Places /\ Passing
    BY <2>1 DEF Places, Closing, Passing, Context
  <2>3. Here(pc', pass') < Here(pc, pass)
    BY <2>1, ToGoValues DEF Here, Mapping, Syncing
  <2> QED BY <1>0, <2>1, <2>2, <2>3, OnPlace DEF Nearer
<1> QED BY <1>3, <1>4, <1>5, <1>6, <1>7, <1>8, <1>9, <1>10, <1>11, <1>12, <1>13, <1>14, <1>15
        DEF WorkflowDeploymentNext

(* There are never more than finitely many workflows to delete.            *)
Countable == IsFiniteSet(flows) /\ IsFiniteSet(held.old)

LEMMA WorkflowCountable ==
  ASSUME Countable, FlowsTyped, WorkflowDeploymentNext
  PROVE  Countable'
<1> USE DEF Countable
<1>0. \A S, x : IsFiniteSet(S) => IsFiniteSet(S \cup {x})
  BY FS_AddElement
<1>1. CASE ResolveKeys
  <2>1. held' \in {held, [NothingHeld EXCEPT !.hive = ReadKey("thehive"),
                                             !.cortex = ReadKey("cortex")]}
    BY <1>1 DEF ResolveKeys
  <2>2. held'.old \in {held.old, {}}
    BY <2>1 DEF NothingHeld
  <2> QED BY <1>1, <2>2, FS_EmptySet DEF ResolveKeys
<1>2. CASE ListWorkflows
  <2>1. held' \in {held, [held EXCEPT !.old = {f.id : f \in flows}], [held EXCEPT !.old = {}]}
    BY <1>2 DEF ListWorkflows
  <2>2. held'.old \in {held.old, {f.id : f \in flows}, {}}
    BY <2>1 DEF FlowsTyped, Held
  <2>3. IsFiniteSet({f.id : f \in flows})
    <3> DEFINE Ids == {f.id : f \in flows}
               id == [f \in flows |-> f.id]
    <3>1. id \in Surjection(flows, Ids)
      BY DEF Surjection
    <3> HIDE DEF id, Ids
    <3>2. IsFiniteSet(Ids)
      BY <3>1, FS_Surjection
    <3> QED BY <3>2 DEF Ids
  <2> QED BY <1>2, <2>2, <2>3, FS_EmptySet DEF ListWorkflows
<1>3. CASE BuildContext
  <2>1. held'.old = held.old
    BY <1>3 DEF BuildContext, FlowsTyped, Held
  <2> QED BY <1>3, <2>1 DEF BuildContext
<1>4. CASE CreateWorkflow
  <2>1. held'.old = held.old
    BY <1>4 DEF CreateWorkflow, FlowsTyped, Held
  <2>2. \E x : flows' \in {flows, flows \cup {x}}
    BY <1>4 DEF CreateWorkflow
  <2> QED BY <1>0, <2>1, <2>2
<1>5. CASE FixBranches \/ PatchDocs
  <2>1. held' = held
    BY <1>5 DEF FixBranches, PatchDocs
  <2>2. \E x : flows' \in {flows, (flows \ {Mine}) \cup {x}}
    BY <1>5 DEF FixBranches, PatchDocs, Repaired
  <2>3. IsFiniteSet(flows \ {Mine})
    BY FS_Subset
  <2>4. PICK x : flows' \in {flows, (flows \ {Mine}) \cup {x}}
    BY <2>2
  <2>5. IsFiniteSet((flows \ {Mine}) \cup {x})
    BY <2>3, <1>0
  <2> QED BY <2>1, <2>4, <2>5
<1>6. CASE DeleteOld
  <2>1. flows' \subseteq flows
    BY <1>6 DEF DeleteOld
  <2>2. held'.old \subseteq held.old
    BY <1>6 DEF DeleteOld, FlowsTyped, Held
  <2> QED BY <2>1, <2>2, FS_Subset
<1>7. CASE ImportDashboard
  BY <1>7, FS_EmptySet DEF ImportDashboard, NothingHeld
<1>8. CASE EnsureEnvironment \/ RegisterHook \/ EnsureEsIndices \/ SaveWebhookInfo \/ RewriteInfo
           \/ SetupKpis
  BY <1>8 DEF EnsureEnvironment, RegisterHook, EnsureEsIndices, SaveWebhookInfo, RewriteInfo, SetupKpis
<1> QED BY <1>1, <1>2, <1>3, <1>4, <1>5, <1>6, <1>7, <1>8 DEF WorkflowDeploymentNext

Bounded == Placed /\ Countable

LEMMA BoundedInit == Init => Bounded
<1> SUFFICES ASSUME Init PROVE Bounded
  OBVIOUS
<1>1. pc = "idle" /\ attempt = 1 /\ pass = 1 /\ flows = {} /\ held.old = {}
  BY DEF Init, ShuffleAccountsInit, WorkflowDeploymentInit, NothingHeld
<1> QED BY <1>1, FS_EmptySet DEF Bounded, Placed, Countable, Context, Attempts

LEMMA BoundedStep ==
  ASSUME Bounded, FlowsTyped, [Next]_vars
  PROVE  Bounded' /\ (pc # "idle" /\ ~UNCHANGED vars => Nearer)
<1> USE DEF Bounded
<1>1. CASE ServiceAccountsNext /\ UNCHANGED <<accVars, flowVars>>
  BY <1>1, ServicesNearer DEF Nearer, Countable, flowVars
<1>2. CASE ShuffleAccountsNext /\ UNCHANGED <<svcVars, flowVars>>
  BY <1>2, ShuffleNearer DEF Nearer, Countable, flowVars
<1>3. CASE WorkflowDeploymentNext
  BY <1>3, WorkflowNearer, WorkflowCountable
<1>4. CASE ShowAccess \/ Crash
  <2>1. /\ pc # "idle" /\ pc' = "idle" /\ attempt' \in {1, attempt}
        /\ UNCHANGED <<pass, flows, held>>
    <3>1. CASE ShowAccess
      BY <3>1 DEF ShowAccess, Step, accVars, flowVars
    <3>2. CASE Crash
      BY <3>2 DEF Crash, flowVars
    <3> QED BY <1>4, <3>1, <3>2
  <2>2. Bounded'
    BY <2>1 DEF Placed, Countable, Context, Attempts
  <2> QED BY <2>1, <2>2, Ends DEF Nearer
<1>5. CASE MakeUp \/ RunScript
  <2>1. /\ pc = "idle" /\ pc' \in {"configure"} \cup Scripts /\ attempt' = 1
        /\ held' = NothingHeld /\ UNCHANGED <<pass, flows>>
    <3>1. CASE MakeUp
      BY <3>1 DEF MakeUp, Begin
    <3>2. CASE RunScript
      BY <3>2 DEF RunScript, Begin, accVars
    <3> QED BY <1>5, <3>1, <3>2
  <2>2. Placed'
    BY <2>1 DEF Placed, Scripts, Places, CortexPlaces, HivePlaces, WebhookPlaces, Context, Attempts
  <2>3. Countable'
    BY <2>1, FS_EmptySet DEF Countable, NothingHeld
  <2> QED BY <2>1, <2>2, <2>3
<1>6. CASE MakeReset
  <2>1. pc = "idle" /\ UNCHANGED <<pc, attempt, pass>> /\ flows' = {} /\ held' = NothingHeld
    BY <1>6 DEF MakeReset, WorkflowsLost
  <2> QED BY <2>1, FS_EmptySet DEF Placed, Countable, NothingHeld
<1>7. CASE Preserve /\ UNCHANGED <<accVars, flowVars>>
  <2>1. pc = "idle" /\ UNCHANGED <<pc, attempt, pass, flows, held>>
    BY <1>7 DEF Preserve, runVars, accVars, flowVars
  <2> QED BY <2>1 DEF Placed, Countable
<1>8. CASE UNCHANGED vars
  <2>1. UNCHANGED <<pc, attempt, pass, flows, held>>
    BY <1>8 DEF vars, setupVars, runVars, accVars, flowVars
  <2> QED BY <1>8, <2>1 DEF Placed, Countable
<1> QED BY <1>1, <1>2, <1>3, <1>4, <1>5, <1>6, <1>7, <1>8 DEF Next, Scripted

LEMMA FewSteps == ASSUME Placed PROVE StepsLeft \in 0..1149 /\ (StepsLeft = 0 <=> pc = "idle")
<1>1. CASE pc = "idle"
  BY <1>1 DEF StepsLeft, LeftAt
<1>2. CASE pc \in Places
  <2>1. pass \in {1, 2} /\ attempt \in 1..Attempts
    BY DEF Placed
  <2>2. /\ StepsLeft = Here(pc, pass) + 50 * (3 - attempt) /\ StepsLeft > 0
        /\ Here(pc, pass) \in 1..1049
    BY <1>2, <2>1, LeftOf DEF StepsLeft
  <2> DEFINE h == Here(pc, pass)
  <2>3. PICK k \in 0..100 : k = 50 * (3 - attempt)
    BY <2>1 DEF Attempts
  <2>4. StepsLeft = h + k /\ h \in 1..1049
    BY <2>2, <2>3
  <2> HIDE DEF h
  <2>5. StepsLeft \in 0..1149 /\ StepsLeft # 0
    BY <2>4
  <2>6. pc # "idle"
    BY <2>5 DEF StepsLeft, LeftAt
  <2> QED BY <2>5, <2>6
<1> QED BY <1>1, <1>2 DEF Placed

\* No script is started again for ever: a run has less than 1150 steps to go, and one more
\* for each old workflow it deletes, wherever it is; every step of it, failing ones and a kill
\* included, takes from these, and none that is left is the end of the run.
THEOREM SetupRunsOut ==
    Spec => /\ [](/\ StepsLeft \in 0..1149 /\ (StepsLeft = 0 <=> pc = "idle")
                  /\ IsFiniteSet(held.old))
            /\ [][pc # "idle" => Nearer]_vars
<1>1. Init => Bounded /\ Sequence /\ Safe
  BY BoundedInit, SequenceInit, SafeInit
<1>2. Bounded /\ Sequence /\ Safe /\ [Next]_vars => (Bounded /\ Sequence /\ Safe)'
  BY BoundedStep, SequenceStep, SafeStep DEF Sequence, SetupTyped
<1>3. Bounded /\ Sequence /\ [Next]_vars => [pc # "idle" => Nearer]_vars
  BY BoundedStep DEF Sequence, SetupTyped
<1>4. Bounded => /\ StepsLeft \in 0..1149 /\ (StepsLeft = 0 <=> pc = "idle")
                 /\ IsFiniteSet(held.old)
  BY FewSteps DEF Bounded, Countable
<1> QED BY <1>1, <1>2, <1>3, <1>4, PTL DEF Spec

-----------------------------------------------------------------------------
(* Induction, and functions that are applied over and over. *)

\* A set of natural numbers that is not empty has a least element.
LEMMA Least ==
  ASSUME NEW T \in SUBSET Nat, T # {}
  PROVE  \E m \in T : \A k \in T : m <= k
<1> DEFINE R == OpToRel(<, Nat)
<1>1. IsWellFoundedOn(R, Nat)
  BY NatLessThanWellFounded
<1>2. R = {ss \in Nat \X Nat : ss[1] < ss[2]}
  BY DEF OpToRel
<1> HIDE DEF R
<1>3. PICK x \in T : \A y \in T : ~ (<<y, x>> \in R)
  BY <1>1, WFMin
<1>4. \A y \in T : ~(y < x)
  BY <1>2, <1>3
<1> QED BY <1>4

\* Induction, for a set instead of a predicate.
LEMMA NatSetInduction ==
  ASSUME NEW S, 0 \in S, \A n \in Nat : n \in S => n + 1 \in S
  PROVE  Nat \subseteq S
<1> SUFFICES ASSUME Nat \ S # {} PROVE FALSE
  OBVIOUS
<1>1. PICK m \in Nat \ S : \A k \in Nat \ S : m <= k
  BY Least
<1>2. m - 1 \in Nat /\ (m - 1) + 1 = m
  OBVIOUS
<1>3. m - 1 \in S
  BY <1>1, <1>2
<1> QED BY <1>2, <1>3

\* A function can be applied over and over.
\* The first N of its values.
IsIteration(g, V, a, F, N) ==
  g \in [0 .. N -> V] /\ g[0] = a /\ \A k \in 1 .. N : g[k] = F[g[k - 1]]

LEMMA Iterates ==
  ASSUME NEW V, NEW a \in V, NEW F \in [V -> V], NEW N \in Nat
  PROVE  \E g : IsIteration(g, V, a, F, N)
<1> USE DEF IsIteration
<1> DEFINE S == {n \in Nat : \E g \in [0 .. n -> V] :
                    g[0] = a /\ \A k \in 1 .. n : g[k] = F[g[k - 1]]}
<1>1. 0 \in S
  <2> DEFINE g == [i \in 0 .. 0 |-> a]
  <2>1. g \in [0 .. 0 -> V] /\ g[0] = a /\ 1 .. 0 = {}
    OBVIOUS
  <2> QED BY <2>1
<1>2. ASSUME NEW n \in Nat, n \in S PROVE n + 1 \in S
  <2>1. PICK g \in [0 .. n -> V] : g[0] = a /\ \A k \in 1 .. n : g[k] = F[g[k - 1]]
    BY <1>2
  <2> DEFINE h == [i \in 0 .. n + 1 |-> IF i = n + 1 THEN F[g[n]] ELSE g[i]]
  <2>2. h \in [0 .. n + 1 -> V]
    <3>1. n \in 0 .. n /\ \A i \in 0 .. n + 1 : i # n + 1 => i \in 0 .. n
      OBVIOUS
    <3> QED BY <2>1, <3>1
  <2>3. h[0] = a
    BY <2>1
  <2>4. ASSUME NEW k \in 1 .. n + 1 PROVE h[k] = F[h[k - 1]]
    <3>1. k \in 0 .. n + 1 /\ k - 1 \in 0 .. n + 1 /\ k - 1 # n + 1
      OBVIOUS
    <3>2. h[k - 1] = g[k - 1]
      BY <3>1
    <3>3. CASE k = n + 1
      BY <3>1, <3>2, <3>3
    <3>4. CASE k # n + 1
      <4>1. k \in 1 .. n
        BY <3>4
      <4> QED BY <2>1, <3>1, <3>2, <3>4, <4>1
    <3> QED BY <3>3, <3>4
  <2> HIDE DEF h
  <2> QED BY <2>2, <2>3, <2>4
<1>3. N \in S
  BY <1>1, <1>2, NatSetInduction
<1> QED BY <1>3

-----------------------------------------------------------------------------
(* The graph of the workflow. *)

\* The paths of the branches.
Paths == EnrichmentPaths \cup ResponsePaths

\* The branches along one path.
Hops(p) == {<<p[i], p[i + 1]>> : i \in 1 .. Len(p) - 1}

\* The hops of paths as long as the playbook's.
LEMMA HopsOf3 ==
  ASSUME NEW a, NEW b, NEW c
  PROVE  Hops(<<a, b, c>>) = {<<a, b>>, <<b, c>>}
<1> DEFINE p == <<a, b, c>>
<1>1. Len(p) = 3 /\ 1 .. 3 - 1 = {1, 2} /\ 1 + 1 = 2 /\ 2 + 1 = 3
  OBVIOUS
<1>2. p[1] = a /\ p[2] = b /\ p[3] = c
  OBVIOUS
<1> HIDE DEF p
<1> QED BY <1>1, <1>2 DEF Hops

\* Three hops.
LEMMA HopsOf4 ==
  ASSUME NEW a, NEW b, NEW c, NEW d
  PROVE  Hops(<<a, b, c, d>>) = {<<a, b>>, <<b, c>>, <<c, d>>}
<1> DEFINE p == <<a, b, c, d>>
<1>1. Len(p) = 4 /\ 1 .. 4 - 1 = {1, 2, 3} /\ 1 + 1 = 2 /\ 2 + 1 = 3 /\ 3 + 1 = 4
  OBVIOUS
<1>2. p[1] = a /\ p[2] = b /\ p[3] = c /\ p[4] = d
  OBVIOUS
<1> HIDE DEF p
<1> QED BY <1>1, <1>2 DEF Hops

\* Four hops.
LEMMA HopsOf5 ==
  ASSUME NEW a, NEW b, NEW c, NEW d, NEW e
  PROVE  Hops(<<a, b, c, d, e>>) = {<<a, b>>, <<b, c>>, <<c, d>>, <<d, e>>}
<1> DEFINE p == <<a, b, c, d, e>>
<1>1. Len(p) = 5 /\ 1 .. 5 - 1 = {1, 2, 3, 4} /\ 1 + 1 = 2 /\ 2 + 1 = 3 /\ 3 + 1 = 4 /\ 4 + 1 = 5
  OBVIOUS
<1>2. p[1] = a /\ p[2] = b /\ p[3] = c /\ p[4] = d /\ p[5] = e
  OBVIOUS
<1> HIDE DEF p
<1> QED BY <1>1, <1>2 DEF Hops

\* BranchesOf takes the hops of all paths.
LEMMA BranchesAreHops ==
  ASSUME NEW paths
  PROVE  BranchesOf(paths) = UNION {Hops(p) : p \in paths}
BY DEF BranchesOf, Hops

\* The branches that init_shuffle_webhook writes down.
Links ==
  {<<"webhook", "normalize_inputs">>, <<"normalize_inputs", "build_case_json">>,
   <<"build_case_json", "thehive_create_case">>,
   <<"thehive_create_case", "thehive_obs_hash">>, <<"thehive_obs_hash", "verify_obs_hash">>,
   <<"verify_obs_hash", "calc_decision">>,
   <<"thehive_create_case", "thehive_obs_ip">>, <<"thehive_obs_ip", "verify_obs_ip">>,
   <<"verify_obs_ip", "calc_decision">>,
   <<"thehive_create_case", "calc_task_title">>, <<"calc_task_title", "thehive_add_task">>,
   <<"thehive_add_task", "verify_task">>, <<"verify_task", "calc_decision">>,
   <<"thehive_create_case", "cortex_hash">>, <<"cortex_hash", "verify_cortex_hash">>,
   <<"verify_cortex_hash", "calc_decision">>,
   <<"thehive_create_case", "cortex_ip">>, <<"cortex_ip", "verify_cortex_ip">>,
   <<"verify_cortex_ip", "calc_decision">>,
   <<"thehive_create_case", "misp_create">>, <<"misp_create", "misp_search">>,
   <<"misp_search", "verify_misp">>, <<"verify_misp", "calc_decision">>,
   <<"thehive_create_case", "build_es_json">>, <<"build_es_json", "es_index">>,
   <<"es_index", "verify_es">>, <<"verify_es", "calc_decision">>,
   <<"thehive_create_case", "tenzir_analyze">>, <<"tenzir_analyze", "tenzir_serve">>,
   <<"tenzir_serve", "verify_tenzir">>, <<"verify_tenzir", "calc_decision">>,
   <<"thehive_create_case", "network_watch">>, <<"network_watch", "verify_network">>,
   <<"verify_network", "calc_decision">>,
   <<"thehive_create_case", "loki_search">>, <<"loki_search", "verify_loki">>,
   <<"verify_loki", "calc_decision">>,
   <<"thehive_create_case", "redis_cache">>, <<"redis_cache", "verify_redis">>,
   <<"verify_redis", "calc_decision">>,
   <<"calc_decision", "containment">>, <<"containment", "update_inprogress">>,
   <<"update_inprogress", "notify_critical">>, <<"notify_critical", "calc_mttr">>,
   <<"calc_decision", "mark_false_positive">>, <<"mark_false_positive", "notify_info">>,
   <<"notify_info", "calc_mttr">>,
   <<"calc_mttr", "build_hive_summary">>, <<"build_hive_summary", "enrich_case">>,
   <<"enrich_case", "build_metrics_json">>, <<"build_metrics_json", "es_index_metrics">>}

\* Those of the secondary analyzers, available or not.
SecondaryLinks ==
  UNION {{<<"thehive_create_case", SecondaryNode[a]>>, <<SecondaryNode[a], "calc_decision">>} :
            a \in Secondary}

\* They are the branches along the paths.
LEMMA FixedBranches == BranchesOf(Paths) = Links \cup SecondaryLinks
<1> DEFINE
      p1 == <<"webhook", "normalize_inputs", "build_case_json", "thehive_create_case">>
      p2 == <<"thehive_create_case", "thehive_obs_hash", "verify_obs_hash", "calc_decision">>
      p3 == <<"thehive_create_case", "thehive_obs_ip", "verify_obs_ip", "calc_decision">>
      p4 == <<"thehive_create_case", "calc_task_title", "thehive_add_task", "verify_task",
            "calc_decision">>
      p5 == <<"thehive_create_case", "cortex_hash", "verify_cortex_hash", "calc_decision">>
      p6 == <<"thehive_create_case", "cortex_ip", "verify_cortex_ip", "calc_decision">>
      p7 == <<"thehive_create_case", "misp_create", "misp_search", "verify_misp",
            "calc_decision">>
      p8 == <<"thehive_create_case", "build_es_json", "es_index", "verify_es", "calc_decision">>
      p9 == <<"thehive_create_case", "tenzir_analyze", "tenzir_serve", "verify_tenzir",
            "calc_decision">>
      p10 == <<"thehive_create_case", "network_watch", "verify_network", "calc_decision">>
      p11 == <<"thehive_create_case", "loki_search", "verify_loki", "calc_decision">>
      p12 == <<"thehive_create_case", "redis_cache", "verify_redis", "calc_decision">>
      p13 == <<"calc_decision", "containment", "update_inprogress", "notify_critical",
            "calc_mttr">>
      p14 == <<"calc_decision", "mark_false_positive", "notify_info", "calc_mttr">>
      p15 == <<"calc_mttr", "build_hive_summary", "enrich_case", "build_metrics_json",
            "es_index_metrics">>
      q(a) == <<"thehive_create_case", SecondaryNode[a], "calc_decision">>
      P == {p1, p2, p3, p4, p5, p6, p7, p8, p9, p10, p11, p12, p13, p14, p15}
<1>1. Paths = P \cup {q(a) : a \in Secondary}
  BY DEF Paths, EnrichmentPaths, CachePath, ResponsePaths
<1>2. /\ Hops(p1) = {<<"webhook", "normalize_inputs">>, <<"normalize_inputs", "build_case_json">>,
              <<"build_case_json", "thehive_create_case">>}
      /\ Hops(p2) = {<<"thehive_create_case", "thehive_obs_hash">>,
              <<"thehive_obs_hash", "verify_obs_hash">>,
              <<"verify_obs_hash", "calc_decision">>}
      /\ Hops(p3) = {<<"thehive_create_case", "thehive_obs_ip">>,
              <<"thehive_obs_ip", "verify_obs_ip">>, <<"verify_obs_ip", "calc_decision">>}
      /\ Hops(p5) = {<<"thehive_create_case", "cortex_hash">>,
              <<"cortex_hash", "verify_cortex_hash">>,
              <<"verify_cortex_hash", "calc_decision">>}
      /\ Hops(p6) = {<<"thehive_create_case", "cortex_ip">>,
              <<"cortex_ip", "verify_cortex_ip">>, <<"verify_cortex_ip", "calc_decision">>}
      /\ Hops(p10) = {<<"thehive_create_case", "network_watch">>,
              <<"network_watch", "verify_network">>, <<"verify_network", "calc_decision">>}
      /\ Hops(p11) = {<<"thehive_create_case", "loki_search">>,
              <<"loki_search", "verify_loki">>, <<"verify_loki", "calc_decision">>}
      /\ Hops(p12) = {<<"thehive_create_case", "redis_cache">>,
              <<"redis_cache", "verify_redis">>, <<"verify_redis", "calc_decision">>}
      /\ Hops(p14) = {<<"calc_decision", "mark_false_positive">>,
              <<"mark_false_positive", "notify_info">>, <<"notify_info", "calc_mttr">>}
  BY HopsOf4
<1>3. /\ Hops(p4) = {<<"thehive_create_case", "calc_task_title">>,
              <<"calc_task_title", "thehive_add_task">>,
              <<"thehive_add_task", "verify_task">>, <<"verify_task", "calc_decision">>}
      /\ Hops(p7) = {<<"thehive_create_case", "misp_create">>,
              <<"misp_create", "misp_search">>, <<"misp_search", "verify_misp">>,
              <<"verify_misp", "calc_decision">>}
      /\ Hops(p8) = {<<"thehive_create_case", "build_es_json">>,
              <<"build_es_json", "es_index">>, <<"es_index", "verify_es">>,
              <<"verify_es", "calc_decision">>}
      /\ Hops(p9) = {<<"thehive_create_case", "tenzir_analyze">>,
              <<"tenzir_analyze", "tenzir_serve">>, <<"tenzir_serve", "verify_tenzir">>,
              <<"verify_tenzir", "calc_decision">>}
      /\ Hops(p13) = {<<"calc_decision", "containment">>,
              <<"containment", "update_inprogress">>,
              <<"update_inprogress", "notify_critical">>, <<"notify_critical", "calc_mttr">>}
      /\ Hops(p15) = {<<"calc_mttr", "build_hive_summary">>,
              <<"build_hive_summary", "enrich_case">>,
              <<"enrich_case", "build_metrics_json">>,
              <<"build_metrics_json", "es_index_metrics">>}
  BY HopsOf5
<1>4. \A a : Hops(q(a)) = {<<"thehive_create_case", SecondaryNode[a]>>,
                           <<SecondaryNode[a], "calc_decision">>}
  BY HopsOf3
<1> HIDE DEF p1, p2, p3, p4, p5, p6, p7, p8, p9, p10, p11, p12, p13, p14, p15, q
<1>5. UNION {Hops(p) : p \in P} = Links
  <2>1. UNION {Hops(p) : p \in P} =
          UNION {Hops(p1), Hops(p2), Hops(p3), Hops(p4), Hops(p5), Hops(p6), Hops(p7),
                  Hops(p8), Hops(p9), Hops(p10), Hops(p11), Hops(p12), Hops(p13), Hops(p14),
                  Hops(p15)}
    OBVIOUS
  <2> QED BY <1>2, <1>3, <2>1 DEF Links
<1> HIDE DEF P
<1>6. UNION {Hops(q(a)) : a \in Secondary} = SecondaryLinks
  BY <1>4 DEF SecondaryLinks
<1>7. BranchesOf(Paths) =
        (UNION {Hops(p) : p \in P}) \cup (UNION {Hops(q(a)) : a \in Secondary})
  BY <1>1, BranchesAreHops
<1> QED BY <1>5, <1>6, <1>7

\* How far down the playbook a node is: every branch leads to a deeper one.
Depth(n) ==
  CASE n = "webhook" -> 0
    [] n = "normalize_inputs" -> 1
    [] n = "build_case_json" -> 2
    [] n = "thehive_create_case" -> 3
    [] n \in {"verify_obs_hash", "verify_obs_ip", "thehive_add_task", "verify_cortex_hash",
              "verify_cortex_ip", "misp_search", "es_index", "tenzir_serve",
              "verify_network", "verify_loki", "verify_redis"} -> 5
    [] n \in {"verify_task", "verify_misp", "verify_es", "verify_tenzir"} -> 6
    [] n = "calc_decision" -> 7
    [] n \in {"containment", "mark_false_positive"} -> 8
    [] n \in {"update_inprogress", "notify_info"} -> 9
    [] n = "notify_critical" -> 10
    [] n = "calc_mttr" -> 11
    [] n = "build_hive_summary" -> 12
    [] n = "enrich_case" -> 13
    [] n = "build_metrics_json" -> 14
    [] n = "es_index_metrics" -> 15
    [] OTHER -> 4

Labels == {SecondaryNode[a] : a \in Secondary}

\* Sixteen depths.
LEMMA DepthType == \A n : Depth(n) \in 0 .. 15
BY DEF Depth

\* The secondary analyzers and their labels, listed.
LEMMA SecondaryLabels ==
  /\ Secondary = {"Virusshare", "DShield_lookup", "Mnemonic_pDNS", "GoogleDNS_resolve", "IP_API"}
  /\ Labels = {"cortex_hash_virusshare", "cortex_ip_dshield", "cortex_ip_mnemonic_pdns",
               "cortex_ip_googledns", "cortex_ip_ipapi"}
<1>1. Secondary = {"Virusshare", "DShield_lookup", "Mnemonic_pDNS", "GoogleDNS_resolve", "IP_API"}
  BY DEF Secondary, SecondaryNode
<1>2. {SecondaryNode[a] : a \in {"Virusshare", "DShield_lookup", "Mnemonic_pDNS", "GoogleDNS_resolve", "IP_API"}}
       = {"cortex_hash_virusshare", "cortex_ip_dshield", "cortex_ip_mnemonic_pdns",
               "cortex_ip_googledns", "cortex_ip_ipapi"}
  BY DEF SecondaryNode
<1> QED BY <1>1, <1>2 DEF Labels

\* Nodes of analyzers are below the case and above the decision.
LEMMA AnalyzerDepth ==
  /\ \A n \in Labels : Depth(n) = 4 /\ n \notin FixedNodes
  /\ \A a \in Catalog : Depth(DynamicNode(a)) = 4
<1>1. \A n \in Labels : Depth(n) = 4 /\ n \notin FixedNodes
  BY SecondaryLabels DEF Depth, FixedNodes
<1>2. \A n : n \notin FixedNodes => Depth(n) = 4
  BY DEF Depth, FixedNodes
<1> QED BY <1>1, <1>2, LabelsAssumption

\* Every branch goes down.
LEMMA LinksGoDown ==
  \A b \in Links : b[1] \in FixedNodes /\ b[2] \in FixedNodes /\ Depth(b[1]) < Depth(b[2])
BY DEF Links, FixedNodes, Depth

\* No node but the first is without a way in, no node but the last without a way out.
LEMMA LinksIn ==
  \A n \in FixedNodes \ {"webhook"} : \E b \in Links : b[2] = n
BY DEF Links, FixedNodes

\* So with the last.
LEMMA LinksOut ==
  \A n \in FixedNodes \ {"es_index_metrics"} : \E b \in Links : b[1] = n
BY DEF Links, FixedNodes

\* The branches of the deployed workflow: those of the nodes it has.
LEMMA DynamicHops ==
  DynamicBranches =
    UNION {{<<"thehive_create_case", DynamicNode(a)>>, <<DynamicNode(a), "calc_decision">>} :
             a \in wiring.dynamic}
<1> DEFINE q(a) == <<"thehive_create_case", DynamicNode(a), "calc_decision">>
<1>1. \A a : Hops(q(a)) = {<<"thehive_create_case", DynamicNode(a)>>,
                           <<DynamicNode(a), "calc_decision">>}
  BY HopsOf3
<1> HIDE DEF q
<1>2. DynamicBranches = UNION {Hops(p) : p \in {q(a) : a \in wiring.dynamic}}
  BY BranchesAreHops DEF DynamicBranches, q
<1>3. UNION {Hops(p) : p \in {q(a) : a \in wiring.dynamic}}
        = UNION {Hops(q(a)) : a \in wiring.dynamic}
  OBVIOUS
<1> QED BY <1>1, <1>2, <1>3

\* The nodes of the analyzers that are wired, and their branches.
Analyzers == {SecondaryNode[a] : a \in wiring.secondary}
             \cup {DynamicNode(a) : a \in wiring.dynamic}

AnalyzerBranches ==
  UNION {{<<"thehive_create_case", n>>, <<n, "calc_decision">>} : n \in Analyzers}

\* The deployed workflow.
LEMMA TheGraph ==
  ASSUME GraphTypeOK
  PROVE  Nodes = FixedNodes \cup Analyzers /\ Branches = Links \cup AnalyzerBranches
<1>1. wiring.secondary \subseteq Secondary /\ wiring.dynamic \subseteq Catalog
  BY DEF GraphTypeOK
<1>2. Nodes = FixedNodes \cup Analyzers
  BY DEF Nodes, Analyzers
<1>3. Unavailable \cap FixedNodes = {} /\ Unavailable \subseteq Labels
  BY <1>1, AnalyzerDepth DEF Unavailable, Labels
<1>4. \A b \in Links : b[1] \notin Unavailable /\ b[2] \notin Unavailable
  BY <1>3, LinksGoDown
<1>5. \A a \in Secondary : SecondaryNode[a] \in Unavailable <=> a \notin wiring.secondary
  <2>1. \A a, d \in Secondary : SecondaryNode[a] = SecondaryNode[d] => a = d
    BY SecondaryLabels DEF SecondaryNode
  <2> QED BY <1>1, <2>1 DEF Unavailable
<1>6. {"thehive_create_case", "calc_decision"} \cap Unavailable = {}
  BY <1>3 DEF FixedNodes
<1>7. {b \in Links \cup SecondaryLinks : b[1] \notin Unavailable /\ b[2] \notin Unavailable}
        = Links \cup UNION {{<<"thehive_create_case", SecondaryNode[a]>>,
                             <<SecondaryNode[a], "calc_decision">>} : a \in wiring.secondary}
  BY <1>1, <1>4, <1>5, <1>6 DEF SecondaryLinks
<1>8. AnalyzerBranches =
        (UNION {{<<"thehive_create_case", SecondaryNode[a]>>,
                 <<SecondaryNode[a], "calc_decision">>} : a \in wiring.secondary})
        \cup (UNION {{<<"thehive_create_case", DynamicNode(a)>>,
                     <<DynamicNode(a), "calc_decision">>} : a \in wiring.dynamic})
  BY DEF AnalyzerBranches, Analyzers
<1> QED
  BY <1>2, <1>7, <1>8, FixedBranches, DynamicHops DEF Branches, Paths

\* Its branches join its nodes and go down.
LEMMA BranchesGoDown ==
  ASSUME GraphTypeOK, NEW b \in Branches
  PROVE  b[1] \in Nodes /\ b[2] \in Nodes /\ Depth(b[1]) < Depth(b[2])
<1>1. CASE b \in Links
  BY <1>1, TheGraph, LinksGoDown
<1>2. CASE b \in AnalyzerBranches
  <2>1. PICK n \in Analyzers : b \in {<<"thehive_create_case", n>>, <<n, "calc_decision">>}
    BY <1>2 DEF AnalyzerBranches
  <2>2. Depth(n) = 4
    BY AnalyzerDepth DEF GraphTypeOK, Analyzers, Labels
  <2>3. Depth("thehive_create_case") = 3 /\ Depth("calc_decision") = 7
    BY DEF Depth
  <2>4. {"thehive_create_case", "calc_decision"} \subseteq FixedNodes
    BY DEF FixedNodes
  <2> QED BY <2>1, <2>2, <2>3, <2>4, TheGraph
<1> QED BY <1>1, <1>2, TheGraph

\* Only the first node has no way in.
LEMMA WaysIn ==
  ASSUME GraphTypeOK, NEW n \in Nodes \ {"webhook"}
  PROVE  \E b \in Branches : b[2] = n
<1>1. CASE n \in FixedNodes
  BY <1>1, TheGraph, LinksIn
<1>2. CASE n \in Analyzers
  <2>1. <<"thehive_create_case", n>> \in AnalyzerBranches
    BY <1>2 DEF AnalyzerBranches
  <2> QED BY <2>1, TheGraph
<1> QED BY <1>1, <1>2, TheGraph

\* Only the last one has no way out.
LEMMA WaysOut ==
  ASSUME GraphTypeOK, NEW n \in Nodes \ {"es_index_metrics"}
  PROVE  \E b \in Branches : b[1] = n
<1>1. CASE n \in FixedNodes
  BY <1>1, TheGraph, LinksOut
<1>2. CASE n \in Analyzers
  <2>1. <<n, "calc_decision">> \in AnalyzerBranches
    BY <1>2 DEF AnalyzerBranches
  <2> QED BY <2>1, TheGraph
<1> QED BY <1>1, <1>2, TheGraph

-----------------------------------------------------------------------------
LEMMA UnionFinite ==
  ASSUME NEW S, NEW T, IsFiniteSet(S), IsFiniteSet(T)
  PROVE  IsFiniteSet(S \cup T)
BY FS_Union

LEMMA FiniteFour == ASSUME NEW a, NEW b, NEW c, NEW d PROVE IsFiniteSet({a, b, c, d})
<1> DEFINE S == {a} \cup {b}
           T == {c} \cup {d}
<1>1. IsFiniteSet({a}) /\ IsFiniteSet({b}) /\ IsFiniteSet({c}) /\ IsFiniteSet({d})
  BY FS_Singleton
<1>2. IsFiniteSet(S) /\ IsFiniteSet(T)
  BY <1>1, UnionFinite
<1>3. {a, b, c, d} = S \cup T
  OBVIOUS
<1> HIDE DEF S, T
<1> QED BY <1>2, <1>3, UnionFinite

LEMMA FiniteEight ==
  ASSUME NEW a, NEW b, NEW c, NEW d, NEW e, NEW f, NEW g, NEW h
  PROVE  IsFiniteSet({a, b, c, d, e, f, g, h})
<1> DEFINE S == {a, b, c, d}
           T == {e, f, g, h}
<1>1. {a, b, c, d, e, f, g, h} = S \cup T
  OBVIOUS
<1>2. IsFiniteSet(S) /\ IsFiniteSet(T)
  BY FiniteFour
<1> HIDE DEF S, T
<1> QED BY <1>1, <1>2, UnionFinite

\* There are finitely many nodes.
LEMMA FiniteFixed == IsFiniteSet(FixedNodes) /\ IsFiniteSet(Labels)
<1> DEFINE a == {"webhook", "normalize_inputs", "build_case_json", "thehive_create_case",
               "calc_task_title", "thehive_obs_hash", "thehive_obs_ip", "thehive_add_task"}
           b == {"cortex_hash", "verify_cortex_hash", "cortex_ip", "verify_cortex_ip",
               "misp_create", "misp_search", "verify_misp", "build_es_json"}
           c == {"es_index", "verify_es", "verify_task", "verify_obs_hash",
               "verify_obs_ip", "calc_mttr", "build_hive_summary", "enrich_case"}
           d == {"build_metrics_json", "es_index_metrics", "tenzir_analyze", "tenzir_serve",
               "network_watch", "redis_cache", "loki_search", "verify_tenzir"}
           e == {"verify_network", "verify_redis", "verify_loki", "calc_decision",
               "containment", "update_inprogress", "notify_critical", "mark_false_positive"}
<1>1. FixedNodes = a \cup b \cup c \cup d \cup e \cup {"notify_info"}
  BY DEF FixedNodes
<1>2. IsFiniteSet(a) /\ IsFiniteSet(b) /\ IsFiniteSet(c) /\ IsFiniteSet(d) /\ IsFiniteSet(e)
  BY FiniteEight
<1> HIDE DEF a, b, c, d, e
<1>3. IsFiniteSet(FixedNodes)
  BY <1>1, <1>2, FS_Union, FS_AddElement
<1> DEFINE t == <<"cortex_hash_virusshare", "cortex_ip_dshield", "cortex_ip_mnemonic_pdns",
                  "cortex_ip_googledns", "cortex_ip_ipapi">>
<1>4. t \in Seq(Labels) /\ Len(t) = 5
  BY SecondaryLabels
<1>5. \A n \in Labels : \E i \in 1 .. 5 : t[i] = n
  BY SecondaryLabels
<1>6. IsFiniteSet(Labels)
  BY <1>4, <1>5 DEF IsFiniteSet
<1> QED BY <1>3, <1>6

\* So there are with those of the analyzers.
LEMMA FiniteNodes == GraphTypeOK => IsFiniteSet(Nodes)
<1> SUFFICES ASSUME GraphTypeOK PROVE IsFiniteSet(Nodes)
  OBVIOUS
<1>1. wiring.secondary \subseteq Secondary /\ wiring.dynamic \subseteq Catalog
  BY DEF GraphTypeOK
<1>2. IsFiniteSet(wiring.dynamic)
  BY <1>1, CatalogAssumption, FS_Subset DEF CatalogAssumption
<1> DEFINE W == wiring.dynamic
           T == {DynamicNode(a) : a \in W}
           f == [a \in W |-> DynamicNode(a)]
<1>3. f \in Surjection(W, T)
  BY DEF Surjection
<1> HIDE DEF W, f
<1>4. IsFiniteSet(T)
  <2>1. IsFiniteSet(W)
    BY <1>2 DEF W
  <2> HIDE DEF T
  <2> QED BY <1>3, <2>1, FS_Surjection
<1>5. IsFiniteSet({SecondaryNode[a] : a \in wiring.secondary})
  <2>1. {SecondaryNode[a] : a \in wiring.secondary} \subseteq Labels
    BY <1>1 DEF Labels
  <2> QED BY <2>1, FiniteFixed, FS_Subset
<1>6. Nodes = (FixedNodes \cup {SecondaryNode[a] : a \in wiring.secondary}) \cup T
  BY DEF Nodes, W
<1>7. IsFiniteSet(FixedNodes \cup {SecondaryNode[a] : a \in wiring.secondary})
  BY <1>5, FiniteFixed, FS_Union
<1> QED BY <1>4, <1>6, <1>7, FS_Union

\* There are more nodes than depths, so that walks as long as there are nodes reach all.
LEMMA ManyNodes ==
  ASSUME GraphTypeOK
  PROVE  Cardinality(Nodes) \in Nat /\ Cardinality(Nodes) > 15
<1>1. IsFiniteSet(Nodes)
  BY FiniteNodes
<1> DEFINE f == [n \in Nodes |-> Depth(n)]
           D == 0 .. 15
<1>2. f \in [Nodes -> D]
  BY DepthType
<1>3. \A d \in D : \E n \in Nodes : Depth(n) = d
  <2>1. /\ Depth("webhook") = 0 /\ Depth("normalize_inputs") = 1 /\ Depth("build_case_json") = 2
        /\ Depth("thehive_create_case") = 3 /\ Depth("cortex_hash") = 4
        /\ Depth("misp_search") = 5 /\ Depth("verify_misp") = 6 /\ Depth("calc_decision") = 7
        /\ Depth("containment") = 8 /\ Depth("notify_info") = 9 /\ Depth("notify_critical") = 10
        /\ Depth("calc_mttr") = 11 /\ Depth("build_hive_summary") = 12
        /\ Depth("enrich_case") = 13 /\ Depth("build_metrics_json") = 14
        /\ Depth("es_index_metrics") = 15
    BY DEF Depth
  <2>2. {"webhook", "normalize_inputs", "build_case_json", "thehive_create_case",
         "cortex_hash", "misp_search", "verify_misp", "calc_decision", "containment",
         "notify_info", "notify_critical", "calc_mttr", "build_hive_summary", "enrich_case",
         "build_metrics_json", "es_index_metrics"} \subseteq Nodes
    BY TheGraph DEF FixedNodes
  <2> HIDE DEF D
  <2>3. D = {0, 1, 2, 3, 4, 5, 6, 7, 8, 9, 10, 11, 12, 13, 14, 15}
    BY DEF D
  <2> QED BY <2>1, <2>2, <2>3
<1>4. f \in Surjection(Nodes, D)
  BY <1>2, <1>3 DEF Surjection
<1>5. Cardinality(D) = 16
  <2>1. 0 \in Int /\ 15 \in Int /\ ~(0 > 15) /\ 15 - 0 + 1 = 16
    OBVIOUS
  <2> QED BY <2>1, FS_Interval
<1> HIDE DEF f, D
<1>6. Cardinality(D) <= Cardinality(Nodes)
  BY <1>1, <1>4, FS_Surjection
<1>7. Cardinality(Nodes) \in Nat
  BY <1>1, FS_CardinalityType
<1> QED BY <1>5, <1>6, <1>7

\* What the recursion of UpstreamIn computes.
LEMMA UpstreamSteps ==
  ASSUME GraphTypeOK, NEW n \in Nodes
  PROVE  \E ups :
            /\ ups[0] = {n}
            /\ \A k \in 1 .. Cardinality(Nodes) :
                 ups[k] = ups[k - 1] \cup {b[1] : b \in {x \in Branches : x[2] \in ups[k - 1]}}
            /\ UpstreamIn(Branches, n) =
                 UNION {ParentsIn(Branches, m) : m \in ups[Cardinality(Nodes)]}
<1> DEFINE N == Cardinality(Nodes)
           V == SUBSET Nodes
           F == [S \in V |-> S \cup {b[1] : b \in {x \in Branches : x[2] \in S}}]
<1>1. N \in Nat
  BY ManyNodes
<1>2. F \in [V -> V] /\ {n} \in V
  BY BranchesGoDown
<1> HIDE DEF F, V
<1>3. PICK g : IsIteration(g, V, {n}, F, N)
  BY <1>1, <1>2, Iterates
<1>4. \A k \in 1 .. N : k - 1 \in 0 .. N /\ k # 0 /\ k \in 0 .. N
  BY <1>1
<1>5. \A k \in 1 .. N : g[k] = g[k - 1] \cup {b[1] : b \in {x \in Branches : x[2] \in g[k - 1]}}
  BY <1>3, <1>4 DEF F, IsIteration
<1> DEFINE Body(f) == [k \in 0 .. N |->
              IF k = 0 THEN {n}
              ELSE LET S == f[k - 1]
                   IN  S \cup {b[1] : b \in {x \in Branches : x[2] \in S}}]
           ups == CHOOSE f : f = Body(f)
<1>6. g = Body(g)
  <2>1. \A k \in 0 .. N : k # 0 => k \in 1 .. N
    BY <1>1
  <2>2. \A k \in 0 .. N : g[k] = Body(g)[k]
    BY <1>3, <1>5, <2>1 DEF IsIteration
  <2> QED BY <1>3, <2>2 DEF IsIteration
<1>7. ups = Body(ups)
  <2> HIDE DEF Body
  <2> QED BY <1>6
<1>8. UpstreamIn(Branches, n) = UNION {ParentsIn(Branches, m) : m \in ups[N]}
  BY DEF UpstreamIn
<1> HIDE DEF ups
<1>9. ups[0] = {n} /\ \A k \in 1 .. N :
           ups[k] = ups[k - 1] \cup {b[1] : b \in {x \in Branches : x[2] \in ups[k - 1]}}
  <2>1. 0 \in 0 .. N
    BY <1>1
  <2> QED BY <1>4, <1>7, <2>1
<1> QED BY <1>8, <1>9

\* What is upstream of a node: its parents, with every node their parents, and nothing but
\* nodes that a branch leaves.
LEMMA Upstream ==
  ASSUME GraphTypeOK, NEW n \in Nodes, NEW U, U = UpstreamIn(Branches, n)
  PROVE  /\ \A b \in Branches : b[2] \in U \cup {n} => b[1] \in U
         /\ \A u \in U : u \in Nodes /\ \E b \in Branches : b[1] = u
<1> DEFINE N == Cardinality(Nodes)
<1>1. N \in Nat /\ N > 15 /\ N \in 1 .. N /\ 0 \in 0 .. N
  BY ManyNodes
<1>2. PICK ups :
         /\ ups[0] = {n}
         /\ \A k \in 1 .. N :
              ups[k] = ups[k - 1] \cup {b[1] : b \in {x \in Branches : x[2] \in ups[k - 1]}}
         /\ U = UNION {ParentsIn(Branches, m) : m \in ups[N]}
  BY UpstreamSteps
<1> HIDE DEF N
<1> DEFINE P == {k \in Nat : k <= N => n \in ups[k]}
           Q == {k \in Nat : k <= N => \A m \in ups[k] :
                                       (k > 0 /\ m \in ups[k - 1]) \/ Depth(m) <= 15 - k}
<1>3. Nat \subseteq P
  <2>1. 0 \in P
    BY <1>2
  <2>2. ASSUME NEW k \in Nat, k \in P PROVE k + 1 \in P
    <3>1. k + 1 <= N => k + 1 \in 1 .. N /\ (k + 1) - 1 = k /\ k <= N
      BY <1>1
    <3> QED BY <1>2, <2>2, <3>1
  <2> HIDE DEF P
  <2> QED BY <2>1, <2>2, NatSetInduction
<1>4. Nat \subseteq Q
  <2>1. 0 \in Q
    <3>1. Depth(n) <= 15 - 0
      BY DepthType
    <3> QED BY <1>2, <3>1
  <2>2. ASSUME NEW k \in Nat, k \in Q PROVE k + 1 \in Q
    <3> SUFFICES ASSUME k + 1 <= N, NEW m \in ups[k + 1], m \notin ups[k]
                 PROVE  Depth(m) <= 15 - (k + 1)
      OBVIOUS
    <3>1. k + 1 \in 1 .. N /\ (k + 1) - 1 = k /\ k <= N
      BY <1>1
    <3>2. PICK b \in Branches : b[2] \in ups[k] /\ m = b[1]
      BY <1>2, <3>1
    <3>3. Depth(m) < Depth(b[2]) /\ Depth(m) \in Int /\ Depth(b[2]) \in Int
      BY <3>2, BranchesGoDown, DepthType
    <3>4. k > 0 => b[2] \notin ups[k - 1]
      <4>1. k > 0 => k \in 1 .. N
        BY <3>1, <1>1
      <4> QED BY <1>2, <3>2, <4>1
    <3>5. Depth(b[2]) <= 15 - k
      BY <2>2, <3>1, <3>2, <3>4
    <3> QED BY <3>3, <3>5
  <2> HIDE DEF Q
  <2> QED BY <2>1, <2>2, NatSetInduction
<1>5. n \in ups[N] /\ ups[N] \subseteq ups[N - 1]
  <2>1. n \in ups[N]
    BY <1>1, <1>3
  <2>2. \A m \in ups[N] : ~(Depth(m) <= 15 - N)
    BY <1>1, DepthType
  <2> QED BY <1>1, <1>4, <2>1, <2>2
<1>6. \A b \in Branches : b[2] \in ups[N] => b[1] \in ups[N]
  BY <1>1, <1>2, <1>5
<1>7. \A u : u \in U <=> \E b \in Branches : b[1] = u /\ b[2] \in ups[N]
  BY <1>2 DEF ParentsIn
<1>8. \A b \in Branches : b[2] \in U \cup {n} => b[1] \in U
  BY <1>5, <1>6, <1>7
<1> QED BY <1>7, <1>8, BranchesGoDown

\* What the recursion of RunningIn computes.
LEMMA RunningSteps ==
  ASSUME GraphTypeOK
  PROVE  \E ran :
            /\ ran[0] = {"webhook"}
            /\ \A k \in 1 .. Cardinality(Nodes) :
                 ran[k] = ran[k - 1] \cup
                          {n \in Nodes : /\ ParentsIn(Branches, n) # {}
                                         /\ ParentsIn(Branches, n) \subseteq ran[k - 1]}
            /\ RunningIn(Branches) = ran[Cardinality(Nodes)]
<1> DEFINE N == Cardinality(Nodes)
           V == SUBSET Nodes
           parents == [n \in Nodes |-> ParentsIn(Branches, n)]
           F == [S \in V |-> S \cup {n \in Nodes : parents[n] # {} /\ parents[n] \subseteq S}]
<1>1. N \in Nat
  BY ManyNodes
<1>2. F \in [V -> V] /\ {"webhook"} \in V
  <2>1. "webhook" \in Nodes
    BY TheGraph DEF FixedNodes
  <2> QED BY <2>1
<1> HIDE DEF F, V
<1>3. PICK g : IsIteration(g, V, {"webhook"}, F, N)
  BY <1>1, <1>2, Iterates
<1>4. \A k \in 1 .. N : k - 1 \in 0 .. N /\ k # 0 /\ k \in 0 .. N
  BY <1>1
<1> HIDE DEF parents
<1>5. \A k \in 1 .. N :
         g[k] = g[k - 1] \cup {n \in Nodes : parents[n] # {} /\ parents[n] \subseteq g[k - 1]}
  BY <1>3, <1>4 DEF F, IsIteration
<1> DEFINE Body(f) == [k \in 0 .. N |->
              IF k = 0 THEN {"webhook"}
              ELSE LET S == f[k - 1]
                   IN  S \cup {n \in Nodes : parents[n] # {} /\ parents[n] \subseteq S}]
           ran == CHOOSE f : f = Body(f)
<1>6. g = Body(g)
  <2>1. \A k \in 0 .. N : k # 0 => k \in 1 .. N
    BY <1>1
  <2>2. \A k \in 0 .. N : g[k] = Body(g)[k]
    BY <1>3, <1>5, <2>1 DEF IsIteration
  <2> QED BY <1>3, <2>2 DEF IsIteration
<1>7. ran = Body(ran)
  <2> HIDE DEF Body
  <2> QED BY <1>6
<1>8. RunningIn(Branches) = ran[N]
  BY DEF RunningIn, parents
<1> HIDE DEF ran
<1>9. ran[0] = {"webhook"} /\ \A k \in 1 .. N :
           ran[k] = ran[k - 1] \cup {n \in Nodes : parents[n] # {} /\ parents[n] \subseteq ran[k - 1]}
  <2>1. 0 \in 0 .. N
    BY <1>1
  <2> QED BY <1>4, <1>7, <2>1
<1>10. \A n \in Nodes : parents[n] = ParentsIn(Branches, n)
  BY DEF parents
<1> QED BY <1>8, <1>9, <1>10

\* Every node runs, those of depth k after k rounds at the latest.
LEMMA AllRun == GraphTypeOK => EveryNodeRuns
<1> SUFFICES ASSUME GraphTypeOK PROVE RunningIn(Branches) = Nodes
  BY DEF EveryNodeRuns
<1> DEFINE N == Cardinality(Nodes)
<1>1. N \in Nat /\ N > 15
  BY ManyNodes
<1>2. PICK ran :
         /\ ran[0] = {"webhook"}
         /\ \A k \in 1 .. N :
              ran[k] = ran[k - 1] \cup {n \in Nodes : /\ ParentsIn(Branches, n) # {}
                                                     /\ ParentsIn(Branches, n) \subseteq ran[k - 1]}
         /\ RunningIn(Branches) = ran[N]
  BY RunningSteps
<1> HIDE DEF N
<1> DEFINE P == {k \in Nat : k <= N => /\ ran[k] \subseteq Nodes
                                       /\ \A n \in Nodes : Depth(n) <= k => n \in ran[k]}
<1>3. 0 \in P
  <2>1. "webhook" \in Nodes
    BY TheGraph DEF FixedNodes
  <2>2. ASSUME NEW n \in Nodes, Depth(n) <= 0 PROVE n = "webhook"
    <3>1. n # "webhook" => \E b \in Branches : b[2] = n
      BY WaysIn
    <3>2. \A b \in Branches : b[2] = n => Depth(b[1]) < Depth(n)
      BY BranchesGoDown
    <3>3. \A m : Depth(m) >= 0 /\ Depth(m) \in Int
      BY DepthType
    <3> QED BY <2>2, <3>1, <3>2, <3>3
  <2> QED BY <1>2, <2>1, <2>2
<1>4. ASSUME NEW k \in Nat, k \in P PROVE k + 1 \in P
  <2> SUFFICES ASSUME k + 1 <= N
               PROVE  /\ ran[k + 1] \subseteq Nodes
                      /\ \A n \in Nodes : Depth(n) <= k + 1 => n \in ran[k + 1]
    OBVIOUS
  <2>1. k + 1 \in 1 .. N /\ (k + 1) - 1 = k /\ k <= N
    BY <1>1
  <2>2. ran[k] \subseteq Nodes /\ \A n \in Nodes : Depth(n) <= k => n \in ran[k]
    BY <1>4, <2>1
  <2>3. ran[k + 1] = ran[k] \cup {n \in Nodes : /\ ParentsIn(Branches, n) # {}
                                               /\ ParentsIn(Branches, n) \subseteq ran[k]}
    BY <1>2, <2>1
  <2>4. ASSUME NEW n \in Nodes, Depth(n) <= k + 1 PROVE n \in ran[k + 1]
    <3>1. CASE n = "webhook"
      <4>1. Depth(n) <= k
        BY <3>1 DEF Depth
      <4> QED BY <2>2, <2>3, <4>1
    <3>2. CASE n # "webhook"
      <4>1. ParentsIn(Branches, n) # {}
        BY <3>2, WaysIn DEF ParentsIn
      <4>2. ASSUME NEW m \in ParentsIn(Branches, n) PROVE m \in ran[k]
        <5>1. m \in Nodes /\ Depth(m) < Depth(n)
          BY <4>2, BranchesGoDown DEF ParentsIn
        <5>2. Depth(m) <= k
          BY <2>4, <5>1, DepthType
        <5> QED BY <2>2, <5>1, <5>2
      <4> QED BY <2>3, <4>1, <4>2
    <3> QED BY <3>1, <3>2
  <2> QED BY <2>2, <2>3, <2>4
<1>5. N \in P
  <2> HIDE DEF P
  <2> QED BY <1>1, <1>3, <1>4, NatSetInduction
<1>6. \A n : Depth(n) <= N
  BY <1>1, DepthType
<1>7. ran[N] \subseteq Nodes /\ \A n \in Nodes : n \in ran[N]
  BY <1>1, <1>5, <1>6
<1> QED BY <1>2, <1>7

\* The metrics wait for every node: each has a way out, which ends nowhere else.
LEMMA AllAwaited == GraphTypeOK => EveryNodeIsAwaited
<1> SUFFICES ASSUME GraphTypeOK
             PROVE  UpstreamIn(Branches, "es_index_metrics") = Nodes \ {"es_index_metrics"}
  BY DEF EveryNodeIsAwaited
<1> DEFINE e == "es_index_metrics"
<1>1. e \in Nodes /\ Depth(e) = 15
  BY TheGraph DEF FixedNodes, Depth
<1>2. PICK U : U = UpstreamIn(Branches, e)
  OBVIOUS
<1>3. /\ \A b \in Branches : b[2] \in U \cup {e} => b[1] \in U
      /\ \A u \in U : u \in Nodes /\ \E b \in Branches : b[1] = u
  BY <1>1, <1>2, Upstream
<1>4. e \notin U
  <2>1. \A b \in Branches : Depth(b[1]) < 15
    BY BranchesGoDown, DepthType
  <2> QED BY <1>1, <1>3, <2>1
<1>5. ASSUME NEW m \in Nodes \ (U \cup {e}) PROVE FALSE
  <2> DEFINE T == {15 - Depth(x) : x \in Nodes \ (U \cup {e})}
  <2>1. T \in SUBSET Nat /\ T # {}
    BY <1>5, DepthType
  <2> HIDE DEF T
  <2>2. PICK t \in T : \A k \in T : t <= k
    BY <2>1, Least
  <2>3. PICK x \in Nodes \ (U \cup {e}) : t = 15 - Depth(x)
    BY DEF T
  <2>4. PICK b \in Branches : b[1] = x
    BY <2>3, WaysOut
  <2>5. b[2] \in Nodes /\ Depth(x) < Depth(b[2])
    BY <2>4, BranchesGoDown
  <2>6. b[2] \notin U \cup {e}
    BY <1>3, <2>3, <2>4
  <2>7. 15 - Depth(b[2]) \in T
    BY <2>5, <2>6 DEF T
  <2>8. 15 - Depth(x) <= 15 - Depth(b[2])
    BY <2>2, <2>3, <2>7
  <2> QED BY <2>5, <2>8, DepthType
<1> QED BY <1>2, <1>3, <1>4, <1>5

\* U holds what n and the nodes of U wait for.
Closed(U, n) == \A b \in Branches : b[2] \in U \cup {n} => b[1] \in U

\* The meeting points of the playbook: whoever waits for one waits for what comes before it.
LEMMA MeetingPoints ==
  ASSUME GraphTypeOK, NEW n, NEW U, Closed(U, n)
  PROVE  /\ "thehive_create_case" \in U \cup {n} => {"normalize_inputs", "build_case_json"} \subseteq U
         /\ "calc_decision" \in U \cup {n} =>
              {"thehive_create_case", "cortex_hash", "cortex_ip", "misp_search", "tenzir_serve",
               "network_watch", "loki_search", "redis_cache"} \cup Analyzers \subseteq U
         /\ "calc_mttr" \in U \cup {n} => {"calc_decision", "containment"} \subseteq U
         /\ "build_metrics_json" \in U \cup {n} => {"build_hive_summary", "calc_mttr"} \subseteq U
<1>1. \A a, b : <<a, b>> \in Links /\ b \in U \cup {n} => a \in U
  BY TheGraph DEF Closed
<1>2. "thehive_create_case" \in U \cup {n} => {"normalize_inputs", "build_case_json"} \subseteq U
  <2>1. <<"normalize_inputs", "build_case_json">> \in Links
        /\ <<"build_case_json", "thehive_create_case">> \in Links
    BY DEF Links
  <2> QED BY <1>1, <2>1
<1>3. ASSUME "calc_decision" \in U \cup {n}
      PROVE  {"thehive_create_case", "cortex_hash", "cortex_ip", "misp_search", "tenzir_serve",
              "network_watch", "loki_search", "redis_cache"} \cup Analyzers \subseteq U
  <2>1. /\ <<"verify_cortex_hash", "calc_decision">> \in Links
        /\ <<"verify_cortex_ip", "calc_decision">> \in Links
        /\ <<"verify_misp", "calc_decision">> \in Links
        /\ <<"verify_tenzir", "calc_decision">> \in Links
        /\ <<"verify_network", "calc_decision">> \in Links
        /\ <<"verify_loki", "calc_decision">> \in Links
        /\ <<"verify_redis", "calc_decision">> \in Links
    BY DEF Links
  <2>2. /\ <<"cortex_hash", "verify_cortex_hash">> \in Links
        /\ <<"cortex_ip", "verify_cortex_ip">> \in Links
        /\ <<"misp_search", "verify_misp">> \in Links
        /\ <<"tenzir_serve", "verify_tenzir">> \in Links
        /\ <<"network_watch", "verify_network">> \in Links
        /\ <<"loki_search", "verify_loki">> \in Links
        /\ <<"redis_cache", "verify_redis">> \in Links
        /\ <<"thehive_create_case", "cortex_hash">> \in Links
    BY DEF Links
  <2>3. ASSUME NEW a \in Analyzers PROVE a \in U
    <3>1. <<a, "calc_decision">> \in Branches
      BY TheGraph DEF AnalyzerBranches
    <3> QED BY <1>3, <3>1 DEF Closed
  <2>4. {"cortex_hash", "cortex_ip", "misp_search", "tenzir_serve", "network_watch",
         "loki_search", "redis_cache"} \subseteq U
    BY <1>1, <1>3, <2>1, <2>2
  <2> QED BY <1>1, <2>2, <2>3, <2>4
<1>4. "calc_mttr" \in U \cup {n} => {"calc_decision", "containment"} \subseteq U
  <2>1. /\ <<"calc_decision", "containment">> \in Links
        /\ <<"containment", "update_inprogress">> \in Links
        /\ <<"update_inprogress", "notify_critical">> \in Links
        /\ <<"notify_critical", "calc_mttr">> \in Links
    BY DEF Links
  <2> QED BY <1>1, <2>1
<1>5. "build_metrics_json" \in U \cup {n} => {"build_hive_summary", "calc_mttr"} \subseteq U
  <2>1. /\ <<"calc_mttr", "build_hive_summary">> \in Links
        /\ <<"build_hive_summary", "enrich_case">> \in Links
        /\ <<"enrich_case", "build_metrics_json">> \in Links
    BY DEF Links
  <2> QED BY <1>1, <2>1
<1> QED BY <1>2, <1>3, <1>4, <1>5

\* Where the readers of each result are: behind it.
LEMMA AllReadsUpstream == GraphTypeOK => ReadsAreUpstream
<1> SUFFICES ASSUME GraphTypeOK, NEW n \in Nodes
             PROVE  /\ Reads(n) \cap Nodes \subseteq UpstreamIn(Branches, n)
                    /\ Reads(n) \subseteq Nodes \/ n \in ToleratesMissing
  BY DEF ReadsAreUpstream
<1>1. PICK U : U = UpstreamIn(Branches, n)
  OBVIOUS
<1>2. Closed(U, n)
  BY <1>1, Upstream DEF Closed
<1>3. \A a, b : <<a, b>> \in Links /\ b \in U \cup {n} => a \in U
  BY <1>2, TheGraph DEF Closed
<1>4. Nodes = FixedNodes \cup Analyzers
  BY TheGraph
<1>5. Reads(n) \subseteq Nodes \/ n \in ToleratesMissing
  <2>1. n \notin ToleratesMissing => Reads(n) \subseteq FixedNodes
    BY DEF ToleratesMissing, Reads, FixedNodes
  <2> QED BY <1>4, <2>1
<1>6. Reads(n) \cap Nodes \subseteq U
  <2>1. CASE n = "calc_decision"
    <3>1. Reads(n) \subseteq {"normalize_inputs", "cortex_hash", "cortex_ip", "misp_search",
                             "tenzir_serve", "network_watch", "loki_search"} \cup Labels
      BY <2>1, SecondaryLabels DEF Reads
    <3>2. Labels \cap Nodes \subseteq Analyzers
      BY <1>4, AnalyzerDepth
    <3> QED BY <1>2, <2>1, <3>1, <3>2, MeetingPoints
  <2>2. CASE n = "build_hive_summary"
    <3>1. Reads(n) \subseteq {"calc_decision", "calc_mttr", "cortex_hash", "cortex_ip",
              "misp_search", "tenzir_serve", "network_watch", "loki_search", "redis_cache"}
              \cup Labels
      BY <2>2, SecondaryLabels DEF Reads
    <3>2. Labels \cap Nodes \subseteq Analyzers
      BY <1>4, AnalyzerDepth
    <3>3. <<"calc_mttr", "build_hive_summary">> \in Links
      BY DEF Links
    <3>4. {"calc_mttr", "calc_decision"} \subseteq U
      BY <1>2, <1>3, <2>2, <3>3, MeetingPoints
    <3> QED BY <1>2, <3>1, <3>2, <3>4, MeetingPoints
  <2>3. CASE n = "build_metrics_json"
    <3>1. Reads(n) = {"normalize_inputs", "calc_mttr", "thehive_create_case", "cortex_hash",
                      "cortex_ip", "misp_search", "calc_decision", "containment"}
      BY <2>3 DEF Reads
    <3>2. {"calc_mttr", "calc_decision", "containment"} \subseteq U
      BY <1>2, <2>3, MeetingPoints
    <3> QED BY <1>2, <3>1, <3>2, MeetingPoints
  <2>4. CASE n \in {"containment", "update_inprogress", "mark_false_positive",
                    "notify_critical", "notify_info"}
    <3>1. Reads(n) = {"calc_decision", "thehive_create_case"}
      BY <2>4 DEF Reads
    <3>2. /\ <<"calc_decision", "containment">> \in Links
          /\ <<"containment", "update_inprogress">> \in Links
          /\ <<"update_inprogress", "notify_critical">> \in Links
          /\ <<"calc_decision", "mark_false_positive">> \in Links
          /\ <<"mark_false_positive", "notify_info">> \in Links
      BY DEF Links
    <3>3. "calc_decision" \in U
      BY <1>3, <2>4, <3>2
    <3> QED BY <1>2, <3>1, <3>3, MeetingPoints
  <2>5. CASE n \in {"build_case_json", "build_es_json", "calc_task_title", "calc_mttr"}
    <3>1. Reads(n) = {"normalize_inputs"}
      BY <2>5 DEF Reads
    <3>2. /\ <<"normalize_inputs", "build_case_json">> \in Links
          /\ <<"thehive_create_case", "build_es_json">> \in Links
          /\ <<"thehive_create_case", "calc_task_title">> \in Links
      BY DEF Links
    <3>3. n \in {"build_es_json", "calc_task_title", "calc_mttr"} => "thehive_create_case" \in U
      BY <1>2, <1>3, <3>2, MeetingPoints
    <3> QED BY <1>2, <1>3, <2>5, <3>1, <3>2, <3>3, MeetingPoints
  <2>6. CASE n = "enrich_case"
    <3>1. Reads(n) = {"thehive_create_case", "build_hive_summary"}
      BY <2>6 DEF Reads
    <3>2. /\ <<"calc_mttr", "build_hive_summary">> \in Links
          /\ <<"build_hive_summary", "enrich_case">> \in Links
      BY DEF Links
    <3>3. {"build_hive_summary", "calc_mttr"} \subseteq U
      BY <1>3, <2>6, <3>2
    <3> QED BY <1>2, <3>1, <3>3, MeetingPoints
  <2>7. CASE n = "thehive_add_task"
    <3>1. Reads(n) = {"thehive_create_case", "calc_task_title"}
      BY <2>7 DEF Reads
    <3>2. /\ <<"thehive_create_case", "calc_task_title">> \in Links
          /\ <<"calc_task_title", "thehive_add_task">> \in Links
      BY DEF Links
    <3> QED BY <1>3, <2>7, <3>1, <3>2
  <2>8. CASE n \notin {"calc_decision", "build_hive_summary", "build_metrics_json", "containment",
                       "update_inprogress", "mark_false_positive", "notify_critical",
                       "notify_info", "build_case_json", "build_es_json", "calc_task_title",
                       "calc_mttr", "enrich_case", "thehive_add_task"}
    <3>1. \A m \in Reads(n) : <<m, n>> \in Links
      BY <2>8 DEF Reads, Links
    <3> QED BY <1>3, <3>1
  <2> QED BY <2>1, <2>2, <2>3, <2>4, <2>5, <2>6, <2>7, <2>8
<1> QED BY <1>1, <1>5, <1>6

\* What one run of the setup does with the analyzers Cortex lists.
Offered(more, listed) ==
  LET hashes == Accepting(listed, "hash")
      ips    == Accepting(listed, "ip")
  IN  \E h \in Firsts(hashes), i \in Firsts(ips) :
         /\ enabled' = enabled \cup more
         /\ wiring' =
              [hash |-> Selected(hashes, h, "Hashdd_Status", "Virusshare", "Hashdd_Status"),
               ip   |-> Selected(ips, i, "IP_API", "DShield_lookup", "IP_API"),
               secondary |-> (hashes \cap {"Virusshare"})
                             \cup (ips \cap (Secondary \ {"Virusshare"})),
               dynamic |-> Dynamic(listed, {h, i})]

\* Whatever Cortex offers, what the setup wires are analyzers it has.
LEMMA GraphTypes == GraphSpec => []GraphTypeOK
<1>1. GraphInit => GraphTypeOK
  BY DEF GraphInit, GraphTypeOK, Names
<1>2. GraphTypeOK /\ [GraphNext]_graphVars => GraphTypeOK'
  <2> SUFFICES ASSUME GraphTypeOK, [GraphNext]_graphVars PROVE GraphTypeOK'
    OBVIOUS
  <2>1. \A S, wired : Dynamic(S, wired) \subseteq S
    BY DEF Dynamic
  <2>2. \A more \in Enabling : more \subseteq Catalog
    BY DEF Enabling
  <2>3. CASE Setup
    <3>1. PICK more \in Enabling : \E listed \in {enabled, enabled \cup more} : Offered(more, listed)
      BY <2>3 DEF Setup, Offered
    <3>a. PICK listed \in {enabled, enabled \cup more} : Offered(more, listed)
      BY <3>1
    <3> DEFINE hashes == Accepting(listed, "hash")
               ips == Accepting(listed, "ip")
    <3>2. listed \subseteq Catalog /\ enabled \cup more \subseteq Catalog
      BY <2>2 DEF GraphTypeOK
    <3>3. hashes \subseteq Catalog /\ ips \subseteq Catalog
      BY <3>2 DEF Accepting
    <3> HIDE DEF hashes, ips
    <3>4. PICK h \in Firsts(hashes), i \in Firsts(ips) :
            /\ enabled' = enabled \cup more
            /\ wiring' =
                 [hash |-> Selected(hashes, h, "Hashdd_Status", "Virusshare", "Hashdd_Status"),
                  ip   |-> Selected(ips, i, "IP_API", "DShield_lookup", "IP_API"),
                  secondary |-> (hashes \cap {"Virusshare"})
                                \cup (ips \cap (Secondary \ {"Virusshare"})),
                  dynamic |-> Dynamic(listed, {h, i})]
      BY <3>a DEF Offered, hashes, ips
    <3>5. Selected(hashes, h, "Hashdd_Status", "Virusshare", "Hashdd_Status") \in Names
      BY <3>3 DEF Selected, Firsts, Names
    <3>6. Selected(ips, i, "IP_API", "DShield_lookup", "IP_API") \in Names
      BY <3>3 DEF Selected, Firsts, Names
    <3>7. (hashes \cap {"Virusshare"}) \cup (ips \cap (Secondary \ {"Virusshare"}))
            \in SUBSET Secondary
      BY SecondaryLabels
    <3>8. Dynamic(listed, {h, i}) \in SUBSET Catalog
      BY <2>1, <3>2
    <3> QED BY <3>2, <3>4, <3>5, <3>6, <3>7, <3>8 DEF GraphTypeOK
  <2>4. CASE SetupInterrupted
    <3>1. PICK more \in Enabling, listed \in {{}, enabled} :
             /\ enabled' = enabled \cup more
             /\ wiring' = [hash |-> "Hashdd_Status", ip |-> "IP_API",
                           secondary |-> {}, dynamic |-> Dynamic(listed, {})]
      BY <2>4 DEF SetupInterrupted
    <3>2. Dynamic(listed, {}) \in SUBSET Catalog /\ enabled \cup more \subseteq Catalog
      BY <2>1, <2>2 DEF GraphTypeOK
    <3> QED BY <3>1, <3>2 DEF GraphTypeOK, Names
  <2>5. CASE UNCHANGED graphVars
    BY <2>5 DEF graphVars, GraphTypeOK
  <2> QED BY <2>3, <2>4, <2>5 DEF GraphNext
<1> QED BY <1>1, <1>2, PTL DEF GraphSpec

\* The setup may be run as often as one likes, whatever Cortex has and whether it answers or
\* not: no node of the workflow waits for ever.
THEOREM EveryWorkflowRuns == GraphSpec => []EveryNodeRuns
BY GraphTypes, AllRun, PTL

\* Nor does any node read a result that need not be there yet.
THEOREM EveryReadIsUpstream == GraphSpec => []ReadsAreUpstream
BY GraphTypes, AllReadsUpstream, PTL

\* Nor is the metrics document written before a node is through.
THEOREM EveryWorkflowIsAwaited == GraphSpec => []EveryNodeIsAwaited
BY GraphTypes, AllAwaited, PTL
================================================================================
