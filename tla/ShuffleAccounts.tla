---------------------------- MODULE ShuffleAccounts ----------------------------
(***************************************************************************)
(* es_fixes.py, fix_org_users.py, the session helpers of clients.py and    *)
(* update_env_from_webhook.py: the key of Shuffle's admin, of which the    *)
(* database has three copies (users, users_v2, organizations), .env.full   *)
(* one and the container's environment another.                            *)
(*                                                                         *)
(* One user and one organization stand for all of them, since every loop   *)
(* over the hits of a search treats each of them alike.                    *)
(***************************************************************************)
EXTENDS SetupRun

NoUser == -1     \* an index without the admin's document
NoIndex == -2

VARIABLES
    doc,      \* the apikey in users and users_v2, or NoUser or NoIndex
    keyword,  \* whether the index maps apikey.keyword
    member,   \* the apikey in the organization's entry of the admin
    linked,   \* whether that entry names the admin
    bearer,   \* the Bearer token of the session, NoKey without
    read,     \* the documents _reindex_users holds
    pass,     \* 1 or 2: the mapping is fixed twice, the keys are synced up to twice
    osenv,    \* SHUFFLE_DEFAULT_APIKEY in the script's own environment
    torn      \* whether a reindex or a sync was cut short or lost a request

accVars == <<doc, keyword, member, linked, bearer, read, pass, osenv, torn>>

Indices == {"users", "users_v2"}
Mapped(i) == doc[i] # NoIndex /\ keyword[i]

\* The document of the users index that a search by id or name finds.
Admin == IF doc["users"] >= NoKey THEN doc["users"] ELSE NoKey

-----------------------------------------------------------------------------
(* clients.py *)

\* create_shuffle_session: the login answers with the key of the document, or
\* without; wait_for_shuffle_ready belongs to it.
Login ==
    /\ \/ /\ Step("login", "users_map") /\ Works /\ doc["users"] > NoKey
          /\ bearer' \in {NoKey, doc["users"]}
          /\ osenv' = IF box["shuffle"] # NoKey THEN box["shuffle"] ELSE env["shuffle"]
          /\ pass' = 1
          /\ UNCHANGED runVars
       \/ /\ Exit("login", "login")
          /\ IF doc["users"] > NoKey THEN Fails ELSE Works
          /\ UNCHANGED <<bearer, pass, osenv>>
    /\ UNCHANGED <<missed, envVars, got, fresh, doc, keyword, member, linked, read, torn>>

\* validate_api_key: a token that passes the probe is kept (the session's
\* cookie may pass it in the token's place), else a new key is drawn.
ValidateKey ==
    /\ \/ /\ Step("validate", "sync_file") /\ Works /\ bearer # NoKey
          /\ got' = bearer
          /\ UNCHANGED <<runVars, doc, bearer, fresh>>
       \/ /\ Step("validate", "sync_file")
          /\ IF bearer = NoKey \/ bearer # doc["users"] THEN Works ELSE Fails
          /\ got' = fresh + 1 /\ Issue /\ bearer' = fresh + 1
          /\ doc' = [i \in Indices |-> IF doc[i] >= NoKey THEN fresh + 1 ELSE doc[i]]
          /\ UNCHANGED runVars
       \/ /\ Exit("validate", "login") /\ Fails
          /\ UNCHANGED <<got, fresh, bearer, doc>>
    /\ pass' = 2
    /\ UNCHANGED <<missed, envVars, keyword, member, linked, read, osenv, torn>>

\* Step 3b of init_shuffle_webhook: a key that the environment does not know
\* goes to .env.full and then back to the database.
SyncFile ==
    /\ pc = "sync_file" /\ Works
    /\ IF got # osenv
         THEN /\ SetEnv("shuffle", got) /\ osenv' = got
              /\ pc' = "sync_v2"
         ELSE UNCHANGED <<env, osenv>> /\ pc' = "keys"
    /\ got' = NoKey
    /\ UNCHANGED <<runVars, missed, box, fresh, doc, keyword, member, linked, bearer,
                   read, pass, torn>>

-----------------------------------------------------------------------------
(* fix_es_users_mapping, called before the keys are compared and again      *)
(* before the workflow is created                                           *)

\* Plausible bug: the documents are read under another index's name.
ReindexReadNothing(i, from, to, past) ==
    /\ Works /\ UNCHANGED <<torn, missed>>
    /\ pc = from /\ pc' = IF Mapped(i) THEN past ELSE to
    /\ read' = NoUser
    /\ UNCHANGED <<runVars, envVars, got, fresh, doc, keyword, member, linked, bearer,
                   pass, osenv>>

\* _reindex_users: read the documents, delete the index, create it anew with
\* the right mapping and put the documents back.  A mapping that cannot be read
\* counts as a wrong one, and documents that cannot be read as none.
ReindexRead(i, from, to, past) ==
    /\ \/ /\ Works /\ UNCHANGED <<torn, missed>>
          /\ pc = from /\ pc' = IF Mapped(i) THEN past ELSE to
          /\ read' = IF Mapped(i) THEN NoUser ELSE doc[i]
       \/ Step(from, to) /\ Shrugs("mapping") /\ read' = doc[i] /\ UNCHANGED torn
       \/ /\ Step(from, to) /\ ~Mapped(i) /\ Shrugs("read")
          /\ read' = NoUser /\ torn' = TRUE
    /\ UNCHANGED <<runVars, envVars, got, fresh, doc, keyword, member, linked, bearer,
                   pass, osenv>>

\* The status is not looked at: an index that is still there cannot be created,
\* which is logged.
ReindexDelete(i, from, to, past) ==
    /\ \/ /\ Step(from, to) /\ Works
          /\ doc' = [doc EXCEPT ![i] = NoIndex]
          /\ UNCHANGED <<runVars, missed, read, torn>>
       \/ /\ Step(from, past) /\ doc[i] # NoIndex /\ Shrugs("drop")
          /\ read' = NoUser
          /\ UNCHANGED <<runVars, doc, torn>>
       \/ /\ Exit(from, "login") /\ Fails
          /\ doc' \in {doc, [doc EXCEPT ![i] = NoIndex]}
          /\ torn' = TRUE
          /\ UNCHANGED <<missed, read>>
    /\ UNCHANGED <<envVars, got, fresh, keyword, member, linked, bearer, pass, osenv>>

\* The new index, then the documents one by one; an error status ends this
\* index, no answer the script.
ReindexInsert(i, from, to) ==
    /\ \/ /\ Step(from, to) /\ Works
          /\ doc' = [doc EXCEPT ![i] = IF read = NoIndex THEN NoUser ELSE read]
          /\ keyword' = [keyword EXCEPT ![i] = TRUE]
          /\ UNCHANGED <<runVars, torn, missed>>
       \/ /\ \/ Step(from, to) /\ Shrugs("insert") /\ UNCHANGED runVars
             \/ Exit(from, "login") /\ Fails /\ UNCHANGED missed
          /\ \/ UNCHANGED <<doc, keyword>>
             \/ /\ doc' = [doc EXCEPT ![i] = NoUser]
                /\ keyword' = [keyword EXCEPT ![i] = TRUE]
          /\ torn' = TRUE
    /\ read' = NoUser
    /\ UNCHANGED <<envVars, got, fresh, member, linked, bearer, pass, osenv>>

\* users_v2 without a document gets those of users.  An error status counts as
\* an index without documents, and as a copy that was made; no answer ends the
\* script.
CopyUsers(from, to) ==
    LET copied == IF doc["users"] >= NoKey
                  THEN [doc EXCEPT !["users_v2"] = doc["users"]] ELSE doc
    IN
    /\ \/ /\ Step(from, to) /\ Works /\ UNCHANGED <<runVars, missed>>
          /\ doc' = IF doc["users_v2"] = NoUser THEN copied ELSE doc
       \/ /\ Step(from, to) /\ Shrugs("users") /\ UNCHANGED runVars
          /\ doc' \in {doc, copied}
       \/ /\ Exit(from, "login") /\ Fails /\ UNCHANGED missed
          /\ doc' \in {doc, IF doc["users_v2"] = NoUser THEN copied ELSE doc}
    /\ UNCHANGED <<envVars, got, fresh, keyword, member, linked, bearer, read, pass,
                   osenv, torn>>

\* The entries of the organizations get the keys of users.
CopyMember(from, to) ==
    /\ Step(from, to)
    /\ \/ /\ Works /\ UNCHANGED missed
          /\ member' = IF linked /\ Admin # NoKey THEN Admin ELSE member
       \/ Shrugs("member") /\ UNCHANGED member
    /\ UNCHANGED <<runVars, envVars, got, fresh, doc, keyword, linked, bearer, read,
                   pass, osenv, torn>>

\* Without an answer from the database for a minute all of it is left out.
FixUsersMapping ==
    LET after == IF pass = 1 THEN "sync_v2" ELSE "create" IN
    \/ /\ Step("users_map", after) /\ Shrugs("es")
       /\ UNCHANGED <<runVars, envVars, got, fresh, accVars>>
    \/ ReindexRead("users", "users_map", "users_delete", "v2_map")
    \/ ReindexDelete("users", "users_delete", "users_insert", "v2_map")
    \/ ReindexInsert("users", "users_insert", "v2_map")
    \/ ReindexRead("users_v2", "v2_map", "v2_delete", "copy")
    \/ ReindexDelete("users_v2", "v2_delete", "v2_insert", "copy_member")
    \/ ReindexInsert("users_v2", "v2_insert", "copy_member")
    \/ CopyUsers("copy", "copy_member")
    \/ CopyMember("copy_member", after)

-----------------------------------------------------------------------------
(* sync_apikey: one request per copy *)

AfterSync == IF pass = 1 THEN "validate" ELSE "keys"

\* users_v2 tells whether the document of users is written too.  Without an
\* answer to the search the sync is left out, an error status counts as no
\* users; the answers to the updates are not looked at, and no answer ends the
\* script.
SyncV2 ==
    /\ \/ /\ pc = "sync_v2" /\ Works /\ UNCHANGED <<runVars, missed, torn>>
          /\ IF doc["users_v2"] >= NoKey /\ doc["users_v2"] # osenv
               THEN pc' = "sync_users" /\ doc' = [doc EXCEPT !["users_v2"] = osenv]
               ELSE pc' = "sync_member" /\ UNCHANGED doc
       \/ Step("sync_v2", AfterSync) /\ Shrugs("sync") /\ UNCHANGED <<runVars, doc, torn>>
       \/ Step("sync_v2", "sync_member") /\ Shrugs("sync") /\ UNCHANGED <<runVars, doc, torn>>
       \/ /\ Step("sync_v2", "sync_users") /\ Shrugs("sync")
          /\ doc["users_v2"] >= NoKey /\ doc["users_v2"] # osenv
          /\ UNCHANGED <<runVars, doc, torn>>
       \/ /\ Exit("sync_v2", "login") /\ Fails /\ torn' = TRUE /\ UNCHANGED missed
          /\ doc' = [doc EXCEPT !["users_v2"] = IF @ >= NoKey THEN osenv ELSE @]
    /\ UNCHANGED <<envVars, got, fresh, keyword, member, linked, bearer, read, pass,
                   osenv>>

SyncUsers ==
    /\ \/ /\ Step("sync_users", "sync_member") /\ Works
          /\ doc' = IF doc["users"] >= NoKey THEN [doc EXCEPT !["users"] = osenv] ELSE doc
          /\ UNCHANGED <<runVars, missed, torn>>
       \/ /\ Step("sync_users", "sync_member") /\ Shrugs("sync")
          /\ UNCHANGED <<runVars, doc, torn>>
       \/ /\ Exit("sync_users", "login") /\ Fails /\ torn' = TRUE
          /\ UNCHANGED <<doc, missed>>
    /\ UNCHANGED <<envVars, got, fresh, keyword, member, linked, bearer, read, pass,
                   osenv>>

SyncMember ==
    /\ Step("sync_member", AfterSync)
    /\ \/ Works /\ member' = osenv /\ UNCHANGED missed
       \/ Shrugs("member") /\ UNCHANGED member
    /\ UNCHANGED <<runVars, envVars, got, fresh, doc, keyword, linked, bearer, read,
                   pass, osenv, torn>>

-----------------------------------------------------------------------------
(* fix_org_users.py and update_env_from_webhook.py *)

\* An entry that lacks its id, its name or its key becomes the admin's.
FixOrgUsers(from, to) ==
    /\ Step(from, to)
    /\ \/ /\ Works /\ UNCHANGED missed
          /\ IF (~linked \/ member = NoKey) /\ doc["users"] >= NoKey
               THEN linked' = TRUE /\ member' = Admin
               ELSE UNCHANGED <<linked, member>>
       \/ Shrugs("member") /\ UNCHANGED <<linked, member>>
    /\ UNCHANGED <<runVars, envVars, got, fresh, doc, keyword, bearer, read, pass, osenv,
                   torn>>

\* The key of the first document of users goes to .env.full; a file that cannot
\* be written ends the run.
UpdateEnv ==
    /\ \/ /\ Step("update_env", "rewrite") /\ Works /\ UNCHANGED <<runVars, missed>>
          /\ IF Admin # NoKey THEN SetEnv("shuffle", Admin) ELSE UNCHANGED env
       \/ /\ Step("update_env", "rewrite") /\ Shrugs("update")
          /\ UNCHANGED <<runVars, env>>
       \/ Exit("update_env", "idle") /\ Fails /\ UNCHANGED <<env, missed>>
    /\ UNCHANGED <<box, got, fresh, accVars>>

-----------------------------------------------------------------------------

ShuffleAccountsNext ==
    \/ Login \/ FixUsersMapping \/ SyncV2 \/ SyncUsers \/ SyncMember
    \/ ValidateKey \/ SyncFile
    \/ FixOrgUsers("fix_org", "users_map") \/ FixOrgUsers("org_again", "show")
    \/ UpdateEnv

\* A fresh Shuffle makes its admin with the key of the environment it was
\* started with; whether its first write maps apikey.keyword is Shuffle's affair.
FreshShuffle(k) ==
    /\ doc' = [doc EXCEPT !["users"] = k, !["users_v2"] = NoIndex]
    /\ \E b \in BOOLEAN : keyword' = [i \in Indices |-> b]
    /\ member' = NoKey /\ linked' \in BOOLEAN
    /\ torn' = FALSE

ShuffleAccountsInit ==
    /\ doc = [i \in Indices |-> NoIndex]
    /\ keyword = [i \in Indices |-> FALSE]
    /\ member = NoKey /\ linked = FALSE
    /\ bearer = NoKey /\ read = NoUser /\ pass = 1 /\ osenv = NoKey /\ torn = FALSE
===============================================================================
