---------------------------- MODULE ShuffleSession ----------------------------
(***************************************************************************)
(* The session of a ShuffleClient: its constructor starts a thread that    *)
(* asks Shuffle for something every 25 seconds until close() stops it, and *)
(* replaces a stale key by the one in Shuffle's database.  Meanwhile keys  *)
(* are issued, the setup rebuilds the index of users, and Shuffle forgets  *)
(* whom it had in its cache.                                               *)
(***************************************************************************)
EXTENDS Integers

CONSTANTS
  MaxKeys,     \* bound: keys that Shuffle issues
  MaxFaults    \* bound: requests that fail

ASSUME SessionAssumption == MaxKeys \in Nat \ {0} /\ MaxFaults \in Nat

VARIABLES
  stored,      \* the key in the index of users, NoKey while the user is not there
  kept,        \* the key the index had before it was deleted
  cached,      \* the key whose user Shuffle has in its cache
  issued,      \* keys issued so far
  seen,        \* keys Shuffle has accepted since the client was made, a history
  owner,       \* where the owner of the client is, "absent" when there is none
  header,      \* the key in the session's Authorization header
  org,         \* the session has an Org-Id header
  missed,      \* the real key was not asked for, or could not be read
  keepalive,   \* where the keepalive thread is
  stopped,     \* _keepalive_stop is set
  faults       \* requests that failed

shuffleVars == <<stored, kept, cached, issued, seen>>
clientVars == <<owner, header, org, missed>>
sessionVars == <<shuffleVars, clientVars, keepalive, stopped, faults>>

NoKey == 0
Keys == 1..MaxKeys

SessionInit ==
  /\ stored = 1 /\ kept = 1 /\ cached = NoKey /\ issued = 1 /\ seen = {}
  /\ owner \in {"absent", "new"} /\ header = NoKey /\ org = FALSE /\ missed = FALSE
  /\ keepalive = "none" /\ stopped = FALSE /\ faults = 0

Accepts(key) == key \in {stored, cached}

Fine == UNCHANGED faults
Fault == faults < MaxFaults /\ faults' = faults + 1

(* A request with the session's key has Shuffle read its user anew. *)
Warmed(key) == cached' = IF key = stored THEN key ELSE cached

-----------------------------------------------------------------------------
(* Shuffle and the setup (external). *)

Issue ==
  /\ issued < MaxKeys /\ stored # NoKey
  /\ issued' = issued + 1 /\ stored' = issued' /\ seen' = seen \cup {issued'}
  /\ UNCHANGED <<kept, cached, clientVars, keepalive, stopped, faults>>

(* _reindex_users deletes the index and fills it again. *)
DeleteIndex ==
  /\ stored # NoKey /\ kept' = stored /\ stored' = NoKey
  /\ UNCHANGED <<cached, issued, seen, clientVars, keepalive, stopped, faults>>

FillIndex ==
  /\ stored = NoKey /\ stored' = kept /\ seen' = seen \cup {kept}
  /\ UNCHANGED <<kept, cached, issued, clientVars, keepalive, stopped, faults>>

Forget ==
  /\ cached # NoKey /\ cached' = NoKey
  /\ UNCHANGED <<stored, kept, issued, seen, clientVars, keepalive, stopped, faults>>

-----------------------------------------------------------------------------
(* The constructor and warm_cache. *)

(* The key given may be any that was ever issued.  SOAR_SKIP_EAGER_INIT    *)
(* leaves the thread and the healing out.                                  *)
Construct ==
  /\ owner = "new" /\ header' \in 1..issued
  /\ \/ owner' = "org" /\ keepalive' = "wait" /\ UNCHANGED missed
     \/ owner' = "held" /\ missed' = TRUE /\ UNCHANGED keepalive
  /\ seen' = {stored, cached} \ {NoKey}
  /\ UNCHANGED <<stored, kept, cached, issued, org, stopped, faults>>

SetOrgIdHeader ==
  /\ owner = "org" /\ owner' = "probe"
  /\ \/ Fine /\ org' = (stored # NoKey)
     \/ Fault /\ UNCHANGED org
  /\ UNCHANGED <<shuffleVars, header, missed, keepalive, stopped>>

(* Mutant: any answer counts, a 401 among them. *)
ProbeAnswered ==
  /\ owner = "probe"
  /\ \/ Fine /\ owner' = "held"
     \/ Fault /\ owner' = "fetch"
  /\ UNCHANGED <<shuffleVars, header, org, missed, keepalive, stopped>>

Probe ==
  /\ owner = "probe"
  /\ \/ Fine /\ owner' = (IF Accepts(header) THEN "held" ELSE "fetch") /\ Warmed(header)
     \/ Fault /\ owner' = "fetch" /\ UNCHANGED cached
  /\ UNCHANGED <<stored, kept, issued, seen, header, org, missed, keepalive, stopped>>

FetchRealApikey ==
  /\ owner = "fetch" /\ owner' = "login"
  /\ \/ Fine /\ header' = (IF stored = NoKey THEN header ELSE stored)
             /\ missed' = (stored = NoKey)
     \/ Fault /\ missed' = TRUE /\ UNCHANGED header
  /\ UNCHANGED <<shuffleVars, org, keepalive, stopped>>

(* Without a password there is no login. *)
DoLogin ==
  /\ owner = "login" /\ owner' = "confirm"
  /\ \/ Fine /\ cached' \in {cached} \cup ({stored} \ {NoKey})
     \/ Fault /\ UNCHANGED cached
  /\ UNCHANGED <<stored, kept, issued, seen, header, org, missed, keepalive, stopped>>

(* What the confirmation says is only logged. *)
Confirm ==
  /\ owner = "confirm" /\ owner' = "held"
  /\ \/ Fine /\ Warmed(header)
     \/ Fault /\ UNCHANGED cached
  /\ UNCHANGED <<stored, kept, issued, seen, header, org, missed, keepalive, stopped>>

-----------------------------------------------------------------------------
(* close, and the end of a client whose owner forgets it: the thread's     *)
(* target is a method of the client, so there is nothing to collect, and   *)
(* no __del__, before the thread is over.                                  *)

Close ==
  /\ owner = "held" /\ stopped' = TRUE
  /\ owner' = IF keepalive = "none" THEN "closed" ELSE "join"
  /\ UNCHANGED <<shuffleVars, header, org, missed, keepalive, faults>>

(* The join waits for 5 seconds, and a request may take longer.            *)
AwaitKeepalive ==
  /\ owner = "join" /\ owner' = "closed"
  /\ UNCHANGED <<shuffleVars, header, org, missed, keepalive, stopped, faults>>

Drop ==
  /\ owner = "held" /\ owner' = "dropped"
  /\ UNCHANGED <<shuffleVars, header, org, missed, keepalive, stopped, faults>>

Collect ==
  /\ owner = "dropped" /\ keepalive = "none" /\ owner' = "closed" /\ stopped' = TRUE
  /\ UNCHANGED <<shuffleVars, header, org, missed, keepalive, faults>>

-----------------------------------------------------------------------------
(* keepalive_loop. *)

KeepaliveWakes ==
  /\ keepalive = "wait" /\ keepalive' = IF stopped THEN "over" ELSE "ping"
  /\ UNCHANGED <<shuffleVars, clientVars, stopped, faults>>

KeepalivePings ==
  /\ keepalive = "ping" /\ keepalive' = "wait"
  /\ \/ Fine /\ Warmed(header)
     \/ Fault /\ UNCHANGED cached
  /\ UNCHANGED <<stored, kept, issued, seen, clientVars, stopped>>

-----------------------------------------------------------------------------
Warming == SetOrgIdHeader \/ Probe \/ FetchRealApikey \/ DoLogin \/ Confirm
KeepaliveStep == KeepaliveWakes \/ KeepalivePings

(* Requests have time limits, the thread is scheduled, and a client that   *)
(* nothing refers to is collected; closing it is its owner's affair.       *)
SessionStep == Warming \/ AwaitKeepalive \/ Collect

SessionNext ==
  \/ Issue \/ DeleteIndex \/ FillIndex \/ Forget
  \/ Construct \/ Close \/ Drop \/ SessionStep
  \/ KeepaliveStep

-----------------------------------------------------------------------------
SessionTypeOK ==
  /\ {stored, cached, header} \subseteq Keys \cup {NoKey} /\ seen \subseteq Keys
  /\ kept \in Keys /\ issued \in Keys /\ faults \in 0..MaxFaults
  /\ owner \in {"absent", "new", "org", "probe", "fetch", "login", "confirm", "held",
                "join", "dropped", "closed"}
  /\ keepalive \in {"none", "wait", "ping", "over"}
  /\ org \in BOOLEAN /\ stopped \in BOOLEAN /\ missed \in BOOLEAN
===============================================================================
