------------------------------- MODULE SetupRun -------------------------------
(***************************************************************************)
(* What the setup scripts of `make up` share: the place where the run is,  *)
(* the file .env.full that all of them read and write, and the environment *)
(* of the container soar_api, which is a copy of that file from the moment *)
(* the container was created and is out of date when a script changes it.  *)
(*                                                                         *)
(* Keys are numbers: a service accepts the last one that it issued.  A     *)
(* request, or a write to a file, fails at most MaxFaults times.  What a   *)
(* script goes on without is remembered in missed, told or untold.         *)
(***************************************************************************)
EXTENDS Integers

CONSTANTS
    MaxFaults,  \* requests and writes that fail
    MaxRuns     \* starts of a script or of `make up`

ASSUME MaxFaultsAssumption == MaxFaults \in Nat
ASSUME MaxRunsAssumption == MaxRuns \in Nat

VARIABLES
    pc,       \* the step of the setup that comes next, "idle" between runs
    plan,     \* "up" for `make up`, "solo" for one script run by hand
    attempt,  \* which attempt of a script that `make up` repeats
    runs,     \* runs started
    up,       \* whether the last run was a `make up` that succeeded
    faults,   \* failures so far
    missed,   \* failures of this run that a script went on after
    env,      \* .env.full
    box,      \* the environment of soar_api
    got,      \* the key or id that the script holds
    fresh     \* keys and ids issued so far

runVars == <<plan, attempt, runs, up>>
envVars == <<env, box>>
setupVars == <<pc, runVars, faults, missed, envVars, got, fresh>>

NoKey == 0
Secrets == {"thehive", "cortex", "shuffle", "token"}
Attempts == 3

Works == UNCHANGED faults
Fails == faults < MaxFaults /\ faults' = faults + 1

\* From one step to the next.
Step(from, to) == pc = from /\ pc' = to

\* The script that `make up` runs next; one run by hand is over.
Then(script) == IF plan = "up" THEN script ELSE "idle"

\* Plausible bug: the attempts are not counted.
ExitForever(from, again) ==
    /\ pc = from
    /\ pc' = IF plan = "up" /\ again # "idle" THEN again ELSE "idle"
    /\ UNCHANGED runVars

\* An error that ends the script: the repeated scripts are started again by
\* `make up`, every other ends the run.
Exit(from, again) ==
    /\ pc = from
    /\ pc' = IF plan = "up" /\ again # "idle" /\ attempt < Attempts
             THEN again ELSE "idle"
    /\ attempt' = IF pc' = "idle" THEN 1 ELSE attempt + 1
    /\ UNCHANGED <<plan, runs, up>>

\* A failure the script goes on after.
Shrugs(what) == Fails /\ missed' = missed \union {what}

\* Those that leave no warning and no error in the log: an error status nobody
\* looks at (read, users, sync, member, list, delete) or that is put into a line
\* of level info (template, index, branches, patch, environment, lab), a curl
\* without -f (hook), output thrown away (copy), an answer taken for an empty one
\* (mapping, analyzers).  A kind that is told when there was no answer at all, and
\* not after an error status, counts as untold.
Untold == {"template", "index", "mapping", "read", "users", "sync", "member", "list",
           "environment", "branches", "patch", "delete", "hook", "lab", "copy", "analyzers"}

Issue == fresh' = fresh + 1

\* generate_env_file: values that are there are kept, the others drawn.
GeneratedEnv ==
    [s \in Secrets |-> IF env[s] = NoKey THEN fresh + 1 ELSE env[s]]

\* save_env, update_env_file and the others: replace or append one line.
SetEnv(secret, value) == env' = [env EXCEPT ![secret] = value]

\* fetch_thehive_key, fetch_cortex_key: the file first, then the container.
ReadKey(secret) == IF env[secret] # NoKey THEN env[secret] ELSE box[secret]
===============================================================================
