-------------------------------- MODULE Backups --------------------------------
(***************************************************************************)
(* Backups of the project's base directory: BackupService over             *)
(* TarBackupDriver, FilesystemStorage and SubprocessRunner.  A request is  *)
(* served to its end by a handler that blocks the event loop; beside it    *)
(* the lab goes on changing files and a cleanup removes old archives.  An  *)
(* archive is named after the second in which the request came.  tar       *)
(* itself is modelled by its exit statuses and what it leaves: 1 when a    *)
(* file changed under it, 2 when it failed at a file or at the disk.  The  *)
(* file of metadata beside an archive is left out, since nothing reads it. *)
(***************************************************************************)
EXTENDS Integers, FiniteSets

CONSTANTS
    Files,        \* files of the base directory that tar does not exclude
    Versions,     \* contents a file can have
    Seconds,      \* seconds the clock shows: 1 .. Seconds
    MaxChanges    \* changes the lab makes to its files

ASSUME BackupsAssumption ==
    /\ 1 \in Versions /\ Versions \subseteq Nat \ {0} /\ Seconds \in Nat \ {0} /\ MaxChanges \in Nat

VARIABLES
    tree,       \* content of the base directory; Missing is a file that is not there
    changes,    \* changes the lab made
    clock,      \* the second the clock shows
    archives,   \* BACKUP_DIR
    request     \* the backup request that is being served, or the last answer

backupVars == <<tree, changes, clock, archives, request>>

Missing == 0
\* A file of which tar wrote a part before it was killed.
Torn == -1
Contents == [Files -> Versions \cup {Missing, Torn}]
Nothing == [f \in Files |-> Missing]

\* An archive: what it holds, whether tar came to its end, and whether the
\* file has any bytes.
Archives == [holds : Contents, whole : BOOLEAN, bytes : BOOLEAN]
NoArchive == [holds |-> Nothing, whole |-> FALSE, bytes |-> FALSE, none |-> TRUE]
Exists(n) == archives[n] # NoArchive

\* A request: where its handler is, which files tar still has to handle, the
\* return code of tar, the answer; and, for the properties, the files as they
\* were when it came and those the lab has changed since.
NoRequest == [op |-> "none", name |-> 1, at |-> "answered", left |-> {}, code |-> 0,
              answer |-> "none", held |-> Nothing, before |-> Nothing, touched |-> {}]
Idle == request.at = "answered"
At(op, where) == request.op = op /\ request.at = where
Goto(where) == request' = [request EXCEPT !.at = where]
Answer(a) == request' = [NoRequest EXCEPT !.answer = a]

Begin(op, n, where) ==
    request' = [NoRequest EXCEPT !.op = op, !.name = n, !.at = where, !.before = tree]

BackupsInit ==
    /\ tree = [f \in Files |-> 1]
    /\ changes = 0 /\ clock = 1
    /\ archives = [n \in 1..Seconds |-> NoArchive]
    /\ request = NoRequest

-----------------------------------------------------------------------------
(* SubprocessRunner.run: the outcome of tar, whose time limit and every    *)
(* other failure have the same return code.                                *)

Ended(code) == request' = [request EXCEPT !.at = "ended", !.left = {}, !.code = code]

\* tar cannot be started at all, or hangs before it has opened the archive.
CannotRun ==
    /\ request.at = "start" /\ Ended(-1)
    /\ UNCHANGED <<tree, changes, clock, archives>>

\* What a tar that is killed leaves: of an archive being written what was
\* written, which may be nothing, and of the file being extracted a part.
LeftBehind ==
    \/ /\ request.op = "create" /\ UNCHANGED tree
       /\ \E b \in BOOLEAN : archives' = [archives EXCEPT ![request.name].bytes = b]
    \/ /\ request.op = "restore" /\ UNCHANGED archives
       /\ \/ UNCHANGED tree
          \/ \E f \in request.left : tree[f] = Missing /\ tree' = [tree EXCEPT ![f] = Torn]

\* tar stops half way: at its time limit it is killed, which the runner tells
\* as -1; at a disk that is full it gives up itself, with status 2.
CutShortNever == FALSE
CutShort ==
    /\ request.at = "tar" /\ LeftBehind
    /\ \E code \in {-1, 2} : Ended(code)
    /\ UNCHANGED <<changes, clock>>

-----------------------------------------------------------------------------
(* BackupService.create and TarBackupDriver.create.                        *)

Create ==
    /\ Idle /\ Begin("create", clock, "start")
    /\ UNCHANGED <<tree, changes, clock, archives>>

\* tar truncates an archive of that name.
TarOpens ==
    /\ At("create", "start")
    /\ archives' = [archives EXCEPT ![request.name] =
                        [holds |-> Nothing, whole |-> FALSE, bytes |-> FALSE]]
    /\ request' = [request EXCEPT !.at = "tar", !.left = Files]
    /\ UNCHANGED <<tree, changes, clock>>

TarAdds(f) ==
    /\ At("create", "tar") /\ f \in request.left
    /\ archives' = [archives EXCEPT ![request.name].holds[f] = tree[f]]
    /\ request' = [request EXCEPT !.left = @ \ {f}]
    /\ UNCHANGED <<tree, changes, clock>>

\* A file that tar may not read, or fails to, is left out, and tar goes on.
TarSkips(f) ==
    /\ At("create", "tar") /\ f \in request.left /\ tree[f] # Missing
    /\ request' = [request EXCEPT !.left = @ \ {f}, !.code = 2]
    /\ UNCHANGED <<tree, changes, clock, archives>>

\* The return code is 1 when a file changed or went while tar read it, and 2
\* when tar failed to read one.
TarEnds ==
    /\ At("create", "tar") /\ request.left = {}
    /\ archives' = [archives EXCEPT ![request.name].whole = TRUE, ![request.name].bytes = TRUE]
    /\ \E code \in {request.code} \cup (IF request.touched = {} \/ request.code = 2
                                          THEN {} ELSE {1}) : Ended(code)
    /\ UNCHANGED <<tree, changes, clock>>

\* _archive_created
Created(n) == Exists(n) /\ archives[n].bytes

\* Whatever tar failed at counts for nothing when there is an archive.
AcceptedUnseen == TRUE
Accepted == request.code = 0 \/ Created(request.name)

CreateEnds ==
    /\ At("create", "ended")
    /\ IF Accepted THEN Goto("metadata") ELSE Answer("error")
    /\ UNCHANGED <<tree, changes, clock, archives>>

\* The size of the archive is asked for and the metadata written, to a file
\* that nothing reads.
StoreMetadata ==
    /\ At("create", "metadata")
    /\ (Exists(request.name) /\ Answer("success")) \/ Answer("error")
    /\ UNCHANGED <<tree, changes, clock, archives>>

-----------------------------------------------------------------------------
(* BackupService.restore and TarBackupDriver.extract.                      *)

Restore(n) ==
    /\ Idle
    /\ IF Exists(n)
         THEN Begin("restore", n, "start")
         ELSE Answer("error")
    /\ UNCHANGED <<tree, changes, clock, archives>>

\* tar opens the archive and reads on in it, whatever becomes of its name.
Extracts ==
    /\ At("restore", "start")
    /\ IF Exists(request.name)
         THEN request' = [request EXCEPT !.at = "tar", !.held = archives[request.name].holds,
                            !.left = {f \in Files :
                                        archives[request.name].holds[f] # Missing},
                            !.code = IF archives[request.name].whole THEN 0 ELSE 2]
         ELSE Ended(2)
    /\ UNCHANGED <<tree, changes, clock, archives>>

\* --skip-old-files: a file that is there is left as it is.
ExtractFile(f) ==
    /\ At("restore", "tar") /\ f \in request.left
    /\ tree' = IF tree[f] = Missing THEN [tree EXCEPT ![f] = request.held[f]] ELSE tree
    /\ request' = [request EXCEPT !.left = @ \ {f}]
    /\ UNCHANGED <<changes, clock, archives>>

ExtractEnds ==
    /\ At("restore", "tar") /\ request.left = {} /\ Ended(request.code)
    /\ UNCHANGED <<tree, changes, clock, archives>>

RefusedUnseen == FALSE
Refused == request.code # 0

RestoreEnds ==
    /\ At("restore", "ended")
    /\ IF Refused THEN Answer("error") ELSE Goto("log")
    /\ UNCHANGED <<tree, changes, clock, archives>>

LogRestore ==
    /\ At("restore", "log")
    /\ \E a \in {"success", "error"} : Answer(a)
    /\ UNCHANGED <<tree, changes, clock, archives>>

\* What the handler does, and what tar does meanwhile.
HandlerStep == CannotRun \/ CutShort \/ CreateEnds \/ StoreMetadata \/ RestoreEnds \/ LogRestore
TarStep ==
    \/ TarOpens \/ TarEnds \/ Extracts \/ ExtractEnds
    \/ \E f \in Files : TarAdds(f) \/ TarSkips(f) \/ ExtractFile(f)

-----------------------------------------------------------------------------
(* The rest of the lab.                                                    *)

Change(f) ==
    /\ changes < MaxChanges /\ changes' = changes + 1
    /\ \E v \in (Versions \cup {Missing}) \ {tree[f]} : tree' = [tree EXCEPT ![f] = v]
    /\ request' = IF Idle THEN request ELSE [request EXCEPT !.touched = @ \cup {f}]
    /\ UNCHANGED <<clock, archives>>

Tick ==
    /\ clock < Seconds /\ clock' = clock + 1
    /\ UNCHANGED <<tree, changes, archives, request>>

\* CleanupService.cleanup_old_artifacts: an archive older than the retention
\* goes, whoever is reading it; one that is being written is not old.  (The
\* service is written, but nothing of the product constructs it.)
Cleanup(n) ==
    /\ Exists(n) /\ n < clock /\ ~(request.op = "create" /\ ~Idle /\ request.name = n)
    /\ archives' = [archives EXCEPT ![n] = NoArchive]
    /\ UNCHANGED <<tree, changes, clock, request>>

LabStep == Tick \/ (\E f \in Files : Change(f)) \/ (\E n \in 1..Seconds : Cleanup(n))

-----------------------------------------------------------------------------

BackupsTypeOK ==
    /\ tree \in Contents /\ changes \in 0..MaxChanges /\ clock \in 1..Seconds
    /\ archives \in [1..Seconds -> Archives \cup {NoArchive}]
    /\ request.op \in {"none", "create", "restore"} /\ request.name \in 1..Seconds
    /\ request.at \in {"start", "tar", "ended", "metadata", "log", "answered"}
    /\ request.left \subseteq Files /\ request.touched \subseteq Files
    /\ request.code \in -1..2 /\ request.answer \in {"none", "success", "error"}
    /\ request.held \in Contents /\ request.before \in Contents
=============================================================================
