------------------------------- MODULE ApiServer -------------------------------
(***************************************************************************)
(* The process of the management API: one event loop, on which the         *)
(* websocket coroutines take turns at their awaits and a backup request    *)
(* is served without one, so that nothing else is served until tar is      *)
(* over.  At most MaxRequests requests come in all.                        *)
(***************************************************************************)
EXTENDS Backups, LiveLogs

CONSTANT MaxRequests

VARIABLE requests   \* requests that came

vars == <<backupVars, liveVars, requests>>

Init == BackupsInit /\ LiveLogsInit /\ requests = 0

-----------------------------------------------------------------------------

\* A request is taken when the loop is free.
Come ==
    /\ Idle /\ requests < MaxRequests /\ requests' = requests + 1
    /\ \/ (Create \/ \E n \in 1..Seconds : Restore(n)) /\ UNCHANGED liveVars
       \/ ((\E c \in Clients : Open(c)) \/ Broadcast) /\ UNCHANGED backupVars

\* The handler of a backup goes on to its end, and the tar it waits for.
Handle == HandlerStep /\ UNCHANGED <<liveVars, requests>>
Tar == TarStep /\ UNCHANGED <<liveVars, requests>>

\* A coroutine runs to its next await.
Turn == Idle /\ LoopStep /\ UNCHANGED <<backupVars, requests>>

Others ==
    /\ UNCHANGED requests
    /\ \/ LabStep /\ UNCHANGED liveVars
       \/ (\E c \in Clients : Leave(c)) /\ UNCHANGED backupVars

Next == Come \/ Handle \/ Tar \/ Turn \/ Others

\* tar may hang, but its time limit, a step of the handler, comes.  A coroutine
\* gets its turn, a send to a client that does not answer being ended by the
\* server's ping.
Fairness == WF_vars(Handle) /\ WF_vars(Turn)

Spec == Init /\ [][Next]_vars /\ Fairness

-----------------------------------------------------------------------------
(* Properties.                                                             *)

TypeOK ==
    /\ BackupsTypeOK /\ LiveLogsTypeOK
    /\ requests \in 0..MaxRequests

\* A restore that is about to be reported as done has left every file that was
\* there as it was, and brought back every other file of the archive, whatever
\* the lab's cleanup did to the archive meanwhile (tar_backup_driver.py:69,
\* backup_service.py:105).
RestoreAddsWhatIsMissing ==
    At("restore", "log") =>
        \A f \in Files \ request.touched :
            tree[f] = IF request.before[f] # Missing THEN request.before[f] ELSE request.held[f]

\* A backup that is reported as made has an archive with something in it; and
\* when tar told of no more than files that changed under it (status 0 or 1),
\* the archive is whole and holds every file that nobody changed meanwhile.
\* With any other status, which the driver forgives as well (a file it could
\* not read, a full disk, the time limit), files that were there all the time
\* may be missing from a backup that is reported (tar_backup_driver.py:63).
ReportedBackupIsThere ==
    [][At("create", "metadata") /\ request'.answer = "success" =>
         /\ Created(request.name)
         /\ request.code \in {0, 1} =>
              /\ archives[request.name].whole
              /\ \A f \in Files \ request.touched :
                     archives[request.name].holds[f] = request.before[f]]_vars

\* A broadcast that comes to its end misses no more of those that were
\* connected when it began, and still are, than connections were removed under
\* it, and sends to no connection twice (websocket_manager.py:46).
MissesAreRemovals ==
    cast.at = "done" =>
        /\ Cardinality((cast.start \cap ToSet(active)) \ ToSet(cast.sent)) <= cast.removals
        /\ IsInjective(cast.sent)

\* The loop is free again after every request: nothing a tar does holds up the
\* connections for good, and a broadcast ends (subprocess_runner.py:89).
LoopGetsFree == (~Idle \/ Casting) ~> (Idle /\ ~Casting)

=============================================================================
