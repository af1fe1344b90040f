---------------------------- MODULE ApiServerProofs ----------------------------
(***************************************************************************)
(* Proofs about ApiServer, for any files and versions, any number of       *)
(* requests, of changes the lab makes meanwhile, of archives and clients:  *)
(* what a restore that is reported as done has done to the files, what a   *)
(* backup that is reported as made holds, whom a broadcast misses, and     *)
(* that neither a backup nor a broadcast goes on for ever.                 *)
(***************************************************************************)
EXTENDS ApiServer, FiniteSetTheorems, SequenceTheorems, TLAPS

Records == [op : {"none", "create", "restore"}, name : 1..Seconds,
            at : {"start", "tar", "ended", "metadata", "log", "answered"},
            left : SUBSET Files, code : -1..2, answer : {"none", "success", "error"},
            held : Contents, before : Contents, touched : SUBSET Files]

Typed ==
  /\ tree \in Contents /\ clock \in 1..Seconds /\ request \in Records
  /\ archives \in [1..Seconds -> Archives \cup {NoArchive}]

(* Where a request can be; nothing is answered before its end.             *)
Places ==
  /\ request.op = "none" => Idle
  /\ request.op = "create" => request.at \in {"start", "tar", "ended", "metadata"}
  /\ request.op = "restore" => request.at \in {"start", "tar", "ended", "log"}
  /\ request.op # "none" => request.answer = "none"
  /\ request.at \in {"ended", "metadata", "log"} => request.left = {}

(* What a restore has done so far to a file nobody else touched: the files *)
(* that were there are as they were, and of the others those are back that *)
(* tar has handled.                                                        *)
Restored(f) ==
  tree[f] = IF request.before[f] # Missing THEN request.before[f]
            ELSE IF f \in request.left THEN Missing ELSE request.held[f]

Restoring ==
  request.op = "restore" =>
    /\ request.at = "start" => \A f \in Files \ request.touched : tree[f] = request.before[f]
    /\ request.at = "tar" \/ (request.at = "ended" /\ request.code = 0) \/ request.at = "log"
         => \A f \in Files \ request.touched : Restored(f)

(* What the archive being written holds of the files nobody touched, as    *)
(* long as tar failed at none: the ones tar has handled, as they were.     *)
Held ==
  /\ archives[request.name] \in Archives
  /\ \A f \in Files \ (request.touched \cup request.left) :
       archives[request.name].holds[f] = request.before[f]

Creating ==
  request.op = "create" =>
    /\ \A f \in Files \ request.touched : tree[f] = request.before[f]
    /\ request.at = "start" => request.code = 0
    /\ request.at = "tar" =>
         /\ archives[request.name] \in Archives /\ request.code \in {0, 2}
         /\ request.code = 0 => Held
    /\ request.at \in {"ended", "metadata"} /\ request.code \in {0, 1} =>
         Held /\ archives[request.name].whole /\ archives[request.name].bytes
    /\ request.at = "metadata" => request.code = 0 \/ Created(request.name)

Sound == Typed /\ Places /\ Restoring /\ Creating

-----------------------------------------------------------------------------
\* An archive is not the absence of one.
LEMMA ArchiveExists == \A a \in Archives : a # NoArchive
<1> SUFFICES ASSUME NEW a \in Archives, a = NoArchive PROVE FALSE
  OBVIOUS
<1>1. "none" \in DOMAIN NoArchive
  BY DEF NoArchive
<1>2. "none" \notin DOMAIN a
  BY DEF Archives
<1> QED BY <1>1, <1>2

\* Contents stay contents when a file of them changes.
LEMMA ContentsChange ==
  ASSUME NEW t \in Contents, NEW f \in Files, NEW v \in Versions \cup {Missing, Torn}
  PROVE  /\ [t EXCEPT ![f] = v] \in Contents
         /\ [t EXCEPT ![f] = v][f] = v
         /\ \A g \in Files \ {f} : [t EXCEPT ![f] = v][g] = t[g]
BY DEF Contents

\* The state in which no request is served.
LEMMA RestIsSound ==
  ASSUME NEW a \in {"none", "success", "error"}
  PROVE  [NoRequest EXCEPT !.answer = a] \in Records
BY BackupsAssumption DEF NoRequest, Records, Nothing, Contents, BackupsAssumption

\* A request that was answered restores and creates nothing.
LEMMA AnswerKeeps ==
  ASSUME Sound, NEW a \in {"none", "success", "error"}, Answer(a),
         UNCHANGED <<tree, changes, clock, archives>>
  PROVE  Sound'
<1>1. request' \in Records
  BY RestIsSound DEF Answer
<1>2. request'.op = "none" /\ request'.at = "answered"
  BY DEF Answer, NoRequest
<1>3. Typed'
  BY <1>1 DEF Sound, Typed
<1>4. Places' /\ Restoring' /\ Creating'
  BY <1>2 DEF Places, Restoring, Creating, Idle
<1> QED BY <1>3, <1>4 DEF Sound

\* A new request finds the files as it will remember them.
LEMMA BeginKeeps ==
  ASSUME Sound, NEW op \in {"create", "restore"}, NEW n \in 1..Seconds,
         Begin(op, n, "start"), UNCHANGED <<tree, changes, clock, archives>>
  PROVE  Sound'
<1>1. /\ request' = [op |-> op, name |-> n, at |-> "start", left |-> {}, code |-> 0,
                     answer |-> "none", held |-> Nothing, before |-> tree, touched |-> {}]
  BY DEF Begin, NoRequest
<1>2. request' \in Records /\ Typed'
  BY <1>1 DEF Sound, Typed, Records, Nothing, Contents
<1>3. Places'
  BY <1>1 DEF Places
<1>4. Restoring' /\ Creating'
  BY <1>1 DEF Restoring, Creating
<1> QED BY <1>2, <1>3, <1>4 DEF Sound

\* When tar is over, nothing else of the request changes.
LEMMA EndedIsRecord ==
  ASSUME request \in Records, NEW code \in -1..2, Ended(code)
  PROVE  /\ request' \in Records /\ request'.op = request.op /\ request'.at = "ended"
         /\ request'.left = {} /\ request'.code = code /\ request'.name = request.name
         /\ request'.answer = request.answer /\ request'.held = request.held
         /\ request'.touched = request.touched /\ request'.before = request.before
<1>1. request' = [request EXCEPT !.at = "ended", !.left = {}, !.code = code]
  BY DEF Ended
<1>2. "ended" \in {"start", "tar", "ended", "metadata", "log", "answered"} /\ {} \in SUBSET Files
  OBVIOUS
<1> QED BY <1>1, <1>2 DEF Records

-----------------------------------------------------------------------------
(* The handler.                                                            *)

LEMMA CannotRunKeeps == ASSUME Sound, CannotRun PROVE Sound'
<1>1. request.at = "start" /\ UNCHANGED <<tree, changes, clock, archives>>
  BY DEF CannotRun
<1>2. /\ request' \in Records /\ request'.op = request.op /\ request'.at = "ended"
      /\ request'.left = {} /\ request'.code = -1 /\ request'.answer = request.answer
      /\ request'.touched = request.touched /\ request'.before = request.before
  BY EndedIsRecord DEF CannotRun, Sound, Typed
<1>3. Typed' /\ Places'
  BY <1>1, <1>2 DEF Sound, Typed, Places, Idle
<1>4. Restoring' /\ Creating'
  BY <1>1, <1>2 DEF Sound, Restoring, Creating
<1> QED BY <1>3, <1>4 DEF Sound

LEMMA CutShortKeeps == ASSUME Sound, CutShort PROVE Sound'
<1>1. request.at = "tar" /\ LeftBehind /\ UNCHANGED <<changes, clock>>
  BY DEF CutShort
<1>2. request' \in Records /\ request'.op = request.op /\ request'.at = "ended"
      /\ request'.code \in {-1, 2} /\ request'.left = {} /\ request'.answer = request.answer
      /\ request'.touched = request.touched /\ request'.before = request.before
  BY EndedIsRecord DEF CutShort, Sound, Typed
<1>3. Places'
  BY <1>1, <1>2 DEF Sound, Places, Idle
<1>4. CASE request.op = "create"
  <2>1. archives[request.name] \in Archives
    BY <1>1, <1>4 DEF Sound, Creating
  <2>2. UNCHANGED tree
    BY <1>1, <1>4 DEF LeftBehind
  <2>3. PICK b \in BOOLEAN : archives' = [archives EXCEPT ![request.name].bytes = b]
    BY <1>1, <1>4 DEF LeftBehind
  <2>4. [archives[request.name] EXCEPT !.bytes = b] \in Archives
    BY <2>1 DEF Archives
  <2>5. Typed'
    BY <1>1, <1>2, <2>2, <2>3, <2>4 DEF Sound, Typed, Records
  <2>6. Restoring' /\ Creating'
    BY <1>2, <1>4, <2>2 DEF Sound, Restoring, Creating
  <2> QED BY <1>3, <2>5, <2>6 DEF Sound
<1>5. CASE request.op # "create"
  <2>1. tree' \in Contents /\ UNCHANGED archives
    BY <1>1, <1>5 DEF LeftBehind, Sound, Typed, Contents
  <2>2. Typed'
    BY <1>1, <1>2, <2>1 DEF Sound, Typed
  <2>3. Restoring' /\ Creating'
    BY <1>2, <1>5 DEF Restoring, Creating
  <2> QED BY <1>3, <2>2, <2>3 DEF Sound
<1> QED BY <1>4, <1>5

LEMMA CreateEndsKeeps == ASSUME Sound, CreateEnds PROVE Sound'
<1>1. At("create", "ended") /\ UNCHANGED <<tree, changes, clock, archives>>
  BY DEF CreateEnds
<1>2. CASE ~Accepted
  BY <1>1, <1>2, AnswerKeeps DEF CreateEnds
<1>3. CASE Accepted
  <2>1. request' = [request EXCEPT !.at = "metadata"]
    BY <1>3 DEF CreateEnds, Goto
  <2>2. /\ request' \in Records /\ request'.op = "create" /\ request'.at = "metadata"
        /\ request'.left = request.left /\ request'.answer = request.answer
        /\ request'.code = request.code /\ request'.name = request.name
        /\ request'.touched = request.touched /\ request'.before = request.before
    BY <1>1, <2>1 DEF Sound, Typed, Records, At
  <2>3. Typed' /\ Places'
    BY <1>1, <2>2 DEF Sound, Typed, Places, At, Idle
  <2>4. Restoring'
    BY <2>2 DEF Restoring
  <2>5. Creating'
    BY <1>1, <1>3, <2>2 DEF Sound, Creating, Held, Accepted, Created, Exists, At
  <2> QED BY <2>3, <2>4, <2>5 DEF Sound
<1> QED BY <1>2, <1>3

LEMMA StoreMetadataKeeps == ASSUME Sound, StoreMetadata PROVE Sound'
BY AnswerKeeps DEF StoreMetadata

LEMMA RestoreEndsKeeps == ASSUME Sound, RestoreEnds PROVE Sound'
<1>1. At("restore", "ended") /\ UNCHANGED <<tree, changes, clock, archives>>
  BY DEF RestoreEnds
<1>2. CASE Refused
  BY <1>1, <1>2, AnswerKeeps DEF RestoreEnds
<1>3. CASE ~Refused
  <2>1. request.code = 0 /\ request' = [request EXCEPT !.at = "log"]
    BY <1>3 DEF RestoreEnds, Goto, Refused
  <2>2. /\ request' \in Records /\ request'.op = "restore" /\ request'.at = "log"
        /\ request'.left = request.left /\ request'.answer = request.answer
        /\ request'.held = request.held
        /\ request'.touched = request.touched /\ request'.before = request.before
    BY <1>1, <2>1 DEF Sound, Typed, Records, At
  <2>3. Typed' /\ Places'
    BY <1>1, <2>2 DEF Sound, Typed, Places, At, Idle
  <2>4. Restoring' /\ Creating'
    BY <1>1, <2>1, <2>2 DEF Sound, Restoring, Restored, Creating, At
  <2> QED BY <2>3, <2>4 DEF Sound
<1> QED BY <1>2, <1>3

LEMMA LogRestoreKeeps == ASSUME Sound, LogRestore PROVE Sound'
BY AnswerKeeps DEF LogRestore

LEMMA HandlerStepKeeps == ASSUME Sound, HandlerStep PROVE Sound'
BY CannotRunKeeps, CutShortKeeps, CreateEndsKeeps, StoreMetadataKeeps, RestoreEndsKeeps,
   LogRestoreKeeps DEF HandlerStep

-----------------------------------------------------------------------------
(* tar.                                                                    *)

LEMMA TarOpensKeeps == ASSUME Sound, TarOpens PROVE Sound'
<1> DEFINE new == [holds |-> Nothing, whole |-> FALSE, bytes |-> FALSE]
<1>1. /\ At("create", "start") /\ UNCHANGED <<tree, changes, clock>>
      /\ archives' = [archives EXCEPT ![request.name] = new]
      /\ request' = [request EXCEPT !.at = "tar", !.left = Files]
  BY DEF TarOpens
<1>2. /\ request' \in Records /\ request'.op = "create" /\ request'.at = "tar"
      /\ request'.left = Files /\ request'.answer = request.answer /\ request'.name = request.name
      /\ request'.code = request.code
      /\ request'.touched = request.touched /\ request'.before = request.before
  BY <1>1 DEF Sound, Typed, Records, At
<1>3. new \in Archives
  BY DEF Archives, Nothing, Contents
<1>4. Typed' /\ archives'[request'.name] \in Archives
  <2> HIDE DEF new
  <2> QED BY <1>1, <1>2, <1>3 DEF Sound, Typed, Records
<1>5. Places' /\ Restoring'
  BY <1>1, <1>2 DEF Sound, Places, Restoring, At, Idle
<1>6. Creating'
  BY <1>1, <1>2, <1>4 DEF Sound, Creating, Held, At
<1> QED BY <1>4, <1>5, <1>6 DEF Sound

LEMMA TarAddsKeeps == ASSUME Sound, NEW f \in Files, TarAdds(f) PROVE Sound'
<1> DEFINE a == archives[request.name]
           new == [a EXCEPT !.holds = [a.holds EXCEPT ![f] = tree[f]]]
<1>1. /\ At("create", "tar") /\ f \in request.left /\ UNCHANGED <<tree, changes, clock>>
      /\ request' = [request EXCEPT !.left = @ \ {f}]
  BY DEF TarAdds
<1>2. /\ request' \in Records /\ request'.op = "create" /\ request'.at = "tar"
      /\ request'.left = request.left \ {f} /\ request'.answer = request.answer
      /\ request'.name = request.name /\ request'.code = request.code
      /\ request'.touched = request.touched /\ request'.before = request.before
  BY <1>1 DEF Sound, Typed, Records, At
<1>3. a \in Archives
  BY <1>1 DEF Sound, Creating, At
<1>4. archives' = [archives EXCEPT ![request.name] = new]
  BY <1>3 DEF TarAdds, Archives
<1>5. /\ a.holds \in Contents /\ tree \in Contents
      /\ tree[f] \in Versions \cup {Missing, Torn}
  BY <1>3 DEF Archives, Sound, Typed, Contents
<1>6. new \in Archives /\ new.holds = [a.holds EXCEPT ![f] = tree[f]]
  BY <1>3, <1>5, ContentsChange DEF Archives
<1>7. new.holds[f] = tree[f] /\ \A g \in Files \ {f} : new.holds[g] = a.holds[g]
  BY <1>5, <1>6 DEF Contents
<1> HIDE DEF new
<1>8. Typed' /\ archives'[request'.name] = new
  BY <1>1, <1>2, <1>4, <1>6 DEF Sound, Typed, Records
<1>9. Places' /\ Restoring'
  BY <1>1, <1>2 DEF Sound, Places, Restoring, At, Idle
<1>10. Creating'
  <2>1. request.code = 0 =>
          \A g \in Files \ (request.touched \cup (request.left \ {f})) :
             new.holds[g] = request.before[g]
    BY <1>1, <1>7 DEF Sound, Creating, Held, At
  <2>2. request.code = 0 => Held'
    BY <1>2, <1>6, <1>8, <2>1 DEF Held
  <2> QED BY <1>1, <1>2, <1>6, <1>8, <2>2 DEF Sound, Creating, At
<1> QED BY <1>8, <1>9, <1>10 DEF Sound

\* A file that is skipped leaves the status of a failure behind.
LEMMA TarSkipsKeeps == ASSUME Sound, NEW f \in Files, TarSkips(f) PROVE Sound'
<1>1. /\ At("create", "tar") /\ UNCHANGED <<tree, changes, clock, archives>>
      /\ request' = [request EXCEPT !.left = @ \ {f}, !.code = 2]
  BY DEF TarSkips
<1>6. 2 \in -1..2 /\ request.left \ {f} \in SUBSET Files
  BY DEF Sound, Typed, Records
<1>2. /\ request' \in Records /\ request'.op = "create" /\ request'.at = "tar"
      /\ request'.left = request.left \ {f} /\ request'.code = 2
      /\ request'.answer = request.answer /\ request'.name = request.name
      /\ request'.touched = request.touched /\ request'.before = request.before
  BY <1>1, <1>6 DEF Sound, Typed, Records, At
<1>3. Typed'
  BY <1>1, <1>2 DEF Sound, Typed
<1>4. Places' /\ Restoring'
  BY <1>1, <1>2 DEF Sound, Places, Restoring, At, Idle
<1>5. Creating'
  BY <1>1, <1>2 DEF Sound, Creating, At
<1> QED BY <1>3, <1>4, <1>5 DEF Sound

LEMMA TarEndsKeeps == ASSUME Sound, TarEnds PROVE Sound'
<1> DEFINE a == archives[request.name]
           new == [a EXCEPT !.whole = TRUE, !.bytes = TRUE]
<1>1. At("create", "tar") /\ request.left = {} /\ UNCHANGED <<tree, changes, clock>>
  BY DEF TarEnds
<1>2. PICK code \in {0, 1, 2} : Ended(code) /\ (code # 2 => request.code = 0)
  BY <1>1 DEF TarEnds, Sound, Creating, At
<1>3. /\ request' \in Records /\ request'.op = "create" /\ request'.at = "ended"
      /\ request'.left = {} /\ request'.answer = request.answer
      /\ request'.name = request.name /\ request'.code = code
      /\ request'.touched = request.touched /\ request'.before = request.before
  BY <1>1, <1>2, EndedIsRecord DEF Sound, Typed, At
<1>4. a \in Archives
  BY <1>1 DEF Sound, Creating, At
<1>5. archives' = [archives EXCEPT ![request.name] = new]
  BY <1>4 DEF TarEnds, Archives
<1>6. new \in Archives /\ new.holds = a.holds /\ new.whole /\ new.bytes
  BY <1>4 DEF Archives
<1> HIDE DEF new
<1>7. Typed' /\ archives'[request'.name] = new
  BY <1>1, <1>3, <1>5, <1>6 DEF Sound, Typed, Records
<1>8. Places' /\ Restoring'
  BY <1>1, <1>3 DEF Sound, Places, Restoring, At, Idle
<1>9. Creating'
  BY <1>1, <1>2, <1>3, <1>6, <1>7 DEF Sound, Creating, Held, At
<1> QED BY <1>7, <1>8, <1>9 DEF Sound

LEMMA ExtractsKeeps == ASSUME Sound, Extracts PROVE Sound'
<1>1. At("restore", "start") /\ UNCHANGED <<tree, changes, clock, archives>>
  BY DEF Extracts
<1>2. CASE ~Exists(request.name)
  <2>1. Ended(2)
    BY <1>2 DEF Extracts
  <2>2. /\ request' \in Records /\ request'.op = "restore" /\ request'.at = "ended"
        /\ request'.code = 2 /\ request'.left = {} /\ request'.answer = request.answer
    BY <1>1, <2>1, EndedIsRecord DEF Sound, Typed, At
  <2>3. Typed' /\ Places' /\ Restoring' /\ Creating'
    BY <1>1, <2>2 DEF Sound, Typed, Places, Restoring, Creating, At, Idle
  <2> QED BY <2>3 DEF Sound
<1>3. CASE Exists(request.name)
  <2> DEFINE a == archives[request.name]
             left == {f \in Files : a.holds[f] # Missing}
             code == IF a.whole THEN 0 ELSE 2
  <2>1. request' = [request EXCEPT !.at = "tar", !.held = a.holds, !.left = left, !.code = code]
    BY <1>3 DEF Extracts
  <2>2. a \in Archives
    BY <1>3 DEF Sound, Typed, Records, Exists
  <2>3. a.holds \in Contents /\ left \in SUBSET Files /\ code \in -1..2
    BY <2>2 DEF Archives
  <2>4. /\ request' \in Records /\ request'.op = "restore" /\ request'.at = "tar"
        /\ request'.answer = request.answer /\ request'.held = a.holds /\ request'.left = left
        /\ request'.touched = request.touched /\ request'.before = request.before
    <3> HIDE DEF a, left, code
    <3> QED BY <1>1, <2>1, <2>3 DEF Sound, Typed, Records, At
  <2>5. Typed' /\ Places' /\ Creating'
    BY <1>1, <2>4 DEF Sound, Typed, Places, Creating, At, Idle
  <2>6. Restoring'
    <3>1. ASSUME NEW f \in Files \ request'.touched PROVE Restored(f)'
      <4>1. tree'[f] = request'.before[f]
        BY <1>1, <2>4, <3>1 DEF Sound, Restoring, At
      <4>2. f \notin request'.left => request'.held[f] = Missing
        BY <2>4
      <4> QED BY <4>1, <4>2 DEF Restored
    <3> QED BY <2>4, <3>1 DEF Restoring
  <2> QED BY <2>5, <2>6 DEF Sound
<1> QED BY <1>2, <1>3

LEMMA ExtractFileKeeps == ASSUME Sound, NEW f \in Files, ExtractFile(f) PROVE Sound'
<1>1. /\ At("restore", "tar") /\ f \in request.left /\ UNCHANGED <<changes, clock, archives>>
      /\ tree' = IF tree[f] = Missing THEN [tree EXCEPT ![f] = request.held[f]] ELSE tree
      /\ request' = [request EXCEPT !.left = @ \ {f}]
  BY DEF ExtractFile
<1>2. /\ request' \in Records /\ request'.op = "restore" /\ request'.at = "tar"
      /\ request'.left = request.left \ {f} /\ request'.answer = request.answer
      /\ request'.held = request.held
      /\ request'.touched = request.touched /\ request'.before = request.before
  BY <1>1 DEF Sound, Typed, Records, At
<1>3. /\ tree \in Contents /\ request.held[f] \in Versions \cup {Missing, Torn}
  BY DEF Sound, Typed, Records, Contents
<1>4. /\ tree' \in Contents /\ \A g \in Files \ {f} : tree'[g] = tree[g]
      /\ tree'[f] = IF tree[f] = Missing THEN request.held[f] ELSE tree[f]
  BY <1>1, <1>3, ContentsChange
<1>5. Typed' /\ Places' /\ Creating'
  BY <1>1, <1>2, <1>4 DEF Sound, Typed, Places, Creating, At, Idle
<1>6. ASSUME NEW g \in Files \ request'.touched PROVE Restored(g)'
  <2>1. Restored(g)
    BY <1>1, <1>2, <1>6 DEF Sound, Restoring, At
  <2>2. CASE g = f
    BY <1>1, <1>2, <1>4, <2>1, <2>2 DEF Restored
  <2>3. CASE g # f
    BY <1>2, <1>4, <2>1, <2>3 DEF Restored
  <2> QED BY <2>2, <2>3
<1>7. Restoring'
  BY <1>2, <1>6 DEF Restoring
<1> QED BY <1>5, <1>7 DEF Sound

LEMMA ExtractEndsKeeps == ASSUME Sound, ExtractEnds PROVE Sound'
<1>1. At("restore", "tar") /\ request.left = {} /\ UNCHANGED <<tree, changes, clock, archives>>
  BY DEF ExtractEnds
<1>2. /\ request' \in Records /\ request'.op = "restore" /\ request'.at = "ended"
      /\ request'.left = {} /\ request'.code = request.code /\ request'.answer = request.answer
      /\ request'.held = request.held
      /\ request'.touched = request.touched /\ request'.before = request.before
  BY <1>1, EndedIsRecord DEF ExtractEnds, Sound, Typed, Records, At
<1>3. Typed' /\ Places' /\ Creating'
  BY <1>1, <1>2 DEF Sound, Typed, Places, Creating, At, Idle
<1>4. Restoring'
  BY <1>1, <1>2 DEF Sound, Restoring, Restored, At
<1> QED BY <1>3, <1>4 DEF Sound

LEMMA TarStepKeeps == ASSUME Sound, TarStep PROVE Sound'
BY TarOpensKeeps, TarEndsKeeps, ExtractsKeeps, ExtractEndsKeeps, TarAddsKeeps,
   TarSkipsKeeps, ExtractFileKeeps DEF TarStep

-----------------------------------------------------------------------------
(* The rest of the lab.                                                    *)

\* A file the lab changes counts as touched from then on.
LEMMA ChangeKeeps == ASSUME Sound, NEW f \in Files, Change(f) PROVE Sound'
<1>1. /\ UNCHANGED <<clock, archives>>
      /\ request' = IF Idle THEN request ELSE [request EXCEPT !.touched = @ \cup {f}]
  BY DEF Change
<1>2. PICK v \in Versions \cup {Missing, Torn} : tree' = [tree EXCEPT ![f] = v]
  BY DEF Change
<1>3. tree' \in Contents /\ \A g \in Files \ {f} : tree'[g] = tree[g]
  BY <1>2 DEF Sound, Typed, Contents
<1>4. CASE Idle
  <2>1. request.op = "none" /\ request' = request
    BY <1>1, <1>4 DEF Sound, Places, Typed, Records, Idle
  <2> QED BY <1>1, <1>3, <2>1 DEF Sound, Typed, Places, Restoring, Creating, Idle
<1>5. CASE ~Idle
  <2>1. /\ request' \in Records /\ request'.op = request.op /\ request'.at = request.at
        /\ request'.left = request.left /\ request'.answer = request.answer
        /\ request'.held = request.held /\ request'.name = request.name
        /\ request'.code = request.code
        /\ request'.touched = request.touched \cup {f} /\ request'.before = request.before
    BY <1>1, <1>5 DEF Sound, Typed, Records
  <2>2. Typed' /\ Places'
    BY <1>1, <1>3, <2>1 DEF Sound, Typed, Places, Idle
  <2>3. Restoring'
    BY <1>3, <2>1 DEF Sound, Restoring, Restored
  <2>4. Creating'
    BY <1>1, <1>3, <2>1 DEF Sound, Creating, Held, Created, Exists
  <2> QED BY <2>2, <2>3, <2>4 DEF Sound
<1> QED BY <1>4, <1>5

LEMMA TickKeeps == ASSUME Sound, Tick PROVE Sound'
<1>1. clock' \in 1..Seconds /\ UNCHANGED <<tree, archives, request>>
  BY BackupsAssumption DEF Tick, Sound, Typed, BackupsAssumption
<1> QED BY <1>1 DEF Sound, Typed, Places, Idle, Restoring, Restored, Creating, Held,
           Created, Exists

\* The archive that is being written stays.
LEMMA CleanupKeeps == ASSUME Sound, NEW n \in 1..Seconds, Cleanup(n) PROVE Sound'
<1>1. /\ ~(request.op = "create" /\ ~Idle /\ request.name = n)
      /\ archives' = [archives EXCEPT ![n] = NoArchive] /\ UNCHANGED <<tree, clock, request>>
  BY DEF Cleanup
<1>2. Typed' /\ Places'
  BY <1>1 DEF Sound, Typed, Places, Idle
<1>3. Restoring'
  BY <1>1 DEF Sound, Restoring, Restored
<1>4. request.op = "create" => archives'[request.name] = archives[request.name]
  BY <1>1 DEF Sound, Typed, Records, Places, Idle
<1>5. Creating'
  BY <1>1, <1>4 DEF Sound, Creating, Held, Created, Exists
<1> QED BY <1>2, <1>3, <1>5 DEF Sound

LEMMA LabStepKeeps == ASSUME Sound, LabStep PROVE Sound'
BY ChangeKeeps, TickKeeps, CleanupKeeps DEF LabStep

-----------------------------------------------------------------------------
LEMMA SoundInit == Init => Sound
<1> SUFFICES ASSUME BackupsInit PROVE Sound
  BY DEF Init
<1>1. request \in Records /\ request.op = "none" /\ request.at = "answered"
  BY RestIsSound, BackupsAssumption
     DEF BackupsInit, NoRequest, Records, Nothing, Contents, BackupsAssumption
<1>2. Typed
  BY <1>1, BackupsAssumption DEF BackupsInit, Typed, Contents, BackupsAssumption
<1> QED BY <1>1, <1>2 DEF Sound, Places, Idle, Restoring, Creating

LEMMA ComeKeeps == ASSUME Sound, Come PROVE Sound'
<1>1. CASE Create
  BY <1>1, BeginKeeps DEF Create, Sound, Typed
<1>2. ASSUME NEW n \in 1..Seconds, Restore(n) PROVE Sound'
  BY <1>2, BeginKeeps, AnswerKeeps DEF Restore
<1>3. CASE UNCHANGED backupVars
  BY <1>3 DEF backupVars, Sound, Typed, Places, Idle, Restoring, Restored, Creating, Held,
     Created, Exists
<1> QED BY <1>1, <1>2, <1>3 DEF Come

LEMMA SoundStep == Sound /\ [Next]_vars => Sound'
<1> SUFFICES ASSUME Sound, [Next]_vars PROVE Sound'
  OBVIOUS
<1>1. CASE UNCHANGED backupVars
  BY <1>1 DEF backupVars, Sound, Typed, Places, Idle, Restoring, Restored, Creating, Held,
     Created, Exists
<1>2. CASE Come
  BY <1>2, ComeKeeps
<1>3. CASE Handle \/ Tar \/ LabStep
  BY <1>3, HandlerStepKeeps, TarStepKeeps, LabStepKeeps DEF Handle, Tar
<1> QED BY <1>1, <1>2, <1>3 DEF Next, Turn, Others, vars

\* A restore that is about to be reported as done has changed no file that was there and
\* brought back every other one of the archive, whatever the lab changed or removed.
THEOREM RestoreCorrect == Spec => []RestoreAddsWhatIsMissing
<1>1. Sound => RestoreAddsWhatIsMissing
  BY DEF Sound, Places, Restoring, Restored, RestoreAddsWhatIsMissing, At
<1> QED BY <1>1, SoundInit, SoundStep, PTL DEF Spec

\* The step that reports a backup as made is the last one of its handler.
LEMMA ReportIsStoreMetadata ==
  ASSUME Sound, [Next]_vars, At("create", "metadata"), request'.answer = "success"
  PROVE  StoreMetadata
<1>1. request.answer # "success"
  BY DEF Sound, Places, At
<1>2. request' # request
  BY <1>1
<1>3. Handle \/ Tar \/ LabStep
  BY <1>2 DEF Next, Come, Turn, Others, vars, backupVars, Idle, At
<1>4. ~Tar
  BY DEF Tar, TarStep, TarOpens, TarAdds, TarSkips, TarEnds, Extracts, ExtractFile, ExtractEnds, At
<1>5. ~LabStep
  <2>1. ASSUME NEW f \in Files, Change(f) PROVE FALSE
    BY <1>1, <2>1 DEF Change, Sound, Typed, Records
  <2> QED BY <1>2, <2>1 DEF LabStep, Tick, Cleanup
<1> QED BY <1>3, <1>4, <1>5 DEF Handle, HandlerStep, CannotRun, CutShort, CreateEnds,
           RestoreEnds, LogRestore, At

\* A backup that is reported as made has an archive with something in it; and unless
\* tar failed, the archive is whole and holds every file nobody changed meanwhile.
THEOREM BackupCorrect == Spec => ReportedBackupIsThere
<1> DEFINE Whole == /\ archives[request.name].whole
                    /\ \A f \in Files \ request.touched :
                           archives[request.name].holds[f] = request.before[f]
           Reported ==
      At("create", "metadata") /\ request'.answer = "success" =>
         /\ Created(request.name)
         /\ request.code \in {0, 1} => Whole
<1>1. Sound /\ [Next]_vars => Reported
  <2> SUFFICES ASSUME Sound, [Next]_vars, At("create", "metadata"), request'.answer = "success"
               PROVE  Created(request.name) /\ (request.code \in {0, 1} => Whole)
    OBVIOUS
  <2>1. request.code \in {0, 1} =>
          Held /\ archives[request.name].whole /\ archives[request.name].bytes
    BY DEF Sound, Creating, At
  <2>2. request.code \in {0, 1} => Whole
    BY <2>1 DEF Held, Sound, Places, At
  <2>3. Created(request.name)
    BY <2>1, ReportIsStoreMetadata, ArchiveExists
       DEF Held, Sound, Creating, At, Created, Exists
  <2> QED BY <2>2, <2>3
<1>2. Spec => [][Reported]_vars
  BY <1>1, SoundInit, SoundStep, PTL DEF Spec
<1> QED BY <1>2 DEF ReportedBackupIsThere

-----------------------------------------------------------------------------
(* What a broadcast misses *)

(* Connections that have been put into the list, once each.                *)
Joined == {c \in Clients : handler[c] \in {"streaming", "ended"}}

Once(s) == \A i, j \in 1..Len(s) : s[i] = s[j] => i = j

Connections ==
  /\ DOMAIN handler = Clients
  /\ active \in Seq(Clients) /\ Once(active) /\ ToSet(active) \subseteq Joined

Casts == [at : {"idle", "loop", "send", "done", "aborted"}, next : Nat \ {0},
          to : SUBSET Clients, sent : Seq(Clients), start : SUBSET Clients, removals : Nat]

(* The iterator divides the list: nobody ahead of it was reached, and of   *)
(* those behind it that were there at the start as many were not reached   *)
(* as connections were removed at most.                                    *)
Reached == ToSet(cast.sent) \cup (IF cast.at = "send" THEN cast.to ELSE {})
Ahead == {active[i] : i \in {j \in 1..Len(active) : j >= cast.next}}
Behind == {active[i] : i \in {j \in 1..Len(active) : j < cast.next}}
Missed == (cast.start \cap Behind) \ Reached

Divided ==
  Casting =>
    /\ Ahead \cap Reached = {}
    /\ Cardinality(Missed) <= cast.removals
    /\ cast.at = "send" => \E c \in Clients \ ToSet(cast.sent) : cast.to = {c}

Broadcasting ==
  /\ cast \in Casts /\ Once(cast.sent)
  /\ cast.start \cup Reached \subseteq Joined
  /\ Divided
  /\ cast.at = "done" =>
       Cardinality((cast.start \cap ToSet(active)) \ ToSet(cast.sent)) <= cast.removals

Live == Connections /\ Broadcasting

\* There are finitely many clients.
LEMMA ClientsFinite == IsFiniteSet(Clients)
BY FS_Interval, LiveLogsAssumption DEF Clients, LiveLogsAssumption

\* Appending what is not there adds it once.
LEMMA AppendTakes ==
  ASSUME NEW S, NEW s \in Seq(S), Once(s), NEW e \in S, e \notin ToSet(s)
  PROVE  /\ Append(s, e) \in Seq(S) /\ Once(Append(s, e))
         /\ ToSet(Append(s, e)) = ToSet(s) \cup {e}
<1>1. /\ Append(s, e) \in Seq(S) /\ Len(Append(s, e)) = Len(s) + 1 /\ Len(s) \in Nat
      /\ \A i \in 1..Len(s) : Append(s, e)[i] = s[i]
      /\ Append(s, e)[Len(s) + 1] = e
  BY AppendProperties
<1>2. \A i \in 1..Len(s) : s[i] # e
  BY DEF ToSet
<1>3. Once(Append(s, e))
  BY <1>1, <1>2 DEF Once
<1>4. ToSet(Append(s, e)) = ToSet(s) \cup {e}
  <2>1. ToSet(Append(s, e)) = {Append(s, e)[i] : i \in 1..(Len(s) + 1)}
    BY <1>1 DEF ToSet
  <2>2. ToSet(s) = {s[i] : i \in 1..Len(s)}
    BY DEF ToSet
  <2>3. 1..(Len(s) + 1) = 1..Len(s) \cup {Len(s) + 1}
    BY <1>1
  <2> QED BY <1>1, <2>1, <2>2, <2>3
<1> QED BY <1>1, <1>3, <1>4

\* The elements of a list are those at its places.
LEMMA ToSetIs == ASSUME NEW S, NEW s \in Seq(S) PROVE ToSet(s) = {s[i] : i \in 1..Len(s)}
BY DEF ToSet

\* What is taken out of a list leaves its place to those after it.
LEMMA RemovalShifts ==
  ASSUME NEW S, NEW s \in Seq(S), Once(s), NEW c \in ToSet(s)
  PROVE  \E i \in 1..Len(s) :
           /\ s[i] = c /\ RemoveFirst(s, c) \in Seq(S)
           /\ Len(RemoveFirst(s, c)) = Len(s) - 1
           /\ \A j \in 1..(Len(s) - 1) :
                RemoveFirst(s, c)[j] = IF j < i THEN s[j] ELSE s[j + 1]
<1>1. PICK m \in 1..Len(s) : s[m] = c
  BY DEF ToSet
<1>2. {j \in 1..Len(s) : s[j] = c} = {m} /\ Min({m}) = m
  BY <1>1 DEF Once, Min
<1>3. SelectInSeq(s, LAMBDA v : v = c) = m
  BY <1>2 DEF SelectInSeq
<1>4. RemoveFirst(s, c) = SubSeq(s, 1, m - 1) \o SubSeq(s, m + 1, Len(s))
  BY <1>1, <1>3 DEF RemoveFirst, RemoveAt
<1> DEFINE a == SubSeq(s, 1, m - 1)
           b == SubSeq(s, m + 1, Len(s))
           n == Len(s)
<1>5. /\ n \in Nat /\ m \in 1..n /\ s[m] = c
      /\ a \in Seq(S) /\ Len(a) = m - 1 /\ \A j \in 1..(m - 1) : a[j] = s[j]
      /\ b \in Seq(S) /\ Len(b) = n - m /\ \A j \in 1..(n - m) : b[j] = s[m + j]
  BY <1>1
<1>6. RemoveFirst(s, c) = a \o b
  BY <1>4
<1> HIDE DEF a, b, n
<1>7. /\ a \o b \in Seq(S) /\ Len(a \o b) = n - 1
      /\ \A j \in 1..(n - 1) : (a \o b)[j] = IF j <= m - 1 THEN a[j] ELSE b[j - (m - 1)]
  <2>1. /\ a \o b \in Seq(S) /\ Len(a \o b) = Len(a) + Len(b)
        /\ \A j \in 1..(Len(a) + Len(b)) :
             (a \o b)[j] = IF j <= Len(a) THEN a[j] ELSE b[j - Len(a)]
    BY <1>5, ConcatProperties
  <2>2. Len(a) + Len(b) = n - 1
    BY <1>5
  <2> QED BY <1>5, <2>1, <2>2
<1>8. ASSUME NEW j \in 1..(n - 1) PROVE (a \o b)[j] = IF j < m THEN s[j] ELSE s[j + 1]
  <2>1. CASE j < m
    BY <1>5, <1>7, <2>1
  <2>2. CASE ~(j < m)
    <3>1. j - (m - 1) \in 1..(n - m) /\ m + (j - (m - 1)) = j + 1 /\ ~(j <= m - 1)
      BY <1>5, <2>2
    <3>2. b[j - (m - 1)] = s[m + (j - (m - 1))]
      BY <1>5, <3>1
    <3> QED BY <1>7, <2>2, <3>1, <3>2
  <2> QED BY <2>1, <2>2
<1>9. /\ s[m] = c /\ RemoveFirst(s, c) \in Seq(S)
      /\ Len(RemoveFirst(s, c)) = n - 1
      /\ \A j \in 1..(n - 1) : RemoveFirst(s, c)[j] = IF j < m THEN s[j] ELSE s[j + 1]
  BY <1>1, <1>6, <1>7, <1>8
<1> QED BY <1>9 DEF n

\* A removal lets at most one more connection slip behind the iterator.
LEMMA RemovalMoves ==
  ASSUME Connections, DOMAIN handler' = Clients, Joined' = Joined, NEW c \in ToSet(active),
         active' = RemoveFirst(active, c), cast.next \in Nat \ {0}, cast'.next = cast.next
  PROVE  /\ Connections' /\ ToSet(active') \subseteq ToSet(active) /\ c \notin ToSet(active')
         /\ Ahead' \subseteq Ahead
         /\ \E x : Behind' \subseteq Behind \cup {x}
<1>1. PICK i \in 1..Len(active) :
        /\ active[i] = c /\ active' \in Seq(Clients) /\ Len(active') = Len(active) - 1
        /\ \A j \in 1..(Len(active) - 1) :
             active'[j] = IF j < i THEN active[j] ELSE active[j + 1]
  BY RemovalShifts DEF Connections
<1>2. Len(active) \in Nat
  BY DEF Connections
<1>3. Once(active') /\ \A j \in 1..Len(active') : active'[j] # c
  <2>0. Once(active) /\ Len(active') = Len(active) - 1
    BY <1>1 DEF Connections
  <2> DEFINE old(j) == IF j < i THEN j ELSE j + 1
  <2>1. ASSUME NEW j \in 1..Len(active')
        PROVE  old(j) \in 1..Len(active) /\ old(j) # i /\ active'[j] = active[old(j)]
    BY <1>1, <1>2, <2>0
  <2>2. ASSUME NEW j \in 1..Len(active'), NEW k \in 1..Len(active'), old(j) = old(k)
        PROVE  j = k
    BY <1>1, <1>2, <2>0, <2>2
  <2> HIDE DEF old
  <2>3. \A j \in 1..Len(active') : active'[j] # c
    BY <1>1, <2>0, <2>1 DEF Once
  <2>4. Once(active')
    BY <2>0, <2>1, <2>2 DEF Once
  <2> QED BY <2>3, <2>4
<1>4. \A j \in 1..Len(active') : \E k \in 1..Len(active) : active'[j] = active[k]
  BY <1>1, <1>2
<1>5. ToSet(active') \subseteq ToSet(active) /\ c \notin ToSet(active')
  <2>0. active \in Seq(Clients) /\ active' \in Seq(Clients)
    BY <1>1 DEF Connections
  <2>1. ToSet(active') = {active'[j] : j \in 1..Len(active')}
    BY <2>0, ToSetIs
  <2>2. ToSet(active) = {active[j] : j \in 1..Len(active)}
    BY <2>0, ToSetIs
  <2> QED BY <1>3, <1>4, <2>1, <2>2
<1>6. Ahead' \subseteq Ahead
  <2> SUFFICES ASSUME NEW j \in 1..Len(active'), j >= cast.next PROVE active'[j] \in Ahead
    BY DEF Ahead
  <2>1. PICK k \in {j, j + 1} : k \in 1..Len(active) /\ active'[j] = active[k]
    BY <1>1, <1>2
  <2>2. k >= cast.next
    BY <1>1, <1>2, <2>1
  <2> QED BY <2>1, <2>2 DEF Ahead
<1>7. Behind' \subseteq Behind \cup {active[cast.next]}
  <2> SUFFICES ASSUME NEW j \in 1..Len(active'), j < cast.next
               PROVE  active'[j] \in Behind \cup {active[cast.next]}
    BY DEF Behind
  <2>1. PICK k \in {j, j + 1} : k \in 1..Len(active) /\ active'[j] = active[k]
    BY <1>1, <1>2
  <2>2. k < cast.next \/ k = cast.next
    BY <1>1, <1>2, <2>1
  <2> QED BY <2>1, <2>2 DEF Behind
<1> QED BY <1>1, <1>3, <1>5, <1>6, <1>7 DEF Connections

\* So the missed are at most one more, and the rest of the division stays.
LEMMA RemovalDivides ==
  ASSUME Live, DOMAIN handler' = Clients, Joined' = Joined,
         NEW c \in ToSet(active), active' = RemoveFirst(active, c),
         cast' \in Casts, Casting,
         UNCHANGED <<cast.next, cast.start, cast.sent>>,
         cast'.removals = cast.removals + 1,
         \/ cast'.at = cast.at /\ cast'.to = cast.to
         \/ cast'.at = "loop" /\ cast.at = "send" /\ cast.to = {c}
  PROVE  Live'
<1>1. /\ Connections' /\ ToSet(active') \subseteq ToSet(active) /\ c \notin ToSet(active')
      /\ Ahead' \subseteq Ahead
  BY RemovalMoves DEF Live, Broadcasting, Casts
<1>2. PICK x : Behind' \subseteq Behind \cup {x}
  BY RemovalMoves DEF Live, Broadcasting, Casts
<1>3. Reached' \subseteq Reached /\ Reached \subseteq Reached' \cup {c}
  BY DEF Reached, Casting
<1>4. c \notin Behind'
  BY <1>1 DEF Behind, ToSet, Connections
<1>5. Missed' \subseteq Missed \cup {x}
  BY <1>2, <1>3, <1>4 DEF Missed
<1>6. IsFiniteSet(Missed)
  BY ClientsFinite, FS_Subset DEF Missed, Live, Broadcasting, Casts
<1>7. Cardinality(Missed') <= Cardinality(Missed) + 1 /\ Cardinality(Missed) \in Nat
      /\ Cardinality(Missed') \in Nat
  <2>1. IsFiniteSet(Missed \cup {x}) /\ Cardinality(Missed) \in Nat
        /\ Cardinality(Missed \cup {x}) \in {Cardinality(Missed), Cardinality(Missed) + 1}
    BY <1>6, FS_AddElement, FS_CardinalityType
  <2>2. IsFiniteSet(Missed') /\ Cardinality(Missed') <= Cardinality(Missed \cup {x})
    BY <1>5, <2>1, FS_Subset
  <2>3. Cardinality(Missed') \in Nat
    BY <2>2, FS_CardinalityType
  <2> QED BY <2>1, <2>2, <2>3
<1>8. cast.removals \in Nat /\ Cardinality(Missed) <= cast.removals /\ Casting'
  BY DEF Live, Broadcasting, Divided, Casts, Casting
<1>9. Divided'
  <2>1. Cardinality(Missed') <= cast'.removals
    BY <1>7, <1>8
  <2> QED BY <1>1, <1>3, <2>1 DEF Live, Broadcasting, Divided, Casting
<1> QED BY <1>1, <1>3, <1>8, <1>9 DEF Live, Broadcasting, Casting

\* Nothing a broadcast needs is touched by a client that leaves or a connection that opens.
LEMMA SameLive ==
  ASSUME Live, UNCHANGED <<active, cast>>, DOMAIN handler' = Clients, Joined \subseteq Joined'
  PROVE  Live'
BY DEF Live, Connections, Broadcasting, Divided, Casting, Reached, Ahead, Behind, Missed

\* A new connection comes after all others and was not there at the start.
LEMMA ConnectKeeps == ASSUME Live, NEW c \in Clients, Connect(c) PROVE Live'
<1>1. active' = Append(active, c) /\ c \notin Joined /\ Joined' = Joined \cup {c}
      /\ DOMAIN handler' = Clients /\ UNCHANGED cast
  BY DEF Connect, Registered, Live, Connections, Joined
<1>2. /\ active' \in Seq(Clients) /\ Len(active) \in Nat /\ Len(active') = Len(active) + 1
      /\ \A i \in 1..Len(active) : active'[i] = active[i]
      /\ active'[Len(active) + 1] = c
  BY <1>1, AppendProperties DEF Live, Connections
<1>3. ToSet(active) = {active[i] : i \in 1..Len(active)}
      /\ ToSet(active') = {active'[i] : i \in 1..(Len(active) + 1)}
  BY <1>2 DEF ToSet, Live, Connections
<1>4. c \notin ToSet(active) /\ ToSet(active') = ToSet(active) \cup {c}
  <2>1. 1..(Len(active) + 1) = 1..Len(active) \cup {Len(active) + 1}
    BY <1>2
  <2> QED BY <1>1, <1>2, <1>3, <2>1 DEF Live, Connections
<1>5. Connections'
  <2>1. Once(active')
    BY <1>2, <1>3, <1>4 DEF Live, Connections, Once
  <2> QED BY <1>1, <1>2, <1>4, <2>1 DEF Live, Connections
<1>6. Ahead' \subseteq Ahead \cup {c} /\ Behind' \subseteq Behind \cup {c}
  BY <1>1, <1>2 DEF Ahead, Behind
<1>7. Reached' = Reached /\ cast.start' = cast.start /\ c \notin Reached \cup cast.start
  BY <1>1 DEF Reached, Live, Broadcasting
<1>8. Missed' \subseteq Missed
  BY <1>6, <1>7 DEF Missed
<1>9. Cardinality(Missed') <= Cardinality(Missed) /\ Cardinality(Missed') \in Nat
      /\ Cardinality(Missed) \in Nat
  <2>1. IsFiniteSet(Missed)
    BY ClientsFinite, FS_Subset DEF Missed, Live, Broadcasting, Casts
  <2> QED BY <1>8, <2>1, FS_Subset, FS_CardinalityType
<1>10. Divided'
  <2>1. cast.removals \in Nat
    BY DEF Live, Broadcasting, Casts
  <2>2. Casting => Cardinality(Missed') <= cast.removals
    BY <1>9, <2>1 DEF Live, Broadcasting, Divided
  <2> QED BY <1>1, <1>6, <1>7, <2>2 DEF Live, Broadcasting, Divided, Casting
<1>11. (cast.start \cap ToSet(active')) \ ToSet(cast.sent)
         = (cast.start \cap ToSet(active)) \ ToSet(cast.sent)
  BY <1>4, <1>7
<1>12. Broadcasting'
  BY <1>1, <1>7, <1>10, <1>11 DEF Live, Broadcasting
<1> QED BY <1>5, <1>12 DEF Live

\* A removal after the end of a broadcast takes nobody out of those it reached.
LEMMA LateRemoval ==
  ASSUME Live, ~Casting, NEW c \in ToSet(active), active' = RemoveFirst(active, c),
         UNCHANGED cast, DOMAIN handler' = Clients, Joined' = Joined
  PROVE  Live'
<1>1. Connections' /\ ToSet(active') \subseteq ToSet(active)
  BY RemovalMoves DEF Live, Broadcasting, Casts
<1>2. cast.at = "done" =>
        Cardinality((cast.start \cap ToSet(active')) \ ToSet(cast.sent)) <= cast.removals
  <2> DEFINE old == (cast.start \cap ToSet(active)) \ ToSet(cast.sent)
             new == (cast.start \cap ToSet(active')) \ ToSet(cast.sent)
  <2>1. IsFiniteSet(old) /\ new \subseteq old
    BY <1>1, ClientsFinite, FS_Subset DEF Live, Broadcasting, Casts
  <2> HIDE DEF old, new
  <2>2. Cardinality(new) <= Cardinality(old) /\ Cardinality(new) \in Nat
        /\ Cardinality(old) \in Nat
    BY <2>1, FS_Subset, FS_CardinalityType
  <2>3. cast.at = "done" => Cardinality(old) <= cast.removals
    BY DEF old, Live, Broadcasting
  <2>4. cast.removals \in Nat
    BY DEF Live, Broadcasting, Casts
  <2> QED BY <2>2, <2>3, <2>4 DEF new
<1>3. Reached' = Reached /\ Divided'
  BY DEF Reached, Divided, Casting
<1> QED BY <1>1, <1>2, <1>3 DEF Live, Broadcasting

\* A handler that gives up removes its connection, or leaves it in the list.
LEMMA StreamFailsKeeps == ASSUME Live, NEW c \in Clients, StreamFails(c) PROVE Live'
<1>1. DOMAIN handler' = Clients /\ Joined' = Joined
  BY DEF StreamFails, Live, Connections, Joined
<1>2. CASE UNCHANGED <<active, cast>>
  BY <1>1, <1>2, SameLive DEF Live, Connections
<1>3. CASE c \in ToSet(active) /\ active' = RemoveFirst(active, c) /\ cast' = OneLess(cast)
  <2>1. CASE ~Casting
    BY <1>1, <1>3, <2>1, LateRemoval DEF OneLess
  <2>2. CASE Casting
    <3>1. cast \in Casts /\ cast' = [cast EXCEPT !.removals = @ + 1]
      BY <1>3, <2>2 DEF OneLess, Live, Broadcasting
    <3>2. /\ cast' \in Casts /\ UNCHANGED <<cast.next, cast.start, cast.sent>>
          /\ cast'.removals = cast.removals + 1 /\ cast'.at = cast.at /\ cast'.to = cast.to
      BY <3>1 DEF Casts
    <3> QED BY <1>1, <1>3, <2>2, <3>2, RemovalDivides
  <2> QED BY <2>1, <2>2
<1> QED BY <1>2, <1>3 DEF StreamFails

\* A send that failed removes its connection, or ends the broadcast.
LEMMA CastFailsKeeps == ASSUME Live, NEW c \in Clients, CastFails(c) PROVE Live'
<1>0. cast \in Casts /\ Casting /\ cast.at = "send" /\ cast.to = {c}
      /\ DOMAIN handler' = Clients /\ Joined' = Joined
  BY DEF CastFails, Casting, Live, Broadcasting, Divided, Connections, Joined
<1>1. CASE c \in ToSet(active)
  <2>1. active' = RemoveFirst(active, c)
        /\ cast' = [cast EXCEPT !.at = "loop", !.removals = @ + 1]
    BY <1>0, <1>1 DEF CastFails, OneLess, AfterFailure
  <2>2. /\ UNCHANGED <<cast.next, cast.start, cast.sent>>
        /\ cast'.removals = cast.removals + 1 /\ cast'.at = "loop"
    BY <1>0, <2>1 DEF Casts
  <2>3. cast' \in Casts
    <3>1. cast.removals + 1 \in Nat
      BY <1>0 DEF Casts
    <3> QED BY <1>0, <2>1, <3>1 DEF Casts
  <2> QED BY <1>0, <1>1, <2>1, <2>2, <2>3, RemovalDivides
<1>2. CASE c \notin ToSet(active)
  <2>1. UNCHANGED active /\ cast' = [cast EXCEPT !.at = "aborted"]
    BY <1>2 DEF CastFails
  <2>2. /\ cast' \in Casts /\ UNCHANGED <<cast.next, cast.start, cast.sent, cast.removals>>
        /\ cast'.at = "aborted"
    BY <1>0, <2>1 DEF Casts
  <2>3. Reached' \subseteq Reached /\ Divided'
    BY <1>0, <2>2 DEF Reached, Divided, Casting
  <2> QED BY <1>0, <2>1, <2>2, <2>3 DEF Live, Connections, Broadcasting
<1> QED BY <1>1, <1>2

\* The iterator reaches one more, or has come to the end of the list.
LEMMA CastToKeeps == ASSUME Live, CastTo PROVE Live'
<1>0. /\ cast \in Casts /\ cast.at = "loop" /\ Casting /\ UNCHANGED <<active, handler>>
      /\ active \in Seq(Clients) /\ Len(active) \in Nat /\ cast.next \in Nat
  BY DEF CastTo, Casting, Live, Broadcasting, Connections, Casts
<1>1. Connections' /\ Joined' = Joined
  BY <1>0 DEF Live, Connections, Joined
<1>2. CASE cast.next <= Len(active)
  <2> DEFINE x == active[cast.next]
  <2>1. cast' = [cast EXCEPT !.at = "send", !.to = {x}, !.next = @ + 1]
        /\ cast.next \in 1..Len(active)
    BY <1>0, <1>2 DEF CastTo, Casts
  <2>2. x \in Clients /\ x \in ToSet(active) /\ x \in Ahead
    BY <1>0, <2>1, ToSetIs DEF Ahead
  <2> HIDE DEF x
  <2>3. /\ cast' \in Casts /\ UNCHANGED <<cast.start, cast.sent, cast.removals>>
        /\ cast'.at = "send" /\ cast'.to = {x} /\ cast'.next = cast.next + 1
    <3>1. cast.next + 1 \in Nat \ {0} /\ {x} \in SUBSET Clients
      BY <1>0, <2>2
    <3>2. cast' \in Casts
      BY <1>0, <2>1, <3>1 DEF Casts
    <3>3. /\ UNCHANGED <<cast.start, cast.sent, cast.removals>>
          /\ cast'.at = "send" /\ cast'.to = {x} /\ cast'.next = cast.next + 1
      BY <1>0, <2>1 DEF Casts
    <3> QED BY <3>2, <3>3
  <2>4. Reached' = Reached \cup {x} /\ x \notin Reached
    BY <1>0, <2>2, <2>3 DEF Reached, Live, Broadcasting, Divided
  <2>5. Ahead' \subseteq Ahead \ {x} /\ Behind' \subseteq Behind \cup {x}
    <3>1. \A j \in 1..Len(active) : active[j] = x => j = cast.next
      BY <1>0, <2>1 DEF x, Live, Connections, Once
    <3>2. \A j \in 1..Len(active) : j >= cast.next + 1 => j >= cast.next /\ j # cast.next
      BY <1>0
    <3>3. \A j \in 1..Len(active) : j < cast.next + 1 => j < cast.next \/ j = cast.next
      BY <1>0
    <3>4. Ahead' \subseteq Ahead \ {x}
      BY <1>0, <2>3, <3>1, <3>2 DEF Ahead
    <3>5. Behind' \subseteq Behind \cup {x}
      BY <1>0, <2>3, <3>3 DEF Behind, x
    <3> QED BY <3>4, <3>5
  <2>6. Missed' \subseteq Missed
    BY <2>3, <2>4, <2>5 DEF Missed
  <2>7. Cardinality(Missed') <= cast.removals
    <3>1. IsFiniteSet(Missed)
      BY <1>0, ClientsFinite, FS_Subset DEF Missed, Casts
    <3>2. Cardinality(Missed') <= Cardinality(Missed) /\ Cardinality(Missed') \in Nat
          /\ Cardinality(Missed) \in Nat
      BY <2>6, <3>1, FS_Subset, FS_CardinalityType
    <3> QED BY <1>0, <3>2 DEF Live, Broadcasting, Divided, Casts
  <2>8. Divided'
    <3>1. Ahead \cap Reached = {} /\ x \notin ToSet(cast.sent)
      BY <1>0, <2>4 DEF Divided, Live, Broadcasting, Reached
    <3>2. Ahead' \cap Reached' = {}
      BY <2>4, <2>5, <3>1
    <3> QED BY <2>2, <2>3, <2>7, <3>1, <3>2 DEF Divided
  <2>9. x \in Joined
    BY <2>2 DEF Live, Connections
  <2> QED BY <1>1, <2>3, <2>4, <2>8, <2>9 DEF Live, Broadcasting
<1>3. CASE ~(cast.next <= Len(active))
  <2>1. cast' = [cast EXCEPT !.at = "done"]
    BY <1>3 DEF CastTo
  <2>2. /\ cast' \in Casts /\ UNCHANGED <<cast.start, cast.sent, cast.removals>>
        /\ cast'.at = "done"
    BY <1>0, <2>1 DEF Casts
  <2>3. ToSet(active) = Behind
    BY <1>0, <1>3, ToSetIs DEF Behind
  <2>4. Missed = (cast.start \cap ToSet(active)) \ ToSet(cast.sent)
    BY <1>0, <2>3 DEF Missed, Reached
  <2>5. Cardinality((cast.start \cap ToSet(active)) \ ToSet(cast.sent)) <= cast.removals
    BY <1>0, <2>4 DEF Live, Broadcasting, Divided
  <2>6. Reached' = Reached /\ Divided'
    BY <1>0, <2>2 DEF Reached, Divided, Casting
  <2> QED BY <1>0, <1>1, <2>2, <2>5, <2>6 DEF Live, Broadcasting
<1> QED BY <1>2, <1>3

\* Whoever was sent to had not been before.
LEMMA CastSendsKeeps == ASSUME Live, NEW c \in Clients, CastSends(c) PROVE Live'
<1>0. /\ cast \in Casts /\ cast.at = "send" /\ Casting /\ UNCHANGED <<active, handler>>
      /\ cast.to = {c} /\ cast.sent \in Seq(Clients)
      /\ cast' = [cast EXCEPT !.at = "loop", !.sent = Append(@, c)]
  BY DEF CastSends, Casting, Live, Broadcasting, Divided, Casts
<1>1. Connections' /\ Joined' = Joined
  BY <1>0 DEF Live, Connections, Joined
<1>2. c \notin ToSet(cast.sent)
  BY <1>0 DEF Live, Broadcasting, Divided
<1>3. /\ Append(cast.sent, c) \in Seq(Clients) /\ Once(Append(cast.sent, c))
      /\ ToSet(Append(cast.sent, c)) = ToSet(cast.sent) \cup {c}
  BY <1>0, <1>2, AppendTakes DEF Live, Broadcasting
<1>4. /\ cast' \in Casts /\ UNCHANGED <<cast.start, cast.next, cast.to, cast.removals>>
      /\ cast'.at = "loop" /\ cast'.sent = Append(cast.sent, c)
  BY <1>0, <1>3 DEF Casts
<1>5. Reached' = Reached /\ Ahead' = Ahead /\ Behind' = Behind
  BY <1>0, <1>3, <1>4 DEF Reached, Ahead, Behind
<1>6. Divided'
  BY <1>0, <1>4, <1>5 DEF Live, Broadcasting, Divided, Casting, Missed
<1> QED BY <1>0, <1>1, <1>3, <1>4, <1>5, <1>6 DEF Live, Broadcasting

\* A broadcast begins with everybody ahead of it.
LEMMA BroadcastKeeps == ASSUME Live, Broadcast PROVE Live'
<1>0. UNCHANGED <<active, handler>> /\ cast' = [NoCast EXCEPT !.at = "loop", !.start = ToSet(active)]
  BY DEF Broadcast
<1>1. Connections' /\ Joined' = Joined
  BY <1>0 DEF Live, Connections, Joined
<1>2. ToSet(active) \subseteq Clients
  BY DEF Live, Connections, Joined
<1>3. /\ cast' \in Casts /\ cast'.at = "loop" /\ cast'.next = 1 /\ cast'.sent = <<>>
      /\ cast'.start = ToSet(active) /\ cast'.removals = 0
  <2>1. cast' = [at |-> "loop", next |-> 1, to |-> {}, sent |-> <<>>, start |-> ToSet(active),
                 removals |-> 0]
    BY <1>0 DEF NoCast
  <2>2. <<>> \in Seq(Clients)
    OBVIOUS
  <2> QED BY <1>2, <2>1, <2>2 DEF Casts
<1>4. Reached' = {} /\ Once(cast'.sent)
  BY <1>3 DEF Reached, ToSet, Once
<1>5. Behind' = {} /\ Missed' = {}
  BY <1>3 DEF Behind, Missed
<1>6. Divided'
  BY <1>3, <1>4, <1>5, FS_EmptySet DEF Divided
<1> QED BY <1>1, <1>3, <1>4, <1>6 DEF Live, Connections, Broadcasting

\* Every step of the process keeps the connections and the broadcast as described.
LEMMA LiveStep == Live /\ [Next]_vars => Live'
<1> SUFFICES ASSUME Live, [Next]_vars PROVE Live'
  OBVIOUS
<1>1. CASE UNCHANGED liveVars
  BY <1>1, SameLive DEF liveVars, Live, Connections, Joined
<1>2. ASSUME NEW c \in Clients, Open(c) PROVE Live'
  <2>1. UNCHANGED <<active, cast>> /\ DOMAIN handler' = Clients /\ Joined \subseteq Joined'
    BY <1>2 DEF Open, Live, Connections, Joined
  <2> QED BY <2>1, SameLive
<1>3. ASSUME NEW c \in Clients, Leave(c) PROVE Live'
  <2>1. UNCHANGED <<active, cast>> /\ DOMAIN handler' = Clients /\ Joined \subseteq Joined'
    BY <1>3 DEF Leave, Live, Connections, Joined
  <2> QED BY <2>1, SameLive
<1>4. CASE LoopStep
  BY <1>4, CastToKeeps, ConnectKeeps, StreamFailsKeeps, CastSendsKeeps, CastFailsKeeps
     DEF LoopStep
<1> QED
  BY <1>1, <1>2, <1>3, <1>4, BroadcastKeeps
     DEF Next, Come, Handle, Tar, Turn, Others, vars

LEMMA LiveInvariant == Init /\ [][Next]_vars => []Live
<1>1. Init => Live
  <2> SUFFICES ASSUME Init PROVE Live
    OBVIOUS
  <2>1. Connections
    BY DEF Init, LiveLogsInit, Connections, Once, ToSet
  <2>2. cast = NoCast /\ cast \in Casts
    BY DEF Init, LiveLogsInit, NoCast, Casts
  <2> QED BY <2>1, <2>2 DEF Live, Broadcasting, NoCast, Once, Reached, ToSet, Divided, Casting
<1> QED BY <1>1, LiveStep, PTL

\* A broadcast that comes to its end has missed, of those connected all the while, no more
\* than connections were removed under it, and has sent to none twice.
THEOREM BroadcastCorrect == Spec => []MissesAreRemovals
<1>1. Live => MissesAreRemovals
  BY DEF Live, Broadcasting, MissesAreRemovals, Casts, Once, IsInjective
<1> QED BY <1>1, LiveInvariant, PTL DEF Spec

-----------------------------------------------------------------------------
(* The loop is freed *)

(* What the handler of a request still does at most.                       *)
StepsLeft ==
  CASE Idle -> 0
    [] request.at \in {"metadata", "log"} -> 1
    [] request.at = "ended" -> 2
    [] request.at = "tar" -> 3
    [] request.at = "start" -> 4

\* What is left is nothing only once the request is answered.
LEMMA StepsAre == ASSUME Typed PROVE StepsLeft \in 0..4 /\ (StepsLeft = 0 <=> Idle)
<1>1. request.at \in {"start", "tar", "ended", "metadata", "log", "answered"}
  BY DEF Typed, Records
<1> QED BY <1>1 DEF StepsLeft, Idle

\* A step of the process goes on with a request or leaves it where it is.
LEMMA RequestMoves ==
  ASSUME Sound, [Next]_vars, ~Idle
  PROVE  StepsLeft' <= StepsLeft /\ (Handle => StepsLeft' < StepsLeft)
<1>0. request'.at \in {"start", "tar", "ended", "metadata", "log", "answered"}
  BY SoundStep DEF Sound, Typed, Records
<1>1. request \in Records /\ StepsLeft \in 1..4
  BY StepsAre DEF Sound, Typed
<1>2. ASSUME request'.at = request.at PROVE StepsLeft' = StepsLeft
  BY <1>2 DEF StepsLeft, Idle
<1>3. ASSUME NEW code, Ended(code) PROVE request'.at = "ended"
  BY <1>1, <1>3 DEF Ended, Records
<1>4. ASSUME NEW a, Answer(a) PROVE request'.at = "answered"
  BY <1>4 DEF Answer, NoRequest
<1>5. ASSUME HandlerStep PROVE StepsLeft' < StepsLeft
  <2>1. CASE CannotRun \/ CutShort
    <3>1. request.at \in {"start", "tar"} /\ request'.at = "ended"
      BY <1>3, <2>1 DEF CannotRun, CutShort
    <3> QED BY <3>1 DEF StepsLeft, Idle
  <2>2. CASE CreateEnds \/ RestoreEnds
    <3>1. request.at = "ended" /\ request'.at \in {"metadata", "log", "answered"}
      BY <1>1, <1>4, <2>2 DEF CreateEnds, RestoreEnds, At, Goto, Records
    <3> QED BY <3>1 DEF StepsLeft, Idle
  <2>3. CASE StoreMetadata \/ LogRestore
    <3>1. request.at \in {"metadata", "log"} /\ request'.at = "answered"
      BY <1>4, <2>3 DEF StoreMetadata, LogRestore, At
    <3> QED BY <3>1 DEF StepsLeft, Idle
  <2> QED BY <1>5, <2>1, <2>2, <2>3 DEF HandlerStep
<1>6. ASSUME TarStep PROVE StepsLeft' <= StepsLeft
  <2>1. CASE TarOpens \/ Extracts
    <3>1. request.at = "start" /\ request'.at \in {"tar", "ended"}
      BY <1>1, <1>3, <2>1 DEF TarOpens, Extracts, At, Records
    <3> QED BY <3>1 DEF StepsLeft, Idle
  <2>2. CASE TarEnds \/ ExtractEnds
    <3>1. request.at = "tar" /\ request'.at = "ended"
      BY <1>3, <2>2 DEF TarEnds, ExtractEnds, At
    <3> QED BY <3>1 DEF StepsLeft, Idle
  <2>3. ASSUME NEW f \in Files, TarAdds(f) \/ TarSkips(f) \/ ExtractFile(f) PROVE StepsLeft' = StepsLeft
    <3>1. request'.at = request.at
      BY <1>1, <2>3 DEF TarAdds, TarSkips, ExtractFile, Records
    <3> QED BY <1>2, <3>1
  <2> QED BY <1>1, <1>6, <2>1, <2>2, <2>3 DEF TarStep
<1>7. ASSUME LabStep PROVE request'.at = request.at
  BY <1>1, <1>7 DEF LabStep, Tick, Change, Cleanup, Records
<1>8. Handle => StepsLeft' < StepsLeft
  BY <1>5 DEF Handle
<1>9. StepsLeft \in 0..4 /\ StepsLeft' \in 0..4
  <2>1. StepsLeft' \in 0..4
    BY <1>0 DEF StepsLeft, Idle
  <2> QED BY <1>1, <2>1
<1>10. ASSUME UNCHANGED request PROVE StepsLeft' = StepsLeft
  BY <1>2, <1>10
<1>11. StepsLeft' <= StepsLeft
  <2>1. CASE Handle
    BY <1>8, <1>9, <2>1
  <2>2. CASE Tar
    BY <1>6, <2>2 DEF Tar
  <2>3. CASE LabStep
    BY <1>2, <1>7, <1>9, <2>3
  <2>4. CASE UNCHANGED request
    BY <1>9, <1>10, <2>4
  <2>5. ~Come /\ ~Turn
    BY DEF Come, Turn
  <2> QED BY <2>1, <2>2, <2>3, <2>4, <2>5 DEF Next, Others, vars, backupVars
<1> QED BY <1>8, <1>11

(* A backup request holds the event loop for no more than four steps of    *)
(* its handler: each of them leaves fewer, and neither tar nor the lab     *)
(* gives any back, so the time limit of tar is enough to free the loop.    *)
THEOREM RequestsEnd ==
  Spec => /\ [](StepsLeft \in 0..4 /\ (StepsLeft = 0 <=> Idle))
          /\ [][~Idle => StepsLeft' <= StepsLeft /\ (Handle => StepsLeft' < StepsLeft)]_vars
<1> DEFINE Bounded == StepsLeft \in 0..4 /\ (StepsLeft = 0 <=> Idle)
           Moves == ~Idle => StepsLeft' <= StepsLeft /\ (Handle => StepsLeft' < StepsLeft)
<1>1. Sound => Bounded
  BY StepsAre DEF Sound
<1>2. Sound /\ [Next]_vars => Moves
  BY RequestMoves
<1> HIDE DEF Bounded, Moves
<1>3. Spec => []Bounded /\ [][Moves]_vars
  BY <1>1, <1>2, SoundInit, SoundStep, PTL DEF Spec
<1> QED BY <1>3 DEF Bounded, Moves

(* What a broadcast still does at most.  Its iterator only moves on, and   *)
(* the list never holds a connection twice.                                *)
SendsLeft ==
  CASE cast.at = "loop" -> 2 * (MaxClients - cast.next) + 3
    [] cast.at = "send" -> 2 * (MaxClients - cast.next) + 4
    [] OTHER -> 0
CastStep == CastTo \/ \E c \in Clients : CastSends(c) \/ CastFails(c)
InList ==
  /\ cast.at = "loop" => cast.next \in 1..(MaxClients + 1)
  /\ cast.at = "send" => cast.next \in 2..(MaxClients + 1)

\* A list without repetitions is no longer than there are clients.
LEMMA FewActive == ASSUME Connections PROVE Len(active) \in 0..MaxClients
<1> DEFINE n == Len(active)
<1>1. n \in Nat /\ MaxClients \in Nat /\ active \in [1..n -> Clients]
  BY LiveLogsAssumption DEF Connections, LiveLogsAssumption
<1>2. IsFiniteSet(Clients) /\ Cardinality(Clients) = MaxClients /\ Cardinality(1..n) = n
  <2> HIDE DEF n
  <2>1. \A k \in Nat : IsFiniteSet(1..k) /\ Cardinality(1..k) = k
    BY FS_Interval
  <2> QED BY <1>1, <2>1 DEF Clients
<1>3. active \in Injection(1..n, Clients)
  <2>1. \A i, j \in 1..n : active[i] = active[j] => i = j
    BY DEF Connections, Once
  <2> HIDE DEF n
  <2> QED BY <1>1, <2>1 DEF Injection, IsInjective
<1>4. n <= MaxClients
  BY <1>2, <1>3, FS_Injection
<1> QED BY <1>1, <1>4

LEMMA SendsAre ==
  ASSUME Live, InList
  PROVE  SendsLeft \in 0..(2 * MaxClients + 1) /\ (SendsLeft = 0 <=> ~Casting)
<1>1. MaxClients \in Nat /\ cast.at \in {"idle", "loop", "send", "done", "aborted"}
  BY LiveLogsAssumption DEF LiveLogsAssumption, Live, Broadcasting, Casts
<1>2. CASE cast.at = "loop"
  <2>1. /\ SendsLeft = 2 * (MaxClients - cast.next) + 3 /\ cast.next \in 1..(MaxClients + 1)
        /\ Casting
    BY <1>2 DEF SendsLeft, InList, Casting
  <2> QED BY <1>1, <2>1
<1>3. CASE cast.at = "send"
  <2>1. /\ SendsLeft = 2 * (MaxClients - cast.next) + 4 /\ cast.next \in 2..(MaxClients + 1)
        /\ Casting
    BY <1>3 DEF SendsLeft, InList, Casting
  <2> QED BY <1>1, <2>1
<1>4. CASE cast.at \in {"idle", "done", "aborted"}
  BY <1>1, <1>4 DEF SendsLeft, Casting
<1> QED BY <1>1, <1>2, <1>3, <1>4

\* A step of a broadcast brings it nearer to its end, and connections that come, go or fail
\* meanwhile do not put it off.
LEMMA CastMoves ==
  ASSUME Live, InList, [Next]_vars
  PROVE  /\ InList'
         /\ Casting => IF CastStep THEN SendsLeft' < SendsLeft ELSE SendsLeft' = SendsLeft
<1>1. /\ cast \in Casts /\ cast.next \in Nat /\ MaxClients \in Nat
      /\ Len(active) \in 0..MaxClients
  BY FewActive, LiveLogsAssumption DEF LiveLogsAssumption, Live, Broadcasting, Casts
<1>2. ASSUME CastTo PROVE Casting /\ InList' /\ SendsLeft' < SendsLeft
  <2>1. cast.at = "loop" /\ SendsLeft = 2 * (MaxClients - cast.next) + 3
        /\ cast.next \in 1..(MaxClients + 1) /\ Casting
    BY <1>2 DEF CastTo, SendsLeft, InList, Casting
  <2>2. CASE cast.next <= Len(active)
    <3>1. cast'.at = "send" /\ cast'.next = cast.next + 1
      BY <1>1, <1>2, <2>2 DEF CastTo, Casts
    <3>2. SendsLeft' = 2 * (MaxClients - (cast.next + 1)) + 4
      BY <3>1 DEF SendsLeft
    <3>3. cast.next + 1 \in 2..(MaxClients + 1)
      BY <1>1, <2>1, <2>2
    <3>4. SendsLeft' < SendsLeft
      <4>1. PICK k \in Int : k = 2 * (MaxClients - cast.next)
        BY <1>1
      <4>2. 2 * (MaxClients - (cast.next + 1)) = k - 2
        BY <1>1, <4>1
      <4>3. SendsLeft = k + 3 /\ SendsLeft' = k - 2 + 4
        BY <2>1, <3>2, <4>1, <4>2
      <4> QED BY <4>3
    <3>5. InList'
      BY <3>1, <3>3 DEF InList
    <3> QED BY <2>1, <3>4, <3>5
  <2>3. CASE ~(cast.next <= Len(active))
    <3>1. cast'.at = "done"
      BY <1>1, <1>2, <2>3 DEF CastTo, Casts
    <3>2. SendsLeft' = 0
      BY <3>1 DEF SendsLeft
    <3> QED BY <1>1, <2>1, <3>1, <3>2 DEF InList
  <2> QED BY <2>2, <2>3
<1>3. ASSUME NEW c \in Clients, CastSends(c) \/ CastFails(c)
      PROVE  Casting /\ InList' /\ SendsLeft' < SendsLeft
  <2>1. cast.at = "send" /\ SendsLeft = 2 * (MaxClients - cast.next) + 4
        /\ cast.next \in 2..(MaxClients + 1) /\ Casting
    BY <1>3 DEF CastSends, CastFails, SendsLeft, InList, Casting
  <2>2. cast'.at \in {"loop", "aborted"} /\ cast'.next = cast.next
    <3>1. CASE CastSends(c)
      BY <1>1, <3>1 DEF CastSends, Casts
    <3>2. CASE CastFails(c) /\ c \in ToSet(active)
      BY <1>1, <3>2 DEF CastFails, AfterFailure, OneLess, Casting, Casts
    <3>3. CASE CastFails(c) /\ c \notin ToSet(active)
      BY <1>1, <3>3 DEF CastFails, Casts
    <3> QED BY <1>3, <3>1, <3>2, <3>3
  <2>3. SendsLeft' \in {2 * (MaxClients - cast.next) + 3, 0}
    BY <2>2 DEF SendsLeft
  <2>4. SendsLeft' < SendsLeft
    BY <1>1, <2>1, <2>3
  <2>5. InList'
    BY <1>1, <2>1, <2>2 DEF InList
  <2> QED BY <2>1, <2>4, <2>5
<1>4. ASSUME cast'.at = cast.at, cast'.next = cast.next
      PROVE  InList' /\ SendsLeft' = SendsLeft
  BY <1>4 DEF InList, SendsLeft
<1>5. ASSUME NEW c \in Clients, StreamFails(c) PROVE cast'.at = cast.at /\ cast'.next = cast.next
  BY <1>1, <1>5 DEF StreamFails, OneLess, Casts
<1>6. ASSUME Broadcast PROVE ~Casting /\ InList'
  <2>1. cast'.at = "loop" /\ cast'.next = 1
    BY <1>6 DEF Broadcast, NoCast
  <2> QED BY <1>1, <1>6, <2>1 DEF Broadcast, InList
<1>7. CastStep => Casting /\ InList' /\ SendsLeft' < SendsLeft
  BY <1>2, <1>3 DEF CastStep
<1>8. \/ CastStep \/ Broadcast \/ UNCHANGED cast \/ \E c \in Clients : StreamFails(c)
  BY DEF Next, Come, Handle, Tar, Turn, Others, LoopStep, CastStep, Open, Connect, Leave,
     vars, liveVars
<1> QED BY <1>4, <1>5, <1>6, <1>7, <1>8

(* A broadcast ends after at most two steps for each client and one more,  *)
(* although the list it goes through grows and shrinks under it: its       *)
(* iterator only moves on, and the list never holds a connection twice.    *)
THEOREM BroadcastsEnd ==
  Spec => /\ [](SendsLeft \in 0..(2 * MaxClients + 1) /\ (SendsLeft = 0 <=> ~Casting))
          /\ [][Casting => IF CastStep THEN SendsLeft' < SendsLeft ELSE SendsLeft' = SendsLeft]_vars
<1> DEFINE Bounded == SendsLeft \in 0..(2 * MaxClients + 1) /\ (SendsLeft = 0 <=> ~Casting)
           Moves == Casting => IF CastStep THEN SendsLeft' < SendsLeft ELSE SendsLeft' = SendsLeft
<1>1. Init => InList
  BY DEF Init, LiveLogsInit, NoCast, InList
<1>2. Live /\ InList => Bounded
  BY SendsAre
<1>3. Live /\ InList /\ [Next]_vars => InList' /\ Moves
  BY CastMoves
<1> HIDE DEF Bounded, Moves
<1>4. Spec => []Bounded /\ [][Moves]_vars
  BY <1>1, <1>2, <1>3, LiveInvariant, PTL DEF Spec
<1> QED BY <1>4 DEF Bounded, Moves
=============================================================================
