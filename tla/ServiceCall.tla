----------------------------- MODULE ServiceCall -----------------------------
(***************************************************************************)
(* BaseHTTPClient: one caller makes operations of IntegrationClients at a  *)
(* service that may be away, busy, or lose its answers.  Below the client  *)
(* the session's adapter sends a request again; above it the circuit       *)
(* breaker counts the requests that failed.                                *)
(***************************************************************************)
EXTENDS IntegrationClients

CONSTANTS
  Retries,     \* DEFAULT_RETRIES, the total of urllib3's Retry
  Threshold,   \* failure_threshold of the breaker
  Recovery,    \* recovery_timeout of the breaker
  MaxCalls     \* bound: operations the caller makes

ASSUME CallAssumption ==
  /\ {Retries, Recovery, MaxCalls} \subseteq Nat
  /\ Threshold \in Nat \ {0}

VARIABLES
  objects,   \* how many objects of the kind asked for the service holds
  phase,     \* the breaker
  streak,
  age,
  call,      \* the operation under way
  at,        \* what happens next to its current request
  calls,     \* operations begun
  creations  \* requests begun that create an object, a history

breakerVars == <<phase, streak, age>>
callVars == <<objects, breakerVars, call, at, calls, creations>>

None == [op |-> One(Get), step |-> 1, left |-> 0, applied |-> 0, result |-> "none"]

request == call.op.requests[call.step]

CallInit ==
  /\ objects = 0 /\ phase = "closed" /\ streak = 0 /\ age = Recovery
  /\ call = None /\ at = "idle" /\ calls = 0 /\ creations = 0

-----------------------------------------------------------------------------
(* Requests *)

Creates(r) == r.effect \in {"create", "put", "write"}

(* The request at step k of operation op is about to be sent. *)
Prepare(op, k) ==
  /\ call' = [op |-> op, step |-> k, applied |-> 0, result |-> "none",
              left |-> IF op.requests[k].way = "bare" THEN 0 ELSE Retries]
  /\ at' = "admit"
  /\ creations' = IF Creates(op.requests[k]) THEN creations + 1 ELSE creations

Begin(op) ==
  /\ at = "idle" /\ calls < MaxCalls /\ calls' = calls + 1
  /\ Prepare(op, 1)
  /\ UNCHANGED <<objects, breakerVars>>

End(result) == at' = "idle" /\ call' = [call EXCEPT !.result = result]

(* The request is done, and found says whether it found what it looked for *)
(* (a shrugged failure finds nothing).                                     *)
Continue(found) ==
  LET last == call.step = Len(call.op.requests)
      stop == \/ last
              \/ call.op.until = "found" /\ found
              \/ call.op.until = "empty" /\ ~found
              \/ call.op.until = "search" /\ (IF call.step = 1 THEN found ELSE ~found)
              \/ at = "nothing" /\ request.fails = "retry"
  IN IF stop THEN End(IF found THEN "ok" ELSE "nothing") /\ UNCHANGED creations
             ELSE Prepare(call.op, call.step + 1)

Failed ==
  CASE request.fails = "raise" -> End("error") /\ UNCHANGED creations
    [] request.fails = "stop" -> End("nothing") /\ UNCHANGED creations
    [] OTHER -> Continue(FALSE)

-----------------------------------------------------------------------------
(* The breaker.  An open one refuses with an exception of its own, which   *)
(* is not counted.                                                         *)

Guarded == request.way = "breaker"

Admit ==
  /\ at = "admit"
  /\ \/ /\ ~Guarded \/ phase # "open"
        /\ at' = "send" /\ UNCHANGED <<phase, call, creations>>
     \/ /\ Guarded /\ phase = "open" /\ age = Recovery
        /\ phase' = "half_open" /\ at' = "send" /\ UNCHANGED <<call, creations>>
     \/ /\ Guarded /\ phase = "open" /\ age < Recovery
        /\ Failed /\ UNCHANGED phase
  /\ UNCHANGED <<objects, streak, age, calls>>

RecordSuccess ==
  IF Guarded THEN phase' = "closed" /\ streak' = 0 /\ UNCHANGED age
             ELSE UNCHANGED breakerVars

(* Mutant: a failed probe leaves the breaker half open. *)
RecordFailureOnlyCounted ==
  IF Guarded
    THEN /\ streak' = IF streak < Threshold THEN streak + 1 ELSE Threshold
         /\ phase' = IF streak + 1 = Threshold THEN "open" ELSE phase
         /\ age' = 0
    ELSE UNCHANGED breakerVars

RecordFailure ==
  IF Guarded
    THEN /\ age' = 0
         /\ IF phase = "half_open"
              THEN phase' = "open" /\ UNCHANGED streak
              ELSE /\ streak' = IF streak < Threshold THEN streak + 1 ELSE Threshold
                   /\ phase' = IF streak + 1 >= Threshold THEN "open" ELSE phase
    ELSE UNCHANGED breakerVars

-----------------------------------------------------------------------------
(* What becomes of a request on the wire.  The adapter sends any request   *)
(* again that was never delivered, and one whose answer is lost or tells   *)
(* of an overload when its verb is idempotent.                             *)

(* Mutant: every verb is sent again, as with allowed_methods=None. *)
ResendableAny(verb) == TRUE

Resendable(verb) == verb \notin {"POST", "PATCH"}

Missing == objects = 0 \/ call.applied > 0

(* What the service may accept, the objects it has then, and the call with *)
(* one more request done.                                                  *)
Acceptable ==
  /\ request.effect = "put" => objects = 0
  /\ request.effect \in {"edit", "delete"} => ~Missing
  /\ request.verb = "HEAD" => objects > 0

ObjectsAfter ==
  CASE request.effect = "create" -> objects + 1
    [] request.effect \in {"put", "write"} /\ objects = 0 -> 1
    [] request.effect = "delete" -> objects - 1
    [] OTHER -> objects

Applied == [call EXCEPT !.applied = @ + 1]

Answered ==
  /\ at = "send" /\ Acceptable /\ at' = "found"
  /\ objects' = ObjectsAfter /\ call' = Applied
  /\ UNCHANGED <<breakerVars, calls, creations>>

FoundNothing ==
  /\ at = "send" /\ request.effect = "read" /\ at' = "nothing"
  /\ request.verb = "HEAD" => objects = 0
  /\ UNCHANGED <<objects, breakerVars, call, calls, creations>>

(* Mutant: raise_for_status is left out. *)
RefusedUnseen ==
  /\ at = "send" /\ ~Acceptable /\ at' = "found"
  /\ UNCHANGED <<objects, breakerVars, call, calls, creations>>

(* A 4xx: the object is missing or exists already, or the request is not   *)
(* allowed.  The service has answered, but raise_for_status makes of it a  *)
(* failure like that of an outage, and nothing above tells them apart.     *)
Refused ==
  /\ at = "send"
  /\ at' = IF request.fails = "gone" /\ Missing THEN "found" ELSE "failed"
  /\ UNCHANGED <<objects, breakerVars, call, calls, creations>>

Undelivered ==
  /\ at = "send"
  /\ IF call.left > 0 THEN call' = [call EXCEPT !.left = @ - 1] /\ UNCHANGED at
                      ELSE at' = "failed" /\ UNCHANGED call
  /\ UNCHANGED <<objects, breakerVars, calls, creations>>

Resend(c) ==
  IF c.left > 0 /\ Resendable(request.verb)
    THEN call' = [c EXCEPT !.left = @ - 1] /\ UNCHANGED at
    ELSE call' = c /\ at' = "failed"

Overloaded ==
  /\ at = "send" /\ Resend(call)
  /\ UNCHANGED <<objects, breakerVars, calls, creations>>

(* The service has done it, but the answer does not arrive. *)
Lost ==
  /\ at = "send" /\ Acceptable /\ request.effect # "read"
  /\ objects' = ObjectsAfter /\ Resend(Applied)
  /\ UNCHANGED <<breakerVars, calls, creations>>

Return ==
  /\ at \in {"found", "nothing"} /\ RecordSuccess /\ Continue(at = "found")
  /\ UNCHANGED <<objects, calls>>

Raise ==
  /\ at = "failed" /\ RecordFailure /\ Failed
  /\ UNCHANGED <<objects, calls>>

Tick ==
  /\ age < Recovery /\ age' = age + 1
  /\ UNCHANGED <<objects, phase, streak, call, at, calls, creations>>

===============================================================================
