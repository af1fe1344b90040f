----------------------------- MODULE ServiceCalls -----------------------------
(***************************************************************************)
(* Calls of the services and uses of the helpers around them.  A behaviour *)
(* is that of one caller of a client (ServiceCall), an endpoint of the API *)
(* among them (SoarRoutes), one use of a helper (Resilience), or the life  *)
(* of one session with Shuffle (ShuffleSession): the code nests none of    *)
(* them into another.                                                      *)
(***************************************************************************)
EXTENDS SoarRoutes, Resilience, ShuffleSession

vars == <<callVars, routeVars, resilienceVars, sessionVars>>

Init ==
  /\ CallInit /\ RoutesInit /\ SessionInit
  /\ ResilienceInit(IF owner = "absent" THEN Kinds \cup {"none"} ELSE {"none"})

Others == <<callVars, routeVars, resilienceVars>>

Calling ==
  /\ kind = "none" /\ owner = "absent"
  /\ RoutesNext /\ UNCHANGED <<resilienceVars, sessionVars>>

Helping ==
  kind # "none" /\ ResilienceNext /\ UNCHANGED <<callVars, routeVars, sessionVars>>

Holding == owner # "absent" /\ SessionNext /\ UNCHANGED Others

Next == Calling \/ Helping \/ Holding

(* The caller's thread runs, and each request ends at its own time limit;  *)
(* the function given to a TimeoutHandler may hang.  The keepalive thread  *)
(* is scheduled, and what nothing refers to is collected.                  *)
Spec ==
  /\ Init /\ [][Next]_vars
  /\ WF_vars(ServeStep /\ UNCHANGED <<resilienceVars, sessionVars>>)
  /\ WF_vars(CallerStep /\ UNCHANGED <<callVars, routeVars, sessionVars>>)
  /\ WF_vars(SessionStep /\ UNCHANGED Others)
  /\ WF_vars(KeepaliveStep /\ UNCHANGED Others)

-----------------------------------------------------------------------------
TypeOK ==
  /\ objects \in Nat /\ calls \in 0..MaxCalls /\ creations \in Nat
  /\ phase \in {"closed", "open", "half_open"}
  /\ streak \in 0..Threshold /\ age \in 0..Recovery
  /\ call.op \in Operations /\ call.step \in 1..Len(call.op.requests)
  /\ call.left \in 0..Retries /\ call.applied \in 0..(Retries + 1)
  /\ call.result \in {"none", "ok", "nothing", "error"}
  /\ at \in {"idle", "admit", "send", "found", "nothing", "failed"}
  /\ configured \in BOOLEAN /\ route \in Endpoints \cup {NoRoute} 
  /\ heard \in {"silence", "something", "nothing", "refusal"}
  /\ answer \in {"none", "content", "empty", "reachable", "unreachable", "not_found",
                 "bad_gateway", "unavailable"}
  /\ kind \in Kinds \cup {"none"} /\ limit \in Nat /\ tries \in 0..(limit + 1)
  /\ SessionTypeOK

(* However often a request is resent after a lost or failed answer, a      *)
(* service holds no more objects than the client asked it to create: the   *)
(* adapter must not send again what would create a second one              *)
(* (base_client.py, _build_session).                                       *)
NoHiddenDuplicate == objects <= creations

(* What a client reports as done was done by the service: its last request *)
(* took effect, or asked for the removal of what was already gone.  A      *)
(* failure may still hide a request that was done.                         *)
SuccessIsTrue ==
  at = "idle" /\ call.result = "ok" /\ request.effect # "read"
    => call.applied > 0 \/ request.fails = "gone"

(* What an endpoint shows of a service is what the service said to the     *)
(* last request: content only when it gave some, an empty list only when   *)
(* it said there is nothing, never for a failure; and neither a 502 nor an *)
(* "unreachable" when it answered as it should.  They may stand for a      *)
(* refusal, though: the 404 of a case that is not there is shown as a 502, *)
(* like an outage (routes_soar.py:83-86).  The 404 of an execution is left *)
(* out: every lookup behind it shrugs, so it may stand for anything.       *)
AnswersAreHeard ==
  Served \/ answer = "unavailable" \/ route = NoRoute
    \/ /\ answer = "content" => heard = "something"
       /\ answer = "empty" => heard = "nothing"
       /\ answer = "reachable" => heard \in {"something", "nothing"}
       /\ answer \in {"bad_gateway", "unreachable"} => heard \in {"silence", "refusal"}

Breaker == INSTANCE BreakerContract

(* Refused, resent, shrugged and skipped requests included, the requests   *)
(* of a client take its breaker through the steps of the contract.         *)
BreakerKept == [][Breaker!Next]_breakerVars

(* What the caller of a helper is told is what happened: a value only when *)
(* the function returned it or the commit was done, the function's own     *)
(* error when it raised, and after a rollback nothing is left and nothing  *)
(* was committed (timeout.py, transaction.py, retry.py).                   *)
OutcomeIsTrue ==
  /\ outcome = "value" =>
       /\ kind \in {"retry", "again"} => last = "value"
       /\ kind = "timeout" => result = "value"
       /\ kind = "atomic" => tx.committed
  /\ outcome = "rolled_back" => tx.operations = 0 /\ ~tx.committed
  /\ outcome = "retryable" => tries = limit + 1
  /\ outcome = "fatal" => last = "fatal"
  /\ tries <= limit + 1

(* A client of Shuffle that comes out of its constructor holds a key that  *)
(* Shuffle has accepted since it was made, whatever key it was given and   *)
(* whatever the setup did meanwhile, unless the database had none to read  *)
(* (shuffle_helpers.py, warm_cache).                                       *)
HealedKeyIsReal == owner = "held" /\ ~missed => header \in seen

(* The thread goes on through every failure until close() is called, and   *)
(* then it ends, also where close() has given up waiting for it            *)
(* (shuffle_helpers.py, keepalive_loop).                                   *)
KeepaliveUntilClosed ==
  /\ keepalive # "none" ~> keepalive = "ping" \/ stopped
  /\ stopped ~> keepalive \in {"none", "over"}

(* Whatever the service and the function given to a helper do, a caller    *)
(* gets its answer: every operation of a client ends, every endpoint       *)
(* answers, and so does every helper, except where a signal ends the       *)
(* process first.  The constructor of a session ends, and its thread lives *)
(* until it is closed.                                                     *)
CallsEnd ==
  /\ at # "idle" \/ Served ~> at = "idle" /\ ~Served
  /\ main # "over" => <>(main = "over")
  /\ owner \notin {"absent", "new"} ~> owner \in {"held", "join", "dropped", "closed"}
  /\ KeepaliveUntilClosed
===============================================================================
