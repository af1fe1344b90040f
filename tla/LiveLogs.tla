------------------------------- MODULE LiveLogs -------------------------------
(***************************************************************************)
(* The websocket connections of the management API: ConnectionManager and  *)
(* the handler of /ws/logs.  Every await lets other coroutines run, so the *)
(* list of connections changes while a broadcast goes through it.          *)
(***************************************************************************)
EXTENDS Integers, Sequences, SequencesExt

CONSTANT MaxClients     \* connections, numbered as they come

ASSUME LiveLogsAssumption == MaxClients \in Nat

Clients == 1..MaxClients

VARIABLES
    reader,     \* whether the application was given a log reader
    active,     \* ConnectionManager.active_connections
    socket,     \* the client's end of each connection
    handler,    \* the coroutine that serves it
    cast        \* a broadcast: its coroutine, and what the properties need of it

liveVars == <<reader, active, socket, handler, cast>>

\* A broadcast is at the head of its loop, awaits a send, has come to its end
\* or was ended by an exception.  next is the index of the list's iterator.
NoCast == [at |-> "idle", next |-> 1, to |-> {}, sent |-> <<>>, start |-> {}, removals |-> 0]

LiveLogsInit ==
    /\ reader \in BOOLEAN /\ active = <<>>
    /\ socket = [c \in Clients |-> "new"] /\ handler = [c \in Clients |-> "none"]
    /\ cast = NoCast

Casting == cast.at \in {"loop", "send"}

\* Removals are counted while a broadcast is under way.
OneLess(record) == IF Casting THEN [record EXCEPT !.removals = @ + 1] ELSE record

-----------------------------------------------------------------------------
(* connect, disconnect and the handler.                                    *)

Open(c) ==
    /\ handler[c] = "none" /\ \A d \in 1..(c - 1) : handler[d] # "none"
    /\ handler' = [handler EXCEPT ![c] = "accepting"]
    /\ socket' = [socket EXCEPT ![c] = "open"]
    /\ UNCHANGED <<reader, active, cast>>

RegisteredFirst(c) == <<c>> \o active
Registered(c) == Append(active, c)

\* The log reader has no stream_logs: the AttributeError ends the handler, and
\* the server closes the socket of a connection that stays in the list.
Connect(c) ==
    /\ handler[c] = "accepting" /\ active' = Registered(c)
    /\ IF reader
         THEN /\ handler' = [handler EXCEPT ![c] = "ended"]
              /\ socket' = [socket EXCEPT ![c] = "closed"]
         ELSE handler' = [handler EXCEPT ![c] = "streaming"] /\ UNCHANGED socket
    /\ UNCHANGED <<reader, cast>>

\* A send to a client that has left: as WebSocketDisconnect it makes the
\* handler disconnect, which ignores a connection that is not in the list; as
\* any other exception it only ends the handler.
StreamFails(c) ==
    /\ handler[c] = "streaming" /\ socket[c] = "gone"
    /\ handler' = [handler EXCEPT ![c] = "ended"] /\ socket' = [socket EXCEPT ![c] = "closed"]
    /\ \/ /\ c \in ToSet(active) /\ active' = RemoveFirst(active, c) /\ cast' = OneLess(cast)
       \/ UNCHANGED <<active, cast>>
    /\ UNCHANGED reader

Leave(c) ==
    /\ socket[c] = "open" /\ socket' = [socket EXCEPT ![c] = "gone"]
    /\ UNCHANGED <<reader, active, handler, cast>>

-----------------------------------------------------------------------------
(* broadcast.                                                              *)

Broadcast ==
    /\ ~Casting /\ cast' = [NoCast EXCEPT !.at = "loop", !.start = ToSet(active)]
    /\ UNCHANGED <<reader, active, socket, handler>>

\* The iterator takes what is at its index by now.
CastTo ==
    /\ cast.at = "loop"
    /\ cast' = IF cast.next <= Len(active)
                 THEN [cast EXCEPT !.at = "send", !.to = {active[cast.next]}, !.next = @ + 1]
                 ELSE [cast EXCEPT !.at = "done"]
    /\ UNCHANGED <<reader, active, socket, handler>>

CastSends(c) ==
    /\ cast.at = "send" /\ c \in cast.to /\ socket[c] # "closed"
    /\ cast' = [cast EXCEPT !.at = "loop", !.sent = Append(@, c)]
    /\ UNCHANGED <<reader, active, socket, handler>>

\* Where a broadcast goes on after a send that failed.
AfterFailure == "loop"

\* The connection is removed; if it is gone from the list already, the
\* ValueError leaves the loop.
CastFails(c) ==
    /\ cast.at = "send" /\ c \in cast.to /\ socket[c] # "open"
    /\ IF c \in ToSet(active)
         THEN active' = RemoveFirst(active, c) /\ cast' = OneLess([cast EXCEPT !.at = AfterFailure])
         ELSE UNCHANGED active /\ cast' = [cast EXCEPT !.at = "aborted"]
    /\ UNCHANGED <<reader, socket, handler>>

LoopStep ==
    \/ CastTo
    \/ \E c \in Clients : Connect(c) \/ StreamFails(c) \/ CastSends(c) \/ CastFails(c)

LiveLogsTypeOK ==
    /\ reader \in BOOLEAN /\ active \in Seq(Clients)
    /\ socket \in [Clients -> {"new", "open", "gone", "closed"}]
    /\ handler \in [Clients -> {"none", "accepting", "streaming", "ended"}]
    /\ cast.at \in {"idle", "loop", "send", "done", "aborted"} /\ cast.next \in Nat \ {0}
    /\ cast.to \subseteq Clients /\ cast.start \subseteq Clients
    /\ cast.sent \in Seq(Clients) /\ cast.removals \in Nat
=============================================================================
