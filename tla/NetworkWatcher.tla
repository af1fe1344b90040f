---------------------------- MODULE NetworkWatcher ----------------------------
(***************************************************************************)
(* network_watcher: a process that hears of the containers Orborus creates *)
(* and starts, joins those of Shuffle to the SOAR network, and writes the  *)
(* addresses of the services, a resolver and a Docker socket into them.    *)
(* Its event loop handles a creation itself and a start in a thread; each  *)
(* injection runs in one more thread, beside the running container.        *)
(* Threads at the same place with the same data are one: what they do to a *)
(* container is the same done twice.                                       *)
(***************************************************************************)
EXTENDS Integers, Sequences, FiniteSets

CONSTANTS
  Containers,   \* containers Orborus runs
  Shuffle,      \* those whose name is_shuffle_container accepts
  Services,     \* INJECT_HOSTS
  Attempts,     \* max_retries of inject_hosts_file
  MaxChanges,   \* bound: services that come or go
  MaxFaults,    \* bound: Docker calls that fail
  MaxCrashes    \* bound: ends of the process

ASSUME WatcherAssumption ==
  /\ Shuffle \subseteq Containers
  /\ Attempts \in Nat \ {0}
  /\ {MaxChanges, MaxFaults, MaxCrashes} \subseteq Nat

VARIABLES
  shared,     \* containers that share another one's network, never changes
  life,       \* of each container
  net,        \* containers on TARGET_NETWORK
  hosts,      \* services named in each container's /etc/hosts
  resolv,     \* containers with the network's resolver
  socket,     \* containers with a forwarded Docker socket
  reachable,  \* services that have an address now
  steady,     \* services that have had one since the beginning, a history
  watcher,    \* "down", "list", "subscribe", "listen", or "busy" with a creation
  events,     \* Docker's events on their way to the watcher
  threads,    \* what runs beside the event loop, and the creation under way
  heard,      \* containers listed, or started under the watcher's eyes
  spoiled,    \* containers about which a Docker call failed, a history
  changes, faults, crashes

world == <<shared, reachable, steady, changes>>
inside == <<net, hosts, resolv, socket>>
bounds == <<spoiled, faults>>
watcherVars == <<life, inside, world, watcher, events, threads, heard, bounds, crashes>>

WatcherInit ==
  /\ life = [c \in Containers |-> "absent"]
  /\ hosts = [c \in Containers |-> {}]
  /\ net = {} /\ resolv = {} /\ socket = {} /\ heard = {} /\ spoiled = {}
  /\ shared \in SUBSET Shuffle
  /\ reachable \in SUBSET Services /\ steady = reachable
  /\ watcher = "down" /\ events = <<>> /\ threads = {}
  /\ changes = 0 /\ faults = 0 /\ crashes = 0

-----------------------------------------------------------------------------
(* Orborus, the services, and the process *)

Listening == watcher \in {"listen", "busy"}

Emit(c, action) ==
  events' = IF Listening THEN Append(events, [c |-> c, action |-> action]) ELSE events

CreateContainer(c) ==
  /\ life[c] = "absent" /\ life' = [life EXCEPT ![c] = "created"]
  /\ Emit(c, "create")
  /\ UNCHANGED <<inside, world, watcher, threads, heard, bounds, crashes>>

StartContainer(c) ==
  /\ life[c] = "created" /\ life' = [life EXCEPT ![c] = "running"]
  /\ Emit(c, "start")
  /\ heard' = IF Listening THEN heard \cup {c} ELSE heard
  /\ UNCHANGED <<inside, world, watcher, threads, bounds, crashes>>

RemoveContainer(c) ==
  /\ life[c] = "running" /\ life' = [life EXCEPT ![c] = "gone"]
  /\ net' = net \ {c}
  /\ UNCHANGED <<hosts, resolv, socket, world, watcher, events, threads, heard,
                 bounds, crashes>>

ServiceChange(s) ==
  /\ changes < MaxChanges /\ changes' = changes + 1
  /\ reachable' = IF s \in reachable THEN reachable \ {s} ELSE reachable \cup {s}
  /\ steady' = steady \cap reachable' /\ UNCHANGED shared
  /\ UNCHANGED <<life, inside, watcher, events, threads, heard, bounds, crashes>>

(* The stream of events breaks: main() ends, and Docker starts it again. *)
Crash ==
  /\ watcher # "down" /\ crashes < MaxCrashes /\ crashes' = crashes + 1
  /\ watcher' = "down" /\ threads' = {} /\ events' = <<>> /\ heard' = {}
  /\ UNCHANGED <<life, inside, world, bounds>>

-----------------------------------------------------------------------------
(* main *)

Attach(c, action) ==
  [job |-> "attach", c |-> c, at |-> "look", action |-> action, joined |-> FALSE,
   sync |-> action = "create"]

Boot ==
  /\ watcher = "down" /\ watcher' = "list"
  /\ UNCHANGED <<life, inside, world, events, threads, heard, bounds, crashes>>

(* client.containers.list() tells of running containers only. *)
ListRunning ==
  /\ watcher = "list" /\ watcher' = "subscribe"
  /\ LET running == {c \in Containers : life[c] = "running"}
     IN /\ heard' = running
        /\ threads' = {Attach(c, "start") : c \in running \cap Shuffle}
  /\ UNCHANGED <<life, inside, world, events, bounds, crashes>>

Subscribe ==
  /\ watcher = "subscribe" /\ watcher' = "listen"
  /\ UNCHANGED <<life, inside, world, events, threads, heard, bounds, crashes>>

(* Mutant: the filter of the events names create only. *)
WantedCreate(event) == event.c \in Shuffle /\ event.action = "create"

Wanted(event) == event.c \in Shuffle

HandleEvent ==
  /\ watcher = "listen" /\ events # <<>> /\ events' = Tail(events)
  /\ LET event == Head(events)
     IN IF Wanted(event)
          THEN /\ threads' = threads \cup {Attach(event.c, event.action)}
               /\ watcher' = IF event.action = "create" THEN "busy" ELSE watcher
          ELSE UNCHANGED <<threads, watcher>>
  /\ UNCHANGED <<life, inside, world, heard, bounds, crashes>>

-----------------------------------------------------------------------------
(* attach.  Every exception ends it with a line in the log. *)

Release(t) == watcher' = IF t.sync /\ watcher = "busy" THEN "listen" ELSE watcher

Move(t, u) == threads' = (threads \ {t}) \cup {u} /\ UNCHANGED watcher
Spawn(t, jobs) == threads' = (threads \ {t}) \cup jobs /\ Release(t)

Look(t) ==
  /\ t.job = "attach" /\ t.at = "look"
  /\ IF life[t.c] = "gone" THEN Spawn(t, {})
     ELSE Move(t, [t EXCEPT !.at = IF t.c \in shared THEN "reload" ELSE "join",
                            !.joined = t.c \in net])
  /\ UNCHANGED <<life, inside, world, events, heard, bounds, crashes>>

(* net.connect raises for a container that has joined in the meantime. *)
Join(t) ==
  /\ t.job = "attach" /\ t.at = "join"
  /\ IF life[t.c] = "gone" \/ (~t.joined /\ t.c \in net)
       THEN Spawn(t, {}) /\ UNCHANGED net
       ELSE Move(t, [t EXCEPT !.at = "reload"]) /\ net' = net \cup {t.c}
  /\ UNCHANGED <<life, hosts, resolv, socket, world, events, heard, bounds, crashes>>

Injection(job, c) == [job |-> job, c |-> c, at |-> "lines", lines |-> {},
                      existing |-> {}, left |-> Attempts, sync |-> FALSE]

Reload(t) ==
  /\ t.job = "attach" /\ t.at = "reload"
  /\ Spawn(t, IF life[t.c] = "running"
                THEN {Injection(job, t.c) : job \in {"resolv", "hosts", "socket"}}
              ELSE IF t.action = "create" /\ life[t.c] = "created" /\ t.c \notin shared
                THEN {Injection("file", t.c)}
              ELSE {})
  /\ UNCHANGED <<life, inside, world, events, heard, bounds, crashes>>

-----------------------------------------------------------------------------
(* The injections.  A command runs in a running container only. *)

FixResolv(t) ==
  /\ t.job = "resolv" /\ Spawn(t, {})
  /\ resolv' = IF life[t.c] = "running" THEN resolv \cup {t.c} ELSE resolv
  /\ UNCHANGED <<life, net, hosts, socket, world, events, heard, bounds, crashes>>

SetupDockerSocket(t) ==
  /\ t.job = "socket" /\ Spawn(t, {})
  /\ socket' = IF life[t.c] = "running" THEN socket \cup {t.c} ELSE socket
  /\ UNCHANGED <<life, net, hosts, resolv, world, events, heard, bounds, crashes>>

(* Both kinds of hosts injection first look the services up, and end when  *)
(* none has an address.                                                    *)
BuildLines(t) ==
  /\ t.job \in {"hosts", "file"} /\ t.at = "lines"
  /\ IF reachable = {} THEN Spawn(t, {})
     ELSE Move(t, [t EXCEPT !.lines = reachable,
                            !.at = IF t.job = "hosts" THEN "append" ELSE "read"])
  /\ UNCHANGED <<life, inside, world, events, heard, bounds, crashes>>

InjectHosts(t) ==
  /\ t.job = "hosts" /\ t.at = "append" /\ Spawn(t, {})
  /\ hosts' = IF life[t.c] = "running" THEN [hosts EXCEPT ![t.c] = @ \cup t.lines]
                                       ELSE hosts
  /\ UNCHANGED <<life, net, resolv, socket, world, events, heard, bounds, crashes>>

(* Mutant: a failed attempt does not use one up. *)
TryAgainForever(t) ==
  Move(t, [t EXCEPT !.at = "lines", !.lines = {}, !.existing = {}])

TryAgain(t) ==
  IF t.left > 1
    THEN Move(t, [t EXCEPT !.at = "lines", !.lines = {}, !.existing = {}, !.left = @ - 1])
    ELSE Spawn(t, {})

(* inject_hosts_file reads the file, adds its lines and writes it back,    *)
(* whatever has been appended in between.                                  *)
ReadHosts(t) ==
  /\ t.job = "file" /\ t.at = "read"
  /\ IF life[t.c] = "gone" THEN TryAgain(t)
     ELSE Move(t, [t EXCEPT !.existing = hosts[t.c], !.at = "write"])
  /\ UNCHANGED <<life, inside, world, events, heard, bounds, crashes>>

WriteHosts(t) ==
  /\ t.job = "file" /\ t.at = "write"
  /\ IF life[t.c] = "gone" THEN TryAgain(t) /\ UNCHANGED hosts
     ELSE Spawn(t, {}) /\ hosts' = [hosts EXCEPT ![t.c] = t.existing \cup t.lines]
  /\ UNCHANGED <<life, net, resolv, socket, world, events, heard, bounds, crashes>>

(* A call of the Docker API fails. *)
Fault(t) ==
  /\ faults < MaxFaults /\ faults' = faults + 1
  /\ IF t.job = "file" THEN TryAgain(t) ELSE Spawn(t, {})
  /\ spoiled' = spoiled \cup {t.c}
  /\ UNCHANGED <<life, inside, world, events, heard, crashes>>

-----------------------------------------------------------------------------
ThreadStep(t) ==
  \/ Look(t) \/ Join(t) \/ Reload(t)
  \/ FixResolv(t) \/ SetupDockerSocket(t)
  \/ BuildLines(t) \/ InjectHosts(t) \/ ReadHosts(t) \/ WriteHosts(t)

Main == Boot \/ ListRunning \/ Subscribe \/ HandleEvent

Watcher == Main \/ \E t \in threads : ThreadStep(t)

WatcherNext ==
  \/ Watcher
  \/ \E c \in Containers : CreateContainer(c) \/ StartContainer(c) \/ RemoveContainer(c)
  \/ \E s \in Services : ServiceChange(s)
  \/ \E t \in threads : Fault(t)
  \/ Crash

(* The process runs, and so do its threads; nothing is assumed of Orborus. *)
WatcherSpec ==
  /\ WatcherInit /\ [][WatcherNext]_watcherVars
  /\ WF_watcherVars(Main) /\ WF_watcherVars(\E t \in threads : ThreadStep(t))

-----------------------------------------------------------------------------
AttachThreads ==
  [job : {"attach"}, c : Shuffle, at : {"look", "join", "reload"},
   action : {"create", "start"}, joined : BOOLEAN, sync : BOOLEAN]

InjectionThreads ==
  [job : {"resolv", "hosts", "socket", "file"}, c : Shuffle,
   at : {"lines", "append", "read", "write"}, lines : SUBSET Services,
   existing : SUBSET Services, left : 1..Attempts, sync : {FALSE}]

WatcherTypeOK ==
  /\ shared \subseteq Shuffle
  /\ life \in [Containers -> {"absent", "created", "running", "gone"}]
  /\ hosts \in [Containers -> SUBSET Services]
  /\ net \cup resolv \cup socket \cup heard \cup spoiled \subseteq Containers
  /\ steady \subseteq reachable /\ reachable \subseteq Services
  /\ watcher \in {"down", "list", "subscribe", "listen", "busy"}
  /\ events \in Seq([c : Containers, action : {"create", "start"}])
  /\ threads \subseteq AttachThreads \cup InjectionThreads
  /\ changes \in 0..MaxChanges /\ faults \in 0..MaxFaults /\ crashes \in 0..MaxCrashes

(* Once the watcher has nothing left to do, each Shuffle container that it *)
(* listed or saw start, and that no Docker call failed for, is on the      *)
(* network, has its resolver and socket, and knows every service that was  *)
(* there all along: neither the order of the threads, nor the file written *)
(* back over an appended one, nor a restart of the watcher leaves a gap.   *)
Quiet == watcher = "listen" /\ events = <<>> /\ threads = {}

Served(c) ==
  /\ c \in shared \/ c \in net
  /\ c \in resolv \cap socket /\ steady \subseteq hosts[c]

AllServed ==
  Quiet => \A c \in (Shuffle \cap heard) \ spoiled : life[c] = "running" => Served(c)

(* The watcher comes to rest again after all that it hears, unless it ends:*)
(* no creation blocks its event loop for ever, no retry goes on for ever.  *)
Settles == []<>Quiet
===============================================================================
