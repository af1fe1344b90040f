----------------------------- MODULE ThreadProofs -----------------------------
(***************************************************************************)
(* Proofs about the two parts whose Python threads share their state       *)
(* without a lock.                                                         *)
(*                                                                         *)
(* CircuitBreaker, for any set of threads, any threshold and any recovery  *)
(* timeout: the type invariant, and that operations which do not overlap   *)
(* obey BreakerContract.                                                   *)
(*                                                                         *)
(* NetworkWatcher, for any containers and services, any number of attempts,*)
(* of changes, of failing calls and of crashes: the type invariant, that   *)
(* the event loop is busy exactly while one thread is about to release it, *)
(* that a watcher at rest has served every container it heard of, that     *)
(* until then one of its threads can go on, and that no thread does so for *)
(* ever.                                                                   *)
(***************************************************************************)
EXTENDS CircuitBreaker, NetworkWatcher, TLAPS

\* The type invariant of the breaker is inductive.
LEMMA TypeInvariance == Init /\ [][Next]_vars => []TypeOK
<1> USE ThresholdAssumption, RecoveryAssumption
    DEF ThresholdAssumption, RecoveryAssumption
<1>1. Init => TypeOK
  <2> SUFFICES ASSUME Init PROVE TypeOK
    OBVIOUS
  <2>1. failures \in 0 .. Threshold /\ age \in 0 .. Recovery
    BY DEF Init
  <2>2. pc \in [Threads -> Locations]
    BY DEF Init, Locations
  <2>3. read \in [Threads -> 0 .. Threshold]
    BY DEF Init
  <2> QED BY <2>1, <2>2, <2>3 DEF Init, TypeOK
<1>2. TypeOK /\ [Next]_vars => TypeOK'
  <2> SUFFICES ASSUME TypeOK, [Next]_vars PROVE TypeOK'
    OBVIOUS
  <2> USE DEF TypeOK, Locations, breaker
  <2>1. ASSUME NEW t \in Threads, Start(t) PROVE TypeOK'
    <3>1. ASSUME NEW o \in {"call", "with", "reset", "record"},
                 NEW l \in Locations, Begin(t, o, l)
          PROVE TypeOK'
      BY <3>1 DEF Begin, Active
    <3>2. \E o \in {"call", "with", "reset", "record"}, l \in Locations : Begin(t, o, l)
      BY <2>1 DEF Start, Call, Enter, AttemptReset, RecordSuccess, RecordFailure
    <3> QED BY <3>1, <3>2
  <2>2. ASSUME NEW t \in Threads, Step(t) PROVE TypeOK'
    <3> USE DEF Goto
    <3>1. CASE CheckTimeout(t) BY <3>1 DEF CheckTimeout
    <3>2. CASE Reopen(t) BY <3>2 DEF Reopen
    <3>3. CASE Return(t) \/ Raise(t) \/ RaiseOther(t)
      BY <3>3 DEF Return, Raise, RaiseOther
    <3>4. CASE ResetFailures(t) BY <3>4 DEF ResetFailures
    <3>5. CASE Close(t) BY <3>5 DEF Close
    <3>6. CASE HandleFailure(t) BY <3>6 DEF HandleFailure
    <3>7. CASE Trip(t) BY <3>7 DEF Trip
    <3>8. CASE Load(t) BY <3>8 DEF Load
    <3>9. CASE Count(t) BY <3>9 DEF Count
    <3>10. CASE Stamp(t) BY <3>10 DEF Stamp
    <3>11. CASE Compare(t) BY <3>11 DEF Compare
    <3>12. CASE Open(t) BY <3>12 DEF Open
    <3> QED
      BY <2>2, <3>1, <3>2, <3>3, <3>4, <3>5, <3>6, <3>7, <3>8, <3>9, <3>10,
         <3>11, <3>12 DEF Step
  <2>3. CASE Tick BY <2>3 DEF Tick
  <2>4. CASE Heal BY <2>4 DEF Heal
  <2>5. CASE UNCHANGED vars BY <2>5 DEF vars
  <2> QED BY <2>1, <2>2, <2>3, <2>4, <2>5 DEF Next
<1> QED BY <1>1, <1>2, PTL

\* The attributes and the location of every thread always have their types.
THEOREM TypeCorrect == Spec => []TypeOK
BY TypeInvariance, PTL DEF Spec

-----------------------------------------------------------------------------
\* What a thread knows of the attributes as long as nobody overlaps it.
Knows(t) ==
    /\ op[t] = "reset" => pc[t] \in {"idle", "blocked", "reopening"}
    /\ pc[t] = "blocked" => state = "open"
    /\ pc[t] = "reopening" => state = "open" /\ age = Recovery
    /\ pc[t] \in {"running", "resetting", "failing"} => state # "open"
    /\ pc[t] = "closing" => state # "open" /\ failures = 0
    /\ pc[t] = "tripping" => state = "half_open"
    /\ pc[t] = "restamping" => state = "open"
    /\ pc[t] \in {"loading", "counting", "stamping", "comparing", "opening"} =>
          state = "closed"
    /\ pc[t] = "counting" => read[t] = failures
    /\ pc[t] = "opening" => failures >= Threshold

Exclusive(t) == Active = {t} /\ (op[t] # "record" => Knows(t))

SerialInv == TypeOK /\ \A t \in Active \ overlapped : Exclusive(t)

\* What a thread that nobody overlaps found out stays true.
LEMMA SerialInvariance == Init /\ [][Next]_vars => []SerialInv
<1> USE ThresholdAssumption, RecoveryAssumption
    DEF ThresholdAssumption, RecoveryAssumption
<1>1. Init /\ TypeOK => SerialInv
  BY DEF Init, SerialInv, Active
<1>2. SerialInv /\ TypeOK' /\ [Next]_vars => SerialInv'
  <2> SUFFICES ASSUME SerialInv, TypeOK', [Next]_vars,
                      NEW u \in Threads, u \in Active' \ overlapped'
               PROVE Exclusive(u)'
    BY DEF SerialInv, Active
  <2> USE DEF SerialInv
  <2>1. ASSUME NEW t \in Threads, Start(t) PROVE Exclusive(u)'
    <3>1. PICK o \in {"call", "with", "reset", "record"}, l \in Locations :
             /\ Begin(t, o, l)
             /\ l # "idle"
             /\ o # "record" =>
                   \/ l = "blocked" /\ state = "open"
                   \/ l = "running" /\ state # "open" /\ o # "reset"
      BY <2>1 DEF Start, Call, Enter, AttemptReset, RecordSuccess, RecordFailure,
                  Locations
    <3>2. Active' = Active \cup {t}
      BY <3>1 DEF Begin, Active, TypeOK
    <3>3. CASE Active # {}
      BY <3>1, <3>2, <3>3 DEF Begin
    <3>4. CASE Active = {}
      <4>1. u = t /\ Active' = {u}
        BY <3>2, <3>4
      <4>2. op'[u] = o /\ pc'[u] = l /\ UNCHANGED state
        BY <3>1, <4>1 DEF Begin, TypeOK, breaker
      <4>3. o # "record" => Knows(u)'
        BY <3>1, <4>2 DEF Knows, Locations
      <4> QED BY <4>1, <4>2, <4>3 DEF Exclusive
    <3> QED BY <3>3, <3>4
  <2>2. ASSUME NEW t \in Threads, Step(t) PROVE Exclusive(u)'
    <3>1. pc[t] # "idle" /\ \E l \in Locations : Goto(t, l)
      BY <2>2 DEF Step, CheckTimeout, Reopen, Return, Raise, RaiseOther, ResetFailures,
                  Close, HandleFailure, Trip, Load, Count, Stamp, Compare, Open, Locations
    <3>2. t \in Active /\ Active' \subseteq Active /\ overlapped' = overlapped
      BY <3>1 DEF Goto, Active, TypeOK
    <3>3. Active = {u} /\ u = t /\ Active' = {u}
      BY <3>2 DEF Exclusive
    <3>4. op' = op /\ (op[u] # "record" => Knows(u))
      BY <3>1, <3>2, <3>3 DEF Exclusive, Goto
    <3>5. ASSUME op[u] # "record" PROVE Knows(u)'
      <4>1. Knows(t) /\ op' = op
        BY <3>3, <3>4, <3>5
      <4>2. op[t] \in {"call", "with", "reset"}
        BY <3>3, <3>5 DEF TypeOK
      <4> USE DEF Knows, Goto, TypeOK, breaker
      <4>a. CASE CheckTimeout(t)
        BY <3>3, <4>1, <4>a DEF CheckTimeout
      <4>b. CASE Reopen(t)
        BY <3>3, <4>1, <4>b DEF Reopen
      <4>c. CASE Return(t) \/ Raise(t) \/ RaiseOther(t)
        BY <3>3, <4>1, <4>c DEF Return, Raise, RaiseOther
      <4>d. CASE ResetFailures(t)
        BY <3>3, <4>1, <4>d DEF ResetFailures
      <4>e. CASE Close(t)
        BY <3>3, <4>1, <4>e DEF Close
      <4>f. CASE HandleFailure(t)
        BY <3>3, <4>1, <4>f DEF HandleFailure
      <4>g. CASE Trip(t)
        BY <3>3, <4>1, <4>g DEF Trip
      <4>h. CASE Load(t)
        BY <3>3, <4>1, <4>h DEF Load
      <4>i. CASE Count(t)
        BY <3>3, <4>1, <4>i DEF Count
      <4>j. CASE Stamp(t)
        BY <3>3, <4>1, <4>j DEF Stamp
      <4>k. CASE Compare(t)
        BY <3>3, <4>1, <4>k DEF Compare
      <4>l. CASE Open(t)
        BY <3>3, <4>1, <4>l DEF Open
      <4> QED
        BY <2>2, <4>a, <4>b, <4>c, <4>d, <4>e, <4>f, <4>g, <4>h, <4>i, <4>j, <4>k,
           <4>l DEF Step
    <3> QED BY <3>3, <3>4, <3>5 DEF Exclusive
  <2>3. CASE Tick
    BY <2>3 DEF Tick, Exclusive, Knows, Active, TypeOK
  <2>4. CASE Heal
    BY <2>4 DEF Heal, breaker, Exclusive, Knows, Active
  <2>5. CASE UNCHANGED vars
    BY <2>5 DEF vars, breaker, Exclusive, Knows, Active
  <2> QED BY <2>1, <2>2, <2>3, <2>4, <2>5 DEF Next
<1> QED BY <1>1, <1>2, TypeInvariance, PTL

\* Operations that do not overlap obey the contract of the breaker, for every
\* number of threads, threshold and timeout, and after any interleaving.
THEOREM SerialCorrect == Spec => SerialContract
<1> USE ThresholdAssumption, RecoveryAssumption
    DEF ThresholdAssumption, RecoveryAssumption
<1>1. ASSUME SerialInv, [Next]_vars, Serial, ~Recording
      PROVE Contract!Next \/ UNCHANGED Contract!vars
  <2>1. ASSUME NEW t \in Threads, Start(t) PROVE UNCHANGED Contract!vars
    <3>1. PICK l \in {"blocked", "running", "resetting", "failing"} :
             /\ pc[t] = "idle"
             /\ pc' = [pc EXCEPT ![t] = l]
             /\ UNCHANGED breaker
      BY <2>1 DEF Start, Begin, Call, Enter, AttemptReset, RecordSuccess, RecordFailure
    <3>2. \A u \in Threads :
             /\ pc'[u] \in {"closing"} <=> pc[u] \in {"closing"}
             /\ pc'[u] \in {"stamping", "comparing", "opening"}
                   <=> pc[u] \in {"stamping", "comparing", "opening"}
             /\ pc'[u] \in {"stamping", "restamping"}
                   <=> pc[u] \in {"stamping", "restamping"}
      BY <1>1, <3>1 DEF SerialInv, TypeOK
    <3> QED BY <3>1, <3>2 DEF breaker, Contract!vars, Phase, Age, At
  <2>2. ASSUME NEW t \in Threads, Step(t)
        PROVE Contract!Next \/ UNCHANGED Contract!vars
    <3>1. pc[t] # "idle" /\ \E l \in Locations : pc' = [pc EXCEPT ![t] = l]
      BY <2>2 DEF Step, CheckTimeout, Reopen, Return, Raise, RaiseOther, ResetFailures,
                  Close, HandleFailure, Trip, Load, Count, Stamp, Compare, Open, Locations,
                  Goto
    <3>2. Active = {t} /\ Knows(t) /\ op[t] \in {"call", "with", "reset"}
      BY <1>1, <3>1 DEF SerialInv, Exclusive, Serial, Recording, Active, TypeOK
    <3>3. \A u \in Threads \ {t} : pc[u] = "idle" /\ pc'[u] = "idle"
      BY <1>1, <3>1, <3>2 DEF Active, SerialInv, TypeOK
    <3>4. /\ Phase = IF pc[t] = "closing" THEN "closed"
                     ELSE IF pc[t] \in {"stamping", "comparing", "opening"}
                             /\ failures >= Threshold
                          THEN "open" ELSE state
          /\ Age = IF pc[t] \in {"stamping", "restamping"} THEN 0 ELSE age
      BY <3>3 DEF Phase, Age, At
    <3>5. /\ Phase' = IF pc'[t] = "closing" THEN "closed"
                      ELSE IF pc'[t] \in {"stamping", "comparing", "opening"}
                              /\ failures' >= Threshold
                           THEN "open" ELSE state'
          /\ Age' = IF pc'[t] \in {"stamping", "restamping"} THEN 0 ELSE age'
      BY <3>3 DEF Phase, Age, At
    <3>6. TypeOK
      BY <1>1 DEF SerialInv
    <3> HIDE DEF Phase, Age
    <3> USE <3>2, <3>4, <3>5, <3>6 DEF Knows, TypeOK, Locations, Goto, breaker
    <3>a. CASE CheckTimeout(t) \/ Return(t) \/ Raise(t) \/ RaiseOther(t)
               \/ HandleFailure(t) \/ Load(t) \/ Compare(t)
      <4>1. UNCHANGED breaker
        BY <3>a DEF CheckTimeout, Return, Raise, RaiseOther, HandleFailure, Load, Compare
      <4>2. Phase' = Phase /\ Age' = Age
        BY <3>a, <4>1 DEF CheckTimeout, Return, Raise, RaiseOther, HandleFailure, Load,
                          Compare
      <4> QED BY <4>1, <4>2 DEF Contract!vars
    <3>b. CASE Reopen(t)
      BY <3>b DEF Reopen, Contract!Next, Contract!Probe
    <3>c. CASE ResetFailures(t)
      BY <3>c DEF ResetFailures, Contract!Next, Contract!Succeed
    <3>d. CASE Close(t)
      BY <3>d DEF Close, Contract!vars
    <3>e. CASE Trip(t)
      BY <3>e DEF Trip, Contract!Next, Contract!ProbeFails
    <3>f. CASE Count(t)
      BY <3>f DEF Count, Contract!Next, Contract!Fail
    <3>g. CASE Stamp(t)
      BY <3>g DEF Stamp, Contract!vars
    <3>h. CASE Open(t)
      BY <3>h DEF Open, Contract!vars
    <3> QED
      BY <2>2, <3>a, <3>b, <3>c, <3>d, <3>e, <3>f, <3>g, <3>h DEF Step
  <2>3. CASE Tick
    <3>1. /\ At({"closing"})' <=> At({"closing"})
          /\ At({"stamping", "comparing", "opening"})'
                <=> At({"stamping", "comparing", "opening"})
          /\ At({"stamping", "restamping"})' <=> At({"stamping", "restamping"})
          /\ UNCHANGED <<state, failures>>
          /\ age < Recovery /\ age' = age + 1
      BY <2>3 DEF Tick, At
    <3> QED BY <3>1 DEF Phase, Age, Contract!vars, Contract!Next, Contract!Tick
  <2>4. CASE Heal \/ UNCHANGED vars
    BY <2>4 DEF Heal, vars, breaker, Phase, Age, At, Contract!vars
  <2> QED BY <1>1, <2>1, <2>2, <2>3, <2>4 DEF Next
<1>2. SerialInv /\ [Next]_vars => [Serial /\ ~Recording => Contract!Next]_<<Contract!vars>>
  BY <1>1
<1> QED BY <1>2, SerialInvariance, PTL DEF Spec, SerialContract

-----------------------------------------------------------------------------
(* The network watcher. *)

\* What runs beside the event loop.
Thread == AttachThreads \cup InjectionThreads

\* An event that is appended is there, and so are the others.
LEMMA Appended ==
  ASSUME NEW S, NEW s \in Seq(S), NEW e \in S
  PROVE  /\ Append(s, e) \in Seq(S)
         /\ \E i \in DOMAIN Append(s, e) : Append(s, e)[i] = e
         /\ \A i \in DOMAIN s : i \in DOMAIN Append(s, e) /\ Append(s, e)[i] = s[i]
<1>1. Append(s, e) \in Seq(S)
  OBVIOUS
<1>2. DOMAIN Append(s, e) = 1 .. Len(s) + 1 /\ DOMAIN s = 1 .. Len(s) /\ Len(s) \in Nat
  OBVIOUS
<1>3. \A i \in 1 .. Len(s) : Append(s, e)[i] = s[i]
  OBVIOUS
<1>4. Append(s, e)[Len(s) + 1] = e
  OBVIOUS
<1>5. Len(s) + 1 \in 1 .. Len(s) + 1 /\ 1 .. Len(s) \subseteq 1 .. Len(s) + 1
  BY <1>2
<1> QED BY <1>1, <1>2, <1>3, <1>4, <1>5

\* An event that is taken off is the first one, and the others are still there.
LEMMA Removed ==
  ASSUME NEW S, NEW s \in Seq(S), s # << >>
  PROVE  /\ Head(s) \in S /\ Tail(s) \in Seq(S)
         /\ \A i \in DOMAIN s : s[i] = Head(s) \/ \E j \in DOMAIN Tail(s) : Tail(s)[j] = s[i]
<1>1. Head(s) \in S /\ Tail(s) \in Seq(S) /\ Head(s) = s[1]
  OBVIOUS
<1>2. DOMAIN s = 1 .. Len(s) /\ Len(s) \in Nat \ {0} /\ DOMAIN Tail(s) = 1 .. Len(s) - 1
  OBVIOUS
<1>3. \A j \in 1 .. Len(s) - 1 : Tail(s)[j] = s[j + 1]
  OBVIOUS
<1>4. \A n \in Nat : \A i \in 1 .. n : i # 1 => i - 1 \in 1 .. n - 1 /\ (i - 1) + 1 = i
  OBVIOUS
<1>5. ASSUME NEW i \in 1 .. Len(s), i # 1
      PROVE  \E j \in 1 .. Len(s) - 1 : Tail(s)[j] = s[i]
  <2>1. PICK j \in 1 .. Len(s) - 1 : j + 1 = i
    BY <1>2, <1>4, <1>5
  <2> QED BY <1>3, <2>1
<1> QED BY <1>1, <1>2, <1>5
\* What Docker tells the watcher.
Event == [c : Containers, action : {"create", "start"}]

\* Events stay events when one comes and when one is taken.
LEMMA EventsTyped ==
  ASSUME WatcherTypeOK
  PROVE  /\ \A c \in Containers, action \in {"create", "start"} :
               Append(events, [c |-> c, action |-> action]) \in Seq(Event)
         /\ events # << >> =>
               /\ Head(events).c \in Containers
               /\ Head(events).action \in {"create", "start"}
               /\ Tail(events) \in Seq(Event)
<1>1. events \in Seq(Event)
  BY DEF WatcherTypeOK, Event
<1>2. \A c \in Containers, action \in {"create", "start"} :
         [c |-> c, action |-> action] \in Event
  BY DEF Event
<1>3. events # << >> => Head(events) \in Event
  BY <1>1, Removed
<1>4. \A e \in Event : e.c \in Containers /\ e.action \in {"create", "start"}
  BY DEF Event
<1> QED BY <1>1, <1>2, <1>3, <1>4, Appended, Removed

\* A new thread of attach is a thread, which holds the event loop up for a creation only.
LEMMA NewAttach ==
  ASSUME NEW c \in Shuffle, NEW action \in {"create", "start"}
  PROVE  LET u == Attach(c, action)
         IN /\ u \in AttachThreads /\ u.job = "attach" /\ u.c = c
            /\ u.at = "look" /\ u.sync = (action = "create")
<1> DEFINE u == Attach(c, action)
<1>1. u.sync = (action = "create") /\ u.sync \in BOOLEAN
  BY DEF Attach
<1>2. u \in AttachThreads
  BY <1>1 DEF Attach, AttachThreads
<1> QED BY <1>1, <1>2 DEF Attach

\* So is one of an injection.
LEMMA NewInjection ==
  ASSUME NEW c \in Shuffle, NEW job \in {"resolv", "hosts", "socket", "file"}
  PROVE  LET u == Injection(job, c)
         IN /\ u \in InjectionThreads /\ u.job = job /\ u.c = c
            /\ u.at = "lines" /\ ~u.sync
<1>1. Attempts \in 1 .. Attempts
  BY WatcherAssumption DEF WatcherAssumption
<1> QED BY <1>1 DEF Injection, InjectionThreads

\* What kind of record a thread is follows from its job.
LEMMA Kinds ==
  ASSUME NEW t \in Thread
  PROVE  /\ t.c \in Shuffle
         /\ t.job = "attach" => t \in AttachThreads
         /\ t.job # "attach" => t \in InjectionThreads /\ ~t.sync
BY DEF Thread, AttachThreads, InjectionThreads

\* The next attempt of a file injection is a thread.
LEMMA Retries ==
  ASSUME WatcherTypeOK, NEW t \in threads, t.job = "file", TryAgain(t)
  PROVE  \/ Spawn(t, {})
         \/ \E u \in InjectionThreads :
              Move(t, u) /\ u.job = t.job /\ u.c = t.c /\ u.at = "lines" /\ ~u.sync
<1>1. t \in InjectionThreads /\ Attempts \in Nat
  BY Kinds, WatcherAssumption DEF WatcherTypeOK, Thread, WatcherAssumption
<1>2. CASE t.left > 1
  <2>1. PICK n \in 1 .. Attempts : n = t.left - 1
    BY <1>1, <1>2 DEF InjectionThreads
  <2> DEFINE u == [t EXCEPT !.at = "lines", !.lines = {}, !.existing = {}, !.left = n]
  <2>2. Move(t, u)
    BY <1>2, <2>1 DEF TryAgain
  <2>3. u \in InjectionThreads /\ u.job = t.job /\ u.c = t.c /\ u.at = "lines" /\ ~u.sync
    BY <1>1 DEF InjectionThreads
  <2> QED BY <2>2, <2>3
<1> QED BY <1>2 DEF TryAgain

\* What a step of a thread does to the threads: it goes on to another place, or ends and
\* leaves injections into the same container behind.
GoesOn(t) ==
  \E u \in Thread : Move(t, u) /\ u.job = t.job /\ u.c = t.c /\ u.sync = t.sync

Leaves(t) ==
  \E jobs \in SUBSET InjectionThreads :
     Spawn(t, jobs) /\ \A u \in jobs : u.c = t.c /\ u.at = "lines" /\ ~u.sync

\* Every step of a thread is one of the two.
LEMMA ThreadSteps ==
  ASSUME WatcherTypeOK, NEW t \in threads, ThreadStep(t) \/ Fault(t)
  PROVE  GoesOn(t) \/ Leaves(t)
<1> DEFINE T == Thread
<1>1. t \in Thread /\ t.c \in Shuffle
  BY Kinds DEF WatcherTypeOK, Thread
<1>2. Spawn(t, {}) => Leaves(t)
  BY DEF Leaves
<1>3. ASSUME NEW u \in Thread, Move(t, u), u.job = t.job, u.c = t.c, u.sync = t.sync
      PROVE  GoesOn(t)
  BY <1>3 DEF GoesOn
<1>4. t.job = "file" /\ TryAgain(t) => GoesOn(t) \/ Leaves(t)
  <2> SUFFICES ASSUME t.job = "file", TryAgain(t) PROVE GoesOn(t) \/ Leaves(t)
    OBVIOUS
  <2>1. ASSUME NEW u \in InjectionThreads, Move(t, u), u.job = t.job, u.c = t.c
        PROVE  GoesOn(t)
    <3>1. t \in InjectionThreads
      BY <1>1, Kinds
    <3>2. u.sync = t.sync
      BY <2>1, <3>1 DEF InjectionThreads
    <3> QED BY <1>3, <2>1, <3>2 DEF Thread
  <2> QED BY <1>2, <2>1, Retries
<1>5. CASE Look(t)
  <2>1. t \in AttachThreads
    BY <1>1, <1>5, Kinds DEF Look
  <2> DEFINE joined == t.c \in net
  <2>2. PICK at \in {"join", "reload"} : at = IF t.c \in shared THEN "reload" ELSE "join"
    OBVIOUS
  <2> DEFINE u == [t EXCEPT !.at = at, !.joined = joined]
  <2>3. Spawn(t, {}) \/ Move(t, u)
    BY <1>5, <2>2 DEF Look
  <2>4. joined \in BOOLEAN
    OBVIOUS
  <2> HIDE DEF joined
  <2>5. u \in AttachThreads /\ u.job = t.job /\ u.c = t.c /\ u.sync = t.sync
    BY <2>1, <2>4 DEF AttachThreads
  <2> QED BY <1>2, <1>3, <2>3, <2>5 DEF Thread
<1>6. CASE Join(t)
  <2> DEFINE u == [t EXCEPT !.at = "reload"]
  <2>1. t \in AttachThreads
    BY <1>1, <1>6, Kinds DEF Join
  <2>2. u \in AttachThreads /\ u.job = t.job /\ u.c = t.c /\ u.sync = t.sync
    BY <2>1 DEF AttachThreads
  <2> QED BY <1>2, <1>3, <1>6, <2>2 DEF Join, Thread
<1>7. CASE Reload(t)
  <2>1. \E jobs \in SUBSET {Injection(job, t.c) : job \in {"resolv", "hosts", "socket", "file"}} :
           Spawn(t, jobs)
    BY <1>7 DEF Reload
  <2>2. \A job \in {"resolv", "hosts", "socket", "file"} :
           LET u == Injection(job, t.c)
           IN  u \in InjectionThreads /\ u.c = t.c /\ u.at = "lines" /\ ~u.sync
    BY <1>1, NewInjection
  <2> QED BY <2>1, <2>2 DEF Leaves
<1>8. CASE FixResolv(t) \/ SetupDockerSocket(t) \/ InjectHosts(t)
  BY <1>2, <1>8 DEF FixResolv, SetupDockerSocket, InjectHosts
<1>9. CASE BuildLines(t)
  <2> DEFINE u == [t EXCEPT !.lines = reachable,
                            !.at = IF t.job = "hosts" THEN "append" ELSE "read"]
  <2>1. t \in InjectionThreads /\ reachable \in SUBSET Services
    BY <1>1, <1>9, Kinds DEF BuildLines, WatcherTypeOK
  <2>2. u \in InjectionThreads /\ u.job = t.job /\ u.c = t.c /\ u.sync = t.sync
    BY <2>1 DEF InjectionThreads
  <2> QED BY <1>2, <1>3, <1>9, <2>2 DEF BuildLines, Thread
<1>10. CASE ReadHosts(t)
  <2> DEFINE u == [t EXCEPT !.existing = hosts[t.c], !.at = "write"]
  <2>1. t \in InjectionThreads /\ hosts[t.c] \in SUBSET Services
    BY <1>1, <1>10, Kinds, WatcherAssumption
    DEF ReadHosts, WatcherTypeOK, WatcherAssumption
  <2>2. u \in InjectionThreads /\ u.job = t.job /\ u.c = t.c /\ u.sync = t.sync
    BY <2>1 DEF InjectionThreads
  <2> QED BY <1>3, <1>4, <1>10, <2>2 DEF ReadHosts, Thread
<1>11. CASE WriteHosts(t)
  BY <1>2, <1>4, <1>11 DEF WriteHosts
<1>12. CASE Fault(t)
  BY <1>2, <1>4, <1>12 DEF Fault
<1> QED
  BY <1>5, <1>6, <1>7, <1>8, <1>9, <1>10, <1>11, <1>12 DEF ThreadStep

\* No step of a thread disturbs what lies outside: the containers' lives, the services,
\* Docker's events, and what the watcher has heard of.
LEMMA ThreadsLeaveAlone ==
  ASSUME NEW t, ThreadStep(t) \/ Fault(t)
  PROVE  UNCHANGED <<life, world, events, heard, crashes>>
BY DEF ThreadStep, Fault, Look, Join, Reload, FixResolv, SetupDockerSocket, BuildLines,
       InjectHosts, ReadHosts, WriteHosts, inside, bounds

\* A step of a thread may change its own container only, and the other threads stay.
LEMMA ThreadsKeepToTheirs ==
  ASSUME WatcherTypeOK, NEW t \in threads, ThreadStep(t) \/ Fault(t)
  PROVE  /\ \A c \in Containers \ {t.c} :
               /\ c \in net' <=> c \in net
               /\ c \in resolv' <=> c \in resolv
               /\ c \in socket' <=> c \in socket
               /\ hosts'[c] = hosts[c]
               /\ c \in spoiled' <=> c \in spoiled
         /\ threads \ {t} \subseteq threads'
<1>1. threads \ {t} \subseteq threads'
  BY ThreadSteps DEF GoesOn, Leaves, Move, Spawn
<1> QED
  BY <1>1 DEF ThreadStep, Fault, Look, Join, Reload, FixResolv, SetupDockerSocket,
     BuildLines, InjectHosts, ReadHosts, WriteHosts, inside, bounds, WatcherTypeOK

-----------------------------------------------------------------------------
\* The watcher's variables keep their types.
LEMMA WatcherTypes == WatcherInit /\ [][WatcherNext]_watcherVars => []WatcherTypeOK
<1> USE WatcherAssumption DEF WatcherAssumption
<1>1. WatcherInit => WatcherTypeOK
  BY DEF WatcherInit, WatcherTypeOK
<1>2. WatcherTypeOK /\ [WatcherNext]_watcherVars => WatcherTypeOK'
  <2> SUFFICES ASSUME WatcherTypeOK, [WatcherNext]_watcherVars
               PROVE  WatcherTypeOK'
    OBVIOUS
  <2> USE DEF world, inside, bounds
  <2>1. CASE Boot \/ Subscribe \/ Crash
    <3>1. CASE Boot \/ Subscribe
      BY <3>1 DEF Boot, Subscribe, WatcherTypeOK
    <3>2. CASE Crash
      BY <3>2 DEF Crash, WatcherTypeOK
    <3> QED BY <2>1, <3>1, <3>2
  <2>2. CASE ListRunning
    <3>1. threads' \subseteq AttachThreads
      BY <2>2, NewAttach DEF ListRunning
    <3> QED BY <2>2, <3>1 DEF ListRunning, WatcherTypeOK
  <2>3. CASE HandleEvent
    <3>1. Head(events).c \in Containers /\ Head(events).action \in {"create", "start"}
      BY <2>3, EventsTyped DEF HandleEvent
    <3>2. threads' \subseteq Thread /\ watcher' \in {"busy", watcher}
      BY <2>3, <3>1, NewAttach DEF HandleEvent, Wanted, WatcherTypeOK, Thread
    <3>3. events' \in Seq([c : Containers, action : {"create", "start"}])
      BY <2>3, EventsTyped DEF HandleEvent, Event
    <3> QED BY <2>3, <3>2, <3>3 DEF HandleEvent, WatcherTypeOK, Thread
  <2>4. ASSUME NEW t \in threads, ThreadStep(t) \/ Fault(t) PROVE WatcherTypeOK'
    <3>1. threads' \subseteq Thread /\ watcher' \in {watcher, "listen"}
      BY <2>4, ThreadSteps DEF GoesOn, Leaves, Move, Spawn, Release, WatcherTypeOK, Thread
    <3>2. hosts' \in [Containers -> SUBSET Services]
      <4>1. t \in Thread /\ t.c \in Containers
        BY Kinds DEF WatcherTypeOK, Thread
      <4>2. t.job \in {"hosts", "file"} => t.lines \cup t.existing \subseteq Services
        BY <4>1, Kinds DEF InjectionThreads
      <4> QED
        BY <2>4, <4>1, <4>2 DEF WatcherTypeOK, ThreadStep, Fault, Look, Join, Reload,
           FixResolv, SetupDockerSocket, BuildLines, InjectHosts, ReadHosts, WriteHosts
    <3>3. net' \cup resolv' \cup socket' \cup heard' \cup spoiled' \subseteq Containers
      <4>1. t.c \in Containers
        BY Kinds DEF WatcherTypeOK, Thread
      <4> QED
        BY <2>4, <4>1 DEF WatcherTypeOK, ThreadStep, Fault, Look, Join, Reload,
           FixResolv, SetupDockerSocket, BuildLines, InjectHosts, ReadHosts, WriteHosts
    <3>4. faults' \in 0 .. MaxFaults /\ changes' \in 0 .. MaxChanges
          /\ crashes' \in 0 .. MaxCrashes
      BY <2>4 DEF WatcherTypeOK, ThreadStep, Fault, Look, Join, Reload,
           FixResolv, SetupDockerSocket, BuildLines, InjectHosts, ReadHosts, WriteHosts
    <3> QED
      BY <2>4, <3>1, <3>2, <3>3, <3>4, ThreadsLeaveAlone DEF WatcherTypeOK, Thread
  <2>5. ASSUME NEW c \in Containers, CreateContainer(c) \/ StartContainer(c)
        PROVE  WatcherTypeOK'
    <3>1. events' \in Seq([c : Containers, action : {"create", "start"}])
      <4>1. events' \in {events} \cup
                 {Append(events, [c |-> c, action |-> action]) : action \in {"create", "start"}}
        BY <2>5 DEF CreateContainer, StartContainer, Emit
      <4> QED BY <4>1, EventsTyped DEF WatcherTypeOK, Event
    <3>2. heard' \subseteq Containers /\ heard \subseteq Containers
      BY <2>5 DEF CreateContainer, StartContainer, WatcherTypeOK
    <3>3. life' \in [Containers -> {"absent", "created", "running", "gone"}]
      BY <2>5 DEF CreateContainer, StartContainer, WatcherTypeOK
    <3>4. UNCHANGED <<inside, world, watcher, threads, bounds, crashes>>
      BY <2>5 DEF CreateContainer, StartContainer
    <3> QED BY <3>1, <3>2, <3>3, <3>4 DEF WatcherTypeOK
  <2>6. ASSUME NEW c \in Containers, RemoveContainer(c) PROVE WatcherTypeOK'
    BY <2>6 DEF RemoveContainer, WatcherTypeOK
  <2>7. ASSUME NEW s \in Services, ServiceChange(s) PROVE WatcherTypeOK'
    BY <2>7 DEF ServiceChange, WatcherTypeOK
  <2>8. CASE UNCHANGED watcherVars
    BY <2>8 DEF watcherVars, WatcherTypeOK
  <2> QED
    BY <2>1, <2>2, <2>3, <2>4, <2>5, <2>6, <2>7, <2>8 DEF WatcherNext, Watcher, Main
<1> QED BY <1>1, <1>2, PTL

-----------------------------------------------------------------------------
(* The inductive invariant.  A container the watcher has heard of is due    *)
(* until a call about it fails; something always leads to what it is due:  *)
(* its announcement, a thread of attach that will not stumble over another *)
(* one, or the injections one has left behind.                             *)
Due(c) == c \in (Shuffle \cap heard) \ spoiled /\ life[c] = "running"

Announced(c) ==
  \E i \in DOMAIN events : events[i] = [c |-> c, action |-> "start"]

(* Join raises if another thread has joined the container since this one   *)
(* looked.  Then the other one is past Join: one of the two always goes on.*)
Attaching(t, c) ==
  /\ t.job = "attach" /\ t.c = c
  /\ t.at = "join" => t.joined \/ c \notin net

Coming(c) == Announced(c) \/ \E t \in threads : Attaching(t, c)

Runs(job, c) == \E t \in threads : t.job = job /\ t.c = c

Owed(c) ==
  /\ c \in shared \cup net
  /\ c \in resolv \/ Runs("resolv", c)
  /\ c \in socket \/ Runs("socket", c)
  /\ steady \subseteq hosts[c] \/ Runs("hosts", c)

NothingForgotten == \A c \in Containers : Due(c) => Coming(c) \/ Owed(c)

\* Past Join the container is on the network, or gone, or shares another one's.
Connected ==
  \A t \in threads : t.job = "attach" /\ t.at = "reload" =>
                        life[t.c] = "gone" \/ t.c \in shared \cup net

\* Only containers that have started are listed, or seen to start.
HeardRuns == \A c \in heard : life[c] \in {"running", "gone"}

\* The lines an injection carries name every service that was there all along.
KnowsSteady ==
  \A t \in threads : t.at \in {"append", "read", "write"} => steady \subseteq t.lines

\* While the event loop is busy one thread will release it, and no thread lives on before
\* the list of containers, which would be lost with the threads it starts.
Gate ==
  /\ watcher = "busy" <=> \E t \in threads : t.sync
  /\ \A t, u \in threads : t.sync /\ u.sync => t = u
  /\ watcher \in {"down", "list"} => threads = {}

\* The main thread starts threads of attach, at their beginning.
LEMMA MainStarts ==
  ASSUME WatcherTypeOK, HandleEvent \/ ListRunning
  PROVE  \A u \in threads' \ threads : u.job = "attach" /\ u.at = "look"
<1>1. \A c \in Shuffle, action \in {"create", "start"} :
         Attach(c, action).job = "attach" /\ Attach(c, action).at = "look"
  BY NewAttach
<1>2. CASE HandleEvent
  BY <1>1, <1>2, EventsTyped DEF HandleEvent, Wanted
<1>3. CASE ListRunning
  BY <1>1, <1>3 DEF ListRunning
<1> QED BY <1>2, <1>3

\* An attach knows its container connected before it looks at it again.
LEMMA ConnectedStep ==
  ASSUME WatcherTypeOK, Connected, [WatcherNext]_watcherVars PROVE Connected'
<1> SUFFICES ASSUME NEW u \in threads', u.job = "attach", u.at = "reload"
             PROVE  life'[u.c] = "gone" \/ u.c \in shared' \cup net'
  BY DEF Connected
<1> USE DEF world, inside, bounds
<1>1. CASE u \in threads
  <2>1. life[u.c] = "gone" \/ u.c \in shared \cup net
    BY <1>1 DEF Connected
  <2>2. u.c \in Containers
    BY <1>1, Kinds, WatcherAssumption DEF WatcherTypeOK, Thread, WatcherAssumption
  <2>3. ASSUME NEW t \in threads, ThreadStep(t) \/ Fault(t)
        PROVE  /\ net \subseteq net' /\ UNCHANGED <<life, shared>>
    BY <2>3 DEF ThreadStep, Fault, Look, Join, Reload, FixResolv, SetupDockerSocket,
       BuildLines, InjectHosts, ReadHosts, WriteHosts
  <2>4. CASE \E c \in Containers : RemoveContainer(c)
    BY <2>1, <2>2, <2>4 DEF RemoveContainer, WatcherTypeOK
  <2>5. CASE \E c \in Containers : CreateContainer(c) \/ StartContainer(c)
    BY <2>1, <2>2, <2>5 DEF CreateContainer, StartContainer, WatcherTypeOK
  <2>6. CASE Main \/ Crash \/ (\E s \in Services : ServiceChange(s)) \/ UNCHANGED watcherVars
    BY <2>1, <2>6 DEF Main, Boot, ListRunning, Subscribe, HandleEvent, Crash,
       ServiceChange, watcherVars
  <2> QED
    BY <2>1, <2>3, <2>4, <2>5, <2>6 DEF WatcherNext, Watcher
<1>2. CASE u \notin threads
  <2>1. CASE HandleEvent \/ ListRunning
    BY <1>2, <2>1, MainStarts
  <2>2. ASSUME NEW t \in threads, ThreadStep(t) \/ Fault(t)
        PROVE  life'[u.c] = "gone" \/ u.c \in shared' \cup net'
    <3>1. t \in Thread /\ t.c \in Shuffle
      BY Kinds DEF WatcherTypeOK, Thread
    <3>2. CASE Leaves(t)
      BY <1>2, <3>2 DEF Leaves, Spawn
    <3>3. CASE GoesOn(t)
      <4>1. PICK v \in Thread : Move(t, v) /\ v.job = t.job /\ v.c = t.c
        BY <3>3 DEF GoesOn
      <4>2. v = u /\ t.job = "attach"
        BY <1>2, <4>1 DEF Move
      <4>3. Look(t) \/ Join(t) \/ Reload(t) \/ Fault(t)
        BY <2>2, <4>2 DEF ThreadStep, FixResolv, SetupDockerSocket, BuildLines, InjectHosts,
           ReadHosts, WriteHosts
      <4>4. u \notin threads /\ u \in threads'
        BY <1>2
      <4>5. CASE Look(t)
        <5>1. t \in AttachThreads
          BY <3>1, <4>2, Kinds
        <5> DEFINE w == [t EXCEPT !.at = IF t.c \in shared THEN "reload" ELSE "join",
                                  !.joined = t.c \in net]
        <5>2. u = w
          BY <4>4, <4>5 DEF Look, Move, Spawn
        <5>3. w.at = IF t.c \in shared THEN "reload" ELSE "join"
          BY <5>1 DEF AttachThreads
        <5> HIDE DEF w
        <5>4. t.c \in shared
          BY <5>2, <5>3
        <5> QED BY <4>1, <4>2, <4>5, <5>4 DEF Look
      <4>6. CASE Join(t)
        <5>1. net' = net \cup {t.c}
          BY <4>4, <4>6 DEF Join, Spawn
        <5> QED BY <4>1, <4>2, <5>1
      <4>7. CASE Reload(t) \/ Fault(t)
        <5>1. \A jobs : Spawn(t, jobs) => u \in jobs
          BY <4>4 DEF Spawn
        <5>2. t.job # "file"
          BY <4>2
        <5>3. CASE Fault(t)
          BY <5>1, <5>2, <5>3 DEF Fault
        <5>4. CASE Reload(t)
          <6>1. u \in {Injection(job, t.c) : job \in {"resolv", "hosts", "socket", "file"}}
            BY <5>1, <5>4 DEF Reload
          <6> QED BY <3>1, <6>1, NewInjection
        <5> QED BY <4>7, <5>3, <5>4
      <4> QED BY <4>3, <4>5, <4>6, <4>7
    <3> QED BY <2>2, <3>2, <3>3, ThreadSteps
  <2>3. ASSUME NEW c \in Containers, CreateContainer(c) \/ StartContainer(c) \/ RemoveContainer(c)
        PROVE  FALSE
    BY <1>2, <2>3 DEF CreateContainer, StartContainer, RemoveContainer
  <2>4. CASE Boot \/ Subscribe \/ Crash \/ (\E s \in Services : ServiceChange(s))
             \/ UNCHANGED watcherVars
    BY <1>2, <2>4 DEF Boot, Subscribe, Crash, ServiceChange, watcherVars
  <2> QED
    BY <2>1, <2>2, <2>3, <2>4 DEF WatcherNext, Watcher, Main
<1> QED BY <1>1, <1>2

\* The services that have been there all along are among the lines of every injection.
LEMMA KnowsSteadyStep ==
  ASSUME WatcherTypeOK, KnowsSteady, [WatcherNext]_watcherVars PROVE KnowsSteady'
<1> SUFFICES ASSUME NEW u \in threads', u.at \in {"append", "read", "write"}
             PROVE  steady' \subseteq u.lines
  BY DEF KnowsSteady
<1> USE DEF world, inside, bounds
<1>1. steady' \subseteq steady
  <2>1. ASSUME NEW t \in threads, ThreadStep(t) \/ Fault(t) PROVE steady' \subseteq steady
    BY <2>1, ThreadsLeaveAlone
  <2>2. CASE Main \/ Crash \/ (\E s \in Services : ServiceChange(s)) \/ UNCHANGED watcherVars
    BY <2>2 DEF Main, Boot, ListRunning, Subscribe, HandleEvent, Crash, ServiceChange,
       watcherVars
  <2>3. CASE \E c \in Containers : CreateContainer(c) \/ StartContainer(c) \/ RemoveContainer(c)
    BY <2>3 DEF CreateContainer, StartContainer, RemoveContainer
  <2> QED BY <2>1, <2>2, <2>3 DEF WatcherNext, Watcher
<1>2. CASE u \in threads
  BY <1>1, <1>2 DEF KnowsSteady
<1>3. ASSUME u \notin threads, NEW t \in threads, ThreadStep(t) \/ Fault(t)
      PROVE  steady' \subseteq u.lines
  <2>1. t \in Thread /\ t.c \in Shuffle
    BY Kinds DEF WatcherTypeOK, Thread
  <2>2. ~(t.job = "file" /\ TryAgain(t))
    <3>1. ASSUME NEW v, v.at = "lines", Move(t, v) PROVE FALSE
      BY <1>3, <3>1 DEF Move
    <3>2. ~Spawn(t, {})
      BY <1>3 DEF Spawn
    <3> QED BY <3>1, <3>2, Retries
  <2>3. ~Leaves(t)
    BY <1>3 DEF Leaves, Spawn
  <2>4. ~Spawn(t, {})
    BY <1>3 DEF Spawn
  <2>5. CASE Look(t)
    <3>1. t \in AttachThreads
      BY <2>1, <2>5, Kinds DEF Look
    <3>2. u = [t EXCEPT !.at = IF t.c \in shared THEN "reload" ELSE "join",
                        !.joined = t.c \in net]
      BY <1>3, <2>4, <2>5 DEF Look, Move
    <3> QED BY <3>1, <3>2 DEF AttachThreads
  <2>6. CASE Join(t)
    <3>1. t \in AttachThreads
      BY <2>1, <2>6, Kinds DEF Join
    <3>2. u = [t EXCEPT !.at = "reload"]
      BY <1>3, <2>4, <2>6 DEF Join, Move
    <3> QED BY <3>1, <3>2 DEF AttachThreads
  <2>7. CASE Reload(t)
    <3>1. \A job \in {"resolv", "hosts", "socket", "file"} : Injection(job, t.c).at = "lines"
      BY <2>1, NewInjection
    <3>2. \E jobs \in SUBSET {Injection(job, t.c) : job \in {"resolv", "hosts", "socket", "file"}} :
             Spawn(t, jobs)
      BY <2>7 DEF Reload
    <3> QED BY <1>3, <3>1, <3>2 DEF Spawn
  <2>8. CASE BuildLines(t)
    <3>1. t \in InjectionThreads /\ steady \subseteq reachable
      BY <2>1, <2>8, Kinds DEF BuildLines, WatcherTypeOK
    <3>2. u = [t EXCEPT !.lines = reachable,
                        !.at = IF t.job = "hosts" THEN "append" ELSE "read"]
      BY <1>3, <2>4, <2>8 DEF BuildLines, Move
    <3>3. u.lines = reachable
      BY <3>1, <3>2 DEF InjectionThreads
    <3> QED BY <1>1, <3>1, <3>3
  <2>9. CASE ReadHosts(t)
    <3>1. t \in InjectionThreads /\ steady \subseteq t.lines
      BY <2>1, <2>9, Kinds DEF ReadHosts, KnowsSteady
    <3>2. u = [t EXCEPT !.existing = hosts[t.c], !.at = "write"]
      BY <1>3, <2>2, <2>9 DEF ReadHosts, Move
    <3>3. u.lines = t.lines
      BY <3>1, <3>2 DEF InjectionThreads
    <3> QED BY <1>1, <3>1, <3>3
  <2>10. CASE FixResolv(t) \/ SetupDockerSocket(t) \/ InjectHosts(t) \/ WriteHosts(t) \/ Fault(t)
    BY <2>2, <2>4, <2>10 DEF FixResolv, SetupDockerSocket, InjectHosts, WriteHosts, Fault
  <2> QED
    BY <1>3, <2>5, <2>6, <2>7, <2>8, <2>9, <2>10 DEF ThreadStep
<1>4. CASE u \notin threads /\ (HandleEvent \/ ListRunning)
  BY <1>4, MainStarts
<1>5. CASE /\ u \notin threads
           /\ \/ Boot \/ Subscribe \/ Crash \/ UNCHANGED watcherVars
              \/ \E s \in Services : ServiceChange(s)
              \/ \E c \in Containers :
                    CreateContainer(c) \/ StartContainer(c) \/ RemoveContainer(c)
  BY <1>5 DEF Boot, Subscribe, Crash, ServiceChange, watcherVars, CreateContainer,
     StartContainer, RemoveContainer
<1> QED
  BY <1>2, <1>3, <1>4, <1>5 DEF WatcherNext, Watcher, Main

\* The event loop is busy with a creation exactly while one thread holds it up.
LEMMA GateStep ==
  ASSUME WatcherTypeOK, Gate, [WatcherNext]_watcherVars PROVE Gate'
<1> USE DEF world, inside, bounds
<1>1. CASE Boot \/ Subscribe \/ Crash \/ UNCHANGED watcherVars
           \/ (\E s \in Services : ServiceChange(s))
           \/ (\E c \in Containers : CreateContainer(c) \/ StartContainer(c) \/ RemoveContainer(c))
  BY <1>1 DEF Gate, Boot, Subscribe, Crash, ServiceChange, watcherVars, CreateContainer,
     StartContainer, RemoveContainer
<1>2. CASE ListRunning
  <2>1. \A c \in Shuffle : ~Attach(c, "start").sync
    BY NewAttach
  <2> QED BY <1>2, <2>1 DEF ListRunning, Gate
<1>3. CASE HandleEvent
  <2>1. CASE ~Wanted(Head(events))
    BY <1>3, <2>1 DEF HandleEvent, Gate
  <2>2. CASE Wanted(Head(events))
    <3> DEFINE a == Attach(Head(events).c, Head(events).action)
    <3>1. a.sync = (Head(events).action = "create") /\ threads' = threads \cup {a}
      BY <1>3, <2>2, NewAttach, EventsTyped DEF HandleEvent, Wanted
    <3>2. watcher' = IF Head(events).action = "create" THEN "busy" ELSE "listen"
      BY <1>3, <2>2 DEF HandleEvent
    <3>3. \A t \in threads : ~t.sync
      BY <1>3 DEF HandleEvent, Gate
    <3> HIDE DEF a
    <3> QED BY <3>1, <3>2, <3>3 DEF Gate
  <2> QED BY <2>1, <2>2
<1>4. ASSUME NEW t \in threads, ThreadStep(t) \/ Fault(t) PROVE Gate'
  <2>1. CASE GoesOn(t)
    <3>1. PICK u : threads' = (threads \ {t}) \cup {u} /\ u.sync = t.sync /\ watcher' = watcher
      BY <2>1 DEF GoesOn, Move
    <3>2. watcher \notin {"down", "list"}
      BY DEF Gate
    <3> QED BY <3>1, <3>2 DEF Gate
  <2>2. CASE Leaves(t)
    <3>1. PICK jobs : /\ threads' = (threads \ {t}) \cup jobs
                      /\ \A u \in jobs : ~u.sync
                      /\ watcher' = IF t.sync /\ watcher = "busy" THEN "listen" ELSE watcher
      BY <2>2 DEF Leaves, Spawn, Release
    <3>2. watcher \notin {"down", "list"}
      BY DEF Gate
    <3> QED BY <3>1, <3>2 DEF Gate
  <2> QED BY <1>4, <2>1, <2>2, ThreadSteps
<1> QED
  BY <1>1, <1>2, <1>3, <1>4 DEF WatcherNext, Watcher, Main

\* A container that the watcher has listed or seen start has started.
LEMMA HeardRunsStep ==
  ASSUME WatcherTypeOK, HeardRuns, [WatcherNext]_watcherVars PROVE HeardRuns'
<1>1. ASSUME NEW t \in threads, ThreadStep(t) \/ Fault(t) PROVE HeardRuns'
  BY <1>1, ThreadsLeaveAlone DEF HeardRuns
<1>2. ASSUME NEW c \in Containers, CreateContainer(c) \/ StartContainer(c) \/ RemoveContainer(c)
      PROVE  HeardRuns'
  BY <1>2 DEF CreateContainer, StartContainer, RemoveContainer, HeardRuns, WatcherTypeOK
<1>3. CASE Main \/ Crash \/ (\E s \in Services : ServiceChange(s)) \/ UNCHANGED watcherVars
  BY <1>3 DEF Main, Boot, ListRunning, Subscribe, HandleEvent, Crash, ServiceChange,
     watcherVars, HeardRuns
<1> QED BY <1>1, <1>2, <1>3 DEF WatcherNext, Watcher

\* What is coming to a container or owed to it stays so while a step leaves the container
\* and its threads alone.
LEMMA Undisturbed ==
  ASSUME NEW c, Coming(c) \/ Owed(c),
         c \in net' <=> c \in net,
         c \in resolv' <=> c \in resolv,
         c \in socket' <=> c \in socket,
         hosts'[c] = hosts[c], shared' = shared, steady' \subseteq steady,
         \A t \in threads : t.c = c => t \in threads',
         Announced(c) => Coming(c)'
  PROVE  Coming(c)' \/ Owed(c)'
<1>1. \A t \in threads : Attaching(t, c) => t \in threads' /\ Attaching(t, c)'
  BY DEF Attaching
<1>2. \A job : Runs(job, c) => Runs(job, c)'
  BY DEF Runs
<1>3. Coming(c) => Coming(c)'
  BY <1>1 DEF Coming
<1>4. Owed(c) => Owed(c)'
  BY <1>2 DEF Owed
<1> QED BY <1>3, <1>4

\* A thread about its container leaves it with what is coming or owed to it.
LEMMA ThreadServes ==
  ASSUME WatcherTypeOK, Connected, KnowsSteady, NEW t \in threads, ThreadStep(t),
         life[t.c] = "running", Coming(t.c) \/ Owed(t.c)
  PROVE  Coming(t.c)' \/ Owed(t.c)'
<1> DEFINE c == t.c
<1> USE DEF world, inside, bounds
<1>1. t \in Thread /\ c \in Shuffle /\ c \in Containers
  BY Kinds, WatcherAssumption DEF WatcherTypeOK, Thread, WatcherAssumption
<1>2. \A u \in threads : u # t => u \in threads'
  BY ThreadsKeepToTheirs
<1>3. UNCHANGED <<life, shared, steady, events>>
  BY ThreadsLeaveAlone
<1>4. Announced(c) => Coming(c)'
  BY <1>3 DEF Announced, Coming
<1>5. \A job : t.job # job /\ Runs(job, c) => Runs(job, c)'
  BY <1>2 DEF Runs
<1>6. CASE Look(t)
  <2>1. t \in AttachThreads
    BY <1>1, <1>6, Kinds DEF Look
  <2>2. PICK u : u = [t EXCEPT !.at = IF t.c \in shared THEN "reload" ELSE "join",
                               !.joined = t.c \in net]
    OBVIOUS
  <2>3. threads' = (threads \ {t}) \cup {u} /\ net' = net
    BY <1>6, <2>2 DEF Look, Move
  <2>4. u.job = "attach" /\ u.c = c /\ u.joined = (c \in net)
    BY <1>6, <2>1, <2>2 DEF AttachThreads, Look
  <2>5. Attaching(u, c)'
    BY <2>3, <2>4 DEF Attaching
  <2> QED BY <2>3, <2>5 DEF Coming
<1>7. CASE Join(t)
  <2>1. CASE ~t.joined /\ c \in net
    <3>1. net' = net /\ UNCHANGED <<resolv, socket, hosts>> /\ ~Attaching(t, c)
      BY <1>7, <2>1 DEF Join, Attaching
    <3>2. \A v \in threads : Attaching(v, c) => v \in threads' /\ Attaching(v, c)'
      BY <1>2, <3>1 DEF Attaching
    <3>3. Coming(c) => Coming(c)'
      BY <1>4, <3>2 DEF Coming
    <3>4. t.job = "attach"
      BY <1>7 DEF Join
    <3>5. Owed(c) => Owed(c)'
      BY <1>3, <1>5, <3>1, <3>4 DEF Owed
    <3> QED BY <3>3, <3>5
  <2>2. CASE ~(~t.joined /\ c \in net)
    <3> DEFINE u == [t EXCEPT !.at = "reload"]
    <3>1. t \in AttachThreads
      BY <1>1, <1>7, Kinds DEF Join
    <3>2. threads' = (threads \ {t}) \cup {u}
      BY <1>7, <2>2 DEF Join, Move
    <3>3. u.job = "attach" /\ u.c = c /\ u.at = "reload"
      BY <1>7, <3>1 DEF AttachThreads, Join
    <3>4. Attaching(u, c)'
      BY <3>3 DEF Attaching
    <3> QED BY <3>2, <3>4 DEF Coming
  <2> QED BY <2>1, <2>2
<1>8. CASE Reload(t)
  <2>1. threads' = (threads \ {t}) \cup {Injection(job, c) : job \in {"resolv", "hosts", "socket"}}
    BY <1>8 DEF Reload, Spawn
  <2>2. \A job \in {"resolv", "hosts", "socket"} :
           Injection(job, c).job = job /\ Injection(job, c).c = c
    BY <1>1, NewInjection
  <2>3. \A job \in {"resolv", "hosts", "socket"} : Runs(job, c)'
    BY <2>1, <2>2 DEF Runs
  <2>4. c \in shared' \cup net'
    BY <1>3, <1>8 DEF Reload, Connected
  <2> QED BY <2>3, <2>4 DEF Owed
<1>9. CASE t.job # "attach"
  <2>1. net' = net
    BY <1>9 DEF ThreadStep, Look, Join, Reload, FixResolv, SetupDockerSocket, BuildLines,
       InjectHosts, ReadHosts, WriteHosts
  <2>2. \A v \in threads : Attaching(v, c) => v \in threads' /\ Attaching(v, c)'
    BY <1>2, <1>9, <2>1 DEF Attaching
  <2>3. Coming(c) => Coming(c)'
    BY <1>4, <2>2 DEF Coming
  <2>4. SUFFICES ASSUME Owed(c) PROVE Owed(c)'
    BY <2>3
  <2>5. CASE FixResolv(t)
    BY <1>1, <1>3, <1>5, <2>1, <2>4, <2>5 DEF FixResolv, Owed
  <2>6. CASE SetupDockerSocket(t)
    BY <1>1, <1>3, <1>5, <2>1, <2>4, <2>6 DEF SetupDockerSocket, Owed
  <2>7. CASE BuildLines(t)
    <3>1. Runs("hosts", c)' \/ steady \subseteq hosts[c]
      <4>1. CASE t.job # "hosts"
        BY <1>5, <2>4, <4>1 DEF Owed
      <4>2. CASE reachable = {}
        BY <4>2 DEF WatcherTypeOK
      <4>3. CASE t.job = "hosts" /\ reachable # {}
        <5> DEFINE u == [t EXCEPT !.lines = reachable,
                                  !.at = IF t.job = "hosts" THEN "append" ELSE "read"]
        <5>1. u \in threads'
          BY <2>7, <4>3 DEF BuildLines, Move
        <5>2. t \in InjectionThreads
          BY <1>1, <1>9, Kinds
        <5>3. u.job = "hosts" /\ u.c = c
          BY <4>3, <5>2 DEF InjectionThreads
        <5> QED BY <5>1, <5>3 DEF Runs
      <4> QED BY <4>1, <4>2, <4>3
    <3>2. UNCHANGED <<resolv, socket, hosts>> /\ t.job # "resolv" /\ t.job # "socket"
      BY <2>7 DEF BuildLines
    <3> QED BY <1>3, <1>5, <2>1, <2>4, <3>1, <3>2 DEF Owed
  <2>8. CASE InjectHosts(t)
    <3>1. steady \subseteq t.lines
      BY <2>8 DEF InjectHosts, KnowsSteady
    <3>2. hosts'[c] = hosts[c] \cup t.lines
      BY <1>1, <2>8 DEF InjectHosts, WatcherTypeOK
    <3>3. UNCHANGED <<resolv, socket>> /\ t.job = "hosts"
      BY <2>8 DEF InjectHosts
    <3> QED BY <1>3, <1>5, <2>1, <2>4, <3>1, <3>2, <3>3 DEF Owed
  <2>9. CASE ReadHosts(t) \/ WriteHosts(t)
    <3>1. steady \subseteq t.lines /\ t.job = "file" /\ UNCHANGED <<resolv, socket>>
      BY <2>9 DEF ReadHosts, WriteHosts, KnowsSteady
    <3>2. hosts'[c] = hosts[c] \/ hosts'[c] = t.existing \cup t.lines
      BY <1>1, <2>9 DEF ReadHosts, WriteHosts, WatcherTypeOK
    <3> QED BY <1>3, <1>5, <2>1, <2>4, <3>1, <3>2 DEF Owed
  <2> QED
    BY <1>9, <2>5, <2>6, <2>7, <2>8, <2>9 DEF ThreadStep, Look, Join, Reload
<1> QED
  BY <1>6, <1>7, <1>8, <1>9 DEF ThreadStep, FixResolv, SetupDockerSocket, BuildLines,
     InjectHosts, ReadHosts, WriteHosts

\* Whatever happens, something still leads to every service the watcher owes a container.
LEMMA NothingForgottenStep ==
  ASSUME WatcherTypeOK, NothingForgotten, Connected, KnowsSteady, HeardRuns, Gate,
         [WatcherNext]_watcherVars
  PROVE  NothingForgotten'
<1> SUFFICES ASSUME NEW c \in Containers, Due(c)' PROVE Coming(c)' \/ Owed(c)'
  BY DEF NothingForgotten
<1> USE DEF world, inside, bounds
<1>1. Due(c) => Coming(c) \/ Owed(c)
  BY DEF NothingForgotten
<1>2. ASSUME NEW t \in threads, ThreadStep(t) \/ Fault(t) PROVE Coming(c)' \/ Owed(c)'
  <2>1. UNCHANGED <<life, shared, steady, events, heard>>
    BY <1>2, ThreadsLeaveAlone
  <2>2. t.c \in Containers /\ spoiled \subseteq spoiled' /\ (Fault(t) => t.c \in spoiled')
    BY <1>2, Kinds, WatcherAssumption DEF ThreadStep, Fault, Look, Join, Reload, FixResolv,
       SetupDockerSocket, BuildLines, InjectHosts, ReadHosts, WriteHosts, WatcherTypeOK,
       Thread, WatcherAssumption
  <2>3. Due(c) /\ life[c] = "running"
    BY <2>1, <2>2 DEF Due
  <2>4. CASE c = t.c
    <3>1. ThreadStep(t)
      BY <1>2, <2>2, <2>4 DEF Due
    <3> QED BY <1>1, <2>3, <2>4, <3>1, ThreadServes
  <2>5. CASE c # t.c
    <3>1. \A v \in threads : v.c = c => v \in threads'
      BY <1>2, <2>5, ThreadsKeepToTheirs
    <3>2. Announced(c) => Coming(c)'
      BY <2>1 DEF Announced, Coming
    <3>3. /\ c \in net' <=> c \in net
          /\ c \in resolv' <=> c \in resolv
          /\ c \in socket' <=> c \in socket
          /\ hosts'[c] = hosts[c]
      BY <1>2, <2>5, ThreadsKeepToTheirs
    <3> QED BY <1>1, <2>1, <2>3, <3>1, <3>2, <3>3, Undisturbed
  <2> QED BY <2>4, <2>5
<1>3. CASE HandleEvent
  <2>1. UNCHANGED <<life, inside, world, heard, bounds>> /\ threads \subseteq threads'
    BY <1>3 DEF HandleEvent
  <2>2. Due(c) /\ c \in Shuffle
    BY <2>1 DEF Due
  <2>3. ASSUME Announced(c) PROVE Coming(c)'
    <3>1. PICK i \in DOMAIN events : events[i] = [c |-> c, action |-> "start"]
      BY <2>3 DEF Announced
    <3>2. CASE events[i] = Head(events)
      <4>1. Head(events).c = c /\ Head(events).action = "start"
        BY <3>1, <3>2
      <4>2. Attach(c, "start") \in threads'
        BY <1>3, <2>2, <4>1 DEF HandleEvent, Wanted
      <4>3. Attach(c, "start").job = "attach" /\ Attach(c, "start").c = c
            /\ Attach(c, "start").at = "look"
        BY <2>2, NewAttach
      <4>4. Attaching(Attach(c, "start"), c)'
        BY <4>3 DEF Attaching, Attach
      <4> QED BY <4>2, <4>4 DEF Coming, Attach
    <3>3. CASE \E j \in DOMAIN Tail(events) : Tail(events)[j] = events[i]
      BY <1>3, <3>1, <3>3 DEF HandleEvent, Coming, Announced
    <3>4. events \in Seq(Event) /\ events # << >>
      BY <1>3 DEF WatcherTypeOK, Event, HandleEvent
    <3> QED BY <3>2, <3>3, <3>4, Removed
  <2> QED BY <1>1, <2>1, <2>2, <2>3, Undisturbed
<1>4. CASE ListRunning
  <2>1. c \in Shuffle /\ life[c] = "running"
    BY <1>4 DEF ListRunning, Due
  <2>2. Attach(c, "start") \in threads'
    BY <1>4, <2>1 DEF ListRunning
  <2>3. Attach(c, "start").job = "attach" /\ Attach(c, "start").c = c
        /\ Attach(c, "start").at = "look"
    BY <2>1, NewAttach
  <2>4. Attaching(Attach(c, "start"), c)'
    BY <2>3 DEF Attaching, Attach
  <2> QED BY <2>2, <2>4 DEF Coming, Attach
<1>5. CASE Boot \/ Subscribe \/ (\E s \in Services : ServiceChange(s)) \/ UNCHANGED watcherVars
  <2>1. /\ UNCHANGED <<life, inside, events, threads, heard, bounds, shared>>
        /\ steady' \subseteq steady
    BY <1>5 DEF Boot, Subscribe, ServiceChange, watcherVars
  <2>2. Announced(c) => Coming(c)'
    BY <2>1 DEF Announced, Coming
  <2>3. Due(c)
    BY <2>1 DEF Due
  <2> QED BY <1>1, <2>1, <2>2, <2>3, Undisturbed
<1>6. CASE Crash
  BY <1>6 DEF Crash, Due
<1>7. ASSUME NEW d \in Containers, CreateContainer(d) \/ StartContainer(d) \/ RemoveContainer(d)
      PROVE  Coming(c)' \/ Owed(c)'
  <2>1. UNCHANGED <<hosts, resolv, socket, world, threads, bounds>>
    BY <1>7 DEF CreateContainer, StartContainer, RemoveContainer
  <2>2. Announced(c) => Announced(c)'
    <3>1. \/ events' = events
          \/ \E action \in {"create", "start"} :
               events' = Append(events, [c |-> d, action |-> action])
      BY <1>7 DEF CreateContainer, StartContainer, RemoveContainer, Emit
    <3>2. \A action \in {"create", "start"} : [c |-> d, action |-> action] \in Event
      BY DEF Event
    <3>3. events \in Seq(Event)
      BY DEF WatcherTypeOK, Event
    <3>4. \A i \in DOMAIN events : i \in DOMAIN events' /\ events'[i] = events[i]
      BY <3>1, <3>2, <3>3, Appended
    <3> QED BY <3>4 DEF Announced
  <2>3. CASE c # d
    <3>1. life'[c] = life[c] /\ (c \in net' <=> c \in net) /\ (c \in heard' <=> c \in heard)
      BY <1>7, <2>3 DEF CreateContainer, StartContainer, RemoveContainer, WatcherTypeOK
    <3>2. Due(c)
      BY <2>1, <3>1 DEF Due
    <3> QED BY <1>1, <2>1, <2>2, <3>1, <3>2, Undisturbed DEF Coming
  <2>4. CASE c = d
    <3>1. StartContainer(c)
      BY <1>7, <2>4 DEF CreateContainer, RemoveContainer, Due, WatcherTypeOK
    <3>2. c \notin heard
      BY <3>1 DEF StartContainer, HeardRuns
    <3>3. Listening
      BY <3>1, <3>2 DEF StartContainer, Due
    <3>4. events' = Append(events, [c |-> c, action |-> "start"])
      BY <3>1, <3>3 DEF StartContainer, Emit
    <3>5. [c |-> c, action |-> "start"] \in Event /\ events \in Seq(Event)
      BY DEF WatcherTypeOK, Event
    <3>6. \E i \in DOMAIN events' : events'[i] = [c |-> c, action |-> "start"]
      BY <3>4, <3>5, Appended
    <3> QED BY <3>6 DEF Announced, Coming
  <2> QED BY <2>3, <2>4
<1> QED
  BY <1>2, <1>3, <1>4, <1>5, <1>6, <1>7 DEF WatcherNext, Watcher, Main

WatcherInv ==
  WatcherTypeOK /\ NothingForgotten /\ Connected /\ KnowsSteady /\ HeardRuns /\ Gate

\* The invariant is inductive, given the types.
LEMMA WatcherInvariance == WatcherSpec => []WatcherInv
<1>1. WatcherInit /\ WatcherTypeOK => WatcherInv
  BY DEF WatcherInit, WatcherInv, NothingForgotten, Due, Connected, KnowsSteady, HeardRuns, Gate
<1>2. WatcherInv /\ WatcherTypeOK' /\ [WatcherNext]_watcherVars => WatcherInv'
  BY NothingForgottenStep, ConnectedStep, KnowsSteadyStep, HeardRunsStep, GateStep DEF WatcherInv
<1> QED BY <1>1, <1>2, WatcherTypes, PTL DEF WatcherSpec

-----------------------------------------------------------------------------
(* Termination of the threads. *)

\* The places at which the job of a thread has a step to take.
CanMove(t) ==
  \/ t.job = "attach" /\ t.at \in {"look", "join", "reload"}
  \/ t.job \in {"resolv", "socket"}
  \/ t.job = "hosts" /\ t.at \in {"lines", "append"}
  \/ t.job = "file" /\ t.at \in {"lines", "read", "write"}

\* The steps of a round of the job, and those of a thread with the rounds it may still take.
StepsLeft(at) ==
  CASE at \in {"look", "lines"} -> 3 [] at \in {"join", "append", "read"} -> 2 [] OTHER -> 1

Rank(t) ==
  CASE t.job = "attach" -> 3 * Attempts + StepsLeft(t.at)
    [] t.job = "file"   -> 3 * (t.left - 1) + StepsLeft(t.at)
    [] OTHER            -> StepsLeft(t.at)

\* A thread makes way for three others at most, which have less to do than it.
MakesWay(t) ==
  \E jobs \in SUBSET Thread :
     /\ threads' = (threads \ {t}) \cup jobs
     /\ \E u, v, w : jobs \subseteq {u, v, w}
     /\ \A u \in jobs : CanMove(u) /\ Rank(u) \in Nat /\ Rank(u) < Rank(t)

ThreadsRunOut == \A t \in threads : ThreadStep(t) \/ Fault(t) => MakesWay(t)

AllMove == \A t \in threads : CanMove(t)

\* The watcher is at rest, or has a step to take in its main thread or in another one.
NeverStuck ==
  /\ AllMove
  /\ \/ Quiet
     \/ watcher \in {"down", "list", "subscribe"}
     \/ watcher = "listen" /\ events # <<>>
     \/ threads # {}

LEMMA RankType ==
  ASSUME NEW t \in Thread
  PROVE  Rank(t) \in Nat /\ StepsLeft(t.at) \in 1 .. 3
<1>1. StepsLeft(t.at) \in 1 .. 3
  BY DEF StepsLeft
<1>2. t.job = "file" => t.left \in 1 .. Attempts
  <2>1. t.job = "file" => t \in InjectionThreads
    BY Kinds
  <2> QED BY <2>1 DEF InjectionThreads
<1>3. Attempts \in Nat
  BY WatcherAssumption DEF WatcherAssumption
<1> HIDE DEF StepsLeft
<1> QED BY <1>1, <1>2, <1>3 DEF Rank

LEMMA MoveMakesWay ==
  ASSUME NEW t \in Thread, NEW u \in Thread, Move(t, u), CanMove(u), Rank(u) < Rank(t)
  PROVE  MakesWay(t)
<1>1. Rank(u) \in Nat /\ {u} \in SUBSET Thread
  BY RankType
<1>2. threads' = (threads \ {t}) \cup {u} /\ {u} \subseteq {u, u, u}
  BY DEF Move
<1> HIDE DEF Rank, CanMove
<1> QED BY <1>1, <1>2 DEF MakesWay

LEMMA EndMakesWay ==
  ASSUME NEW t, Spawn(t, {}) PROVE MakesWay(t)
<1>1. threads' = (threads \ {t}) \cup {} /\ {} \subseteq {t, t, t} /\ {} \in SUBSET Thread
  BY DEF Spawn
<1> QED BY <1>1 DEF MakesWay

\* Another attempt of a file injection has fewer attempts before it.
LEMMA RetryMakesWay ==
  ASSUME NEW t \in Thread, t.job = "file", CanMove(t), TryAgain(t)
  PROVE  MakesWay(t)
<1>1. t \in InjectionThreads /\ Attempts \in Nat
  BY Kinds, WatcherAssumption DEF WatcherAssumption
<1>2. CASE t.left > 1
  <2>1. PICK n \in 1 .. Attempts : n = t.left - 1
    BY <1>1, <1>2 DEF InjectionThreads
  <2> DEFINE u == [t EXCEPT !.at = "lines", !.lines = {}, !.existing = {}, !.left = n]
  <2>2. Move(t, u)
    BY <1>2, <2>1 DEF TryAgain
  <2>3. u \in InjectionThreads /\ u.job = "file" /\ u.at = "lines" /\ u.left = n
    BY <1>1 DEF InjectionThreads
  <2> HIDE DEF u
  <2>4. Rank(u) = 3 * (n - 1) + 3
    BY <2>3 DEF Rank, StepsLeft
  <2>5. Rank(t) \in {3 * n + 1, 3 * n + 2, 3 * n + 3}
    <3>1. Rank(t) = 3 * (t.left - 1) + StepsLeft(t.at) /\ t.left - 1 = n
      BY <1>1, <2>1 DEF Rank, InjectionThreads
    <3>2. StepsLeft(t.at) \in {1, 2, 3}
      BY DEF StepsLeft
    <3> HIDE DEF StepsLeft, Rank
    <3> QED BY <3>1, <3>2
  <2>6. Rank(u) < Rank(t)
    BY <2>4, <2>5
  <2>7. CanMove(u) /\ u \in Thread
    BY <2>3 DEF CanMove, Thread
  <2> QED BY <2>2, <2>6, <2>7, MoveMakesWay
<1> QED BY <1>2, EndMakesWay DEF TryAgain

\* Every step of a thread takes it on, or ends it, or leaves the injections behind.
LEMMA StepMakesWay ==
  ASSUME WatcherTypeOK, NEW t \in threads, CanMove(t), ThreadStep(t) \/ Fault(t)
  PROVE  MakesWay(t)
<1>1. t \in Thread /\ t.c \in Shuffle
  BY Kinds DEF WatcherTypeOK, Thread
<1>a. Attempts \in Nat \ {0}
  BY WatcherAssumption DEF WatcherAssumption
<1>2. CASE Look(t)
  <2>1. t \in AttachThreads /\ t.at = "look"
    BY <1>1, <1>2, Kinds DEF Look
  <2> DEFINE joined == t.c \in net
  <2>2. PICK at \in {"join", "reload"} : at = IF t.c \in shared THEN "reload" ELSE "join"
    OBVIOUS
  <2> DEFINE u == [t EXCEPT !.at = at, !.joined = joined]
  <2>3. Spawn(t, {}) \/ Move(t, u)
    BY <1>2, <2>2 DEF Look
  <2>4. joined \in BOOLEAN
    OBVIOUS
  <2> HIDE DEF joined
  <2>5. u \in AttachThreads /\ u.job = "attach" /\ t.job = "attach" /\ u.at = at
    BY <2>1, <2>4 DEF AttachThreads
  <2> HIDE DEF u
  <2>6. CanMove(u) /\ Rank(u) < Rank(t)
    BY <1>a, <2>1, <2>5 DEF CanMove, Rank, StepsLeft
  <2> QED BY <1>1, <2>3, <2>5, <2>6, EndMakesWay, MoveMakesWay DEF Thread
<1>3. CASE Join(t)
  <2> DEFINE u == [t EXCEPT !.at = "reload"]
  <2>1. t \in AttachThreads /\ t.at = "join"
    BY <1>1, <1>3, Kinds DEF Join
  <2>2. u \in AttachThreads /\ u.job = "attach" /\ t.job = "attach" /\ u.at = "reload"
    BY <2>1 DEF AttachThreads
  <2>3. Spawn(t, {}) \/ Move(t, u)
    BY <1>3 DEF Join
  <2> HIDE DEF u
  <2>4. CanMove(u) /\ Rank(u) < Rank(t)
    BY <1>a, <2>1, <2>2 DEF CanMove, Rank, StepsLeft
  <2> QED BY <1>1, <2>2, <2>3, <2>4, EndMakesWay, MoveMakesWay DEF Thread
<1>4. CASE Reload(t)
  <2> DEFINE I(job) == Injection(job, t.c)
  <2>1. PICK jobs : /\ Spawn(t, jobs)
                    /\ \/ jobs = {I(job) : job \in {"resolv", "hosts", "socket"}}
                       \/ jobs = {I("file")}
                       \/ jobs = {}
    BY <1>4 DEF Reload
  <2>2. ASSUME NEW job \in {"resolv", "hosts", "socket", "file"}
        PROVE  /\ I(job) \in InjectionThreads /\ CanMove(I(job))
               /\ Rank(I(job)) \in Nat /\ Rank(I(job)) < Rank(t)
    <3>1. /\ I(job) \in InjectionThreads /\ I(job).job = job /\ I(job).at = "lines"
          /\ I(job).left = Attempts
      BY <1>1, NewInjection DEF Injection
    <3> HIDE DEF I
    <3>2. CanMove(I(job)) /\ Rank(I(job)) \in {3, 3 * (Attempts - 1) + 3}
      BY <3>1 DEF CanMove, Rank, StepsLeft
    <3>3. Rank(t) = 3 * Attempts + 1
      BY <1>4 DEF Reload, Rank, StepsLeft
    <3> HIDE DEF Rank
    <3> QED BY <1>a, <3>1, <3>2, <3>3
  <2> HIDE DEF I, CanMove, Rank
  <2>3. \A u \in jobs : u \in Thread /\ CanMove(u) /\ Rank(u) \in Nat /\ Rank(u) < Rank(t)
    BY <2>1, <2>2 DEF Thread
  <2>4. jobs \subseteq {I("resolv"), I("hosts"), I("socket")}
        \/ jobs \subseteq {I("file"), I("file"), I("file")}
    BY <2>1
  <2>5. threads' = (threads \ {t}) \cup jobs
    BY <2>1 DEF Spawn
  <2> QED BY <2>3, <2>4, <2>5 DEF MakesWay
<1>5. CASE FixResolv(t) \/ SetupDockerSocket(t) \/ InjectHosts(t)
  BY <1>5, EndMakesWay DEF FixResolv, SetupDockerSocket, InjectHosts
<1>6. CASE BuildLines(t)
  <2> DEFINE place == IF t.job = "hosts" THEN "append" ELSE "read"
             u == [t EXCEPT !.lines = reachable, !.at = place]
  <2>1. /\ t \in InjectionThreads /\ reachable \in SUBSET Services
        /\ t.job \in {"hosts", "file"} /\ t.at = "lines"
    BY <1>1, <1>6, Kinds DEF BuildLines, WatcherTypeOK
  <2>2. /\ u \in InjectionThreads /\ u.job = t.job /\ u.left = t.left
        /\ u.at = place
    BY <2>1 DEF InjectionThreads
  <2>3. Spawn(t, {}) \/ Move(t, u)
    BY <1>6 DEF BuildLines
  <2>l. t.left \in Nat
    BY <1>a, <2>1 DEF InjectionThreads
  <2> HIDE DEF u
  <2>4. CanMove(u) /\ Rank(u) < Rank(t)
    BY <2>1, <2>2, <2>l DEF CanMove, Rank, StepsLeft
  <2> QED BY <1>1, <2>2, <2>3, <2>4, EndMakesWay, MoveMakesWay DEF Thread
<1>7. CASE ReadHosts(t)
  <2> DEFINE u == [t EXCEPT !.existing = hosts[t.c], !.at = "write"]
  <2>1. /\ t \in InjectionThreads /\ hosts[t.c] \in SUBSET Services
        /\ t.job = "file" /\ t.at = "read"
    BY <1>1, <1>7, Kinds, WatcherAssumption DEF ReadHosts, WatcherTypeOK, WatcherAssumption
  <2>2. /\ u \in InjectionThreads /\ u.job = "file" /\ u.left = t.left /\ u.at = "write"
    BY <2>1 DEF InjectionThreads
  <2>3. TryAgain(t) \/ Move(t, u)
    BY <1>7 DEF ReadHosts
  <2>l. t.left \in Nat
    BY <1>a, <2>1 DEF InjectionThreads
  <2> HIDE DEF u
  <2>4. CanMove(u) /\ Rank(u) < Rank(t)
    BY <2>1, <2>2, <2>l DEF CanMove, Rank, StepsLeft
  <2> QED BY <1>1, <2>1, <2>2, <2>3, <2>4, RetryMakesWay, MoveMakesWay DEF Thread
<1>8. CASE WriteHosts(t)
  BY <1>1, <1>8, EndMakesWay, RetryMakesWay DEF WriteHosts
<1>9. CASE Fault(t)
  BY <1>1, <1>9, EndMakesWay, RetryMakesWay DEF Fault
<1> QED BY <1>2, <1>3, <1>4, <1>5, <1>6, <1>7, <1>8, <1>9 DEF ThreadStep

\* A thread that is started, or goes on, has a step to take.
LEMMA AllMoveStep ==
  ASSUME WatcherTypeOK, AllMove, [WatcherNext]_watcherVars PROVE AllMove'
<1> SUFFICES ASSUME NEW u \in threads' PROVE CanMove(u)
  BY DEF AllMove, CanMove
<1>1. u \in threads => CanMove(u)
  BY DEF AllMove
<1>2. CASE HandleEvent \/ ListRunning
  BY <1>1, <1>2, MainStarts DEF CanMove
<1>3. ASSUME NEW t \in threads, ThreadStep(t) \/ Fault(t) PROVE CanMove(u)
  <2>1. MakesWay(t)
    BY <1>3, StepMakesWay DEF AllMove
  <2> QED BY <1>1, <2>1 DEF MakesWay
<1>4. CASE UNCHANGED threads \/ threads' = {}
  BY <1>1, <1>4
<1> QED
  BY <1>2, <1>3, <1>4 DEF WatcherNext, Watcher, Main, Boot, Subscribe, CreateContainer,
     StartContainer, RemoveContainer, ServiceChange, Crash, watcherVars

LEMMA ThreadsMove == WatcherSpec => []AllMove
<1>1. WatcherInit => AllMove
  BY DEF WatcherInit, AllMove
<1> QED BY <1>1, AllMoveStep, WatcherTypes, PTL DEF WatcherSpec

\* The watcher's variables, its threads and the events on their way always have their types.
THEOREM WatcherTypeCorrect == WatcherSpec => []WatcherTypeOK
BY WatcherTypes, PTL DEF WatcherSpec

\* The event loop is busy with a creation exactly while one thread is about to release it, so
\* that no step of a thread, and no end of one by a failing call, leaves the loop blocked.
THEOREM EventLoopIsFreed ==
  WatcherSpec => [](/\ watcher = "busy" <=> \E t \in threads : t.sync
                    /\ \A t, u \in threads : t.sync /\ u.sync => t = u)
<1>1. WatcherInv => /\ watcher = "busy" <=> \E t \in threads : t.sync
                    /\ \A t, u \in threads : t.sync /\ u.sync => t = u
  BY DEF WatcherInv, Gate
<1> QED BY <1>1, WatcherInvariance, PTL

\* Once it has nothing left to do, the watcher has served every Shuffle container that it
\* listed or saw start and that no Docker call failed for, however its threads interleave,
\* whatever comes and goes, and however often it ends and starts again.
THEOREM WatcherServesAll == WatcherSpec => []AllServed
<1>1. WatcherInv => AllServed
  BY WatcherAssumption DEF WatcherInv, NothingForgotten, AllServed, Quiet, Served, Due,
     Coming, Announced, Owed, Runs, WatcherAssumption
<1> QED BY <1>1, WatcherInvariance, PTL

\* Until it is at rest the watcher can go on: no thread is at a place that its job does not
\* know, and none waits for another one but the event loop, for the one that will free it.
THEOREM WatcherNeverStuck == WatcherSpec => []NeverStuck
<1>1. WatcherInv /\ AllMove => NeverStuck
  BY DEF WatcherInv, WatcherTypeOK, Gate, NeverStuck, Quiet
<1> QED BY <1>1, WatcherInvariance, ThreadsMove, PTL

\* No retry and no injection goes on for ever: each step of a thread, also one that fails,
\* leaves at most three threads in its place, each with less to do than it had.
THEOREM ThreadsEnd == WatcherSpec => [][ThreadsRunOut]_watcherVars
<1>1. WatcherTypeOK /\ AllMove => ThreadsRunOut
  BY StepMakesWay DEF AllMove, ThreadsRunOut
<1> QED BY <1>1, WatcherTypes, ThreadsMove, PTL DEF WatcherSpec
===============================================================================
