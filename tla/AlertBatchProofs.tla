--------------------------- MODULE AlertBatchProofs ---------------------------
(***************************************************************************)
(* Proofs about AlertBatch, for any number of alerts and of workers and    *)
(* any bound on the queue: the contract is kept, caller and workers never  *)
(* block each other, and a batch ends after a bounded number of steps.     *)
(***************************************************************************)
EXTENDS AlertBatch, FiniteSetTheorems, SequenceTheorems, TLAPS

Busy  == {"sending", "loading", "adding", "recording"}
Slots == 1 .. Len(queue)
Gone  == {w \in Workers : place[w] = "gone"}

\* The caller's loops come one after the other.
Phases ==
    /\ stops > 0 => next = Total + 1
    /\ joined > 0 => next = Total + 1 /\ stops = NumWorkers
    /\ told > 0 => next = Total + 1 /\ joined = NumWorkers

\* The queue holds alerts in their order, and sentinels behind all of them.
Ascending ==
    \A j, k \in Slots : j < k /\ queue[k] # 0 => queue[j] # 0 /\ queue[j] < queue[k]

\* What is in the queue has been put there, and nowhere else.
Waiting ==
    \A k \in Slots : queue[k] # 0 =>
        /\ queue[k] < next
        /\ results[queue[k]] = "none" /\ posts[queue[k]] = 0
        /\ \A w \in Workers : item[w] # queue[k]

\* What was put and has no result is in the queue or in a worker's hands.
Covered ==
    \A i \in Batch : i < next /\ results[i] = "none" =>
        \/ \E w \in Workers : item[w] = i
        \/ \E k \in Slots : queue[k] = i

Untouched == \A i \in Batch : i >= next => results[i] = "none" /\ posts[i] = 0

\* A worker that is busy has an alert of its own, which has no result yet.
Holding ==
    \A w \in Workers :
        /\ item[w] # 0 <=> place[w] \in Busy
        /\ item[w] # 0 =>
             /\ item[w] < next
             /\ results[item[w]] = "none"
             /\ place[w] = "sending" => posts[item[w]] = 0
             /\ \A v \in Workers : item[v] = item[w] => v = w

\* Each sentinel that was put is in the queue, behind the alerts, or has
\* stopped a worker.
StopsCounted ==
    \E z \in 0 .. Len(queue) :
        /\ \A k \in Slots : queue[k] = 0 <=> k > Len(queue) - z
        /\ z + Cardinality(Gone) = stops

\* A worker stops only when no alert is left for the others.
Stopping == Gone # {} => \A k \in Slots : queue[k] = 0

Patience ==
    ~gaveUp =>
        /\ \A w \in Workers : w <= joined => w \in Gone
        /\ NumWorkers > 0 => \A i \in Batch : report[i] # "timeout"

Listed == \A i \in Batch : report[i] = "none" <=> i > told

Line == Ascending /\ Waiting /\ Covered /\ Untouched /\ Holding
Ends == StopsCounted /\ Stopping /\ Patience

Order == TypeOK /\ Phases /\ Line /\ Ends /\ Listed

\* The accepted answers, or the rejected ones, that are recorded or about to
\* be bound the counter of their kind, and what a worker has read of it.
Recorded(a)  == {i \in Batch : results[i] = a}
Recording(a) == {w \in Workers : place[w] = "recording" /\ answer[w] = a}
Counter(a) == IF a = "accepted" THEN sent ELSE failed

Heard(a) == Cardinality(Recorded(a)) + Cardinality(Recording(a))

Modest ==
    \A a \in Answers :
        /\ Counter(a) <= Heard(a)
        /\ \A w \in Workers : place[w] = "adding" /\ answer[w] = a => seen[w] <= Heard(a)

-----------------------------------------------------------------------------
(***************************************************************************)
(* The two ends of the queue.                                              *)
(***************************************************************************)
LEMMA PutInQueue ==
    ASSUME NEW q \in Seq(0 .. Total), NEW x \in 0 .. Total
    PROVE  /\ Append(q, x) \in Seq(0 .. Total)
           /\ Len(q) \in Nat /\ Len(Append(q, x)) = Len(q) + 1
           /\ \A k \in 1 .. Len(q) : Append(q, x)[k] = q[k] /\ q[k] \in 0 .. Total
           /\ Append(q, x)[Len(q) + 1] = x
<1>1. Len(q) \in Nat /\ \A k \in 1 .. Len(q) : q[k] \in 0 .. Total
  BY ElementOfSeq, LenProperties
<1>2. /\ Append(q, x) \in Seq(0 .. Total) /\ Len(Append(q, x)) = Len(q) + 1
      /\ \A k \in 1 .. Len(q) : Append(q, x)[k] = q[k]
      /\ Append(q, x)[Len(q) + 1] = x
  BY AppendProperties
<1> QED
  BY <1>1, <1>2

LEMMA GetFromQueue ==
    ASSUME NEW q \in Seq(0 .. Total), q # <<>>
    PROVE  /\ Tail(q) \in Seq(0 .. Total)
           /\ Len(q) \in Nat \ {0} /\ Len(Tail(q)) = Len(q) - 1
           /\ Head(q) = q[1]
           /\ \A k \in 1 .. Len(q) : q[k] \in 0 .. Total
           /\ \A k \in 1 .. Len(q) - 1 : Tail(q)[k] = q[k + 1]
<1>1. /\ Len(q) \in Nat \ {0}
      /\ \A k \in 1 .. Len(q) : q[k] \in 0 .. Total
  BY ElementOfSeq, LenProperties, EmptySeq
<1>2. /\ Tail(q) \in Seq(0 .. Total) /\ Len(Tail(q)) = Len(q) - 1
      /\ \A k \in 1 .. Len(Tail(q)) : Tail(q)[k] = q[k + 1]
  BY HeadTailProperties
<1>3. Head(q) = q[1]
  OBVIOUS
<1> QED
  BY <1>1, <1>2, <1>3

-----------------------------------------------------------------------------
(***************************************************************************)
(* Types.                                                                  *)
(***************************************************************************)
LEMMA TypeInit == Init => TypeOK
<1>1. Init => /\ queue \in Seq(0 .. Total) /\ Len(queue) = 0
              /\ Capacity > 0 => Len(queue) <= Capacity
  BY CapacityAssumption, EmptySeq DEF Init
<1>2. Init => /\ place \in [Workers -> Places] /\ item \in [Workers -> 0 .. Total]
              /\ answer \in [Workers -> Answers] /\ seen \in [Workers -> Nat]
  BY TotalAssumption DEF Init, Answers, Places
<1>3. Init => /\ report \in [Batch -> Answers \cup {"none", "full", "timeout"}]
              /\ results \in [Batch -> Answers \cup {"none", "full"}]
              /\ posts \in [Batch -> Nat]
  BY DEF Init
<1>4. Init => /\ next \in 1 .. Total + 1 /\ told \in 0 .. Total
              /\ stops \in 0 .. NumWorkers /\ joined \in 0 .. NumWorkers
              /\ sent \in Nat /\ failed \in Nat
  BY TotalAssumption, NumWorkersAssumption DEF Init
<1>5. Init => gaveUp \in BOOLEAN
  BY DEF Init
<1> QED
  BY <1>1, <1>2, <1>3, <1>4, <1>5 DEF TypeOK

LEMMA TypeStep == TypeOK /\ [Next]_vars => TypeOK'
<1> SUFFICES ASSUME TypeOK, [Next]_vars PROVE TypeOK'
  OBVIOUS
<1> USE TotalAssumption, NumWorkersAssumption, CapacityAssumption
<1>1. CASE PutAlert
  <2>1. queue' \in Seq(0 .. Total) /\ Len(queue') = Len(queue) + 1 /\ Len(queue) \in Nat
    BY <1>1, PutInQueue DEF TypeOK, PutAlert
  <2> QED
    BY <1>1, <2>1 DEF TypeOK, PutAlert, Full, threads, counters
<1>2. CASE Refuse
  BY <1>2 DEF TypeOK, Refuse, Batch, threads, counters
<1>3. CASE PutStop
  <2>1. queue' \in Seq(0 .. Total) /\ Len(queue') = Len(queue) + 1 /\ Len(queue) \in Nat
    BY <1>3, PutInQueue DEF TypeOK, PutStop
  <2> QED
    BY <1>3, <2>1 DEF TypeOK, PutStop, Full, threads, counters
<1>4. CASE Join
  BY <1>4 DEF TypeOK, Join, threads, counters
<1>5. CASE List
  BY <1>5 DEF TypeOK, List, Batch, threads, counters
<1>6. ASSUME NEW w \in Workers, Get(w) PROVE TypeOK'
  <2>1. /\ queue' \in Seq(0 .. Total) /\ Len(queue') = Len(queue) - 1 /\ Len(queue) \in Nat
        /\ Head(queue) \in 0 .. Total
    BY <1>6, GetFromQueue DEF TypeOK, Get
  <2> QED
    BY <1>6, <2>1 DEF TypeOK, Get, Places, caller, counters
<1>7. ASSUME NEW w \in Workers, Post(w) PROVE TypeOK'
  <2>1. posts' \in [Batch -> Nat]
    <3>1. ASSUME posts' = [posts EXCEPT ![item[w]] = @ + 1]
          PROVE  posts' \in [Batch -> Nat]
      <4>1. /\ posts' = [i \in Batch |-> IF i = item[w] THEN posts[i] + 1 ELSE posts[i]]
            /\ \A i \in Batch : posts[i] \in Nat
        BY <3>1 DEF TypeOK
      <4> QED
        BY <4>1
    <3>2. CASE UNCHANGED posts
      BY <3>2 DEF TypeOK
    <3> QED
      BY <1>7, <3>1, <3>2 DEF Post
  <2>2. answer' \in [Workers -> Answers] /\ place' \in [Workers -> Places]
    BY <1>7 DEF TypeOK, Post, Places, Answers
  <2> QED
    BY <1>7, <2>1, <2>2 DEF TypeOK, Post, caller, counters
<1>8. ASSUME NEW w \in Workers, Load(w) PROVE TypeOK'
  BY <1>8 DEF TypeOK, Load, Places, caller, counters
<1>9. ASSUME NEW w \in Workers, Count(w) PROVE TypeOK'
  BY <1>9 DEF TypeOK, Count, Places, caller
<1>10. ASSUME NEW w \in Workers, Record(w) PROVE TypeOK'
  <2>1. results' \in [Batch -> Answers \cup {"none", "full"}]
    BY <1>10 DEF TypeOK, Record
  <2>2. item' \in [Workers -> 0 .. Total] /\ place' \in [Workers -> Places]
    BY <1>10 DEF TypeOK, Record, Places
  <2> QED
    BY <1>10, <2>1, <2>2 DEF TypeOK, Record, caller, counters
<1>11. CASE UNCHANGED vars
  BY <1>11 DEF TypeOK, vars, caller, threads, counters
<1> QED
  BY <1>1, <1>2, <1>3, <1>4, <1>5, <1>6, <1>7, <1>8, <1>9, <1>10, <1>11
  DEF Next, Call, Work

-----------------------------------------------------------------------------
(***************************************************************************)
(* Counting workers.                                                       *)
(***************************************************************************)
LEMMA SomeWorkers ==
    ASSUME NEW S \in SUBSET Workers
    PROVE  /\ IsFiniteSet(S) /\ Cardinality(S) \in Nat
           /\ Cardinality(S) = 0 <=> S = {}
<1>1. IsFiniteSet(Workers)
  BY NumWorkersAssumption, FS_Interval DEF Workers
<1>2. IsFiniteSet(S)
  BY <1>1, FS_Subset
<1> QED
  BY <1>2, FS_CardinalityType, FS_EmptySet

LEMMA AllWorkers == Cardinality(Workers) = NumWorkers
  BY NumWorkersAssumption, FS_Interval DEF Workers

\* Without a sentinel no worker stops.
LEMMA NoStops == TypeOK /\ StopsCounted /\ stops = 0 => Gone = {} /\ \A k \in Slots : queue[k] # 0
<1> SUFFICES ASSUME TypeOK, StopsCounted, stops = 0
             PROVE  Gone = {} /\ \A k \in Slots : queue[k] # 0
  OBVIOUS
<1>1. Len(queue) \in Nat
  BY LenProperties DEF TypeOK
<1>2. PICK z \in 0 .. Len(queue) : /\ \A k \in Slots : queue[k] = 0 <=> k > Len(queue) - z
                                   /\ z + Cardinality(Gone) = stops
  BY DEF StopsCounted
<1>3. Cardinality(Gone) \in Nat /\ (Cardinality(Gone) = 0 <=> Gone = {})
  BY SomeWorkers DEF Gone
<1>4. z = 0 /\ Gone = {}
  BY <1>1, <1>2, <1>3
<1> QED
  BY <1>1, <1>2, <1>4 DEF Slots

-----------------------------------------------------------------------------
(***************************************************************************)
(* The order of things: one lemma for each action.                         *)
(***************************************************************************)
LEMMA OrderInit == Init => Order
<1> SUFFICES ASSUME Init PROVE Order
  OBVIOUS
<1>1. TypeOK
  BY TypeInit
<1>2. Len(queue) = 0 /\ Slots = {}
  BY DEF Init, Slots
<1>3. Phases /\ Line /\ Listed /\ Stopping
  BY <1>2, TotalAssumption
  DEF Init, Phases, Line, Ascending, Waiting, Covered, Untouched, Holding, Busy, Listed, Stopping, Batch, Workers
<1>4. Gone = {}
  BY DEF Init, Gone
<1>5. StopsCounted
  BY <1>2, <1>4, FS_EmptySet DEF StopsCounted, Init
<1>6. Patience
  BY DEF Patience, Init, Workers
<1> QED
  BY <1>1, <1>3, <1>5, <1>6 DEF Order, Ends

LEMMA OrderPutAlert == Order /\ PutAlert => Order'
<1> SUFFICES ASSUME Order, PutAlert PROVE Order'
  OBVIOUS
<1> USE DEF Order
<1>1. TypeOK'
  BY TypeStep DEF Next, Call
<1>2. /\ next \in 1 .. Total /\ next' = next + 1
      /\ stops = 0 /\ joined = 0 /\ told = 0
      /\ UNCHANGED <<stops, joined, told, gaveUp, report, place, item, results, posts>>
  BY TotalAssumption, NumWorkersAssumption DEF PutAlert, TypeOK, Phases, threads
<1>3. Gone = {} /\ Gone' = {} /\ \A k \in Slots : queue[k] # 0
  BY <1>2, NoStops DEF Ends, Gone
<1>4. /\ Len(queue) \in Nat /\ Len(queue') = Len(queue) + 1
      /\ \A k \in Slots : queue'[k] = queue[k] /\ queue[k] \in 0 .. Total
      /\ queue'[Len(queue) + 1] = next
      /\ Slots' = 1 .. Len(queue) + 1
  BY <1>2, PutInQueue DEF PutAlert, TypeOK, Slots
<1>5. \A k \in Slots' : k \in Slots \/ k = Len(queue) + 1
  BY <1>4 DEF Slots
<1>6. Line'
  <2>1. Ascending'
    BY <1>2, <1>3, <1>4, <1>5 DEF Line, Ascending, Waiting, Slots
  <2>2. Waiting'
    <3>1. \A w \in Workers : item[w] # next
      BY <1>2 DEF Line, Holding
    <3>2. results[next] = "none" /\ posts[next] = 0
      BY <1>2 DEF Line, Untouched, Batch
    <3>3. ASSUME NEW k \in Slots
          PROVE  /\ queue[k] < next + 1 /\ results[queue[k]] = "none" /\ posts[queue[k]] = 0
                 /\ \A w \in Workers : item[w] # queue[k]
      BY <1>2, <1>3, <1>4 DEF Line, Waiting
    <3> QED
      BY <1>2, <1>4, <1>5, <3>1, <3>2, <3>3 DEF Waiting
  <2>3. Covered'
    <3> SUFFICES ASSUME NEW i \in Batch, i < next + 1, results[i] = "none"
                 PROVE  (\E w \in Workers : item[w] = i) \/ \E k \in Slots' : queue'[k] = i
      BY <1>2 DEF Covered
    <3>1. CASE i = next
      BY <3>1, <1>4
    <3>2. CASE i < next
      BY <3>2, <1>4 DEF Line, Covered, Slots
    <3> QED
      BY <3>1, <3>2, <1>2 DEF Batch
  <2>4. Untouched'
    BY <1>2 DEF Line, Untouched, Batch
  <2>5. Holding'
    <3>1. \A w \in Workers : item[w] \in 0 .. Total
      BY DEF TypeOK
    <3> QED
      BY <1>2, <3>1 DEF Line, Holding
  <2> QED
    BY <2>1, <2>2, <2>3, <2>4, <2>5 DEF Line
<1>7. Ends'
  <2>1. StopsCounted'
    <3>1. \A k \in Slots' : queue'[k] # 0
      BY <1>2, <1>3, <1>4, <1>5
    <3>2. 0 \in 0 .. Len(queue') /\ \A k \in Slots' : ~(k > Len(queue') - 0)
      BY <1>4
    <3>3. 0 + Cardinality(Gone') = stops'
      BY <1>2, <1>3, FS_EmptySet
    <3> QED
      BY <3>1, <3>2, <3>3 DEF StopsCounted
  <2> QED
    BY <2>1, <1>2, <1>3 DEF Ends, Stopping, Patience, Gone
<1> QED
  BY <1>1, <1>2, <1>6, <1>7 DEF Phases, Listed

LEMMA OrderRefuse == Order /\ Refuse => Order'
<1> SUFFICES ASSUME Order, Refuse PROVE Order'
  OBVIOUS
<1> USE DEF Order
<1>1. TypeOK'
  BY TypeStep DEF Next, Call
<1>2. /\ next \in 1 .. Total /\ next' = next + 1
      /\ results' = [results EXCEPT ![next] = "full"]
      /\ UNCHANGED <<stops, joined, told, gaveUp, report, place, item, queue, posts>>
  BY TotalAssumption DEF Refuse, TypeOK, threads
<1>3. \A i \in Batch : results'[i] = IF i = next THEN "full" ELSE results[i]
  BY <1>2 DEF TypeOK
<1>4. \A k \in Slots : queue[k] \in 0 .. Total
  BY ElementOfSeq DEF TypeOK, Slots
<1>5. \A w \in Workers : item[w] \in 0 .. Total
  BY DEF TypeOK
<1>6. Phases' /\ Ends' /\ Listed' /\ Ascending'
  <2>1. stops = 0 /\ joined = 0 /\ told = 0
    BY <1>2, NumWorkersAssumption, TotalAssumption DEF Phases, TypeOK
  <2>2. Phases' /\ Listed' /\ Ascending'
    BY <1>2, <2>1 DEF Phases, Listed, Line, Ascending, Slots
  <2> QED
    BY <1>2, <2>2 DEF Ends, StopsCounted, Stopping, Patience, Gone, Slots
<1>7. Waiting'
  BY <1>2, <1>3, <1>4 DEF Line, Waiting, Slots, Batch
<1>8. Covered'
  BY <1>2, <1>3 DEF Line, Covered, Slots, Batch
<1>9. Untouched'
  BY <1>2, <1>3 DEF Line, Untouched, Batch
<1>10. Holding'
  BY <1>2, <1>3, <1>5 DEF Line, Holding, Batch
<1> QED
  BY <1>1, <1>6, <1>7, <1>8, <1>9, <1>10 DEF Line

LEMMA OrderPutStop == Order /\ PutStop => Order'
<1> SUFFICES ASSUME Order, PutStop PROVE Order'
  OBVIOUS
<1> USE DEF Order
<1>1. TypeOK'
  BY TypeStep DEF Next, Call
<1>2. /\ next = Total + 1 /\ stops \in 0 .. NumWorkers - 1 /\ stops' = stops + 1
      /\ joined = 0 /\ told = 0
      /\ UNCHANGED <<next, joined, told, gaveUp, report, place, item, results, posts>>
  BY NumWorkersAssumption, TotalAssumption DEF PutStop, TypeOK, Phases, threads
<1>3. /\ Len(queue) \in Nat /\ Len(queue') = Len(queue) + 1
      /\ \A k \in Slots : queue'[k] = queue[k] /\ queue[k] \in 0 .. Total
      /\ queue'[Len(queue) + 1] = 0
      /\ Slots' = 1 .. Len(queue) + 1
  BY TotalAssumption, PutInQueue DEF PutStop, TypeOK, Slots
<1>4. \A k \in Slots' : k \in Slots \/ k = Len(queue) + 1
  BY <1>3 DEF Slots
<1>5. Phases' /\ Listed'
  BY <1>2, TotalAssumption DEF Phases, Listed
<1>6. Line'
  <2>1. Ascending'
    BY <1>3, <1>4 DEF Line, Ascending, Slots
  <2>2. Waiting'
    BY <1>2, <1>3, <1>4 DEF Line, Waiting
  <2>3. Covered'
    BY <1>2, <1>3 DEF Line, Covered, Slots
  <2>4. Untouched' /\ Holding'
    BY <1>2 DEF Line, Untouched, Holding
  <2> QED
    BY <2>1, <2>2, <2>3, <2>4 DEF Line
<1>7. Gone' = Gone /\ Cardinality(Gone) \in Nat
  BY <1>2, SomeWorkers DEF Gone
<1>8. StopsCounted'
  <2>1. PICK z \in 0 .. Len(queue) : /\ \A k \in Slots : queue[k] = 0 <=> k > Len(queue) - z
                                     /\ z + Cardinality(Gone) = stops
    BY DEF Ends, StopsCounted
  <2>2. z + 1 \in 0 .. Len(queue') /\ (z + 1) + Cardinality(Gone') = stops'
    BY <1>2, <1>3, <1>7, <2>1
  <2>3. \A k \in Slots' : queue'[k] = 0 <=> k > Len(queue') - (z + 1)
    BY <1>3, <1>4, <2>1
  <2> QED
    BY <2>2, <2>3 DEF StopsCounted
<1>9. Stopping' /\ Patience'
  BY <1>2, <1>3, <1>4, <1>7 DEF Ends, Stopping, Patience
<1> QED
  BY <1>1, <1>5, <1>6, <1>8, <1>9 DEF Ends

LEMMA OrderJoin == Order /\ Join => Order'
<1> SUFFICES ASSUME Order, Join PROVE Order'
  OBVIOUS
<1> USE DEF Order
<1>1. TypeOK'
  BY TypeStep DEF Next, Call
<1>2. /\ next = Total + 1 /\ stops = NumWorkers
      /\ joined \in 0 .. NumWorkers - 1 /\ joined' = joined + 1 /\ told = 0
      /\ UNCHANGED <<next, stops, told, report, place, item, queue, results, posts>>
  BY NumWorkersAssumption, TotalAssumption DEF Join, TypeOK, Phases, threads
<1>6. ~gaveUp' => ~gaveUp /\ place[joined + 1] = "gone"
  BY DEF Join
<1>3. Phases' /\ Listed'
  BY <1>2, TotalAssumption DEF Phases, Listed
<1>4. Line' /\ StopsCounted' /\ Stopping'
  BY <1>2
  DEF Line, Ascending, Waiting, Covered, Untouched, Holding, Slots, Gone, Ends, StopsCounted, Stopping
<1>5. Patience'
  <2> SUFFICES ASSUME ~gaveUp'
               PROVE  /\ \A w \in Workers : w <= joined + 1 => w \in Gone
                      /\ NumWorkers > 0 => \A i \in Batch : report[i] # "timeout"
    BY <1>2 DEF Patience, Gone
  <2> QED
    BY <1>2, <1>6 DEF Ends, Patience, Gone, Workers
<1> QED
  BY <1>1, <1>3, <1>4, <1>5 DEF Ends

\* When every worker that was waited for has stopped, all is done.
LEMMA AllDone == Order => NobodyLeftOut
<1> SUFFICES ASSUME Order, NumWorkers > 0, joined = NumWorkers, ~gaveUp
             PROVE  queue = <<>> /\ \A i \in Batch : results[i] # "none" /\ report[i] # "timeout"
  BY DEF NobodyLeftOut
<1> USE DEF Order
<1>1. Gone = Workers
  BY NumWorkersAssumption DEF Ends, Patience, Gone, Workers
<1>2. stops = NumWorkers /\ next = Total + 1
  BY DEF Phases
<1>3. Len(queue) \in Nat
  BY LenProperties DEF TypeOK
<1>4. Slots = {}
  <2>1. PICK z \in 0 .. Len(queue) : /\ \A k \in Slots : queue[k] = 0 <=> k > Len(queue) - z
                                     /\ z + Cardinality(Gone) = stops
    BY DEF Ends, StopsCounted
  <2>2. z = 0
    BY <1>1, <1>2, <2>1, AllWorkers, NumWorkersAssumption
  <2>3. \A k \in Slots : queue[k] = 0
    BY <1>1, NumWorkersAssumption DEF Ends, Stopping, Workers
  <2> QED
    BY <1>3, <2>1, <2>2, <2>3 DEF Slots
<1>5. queue = <<>>
  <2>1. 1 \notin 1 .. Len(queue)
    BY <1>4 DEF Slots
  <2>2. Len(queue) = 0
    BY <1>3, <2>1
  <2>3. queue \in Seq(0 .. Total)
    BY DEF TypeOK
  <2> QED
    BY <2>2, <2>3, EmptySeq
<1>6. \A w \in Workers : item[w] = 0
  BY <1>1 DEF Line, Holding, Gone, Busy
<1>7. \A i \in Batch : results[i] # "none"
  BY <1>2, <1>4, <1>6, TotalAssumption DEF Line, Covered, Batch
<1> QED
  BY <1>5, <1>7 DEF Ends, Patience

LEMMA OrderList == Order /\ List => Order'
<1> SUFFICES ASSUME Order, List PROVE Order'
  OBVIOUS
<1> USE DEF Order
<1>1. TypeOK'
  BY TypeStep DEF Next, Call
<1>2. /\ next = Total + 1 /\ joined = NumWorkers
      /\ told \in 0 .. Total - 1 /\ told' = told + 1
      /\ UNCHANGED <<next, stops, joined, gaveUp, place, item, queue, results, posts>>
  BY TotalAssumption DEF List, TypeOK, threads
<1>3. told + 1 \in Batch
  BY <1>2, TotalAssumption DEF Batch
<1>4. report' = [report EXCEPT ![told + 1] =
                    IF results[told + 1] = "none" THEN "timeout" ELSE results[told + 1]]
  BY DEF List
<1>5. results[told + 1] \in {"accepted", "rejected", "none", "full"}
  BY <1>3 DEF TypeOK, Answers
<1>6. Phases'
  BY <1>2 DEF Phases
<1>7. Line' /\ StopsCounted' /\ Stopping'
  BY <1>2
  DEF Line, Ascending, Waiting, Covered, Untouched, Holding, Slots, Gone, Ends, StopsCounted, Stopping
<1>8. Patience'
  <2> SUFFICES ASSUME ~gaveUp, NumWorkers > 0
               PROVE  \A i \in Batch : report'[i] # "timeout"
    BY <1>2 DEF Ends, Patience, Gone
  <2>1. results[told + 1] # "none"
    BY <1>2, <1>3, AllDone DEF NobodyLeftOut
  <2> QED
    BY <1>3, <1>4, <1>5, <2>1 DEF Ends, Patience, TypeOK
<1>9. Listed'
  <2>1. report'[told + 1] # "none"
    BY <1>3, <1>4, <1>5 DEF TypeOK
  <2>2. \A i \in Batch : i # told + 1 => report'[i] = report[i]
    BY <1>4 DEF TypeOK
  <2>3. ASSUME NEW i \in Batch PROVE report'[i] = "none" <=> i > told + 1
    BY <1>2, <2>1, <2>2 DEF Listed, Batch
  <2> QED
    BY <1>2, <2>3 DEF Listed
<1> QED
  BY <1>1, <1>6, <1>7, <1>8, <1>9 DEF Ends

\* What getting from the queue leaves in it.
LEMMA Getting ==
    ASSUME TypeOK, NEW w \in Workers, Get(w)
    PROVE  /\ Len(queue) \in Nat \ {0} /\ Len(queue') = Len(queue) - 1
           /\ Slots = 1 .. Len(queue) /\ Slots' = 1 .. Len(queue) - 1
           /\ 1 \in Slots /\ \A k \in Slots : queue[k] \in 0 .. Total
           /\ \A k \in Slots' : k + 1 \in Slots /\ queue'[k] = queue[k + 1]
           /\ item' = [item EXCEPT ![w] = queue[1]]
           /\ place[w] = "getting"
           /\ place' = [place EXCEPT ![w] = IF queue[1] = 0 THEN "gone" ELSE "sending"]
           /\ UNCHANGED <<next, stops, joined, told, gaveUp, report, results, posts>>
<1>1. queue \in Seq(0 .. Total) /\ queue # <<>>
  BY DEF TypeOK, Get
<1>2. /\ Len(queue) \in Nat \ {0} /\ Len(Tail(queue)) = Len(queue) - 1
      /\ Head(queue) = queue[1]
      /\ \A k \in 1 .. Len(queue) : queue[k] \in 0 .. Total
      /\ \A k \in 1 .. Len(queue) - 1 : Tail(queue)[k] = queue[k + 1]
  BY <1>1, GetFromQueue
<1>3. queue' = Tail(queue)
  BY DEF Get
<1>4. /\ Slots = 1 .. Len(queue) /\ Slots' = 1 .. Len(queue) - 1
      /\ 1 \in Slots /\ \A k \in Slots : queue[k] \in 0 .. Total
      /\ \A k \in Slots' : k + 1 \in Slots /\ queue'[k] = queue[k + 1]
  BY <1>2, <1>3 DEF Slots
<1> QED
  BY <1>2, <1>3, <1>4 DEF Get, caller

LEMMA OrderGetAlert == ASSUME NEW w \in Workers PROVE Order /\ Get(w) /\ queue[1] # 0 => Order'
<1> SUFFICES ASSUME Order, Get(w), queue[1] # 0 PROVE Order'
  OBVIOUS
<1> USE DEF Order
<1>1. TypeOK'
  BY TypeStep DEF Next, Work
<1>2. /\ Len(queue) \in Nat \ {0} /\ Len(queue') = Len(queue) - 1
      /\ Slots = 1 .. Len(queue) /\ Slots' = 1 .. Len(queue) - 1
      /\ 1 \in Slots /\ \A k \in Slots : queue[k] \in 0 .. Total
      /\ \A k \in Slots' : k + 1 \in Slots /\ queue'[k] = queue[k + 1]
      /\ item' = [item EXCEPT ![w] = queue[1]]
      /\ place[w] = "getting" /\ place' = [place EXCEPT ![w] = "sending"]
      /\ UNCHANGED <<next, stops, joined, told, gaveUp, report, results, posts>>
  BY Getting
<1>3. /\ \A v \in Workers : item'[v] = (IF v = w THEN queue[1] ELSE item[v]) /\ item[v] \in 0 .. Total
      /\ \A v \in Workers : place'[v] = IF v = w THEN "sending" ELSE place[v]
      /\ item[w] = 0
  <2>1. item[w] = 0
    BY <1>2 DEF Line, Holding, Busy
  <2> QED
    BY <1>2, <2>1 DEF TypeOK
<1>4. /\ queue[1] < next /\ results[queue[1]] = "none" /\ posts[queue[1]] = 0
      /\ \A v \in Workers : item[v] # queue[1]
  BY <1>2 DEF Line, Waiting
<1>5. Gone' = Gone
  BY <1>2, <1>3 DEF Gone
<1>6. Phases' /\ Listed' /\ Untouched'
  BY <1>2 DEF Phases, Listed, Line, Untouched
<1>7. Ascending'
  <2> SUFFICES ASSUME NEW j \in Slots', NEW k \in Slots', j < k, queue[k + 1] # 0
               PROVE  queue[j + 1] # 0 /\ queue[j + 1] < queue[k + 1]
    BY <1>2 DEF Ascending
  <2>1. j + 1 \in Slots /\ k + 1 \in Slots /\ j + 1 < k + 1
    BY <1>2
  <2> QED
    BY <2>1 DEF Line, Ascending
<1>8. Waiting'
  <2> SUFFICES ASSUME NEW k \in Slots', queue[k + 1] # 0
               PROVE  /\ queue[k + 1] < next
                      /\ results[queue[k + 1]] = "none" /\ posts[queue[k + 1]] = 0
                      /\ \A v \in Workers : item'[v] # queue[k + 1]
    <3>1. /\ \A k \in Slots' : queue'[k] = queue[k + 1]
          /\ UNCHANGED <<next, results, posts>>
      BY <1>2
    <3> QED
      BY <3>1 DEF Waiting
  <2>1. k + 1 \in Slots /\ 1 < k + 1
    BY <1>2
  <2>2. queue[1] < queue[k + 1]
    BY <1>2, <2>1 DEF Line, Ascending
  <2> QED
    BY <1>2, <1>3, <2>1, <2>2 DEF Line, Waiting
<1>9. Covered'
  <2> SUFFICES ASSUME NEW i \in Batch, i < next, results[i] = "none"
               PROVE  (\E v \in Workers : item'[v] = i) \/ \E k \in Slots' : queue'[k] = i
    BY <1>2 DEF Covered
  <2>1. CASE \E v \in Workers : item[v] = i
    BY <2>1, <1>3 DEF Batch
  <2>2. ASSUME NEW k \in Slots, queue[k] = i
        PROVE  (\E v \in Workers : item'[v] = i) \/ \E j \in Slots' : queue'[j] = i
    <3>1. CASE k = 1
      BY <3>1, <2>2, <1>3
    <3>2. CASE k # 1
      <4>1. k - 1 \in Slots' /\ queue'[k - 1] = queue[(k - 1) + 1] /\ (k - 1) + 1 = k
        BY <3>2, <1>2
      <4> QED
        BY <4>1, <2>2
    <3> QED
      BY <3>1, <3>2
  <2> QED
    BY <2>1, <2>2 DEF Line, Covered
<1>10. Holding'
  BY <1>2, <1>3, <1>4 DEF Line, Holding, Busy
<1>11. StopsCounted'
  <2>1. PICK z \in 0 .. Len(queue) : /\ \A k \in Slots : queue[k] = 0 <=> k > Len(queue) - z
                                     /\ z + Cardinality(Gone) = stops
    BY DEF Ends, StopsCounted
  <2>2. z \in 0 .. Len(queue')
    BY <1>2, <2>1
  <2>3. \A k \in Slots' : queue'[k] = 0 <=> k > Len(queue') - z
    BY <1>2, <2>1
  <2> QED
    BY <1>2, <1>5, <2>1, <2>2, <2>3 DEF StopsCounted
<1>12. Stopping' /\ Patience'
  BY <1>2, <1>5 DEF Ends, Stopping, Patience
<1> QED
  BY <1>1, <1>6, <1>7, <1>8, <1>9, <1>10, <1>11, <1>12 DEF Line, Ends

LEMMA OrderGetStop == ASSUME NEW w \in Workers PROVE Order /\ Get(w) /\ queue[1] = 0 => Order'
<1> SUFFICES ASSUME Order, Get(w), queue[1] = 0 PROVE Order'
  OBVIOUS
<1> USE DEF Order
<1>1. TypeOK'
  BY TypeStep DEF Next, Work
<1>2. /\ Len(queue) \in Nat \ {0} /\ Len(queue') = Len(queue) - 1
      /\ Slots = 1 .. Len(queue) /\ Slots' = 1 .. Len(queue) - 1
      /\ 1 \in Slots /\ \A k \in Slots : queue[k] \in 0 .. Total
      /\ \A k \in Slots' : k + 1 \in Slots /\ queue'[k] = queue[k + 1]
      /\ item' = [item EXCEPT ![w] = 0]
      /\ place[w] = "getting" /\ place' = [place EXCEPT ![w] = "gone"]
      /\ UNCHANGED <<next, stops, joined, told, gaveUp, report, results, posts>>
  BY Getting
<1>3. /\ \A v \in Workers : item'[v] = item[v] /\ item[v] \in 0 .. Total
      /\ \A v \in Workers : place'[v] = IF v = w THEN "gone" ELSE place[v]
      /\ item[w] = 0
  <2>1. item[w] = 0
    BY <1>2 DEF Line, Holding, Busy
  <2> QED
    BY <1>2, <2>1 DEF TypeOK
<1>4. Gone' = Gone \cup {w} /\ w \notin Gone
  BY <1>2, <1>3 DEF Gone
<1>5. \A k \in Slots : queue[k] = 0
  BY <1>2 DEF Line, Ascending
<1>6. Phases' /\ Listed' /\ Untouched'
  BY <1>2 DEF Phases, Listed, Line, Untouched
<1>7. Ascending' /\ Waiting' /\ Stopping'
  BY <1>2, <1>5 DEF Ascending, Waiting, Stopping
<1>8. Covered'
  BY <1>2, <1>3, <1>5 DEF Line, Covered, Batch
<1>9. Holding'
  BY <1>2, <1>3 DEF Line, Holding, Busy
<1>10. StopsCounted'
  <2>1. PICK z \in 0 .. Len(queue) : /\ \A k \in Slots : queue[k] = 0 <=> k > Len(queue) - z
                                     /\ z + Cardinality(Gone) = stops
    BY DEF Ends, StopsCounted
  <2>2. z = Len(queue)
    BY <1>2, <1>5, <2>1
  <2>3. Cardinality(Gone') = Cardinality(Gone) + 1 /\ Cardinality(Gone) \in Nat
    BY <1>4, SomeWorkers, FS_AddElement DEF Gone
  <2>4. Len(queue') \in 0 .. Len(queue') /\ Len(queue') + Cardinality(Gone') = stops'
    <3>1. Len(queue) + Cardinality(Gone) = stops'
      BY <1>2, <2>1, <2>2
    <3> QED
      BY <1>2, <2>3, <3>1
  <2>5. \A k \in Slots' : queue'[k] = 0 <=> k > Len(queue') - Len(queue')
    BY <1>2, <1>5
  <2> QED
    BY <2>4, <2>5 DEF StopsCounted
<1>11. Patience'
  BY <1>2, <1>4 DEF Ends, Patience
<1> QED
  BY <1>1, <1>6, <1>7, <1>8, <1>9, <1>10, <1>11 DEF Line, Ends

LEMMA OrderPost == ASSUME NEW w \in Workers PROVE Order /\ Post(w) => Order'
<1> SUFFICES ASSUME Order, Post(w) PROVE Order'
  OBVIOUS
<1> USE DEF Order
<1>1. TypeOK'
  BY TypeStep DEF Next, Work
<1>2. /\ place[w] = "sending" /\ place' = [place EXCEPT ![w] = "loading"]
      /\ UNCHANGED <<next, stops, joined, told, gaveUp, report, item, queue, results>>
      /\ posts' = [posts EXCEPT ![item[w]] = @ + 1] \/ posts' = posts
  BY DEF Post, caller
<1>3. /\ \A v \in Workers : place'[v] = (IF v = w THEN "loading" ELSE place[v])
      /\ \A v \in Workers : item[v] \in 0 .. Total
      /\ \A i \in Batch : i # item[w] => posts'[i] = posts[i]
  BY <1>2 DEF TypeOK
<1>4. item[w] \in Batch /\ item[w] < next
  BY <1>2, <1>3 DEF Line, Holding, Busy, Batch
<1>5. Gone' = Gone
  BY <1>2, <1>3 DEF Gone
<1>6. Phases' /\ Listed' /\ Ascending' /\ Covered' /\ Ends'
  BY <1>2, <1>5
  DEF Phases, Listed, Line, Ascending, Covered, Ends, StopsCounted, Stopping, Patience, Slots
<1>7. Waiting'
  <2>1. \A k \in Slots : queue[k] \in 0 .. Total
    BY ElementOfSeq DEF TypeOK, Slots
  <2> QED
    BY <1>2, <1>3, <2>1 DEF Line, Waiting, Slots, Batch
<1>8. Untouched'
  BY <1>2, <1>3, <1>4, TotalAssumption DEF Line, Untouched, Batch, TypeOK
<1>9. Holding'
  BY <1>2, <1>3 DEF Line, Holding, Busy, Batch
<1> QED
  BY <1>1, <1>6, <1>7, <1>8, <1>9 DEF Line

\* Counting moves a busy worker on, and nothing else of the order.
LEMMA OrderLoadCount == ASSUME NEW w \in Workers PROVE Order /\ (Load(w) \/ Count(w)) => Order'
<1> SUFFICES ASSUME Order, Load(w) \/ Count(w) PROVE Order'
  OBVIOUS
<1> USE DEF Order
<1>1. TypeOK'
  BY TypeStep DEF Next, Work
<1>2. /\ place[w] \in {"loading", "adding"}
      /\ \E p \in {"adding", "recording"} : place' = [place EXCEPT ![w] = p]
      /\ UNCHANGED <<next, stops, joined, told, gaveUp, report, item, queue, results, posts>>
  BY DEF Load, Count, caller
<1>3. /\ \A v \in Workers \ {w} : place'[v] = place[v]
      /\ place'[w] \in {"adding", "recording"}
  BY <1>2 DEF TypeOK
<1>4. Gone' = Gone
  BY <1>2, <1>3 DEF Gone
<1>5. Phases' /\ Listed' /\ Ascending' /\ Waiting' /\ Covered' /\ Untouched' /\ Ends'
  BY <1>2, <1>4
  DEF Phases, Listed, Line, Ascending, Waiting, Covered, Untouched, Ends, StopsCounted,
      Stopping, Patience, Slots
<1>6. Holding'
  BY <1>2, <1>3 DEF Line, Holding, Busy
<1> QED
  BY <1>1, <1>5, <1>6 DEF Line

LEMMA OrderRecord == ASSUME NEW w \in Workers PROVE Order /\ Record(w) => Order'
<1> SUFFICES ASSUME Order, Record(w) PROVE Order'
  OBVIOUS
<1> USE DEF Order
<1>1. TypeOK'
  BY TypeStep DEF Next, Work
<1>2. /\ place[w] = "recording" /\ place' = [place EXCEPT ![w] = "getting"]
      /\ item' = [item EXCEPT ![w] = 0]
      /\ results' = [results EXCEPT ![item[w]] = answer[w]]
      /\ UNCHANGED <<next, stops, joined, told, gaveUp, report, queue, posts>>
  BY DEF Record, caller
<1>3. /\ \A v \in Workers : place'[v] = (IF v = w THEN "getting" ELSE place[v])
      /\ \A v \in Workers : item'[v] = (IF v = w THEN 0 ELSE item[v]) /\ item[v] \in 0 .. Total
      /\ \A i \in Batch : results'[i] = IF i = item[w] THEN answer[w] ELSE results[i]
      /\ answer[w] \in Answers
  BY <1>2 DEF TypeOK
<1>4. item[w] \in Batch /\ item[w] < next
  BY <1>2, <1>3 DEF Line, Holding, Busy, Batch
<1>5. Gone' = Gone
  BY <1>2, <1>3 DEF Gone
<1>6. Phases' /\ Listed' /\ Ascending' /\ Ends'
  BY <1>2, <1>5
  DEF Phases, Listed, Line, Ascending, Ends, StopsCounted, Stopping, Patience, Slots
<1>7. Waiting'
  <2>1. \A k \in Slots : queue[k] \in 0 .. Total
    BY ElementOfSeq DEF TypeOK, Slots
  <2> QED
    BY <1>2, <1>3, <2>1 DEF Line, Waiting, Slots, Batch
<1>8. Covered'
  <2> SUFFICES ASSUME NEW i \in Batch, i < next, results'[i] = "none"
               PROVE  (\E v \in Workers : item'[v] = i) \/ \E k \in Slots : queue[k] = i
    BY <1>2 DEF Covered, Slots
  <2>1. i # item[w] /\ results[i] = "none"
    BY <1>3 DEF Answers
  <2> QED
    BY <1>3, <2>1 DEF Line, Covered
<1>9. Untouched'
  <2>1. \A i \in Batch : i >= next => i # item[w]
    BY <1>3, <1>4, TotalAssumption DEF TypeOK, Batch
  <2> QED
    BY <1>2, <1>3, <2>1 DEF Line, Untouched
<1>10. Holding'
  <2> SUFFICES ASSUME NEW v \in Workers
               PROVE  /\ item'[v] # 0 <=> place'[v] \in Busy
                      /\ item'[v] # 0 =>
                           /\ item'[v] < next
                           /\ results'[item'[v]] = "none"
                           /\ place'[v] = "sending" => posts[item'[v]] = 0
                           /\ \A u \in Workers : item'[u] = item'[v] => u = v
    BY <1>2 DEF Holding
  <2>1. CASE v = w
    BY <2>1, <1>3 DEF Busy
  <2>2. CASE v # w
    <3>1. item'[v] = item[v] /\ place'[v] = place[v]
      BY <2>2, <1>3
    <3>2. item[v] # 0 => item[v] \in Batch /\ item[v] # item[w]
      BY <2>2, <1>3, <1>4 DEF Line, Holding, Batch
    <3> QED
      BY <3>1, <3>2, <1>3 DEF Line, Holding
  <2> QED
    BY <2>1, <2>2
<1> QED
  BY <1>1, <1>6, <1>7, <1>8, <1>9, <1>10 DEF Line

LEMMA OrderStep == Order /\ [Next]_vars => Order'
<1> SUFFICES ASSUME Order, [Next]_vars PROVE Order'
  OBVIOUS
<1>1. CASE Call
  BY <1>1, OrderPutAlert, OrderRefuse, OrderPutStop, OrderJoin, OrderList DEF Call
<1>2. ASSUME NEW w \in Workers, Work(w) PROVE Order'
  BY <1>2, OrderGetAlert, OrderGetStop, OrderPost, OrderLoadCount, OrderRecord DEF Work
<1>3. CASE UNCHANGED vars
  <2>1. TypeOK'
    BY TypeStep DEF Order
  <2>2. UNCHANGED <<next, stops, joined, told, gaveUp, report, place, item, queue, results, posts>>
    BY <1>3 DEF vars, caller, threads
  <2>3. Gone' = Gone /\ Slots' = Slots
    BY <2>2 DEF Gone, Slots
  <2>4. Phases' /\ Listed' /\ Line'
    BY <2>2, <2>3
    DEF Order, Phases, Listed, Line, Ascending, Waiting, Covered, Untouched, Holding
  <2>5. Ends'
    BY <2>2, <2>3 DEF Order, Ends, StopsCounted, Stopping, Patience
  <2> QED
    BY <2>1, <2>4, <2>5 DEF Order
<1> QED
  BY <1>1, <1>2, <1>3 DEF Next

-----------------------------------------------------------------------------
(***************************************************************************)
(* What is posted, and what is refused.                                    *)
(***************************************************************************)
LEMMA PostedStep == Order /\ SentAtMostOnce /\ [Next]_vars => SentAtMostOnce'
<1> SUFFICES ASSUME Order, SentAtMostOnce, [Next]_vars PROVE SentAtMostOnce'
  OBVIOUS
<1>1. CASE Refuse
  <2>1. next \in Batch /\ results' = [results EXCEPT ![next] = "full"] /\ posts' = posts
    BY <1>1, TotalAssumption DEF Refuse, Order, TypeOK, Batch
  <2>2. posts[next] = 0
    BY <2>1, TotalAssumption DEF Order, Line, Untouched, Batch
  <2> QED
    BY <2>1, <2>2 DEF Order, TypeOK, SentAtMostOnce
<1>2. ASSUME NEW w \in Workers, Post(w) PROVE SentAtMostOnce'
  <2>1. item[w] \in Batch /\ results[item[w]] = "none" /\ posts[item[w]] = 0
    BY <1>2 DEF Post, Order, TypeOK, Line, Holding, Busy, Batch
  <2>2. results' = results /\ (posts' = [posts EXCEPT ![item[w]] = @ + 1] \/ posts' = posts)
    BY <1>2 DEF Post
  <2>3. \/ \A i \in Batch : posts'[i] = IF i = item[w] THEN 1 ELSE posts[i]
        \/ \A i \in Batch : posts'[i] = posts[i]
    BY <2>1, <2>2 DEF Order, TypeOK
  <2> QED
    BY <2>1, <2>2, <2>3 DEF SentAtMostOnce
<1>3. ASSUME NEW w \in Workers, Record(w) PROVE SentAtMostOnce'
  <2>1. answer[w] # "full"
    BY DEF Order, TypeOK, Answers
  <2> QED
    BY <1>3, <2>1 DEF Record, Order, TypeOK, SentAtMostOnce
<1>4. CASE UNCHANGED <<results, posts>>
  BY <1>4 DEF SentAtMostOnce
<1> QED
  BY <1>1, <1>2, <1>3, <1>4
  DEF Next, Call, Work, PutAlert, PutStop, Join, List, Get, Load, Count, vars

\* A queue without sentinels holds as many alerts as are in it, all put before.
LEMMA FullOfAlerts ==
    ASSUME Order, NEW i \in Batch, i = next
    PROVE  Len(queue) <= Cardinality({j \in 1 .. i - 1 : results[j] # "full"})
<1> DEFINE Admitted == {j \in 1 .. i - 1 : results[j] # "full"}
<1>1. \A k \in Slots : queue[k] # 0 /\ queue[k] \in 0 .. Total
  <2>1. stops = 0
    BY TotalAssumption, NumWorkersAssumption DEF Order, Phases, TypeOK, Batch
  <2> QED
    BY <2>1, NoStops, ElementOfSeq DEF Order, TypeOK, Ends, Slots
<1>2. \A k \in Slots : queue[k] \in Admitted
  BY <1>1, TotalAssumption DEF Order, Line, Waiting, Batch
<1>3. \A j, k \in Slots : j # k => queue[j] # queue[k]
  <2>1. \A j, k \in Slots : j < k => queue[j] < queue[k]
    BY <1>1 DEF Order, Line, Ascending
  <2>2. \A j, k \in Slots : j # k => j < k \/ k < j
    BY DEF Slots
  <2> QED
    BY <1>1, <2>1, <2>2
<1>4. IsFiniteSet(Admitted)
  BY FS_Interval, FS_Subset DEF Batch
<1> DEFINE f == [k \in Slots |-> queue[k]]
<1>5. f \in Injection(Slots, Admitted)
  BY <1>2, <1>3 DEF Injection, IsInjective
<1>6. Cardinality(Slots) <= Cardinality(Admitted)
  BY <1>4, <1>5, FS_Injection
<1>7. Cardinality(Slots) = Len(queue)
  <2>1. Len(queue) \in Nat
    BY LenProperties DEF Order, TypeOK
  <2>2. Cardinality(1 .. Len(queue)) = IF 1 > Len(queue) THEN 0 ELSE Len(queue) - 1 + 1
    BY <2>1, FS_Interval
  <2> QED
    BY <2>1, <2>2 DEF Slots
<1> QED
  BY <1>6, <1>7

LEMMA RefusedStep == Order /\ RefusalJustified /\ [Next]_vars => RefusalJustified'
<1> SUFFICES ASSUME Order, RefusalJustified, [Next]_vars PROVE RefusalJustified'
  OBVIOUS
<1> DEFINE Admitted(i) == {j \in 1 .. i - 1 : results[j] # "full"}
<1>1. CASE Refuse
  <2>1. /\ next \in Batch /\ results' = [results EXCEPT ![next] = "full"]
        /\ Capacity > 0 /\ Len(queue) >= Capacity
    BY <1>1, TotalAssumption DEF Refuse, Full, Order, TypeOK, Batch
  <2> SUFFICES ASSUME NEW i \in Batch, results'[i] = "full"
               PROVE  Capacity > 0 /\ Cardinality(Admitted(i)') >= Capacity
    BY DEF RefusalJustified
  <2>2. i <= next
    BY <2>1 DEF Order, Line, Untouched, Batch, TypeOK
  <2>3. Admitted(i)' = Admitted(i)
    BY <2>1, <2>2 DEF Order, TypeOK, Batch
  <2>4. CASE i = next
    <3>1. Len(queue) <= Cardinality(Admitted(i))
      BY <2>4, FullOfAlerts
    <3>2. Len(queue) \in Nat /\ Cardinality(Admitted(i)) \in Nat
      <4>1. Len(queue) \in Nat
        BY LenProperties DEF Order, TypeOK
      <4>2. IsFiniteSet(1 .. i - 1) /\ Admitted(i) \in SUBSET (1 .. i - 1)
        BY FS_Interval DEF Batch
      <4>3. IsFiniteSet(Admitted(i))
        BY <4>2, FS_Subset
      <4> QED
        BY <4>1, <4>3, FS_CardinalityType
    <3> QED
      <4>1. Cardinality(Admitted(i)) >= Capacity
        BY <2>1, <3>1, <3>2, CapacityAssumption
      <4> QED
        BY <2>1, <2>3, <4>1
  <2>5. CASE i # next
    BY <2>1, <2>3, <2>5 DEF RefusalJustified, Order, TypeOK
  <2> QED
    BY <2>4, <2>5
<1>2. ASSUME NEW w \in Workers, Record(w) PROVE RefusalJustified'
  <2>1. /\ item[w] \in Batch /\ results[item[w]] = "none" /\ answer[w] # "full"
        /\ results' = [results EXCEPT ![item[w]] = answer[w]]
    <3>1. place[w] = "recording" /\ results' = [results EXCEPT ![item[w]] = answer[w]]
      BY <1>2 DEF Record
    <3>2. item[w] \in 0 .. Total /\ item[w] # 0 /\ results[item[w]] = "none"
      BY <3>1 DEF Order, TypeOK, Line, Holding, Busy
    <3>3. answer[w] # "full"
      BY DEF Order, TypeOK, Answers
    <3> QED
      BY <3>1, <3>2, <3>3 DEF Batch
  <2>2. \A i \in Batch : results'[i] = "full" <=> results[i] = "full"
    BY <2>1 DEF Order, TypeOK
  <2>3. ASSUME NEW i \in Batch PROVE Admitted(i)' = Admitted(i)
    <3>1. \A j \in 1 .. i - 1 : j \in Batch
      BY TotalAssumption DEF Batch
    <3> QED
      BY <2>2, <3>1
  <2> QED
    BY <2>2, <2>3 DEF RefusalJustified
<1>3. CASE UNCHANGED results
  BY <1>3 DEF RefusalJustified
<1> QED
  BY <1>1, <1>2, <1>3
  DEF Next, Call, Work, PutAlert, PutStop, Join, List, Get, Post, Load, Count, vars

-----------------------------------------------------------------------------
(***************************************************************************)
(* The counters.                                                           *)
(***************************************************************************)
LEMMA SomeAlerts ==
    ASSUME NEW S \in SUBSET Batch
    PROVE  IsFiniteSet(S) /\ Cardinality(S) \in Nat
<1>1. IsFiniteSet(Batch)
  BY TotalAssumption, FS_Interval DEF Batch
<1>2. IsFiniteSet(S)
  BY <1>1, FS_Subset
<1> QED
  BY <1>2, FS_CardinalityType

\* What has been heard is never unheard, and a worker that counts adds one.
LEMMA HeardGrows ==
    ASSUME Order, [Next]_vars, NEW a \in Answers
    PROVE  /\ Heard(a) \in Nat /\ Heard(a)' \in Nat /\ Heard(a) <= Heard(a)'
           /\ \A w \in Workers : Count(w) /\ answer[w] = a => Heard(a)' = Heard(a) + 1
<1>1. /\ IsFiniteSet(Recorded(a)) /\ Cardinality(Recorded(a)) \in Nat
      /\ IsFiniteSet(Recording(a)) /\ Cardinality(Recording(a)) \in Nat
  BY SomeAlerts, SomeWorkers DEF Recorded, Recording
<1>2. CASE Recorded(a)' = Recorded(a) /\ Recording(a)' = Recording(a) /\ \A w \in Workers : ~Count(w)
  BY <1>1, <1>2 DEF Heard
<1>3. CASE Refuse
  <2>1. /\ next \in Batch /\ results[next] = "none"
        /\ results' = [results EXCEPT ![next] = "full"]
        /\ UNCHANGED <<place, answer>>
    BY <1>3, TotalAssumption DEF Refuse, threads, Order, Line, Untouched, TypeOK, Batch
  <2>2. Recorded(a)' = Recorded(a) /\ Recording(a)' = Recording(a)
    BY <2>1 DEF Recorded, Recording, Answers, Order, TypeOK
  <2>3. \A w \in Workers : ~Count(w)
    BY <2>1 DEF Count, Order, TypeOK
  <2> QED
    BY <1>2, <2>2, <2>3
<1>4. ASSUME NEW w \in Workers, Get(w) \/ Post(w) \/ Load(w)
      PROVE  /\ Heard(a) \in Nat /\ Heard(a)' \in Nat /\ Heard(a) <= Heard(a)'
             /\ \A v \in Workers : Count(v) /\ answer[v] = a => Heard(a)' = Heard(a) + 1
  <2>1. /\ place[w] \in {"getting", "sending", "loading"} /\ place'[w] \in Places \ {"recording"}
        /\ \A v \in Workers \ {w} : place'[v] = place[v] /\ answer'[v] = answer[v]
        /\ results' = results
    BY <1>4 DEF Get, Post, Load, Order, TypeOK, Places
  <2>2. Recorded(a)' = Recorded(a) /\ Recording(a)' = Recording(a)
    BY <2>1 DEF Recorded, Recording
  <2>3. \A v \in Workers : ~Count(v)
    BY <2>1 DEF Count, Order, TypeOK
  <2> QED
    BY <1>2, <2>2, <2>3
<1>5. ASSUME NEW w \in Workers, Count(w)
      PROVE  /\ Heard(a) \in Nat /\ Heard(a)' \in Nat /\ Heard(a) <= Heard(a)'
             /\ \A v \in Workers : Count(v) /\ answer[v] = a => Heard(a)' = Heard(a) + 1
  <2>1. /\ place[w] = "adding" /\ place' = [place EXCEPT ![w] = "recording"]
        /\ UNCHANGED <<answer, results>>
    BY <1>5 DEF Count
  <2>2. Recorded(a)' = Recorded(a) /\ w \notin Recording(a)
    BY <2>1 DEF Recorded, Recording
  <2>3. \A v \in Workers : Count(v) => v = w
    BY <2>1 DEF Count, Order, TypeOK
  <2>4. CASE answer[w] = a
    <3>1. Recording(a)' = Recording(a) \cup {w}
      BY <2>1, <2>4 DEF Recording, Order, TypeOK
    <3>2. Cardinality(Recording(a)') = Cardinality(Recording(a)) + 1
      BY <1>1, <2>2, <3>1, FS_AddElement
    <3> QED
      BY <1>1, <2>2, <3>2 DEF Heard
  <2>5. CASE answer[w] # a
    <3>1. Recording(a)' = Recording(a)
      BY <2>1, <2>5 DEF Recording, Order, TypeOK
    <3> QED
      BY <1>1, <2>2, <2>3, <2>5, <3>1 DEF Heard
  <2> QED
    BY <2>4, <2>5
<1>6. ASSUME NEW w \in Workers, Record(w)
      PROVE  /\ Heard(a) \in Nat /\ Heard(a)' \in Nat /\ Heard(a) <= Heard(a)'
             /\ \A v \in Workers : Count(v) /\ answer[v] = a => Heard(a)' = Heard(a) + 1
  <2>1. /\ place[w] = "recording" /\ place' = [place EXCEPT ![w] = "getting"]
        /\ results' = [results EXCEPT ![item[w]] = answer[w]]
        /\ UNCHANGED answer
    BY <1>6 DEF Record
  <2>2. item[w] \in 0 .. Total /\ item[w] # 0 /\ results[item[w]] = "none"
    BY <2>1 DEF Order, TypeOK, Line, Holding, Busy
  <2>3. item[w] \in Batch /\ item[w] \notin Recorded(a)
    BY <2>2 DEF Recorded, Answers, Batch
  <2>4. \A v \in Workers : ~Count(v)
    BY <2>1 DEF Count, Order, TypeOK
  <2>5. CASE answer[w] = a
    <3>1. /\ Recording(a)' = Recording(a) \ {w} /\ w \in Recording(a)
          /\ Recorded(a)' = Recorded(a) \cup {item[w]}
      BY <2>1, <2>3, <2>5 DEF Recording, Recorded, Order, TypeOK
    <3>2. /\ Cardinality(Recording(a)') = Cardinality(Recording(a)) - 1
          /\ Cardinality(Recorded(a)') = Cardinality(Recorded(a)) + 1
      <4>1. Cardinality(Recording(a) \ {w}) = Cardinality(Recording(a)) - 1
        BY <1>1, <3>1, FS_RemoveElement
      <4>2. Cardinality(Recorded(a) \cup {item[w]}) = Cardinality(Recorded(a)) + 1
        BY <1>1, <2>3, FS_AddElement
      <4> QED
        BY <3>1, <4>1, <4>2
    <3> QED
      BY <1>1, <2>4, <3>2 DEF Heard
  <2>6. CASE answer[w] # a
    <3>1. Recording(a)' = Recording(a) /\ Recorded(a)' = Recorded(a)
      BY <2>1, <2>2, <2>3, <2>6 DEF Recording, Recorded, Order, TypeOK
    <3> QED
      BY <1>2, <2>4, <3>1
  <2> QED
    BY <2>5, <2>6
<1>7. CASE UNCHANGED <<results, place, answer>>
  <2>1. \A w \in Workers : ~Count(w)
    BY <1>7 DEF Count, Order, TypeOK
  <2> QED
    BY <1>2, <1>7, <2>1 DEF Recorded, Recording
<1> QED
  BY <1>3, <1>4, <1>5, <1>6, <1>7
  DEF Next, Call, Work, PutAlert, PutStop, Join, List, threads, vars

LEMMA ModestStep == Order /\ Modest /\ [Next]_vars => Modest'
<1> SUFFICES ASSUME Order, Modest, [Next]_vars, NEW a \in Answers
             PROVE  /\ Counter(a)' <= Heard(a)'
                    /\ \A v \in Workers : place'[v] = "adding" /\ answer'[v] = a => seen'[v] <= Heard(a)'
  BY DEF Modest
<1>1. /\ Heard(a) \in Nat /\ Heard(a)' \in Nat /\ Heard(a) <= Heard(a)'
      /\ \A w \in Workers : Count(w) /\ answer[w] = a => Heard(a)' = Heard(a) + 1
  BY HeardGrows
<1>2. /\ Counter(a) \in Nat /\ Counter(a) <= Heard(a)
      /\ \A v \in Workers : seen[v] \in Nat
      /\ \A v \in Workers : place[v] = "adding" /\ answer[v] = a => seen[v] <= Heard(a)
  BY DEF Modest, Counter, Order, TypeOK
<1>3. CASE /\ Counter(a)' = Counter(a) /\ seen' = seen
           /\ \A v \in Workers : place'[v] = "adding" /\ answer'[v] = a => place[v] = "adding" /\ answer[v] = a
  BY <1>1, <1>2, <1>3
<1>4. ASSUME NEW w \in Workers, Get(w) \/ Post(w) \/ Record(w)
      PROVE  /\ Counter(a)' = Counter(a) /\ seen' = seen
             /\ \A v \in Workers : place'[v] = "adding" /\ answer'[v] = a => place[v] = "adding" /\ answer[v] = a
  BY <1>4 DEF Get, Post, Record, Counter, counters, Order, TypeOK
<1>5. ASSUME NEW w \in Workers, Load(w)
      PROVE  /\ Counter(a)' <= Heard(a)'
             /\ \A v \in Workers : place'[v] = "adding" /\ answer'[v] = a => seen'[v] <= Heard(a)'
  <2>1. /\ Counter(a)' = Counter(a) /\ answer' = answer
        /\ \A v \in Workers \ {w} : place'[v] = place[v] /\ seen'[v] = seen[v]
        /\ seen'[w] = Counter(answer[w])
    BY <1>5 DEF Load, Counter, counters, Order, TypeOK
  <2> QED
    BY <1>1, <1>2, <2>1
<1>6. ASSUME NEW w \in Workers, Count(w)
      PROVE  /\ Counter(a)' <= Heard(a)'
             /\ \A v \in Workers : place'[v] = "adding" /\ answer'[v] = a => seen'[v] <= Heard(a)'
  <2>1. /\ place[w] = "adding" /\ answer[w] \in Answers
        /\ \A v \in Workers : place'[v] = IF v = w THEN "recording" ELSE place[v]
        /\ UNCHANGED <<answer, seen>>
    BY <1>6 DEF Count, Order, TypeOK
  <2>2. Counter(a)' = IF answer[w] = a THEN seen[w] + 1 ELSE Counter(a)
    BY <1>6, <2>1 DEF Count, Counter, Answers
  <2>3. Counter(a)' <= Heard(a)'
    BY <1>1, <1>2, <1>6, <2>1, <2>2
  <2>4. ASSUME NEW v \in Workers, place'[v] = "adding", answer'[v] = a PROVE seen'[v] <= Heard(a)'
    BY <1>1, <1>2, <2>1, <2>4
  <2> QED
    BY <2>3, <2>4
<1>7. CASE Call \/ UNCHANGED vars
  BY <1>3, <1>7
  DEF Call, PutAlert, Refuse, PutStop, Join, List, threads, counters, vars, Counter
<1> QED
  BY <1>3, <1>4, <1>5, <1>6, <1>7 DEF Next, Work

LEMMA DisjointUnion ==
    ASSUME NEW S, NEW T, IsFiniteSet(S), IsFiniteSet(T), S \cap T = {}
    PROVE  Cardinality(S \cup T) = Cardinality(S) + Cardinality(T)
<1>1. Cardinality(S) \in Nat /\ Cardinality(T) \in Nat /\ Cardinality(S \cap T) = 0
  BY FS_CardinalityType, FS_EmptySet
<1>2. Cardinality(S \cup T) = Cardinality(S) + Cardinality(T) - Cardinality(S \cap T)
  BY FS_Union
<1> QED
  BY <1>1, <1>2

LEMMA ModestCounts == TypeOK /\ Modest => CountersModest
<1> SUFFICES ASSUME TypeOK, Modest PROVE CountersModest
  OBVIOUS
<1> DEFINE Told    == {i \in Batch : results[i] \in Answers}
           Telling == {w \in Workers : place[w] = "recording"}
<1>1. \A a \in Answers : /\ IsFiniteSet(Recorded(a)) /\ Cardinality(Recorded(a)) \in Nat
                         /\ IsFiniteSet(Recording(a)) /\ Cardinality(Recording(a)) \in Nat
  BY SomeAlerts, SomeWorkers DEF Recorded, Recording
<1>2. /\ Told = Recorded("accepted") \cup Recorded("rejected")
      /\ Recorded("accepted") \cap Recorded("rejected") = {}
  BY DEF Recorded, Answers
<1>3. /\ Telling = Recording("accepted") \cup Recording("rejected")
      /\ Recording("accepted") \cap Recording("rejected") = {}
  BY DEF Recording, Answers, TypeOK
<1>4. Cardinality(Told) = Cardinality(Recorded("accepted")) + Cardinality(Recorded("rejected"))
  BY <1>1, <1>2, DisjointUnion DEF Answers
<1>5. Cardinality(Telling) = Cardinality(Recording("accepted")) + Cardinality(Recording("rejected"))
  BY <1>1, <1>3, DisjointUnion DEF Answers
<1>6. sent <= Heard("accepted") /\ failed <= Heard("rejected") /\ sent \in Nat /\ failed \in Nat
  BY DEF Modest, Counter, Answers, TypeOK
<1>7. Heard("accepted") = Cardinality(Recorded("accepted")) + Cardinality(Recording("accepted"))
  BY DEF Heard
<1>8. Heard("rejected") = Cardinality(Recorded("rejected")) + Cardinality(Recording("rejected"))
  BY DEF Heard
<1>9. sent + failed <= Cardinality(Told) + Cardinality(Telling)
  BY <1>1, <1>4, <1>5, <1>6, <1>7, <1>8 DEF Answers
<1> QED
  BY <1>9 DEF CountersModest

-----------------------------------------------------------------------------
(***************************************************************************)
(* The contract.                                                           *)
(***************************************************************************)
\* Fate changes at one alert only if nothing it rests on changes at others.
LEMMA FateAt ==
    ASSUME NEW i \in Batch, NEW f, Fate'[i] = f,
           \A j \in Batch \ {i} : /\ results'[j] = results[j]
                                  /\ j \in Taken' <=> j \in Taken
                                  /\ j < next' <=> j < next
    PROVE  Fate' = [Fate EXCEPT ![i] = f]
<1>1. \A j \in Batch \ {i} : Fate'[j] = Fate[j]
  BY DEF Fate
<1>2. Fate = [j \in Batch |-> Fate[j]] /\ Fate' = [j \in Batch |-> Fate'[j]]
  BY DEF Fate
<1> QED
  BY <1>1, <1>2

LEMMA AdmitStep == Order /\ (PutAlert \/ Refuse) => Contract!Next
<1> SUFFICES ASSUME Order, PutAlert \/ Refuse PROVE Contract!Next
  OBVIOUS
<1>1. /\ next \in Batch /\ next' = next + 1 /\ UNCHANGED <<item, report>>
      /\ results' = results \/ results' = [results EXCEPT ![next] = "full"]
  BY TotalAssumption DEF PutAlert, Refuse, threads, Order, TypeOK, Batch
<1>2. /\ results[next] = "none" /\ \A w \in Workers : item[w] # next
      /\ Taken' = Taken /\ next \notin Taken
  <2>1. next \in Nat \ {0} /\ results[next] = "none"
    BY <1>1 DEF Order, Line, Untouched, Batch
  <2>2. ASSUME NEW w \in Workers PROVE item[w] # next
    <3>1. item[w] \in 0 .. Total /\ (item[w] # 0 => item[w] < next)
      BY DEF Order, TypeOK, Line, Holding
    <3> QED
      BY <2>1, <3>1
  <2> QED
    BY <1>1, <2>1, <2>2 DEF Taken
<1>3. Fate[next] = "pending" /\ \A j \in Batch : j < next => Fate[j] # "pending"
  <2>1. \A j \in Batch : results[j] # "pending"
    BY DEF Order, TypeOK, Answers
  <2>2. ~(next < next)
    BY <1>1 DEF Batch
  <2> QED
    BY <1>1, <1>2, <2>1, <2>2 DEF Fate
<1>4. results'[next] \in {"none", "full"}
  BY <1>1, <1>2 DEF Order, TypeOK
<1>5. Fate'[next] \in {"queued", "full"}
  BY <1>1, <1>2, <1>4 DEF Fate, Batch
<1>6. \A j \in Batch \ {next} : results'[j] = results[j] /\ (j < next' <=> j < next)
  <2>1. \A j \in Batch \ {next} : results'[j] = results[j]
    BY <1>1 DEF Order, TypeOK
  <2>2. \A j \in Batch \ {next} : j < next' <=> j < next
    BY <1>1 DEF Batch
  <2> QED
    BY <2>1, <2>2
<1>7. Fate' = [Fate EXCEPT ![next] = Fate'[next]]
  BY <1>1, <1>2, <1>6, FateAt
<1>8. Contract!Admit(next)
  BY <1>1, <1>3, <1>5, <1>7 DEF Contract!Admit, Contract!Batch, Batch
<1> QED
  BY <1>1, <1>8 DEF Contract!Next, Contract!Batch, Batch

LEMMA TellStep == Order /\ List => Contract!Next
<1> SUFFICES ASSUME Order, List PROVE Contract!Next
  OBVIOUS
<1>1. /\ next = Total + 1 /\ told \in 0 .. Total - 1 /\ told + 1 \in Batch
      /\ UNCHANGED <<next, item, results>>
  BY TotalAssumption DEF List, threads, Order, TypeOK, Batch
<1>2. Fate' = Fate
  BY <1>1 DEF Fate, Taken
<1>3. \A j \in Batch : Fate[j] # "pending"
  <2>1. \A j \in Batch : results[j] # "pending"
    BY DEF Order, TypeOK, Answers
  <2>2. \A j \in Batch : j < next
    BY <1>1, TotalAssumption DEF Batch
  <2> QED
    BY <2>1, <2>2 DEF Fate
<1>4. report[told + 1] = "none" /\ \A j \in Batch : j < told + 1 => report[j] # "none"
  BY <1>1 DEF Order, Listed, Batch
<1>5. (IF Fate[told + 1] \in Contract!Known THEN Fate[told + 1] ELSE "timeout")
        = IF results[told + 1] = "none" THEN "timeout" ELSE results[told + 1]
  BY <1>1 DEF Fate, Contract!Known, Order, TypeOK, Answers
<1>6. Contract!Tell(told + 1)
  BY <1>2, <1>3, <1>4, <1>5 DEF List, Contract!Tell, Contract!Batch, Batch
<1> QED
  BY <1>1, <1>6 DEF Contract!Next, Contract!Batch, Batch

LEMMA TakeStep == ASSUME NEW w \in Workers PROVE Order /\ Get(w) => [Contract!Next]_(Contract!vars)
<1> SUFFICES ASSUME Order, Get(w) PROVE [Contract!Next]_(Contract!vars)
  OBVIOUS
<1>1. /\ 1 \in Slots /\ queue[1] \in 0 .. Total /\ \A k \in Slots : k = 1 \/ 1 < k
      /\ item' = [item EXCEPT ![w] = queue[1]] /\ place[w] = "getting"
      /\ UNCHANGED <<next, results, report>>
  BY Getting DEF Order
<1>2. item[w] = 0 /\ \A v \in Workers : item'[v] = IF v = w THEN queue[1] ELSE item[v]
  BY <1>1 DEF Order, TypeOK, Line, Holding, Busy
<1>3. CASE queue[1] = 0
  <2>1. Taken' = Taken
    BY <1>2, <1>3 DEF Taken
  <2>2. Fate' = Fate
    BY <1>1, <2>1 DEF Fate
  <2> QED
    BY <1>1, <2>2 DEF Contract!vars
<1>4. CASE queue[1] # 0
  <2>1. /\ queue[1] \in Batch /\ queue[1] < next /\ results[queue[1]] = "none"
        /\ queue[1] \notin Taken
    BY <1>1, <1>4 DEF Order, Line, Waiting, Taken, Batch
  <2>2. Taken' = Taken \cup {queue[1]}
    BY <1>2, <2>1 DEF Taken, Batch
  <2>3. Fate[queue[1]] = "queued" /\ Fate'[queue[1]] = "underway"
    BY <1>1, <2>1, <2>2 DEF Fate
  <2>4. ASSUME NEW j \in Batch, j < queue[1] PROVE Fate[j] # "queued"
    <3>1. CASE results[j] = "none" /\ j \notin Taken /\ j < next
      <4>1. PICK k \in Slots : queue[k] = j
        BY <3>1 DEF Order, Line, Covered, Taken
      <4>2. queue[k] # 0 /\ k # 1
        BY <4>1, <2>4, <2>1 DEF Batch
      <4>3. queue[1] < j
        BY <1>1, <4>1, <4>2 DEF Order, Line, Ascending
      <4> QED
        BY <4>3, <2>4, <2>1 DEF Batch
    <3>2. CASE ~(results[j] = "none" /\ j \notin Taken /\ j < next)
      BY <3>2 DEF Fate, Order, TypeOK, Answers
    <3> QED
      BY <3>1, <3>2
  <2>5. Fate' = [Fate EXCEPT ![queue[1]] = "underway"]
    BY <1>1, <2>1, <2>2, <2>3, FateAt
  <2>6. Contract!Take(queue[1])
    BY <1>1, <2>3, <2>4, <2>5 DEF Contract!Take, Contract!Batch, Batch
  <2> QED
    BY <2>1, <2>6 DEF Contract!Next, Contract!Batch, Batch
<1> QED
  BY <1>3, <1>4

LEMMA ResolveStep == ASSUME NEW w \in Workers PROVE Order /\ Record(w) => Contract!Next
<1> SUFFICES ASSUME Order, Record(w) PROVE Contract!Next
  OBVIOUS
<1> DEFINE i == item[w]
<1>1. /\ place[w] = "recording" /\ item' = [item EXCEPT ![w] = 0]
      /\ results' = [results EXCEPT ![i] = answer[w]]
      /\ UNCHANGED <<next, report>>
  BY DEF Record, caller
<1>2. i \in 0 .. Total /\ i # 0 /\ results[i] = "none" /\ answer[w] \in {"accepted", "rejected"}
  BY <1>1 DEF Order, TypeOK, Line, Holding, Busy, Answers
<1>3. i \in Batch /\ i \in Taken
  BY <1>2 DEF Batch, Taken
<1>4. Taken' = Taken \ {i}
  <2>1. \A v \in Workers : v # w => item[v] # i
    BY <1>2 DEF Order, Line, Holding
  <2>2. \A v \in Workers : item'[v] = IF v = w THEN 0 ELSE item[v]
    BY <1>1 DEF Order, TypeOK
  <2> QED
    BY <2>1, <2>2 DEF Taken, Batch
<1>5. Fate[i] = "underway" /\ Fate'[i] = answer[w]
  BY <1>1, <1>2, <1>3 DEF Fate, Order, TypeOK
<1>6. \A j \in Batch \ {i} : results'[j] = results[j]
  BY <1>1 DEF Order, TypeOK
<1>7. Fate' = [Fate EXCEPT ![i] = answer[w]]
  BY <1>1, <1>3, <1>4, <1>5, <1>6, FateAt
<1>8. Contract!Resolve(i)
  BY <1>1, <1>2, <1>5, <1>7 DEF Contract!Resolve
<1> QED
  BY <1>3, <1>8 DEF Contract!Next, Contract!Batch, Batch

LEMMA ContractStep == Order /\ [Next]_vars => [Contract!Next]_(Contract!vars)
<1> SUFFICES ASSUME Order, [Next]_vars PROVE [Contract!Next]_(Contract!vars)
  OBVIOUS
<1>1. CASE UNCHANGED <<next, item, results, report>>
  <2>1. Taken' = Taken
    BY <1>1 DEF Taken
  <2>2. Fate' = Fate
    BY <1>1, <2>1 DEF Fate
  <2> QED
    BY <1>1, <2>2 DEF Contract!vars
<1>2. CASE PutStop \/ Join \/ UNCHANGED vars
  BY <1>1, <1>2 DEF PutStop, Join, vars, caller, threads
<1>3. ASSUME NEW w \in Workers, Post(w) \/ Load(w) \/ Count(w) PROVE [Contract!Next]_(Contract!vars)
  BY <1>1, <1>3 DEF Post, Load, Count, caller
<1> QED
  BY <1>2, <1>3, AdmitStep, TellStep, TakeStep, ResolveStep DEF Next, Call, Work

LEMMA ContractInit == Init => Contract!Init
<1> SUFFICES ASSUME Init PROVE Contract!Init
  OBVIOUS
<1>1. Taken = {}
  BY DEF Init, Taken, Batch
<1>2. Fate = [i \in Batch |-> "pending"]
  BY <1>1 DEF Init, Fate, Batch
<1> QED
  BY <1>2 DEF Init, Contract!Init, Contract!Batch, Batch

-----------------------------------------------------------------------------
(***************************************************************************)
(* Termination.  A thread that may take a step is one whose guard holds;   *)
(* a step is worth at least one of what is left to do.                     *)
(***************************************************************************)
Over == next = Total + 1 /\ stops = NumWorkers /\ joined = NumWorkers /\ told = Total

\* What the caller waits for: nothing, or room for a sentinel.
CallerMoves ==
    \/ next <= Total
    \/ next = Total + 1 /\ stops < NumWorkers /\ ~Full
    \/ next = Total + 1 /\ stops = NumWorkers /\ (joined < NumWorkers \/ told < Total)

WorkerMoves(w) == place[w] \in Busy \/ (place[w] = "getting" /\ queue # <<>>)

\* Until send_batch returns, the caller can go on, or a worker can that
\* empties the queue the caller is blocked at; and once the sentinels are
\* put, no worker waits at an empty queue.
NobodyStuck ==
    /\ Over \/ CallerMoves \/ \E w \in Workers : WorkerMoves(w)
    /\ stops = NumWorkers => \A w \in Workers : w \in Gone \/ WorkerMoves(w)

\* The workers that have one of the steps left that lead from the places P.
At(P) == {w \in Workers : place[w] \in P}

Errands ==
    Cardinality(At({"sending"})) + Cardinality(At({"sending", "loading"}))
    + Cardinality(At({"sending", "loading", "adding"})) + Cardinality(At(Busy))

\* What is left to do: an alert or a sentinel that is put costs one step of
\* the caller and five of a worker.
Left ==
    6 * ((Total + 1 - next) + (NumWorkers - stops)) + (NumWorkers - joined) + (Total - told)
    + 5 * Len(queue) + Errands

\* As long as a worker is not gone, fewer are than there are workers.
LEMMA FewGone ==
    ASSUME NEW w \in Workers \ Gone
    PROVE  Cardinality(Gone) \in Nat /\ Cardinality(Gone) < NumWorkers
<1>1. Gone \in SUBSET Workers /\ Gone # Workers
  BY DEF Gone
<1>2. IsFiniteSet(Workers) /\ Cardinality(Workers) = NumWorkers /\ Cardinality(Gone) \in Nat
  BY <1>1, SomeWorkers, AllWorkers
<1>3. Cardinality(Gone) <= Cardinality(Workers) /\ Cardinality(Gone) # Cardinality(Workers)
  BY <1>1, <1>2, FS_Subset
<1> QED
  BY <1>2, <1>3, NumWorkersAssumption DEF NumWorkersAssumption

\* With fewer sentinels than workers there is a worker that is not gone.
LEMMA SomeoneThere ==
    ASSUME Order, stops < NumWorkers
    PROVE  \E w \in Workers : w \notin Gone
<1>1. PICK z \in 0 .. Len(queue) : z + Cardinality(Gone) = stops
  BY DEF Order, Ends, StopsCounted
<1>2. Gone \in SUBSET Workers /\ Len(queue) \in Nat
  BY LenProperties DEF Gone, Order, TypeOK
<1>3. Cardinality(Gone) \in Nat
  BY <1>2, SomeWorkers
<1>4. z \in Nat /\ stops \in Nat
  BY <1>2 DEF Order, TypeOK
<1>5. Cardinality(Gone) < NumWorkers
  BY <1>1, <1>3, <1>4, NumWorkersAssumption DEF NumWorkersAssumption
<1>6. Gone # Workers
  BY <1>3, <1>5, AllWorkers, NumWorkersAssumption DEF NumWorkersAssumption
<1> QED
  BY <1>2, <1>6

LEMMA NotStuck == Order => NobodyStuck
<1> SUFFICES ASSUME Order PROVE NobodyStuck
  OBVIOUS
<1>1. /\ next \in 1 .. Total + 1 /\ stops \in 0 .. NumWorkers
      /\ joined \in 0 .. NumWorkers /\ told \in 0 .. Total
      /\ place \in [Workers -> Places]
      /\ queue \in Seq(0 .. Total) /\ Len(queue) \in Nat
  BY LenProperties DEF Order, TypeOK
<1>2. \A w \in Workers : place[w] \in Busy \/ place[w] = "getting" \/ w \in Gone
  BY <1>1 DEF Places, Busy, Gone
<1>3. Over \/ CallerMoves \/ \E w \in Workers : WorkerMoves(w)
  <2> SUFFICES ASSUME ~Over, ~CallerMoves PROVE \E w \in Workers : WorkerMoves(w)
    OBVIOUS
  <2>1. next = Total + 1
    BY <1>1, TotalAssumption DEF CallerMoves, TotalAssumption
  <2>2. stops < NumWorkers
    BY <1>1, <2>1, TotalAssumption, NumWorkersAssumption
    DEF Over, CallerMoves, TotalAssumption, NumWorkersAssumption
  <2>3. Full
    BY <2>1, <2>2 DEF CallerMoves
  <2>4. queue # <<>>
    <3> SUFFICES ASSUME queue = <<>> PROVE FALSE
      OBVIOUS
    <3>1. Len(queue) = 0
      BY EmptySeq
    <3> QED
      BY <2>3, <3>1, CapacityAssumption DEF Full, CapacityAssumption
  <2>5. PICK w \in Workers : w \notin Gone
    BY <2>2, SomeoneThere
  <2> QED
    BY <1>2, <2>4, <2>5 DEF WorkerMoves
<1>4. ASSUME stops = NumWorkers, NEW w \in Workers, w \notin Gone PROVE WorkerMoves(w)
  <2>1. PICK z \in 0 .. Len(queue) : z + Cardinality(Gone) = stops
    BY DEF Order, Ends, StopsCounted
  <2>2. Cardinality(Gone) \in Nat /\ Cardinality(Gone) < NumWorkers
    BY <1>4, FewGone
  <2>3. Len(queue) # 0
    BY <1>1, <1>4, <2>1, <2>2, NumWorkersAssumption DEF NumWorkersAssumption
  <2>4. queue # <<>>
    BY <2>3, EmptySeq
  <2> QED
    BY <1>2, <1>4, <2>4 DEF WorkerMoves
<1> QED
  BY <1>3, <1>4 DEF NobodyStuck

\* A worker that moves is counted at its new place instead of its old one.
LEMMA OneMoves ==
    ASSUME TypeOK, NEW w \in Workers, NEW p \in Places,
           place' = [place EXCEPT ![w] = p], NEW P
    PROVE  /\ Cardinality(At(P)) \in Nat
           /\ Cardinality(At(P)') =
                Cardinality(At(P)) + (IF p \in P THEN 1 ELSE 0) - (IF place[w] \in P THEN 1 ELSE 0)
<1> DEFINE S == At(P)
           T == {v \in Workers : place'[v] \in P}
<1>1. At(P)' = T
  BY DEF At
<1>2. \A v \in Workers : place'[v] = IF v = w THEN p ELSE place[v]
  BY DEF TypeOK
<1>3. IsFiniteSet(S) /\ Cardinality(S) \in Nat
  BY SomeWorkers DEF At
<1>4. \A v : v \in S <=> v \in Workers /\ place[v] \in P
  BY DEF At
<1>5. \A v : v \in T <=> v \in Workers /\ (IF v = w THEN p ELSE place[v]) \in P
  BY <1>2
<1> HIDE DEF S, T
<1>6. CASE p \in P /\ place[w] \in P
  <2>1. S = T
    BY <1>4, <1>5, <1>6
  <2> QED
    BY <1>1, <1>3, <1>6, <2>1 DEF S
<1>7. CASE p \notin P /\ place[w] \notin P
  <2>1. S = T
    BY <1>4, <1>5, <1>7
  <2> QED
    BY <1>1, <1>3, <1>7, <2>1 DEF S
<1>8. CASE p \in P /\ place[w] \notin P
  <2>1. T = S \cup {w} /\ w \notin S
    BY <1>4, <1>5, <1>8
  <2>2. Cardinality(T) = Cardinality(S) + 1
    BY <1>3, <2>1, FS_AddElement
  <2> QED
    BY <1>1, <1>3, <1>8, <2>2 DEF S
<1>9. CASE p \notin P /\ place[w] \in P
  <2>1. T = S \ {w} /\ w \in S
    BY <1>4, <1>5, <1>9
  <2>2. Cardinality(T) = Cardinality(S) - 1
    BY <1>3, <2>1, FS_RemoveElement
  <2> QED
    BY <1>1, <1>3, <1>9, <2>2 DEF S
<1> QED
  BY <1>6, <1>7, <1>8, <1>9

\* The steps that lead from a place to the queue.
Way(p) == CASE p = "sending" -> 4 [] p = "loading" -> 3 [] p = "adding" -> 2
            [] p = "recording" -> 1 [] OTHER -> 0

LEMMA ErrandsMove ==
    ASSUME TypeOK, NEW w \in Workers, NEW p \in Places, place' = [place EXCEPT ![w] = p]
    PROVE  Errands \in Nat /\ Errands' = Errands + Way(p) - Way(place[w])
<1> DEFINE one(P) == (IF p \in P THEN 1 ELSE 0) - (IF place[w] \in P THEN 1 ELSE 0)
           A == {"sending"}
           B == {"sending", "loading"}
           C == {"sending", "loading", "adding"}
<1>1. \A P : Cardinality(At(P)) \in Nat /\ Cardinality(At(P)') = Cardinality(At(P)) + one(P)
  BY OneMoves
<1>2. /\ Cardinality(At(A)) \in Nat /\ Cardinality(At(A)') = Cardinality(At(A)) + one(A)
      /\ Cardinality(At(B)) \in Nat /\ Cardinality(At(B)') = Cardinality(At(B)) + one(B)
      /\ Cardinality(At(C)) \in Nat /\ Cardinality(At(C)') = Cardinality(At(C)) + one(C)
      /\ Cardinality(At(Busy)) \in Nat
      /\ Cardinality(At(Busy)') = Cardinality(At(Busy)) + one(Busy)
  BY <1>1
<1>3. place[w] \in Places
  BY DEF TypeOK
<1>4. Way(p) - Way(place[w]) = one(A) + one(B) + one(C) + one(Busy)
  BY <1>3 DEF Way, Places, Busy
<1>5. one(A) \in Int /\ one(B) \in Int /\ one(C) \in Int /\ one(Busy) \in Int
  OBVIOUS
<1>6. Way(p) \in Nat /\ Way(place[w]) \in Nat
  BY <1>3 DEF Way, Places
<1>7. /\ Errands = Cardinality(At(A)) + Cardinality(At(B)) + Cardinality(At(C))
                     + Cardinality(At(Busy))
      /\ Errands' = Cardinality(At(A)') + Cardinality(At(B)') + Cardinality(At(C)')
                      + Cardinality(At(Busy)')
  BY DEF Errands, Busy
<1> HIDE DEF one, A, B, C
<1> QED
  BY <1>2, <1>4, <1>5, <1>6, <1>7

LEMMA ErrandsNat == Errands \in Nat
<1>1. \A P : Cardinality(At(P)) \in Nat
  BY SomeWorkers DEF At
<1> QED
  BY <1>1 DEF Errands

LEMMA LeftFirst == Init => Left = 7 * (Total + NumWorkers)
<1> SUFFICES ASSUME Init PROVE Left = 7 * (Total + NumWorkers)
  OBVIOUS
<1>1. At({"sending"}) = {} /\ At({"sending", "loading"}) = {}
      /\ At({"sending", "loading", "adding"}) = {} /\ At(Busy) = {}
  BY DEF Init, At, Busy
<1>2. Errands = 0
  BY <1>1, FS_EmptySet DEF Errands
<1>3. Len(queue) = 0 /\ next = 1 /\ stops = 0 /\ joined = 0 /\ told = 0
  BY EmptySeq DEF Init
<1> QED
  BY <1>2, <1>3, TotalAssumption, NumWorkersAssumption
  DEF Left, TotalAssumption, NumWorkersAssumption

LEMMA LeftNat == TypeOK => Left \in Nat
<1> SUFFICES ASSUME TypeOK PROVE Left \in Nat
  OBVIOUS
<1>1. Errands \in Nat /\ Len(queue) \in Nat
  BY ErrandsNat, LenProperties DEF TypeOK
<1> QED
  BY <1>1, TotalAssumption, NumWorkersAssumption
  DEF TypeOK, Left, TotalAssumption, NumWorkersAssumption

LEMMA LeftFalls == TypeOK /\ Next => Left' < Left
<1> SUFFICES ASSUME TypeOK, Next PROVE Left' < Left
  OBVIOUS
<1> USE TotalAssumption, NumWorkersAssumption DEF TotalAssumption, NumWorkersAssumption
<1>1. /\ next \in 1 .. Total + 1 /\ stops \in 0 .. NumWorkers
      /\ joined \in 0 .. NumWorkers /\ told \in 0 .. Total
      /\ queue \in Seq(0 .. Total) /\ Len(queue) \in Nat /\ Errands \in Nat
      /\ place \in [Workers -> Places]
  BY ErrandsNat, LenProperties DEF TypeOK
<1>2. ASSUME Call PROVE UNCHANGED Errands
  BY <1>2 DEF Call, PutAlert, Refuse, PutStop, Join, List, threads, Errands, At
<1>3. CASE PutAlert
  <2>1. Len(queue') = Len(queue) + 1
    BY <1>1, <1>3, PutInQueue DEF PutAlert
  <2>2. UNCHANGED Errands /\ UNCHANGED <<stops, joined, told>> /\ next' = next + 1
    BY <1>2, <1>3 DEF Call, PutAlert
  <2> QED
    BY <1>1, <2>1, <2>2 DEF Left
<1>4. CASE Refuse
  <2>1. UNCHANGED Errands /\ UNCHANGED <<stops, joined, told, queue>> /\ next' = next + 1
    BY <1>2, <1>4 DEF Call, Refuse
  <2> QED
    BY <1>1, <2>1 DEF Left
<1>5. CASE PutStop
  <2>1. Len(queue') = Len(queue) + 1
    BY <1>1, <1>5, PutInQueue DEF PutStop
  <2>2. UNCHANGED Errands /\ UNCHANGED <<next, joined, told>> /\ stops' = stops + 1
    BY <1>2, <1>5 DEF Call, PutStop
  <2> QED
    BY <1>1, <2>1, <2>2 DEF Left
<1>6. CASE Join
  <2>1. UNCHANGED Errands /\ UNCHANGED <<next, stops, told, queue>> /\ joined' = joined + 1
    BY <1>2, <1>6 DEF Call, Join
  <2> QED
    BY <1>1, <2>1 DEF Left
<1>7. CASE List
  <2>1. UNCHANGED Errands /\ UNCHANGED <<next, stops, joined, queue>> /\ told' = told + 1
    BY <1>2, <1>7 DEF Call, List
  <2> QED
    BY <1>1, <2>1 DEF Left
<1>8. ASSUME NEW w \in Workers, Get(w) PROVE Left' < Left
  <2>1. Len(queue') = Len(queue) - 1
    BY <1>1, <1>8, GetFromQueue DEF Get
  <2>2. PICK p \in {"gone", "sending"} :
           place[w] = "getting" /\ place' = [place EXCEPT ![w] = p]
    BY <1>8 DEF Get
  <2>3. p \in Places /\ Way(p) \in 0 .. 4 /\ Way(place[w]) = 0
    BY <2>2 DEF Places, Way
  <2>4. Errands' = Errands + Way(p) - Way(place[w])
    BY <2>2, <2>3, ErrandsMove
  <2>5. UNCHANGED <<next, stops, joined, told>>
    BY <1>8 DEF Get, caller
  <2> HIDE DEF Way
  <2> QED
    BY <1>1, <2>1, <2>3, <2>4, <2>5 DEF Left
<1>9. ASSUME NEW w \in Workers, Post(w) \/ Load(w) \/ Count(w) \/ Record(w)
      PROVE  Left' < Left
  <2>1. PICK p \in {"loading", "adding", "recording", "getting"} :
           /\ place' = [place EXCEPT ![w] = p]
           /\ Way(place[w]) = Way(p) + 1
    BY <1>9 DEF Post, Load, Count, Record, Way
  <2>2. p \in Places /\ Way(p) \in 0 .. 4
    BY DEF Places, Way
  <2>3. Errands' = Errands + Way(p) - Way(place[w])
    BY <2>1, <2>2, ErrandsMove
  <2>4. UNCHANGED <<next, stops, joined, told, queue>>
    BY <1>9 DEF Post, Load, Count, Record, caller
  <2> HIDE DEF Way
  <2> QED
    BY <1>1, <2>1, <2>2, <2>3, <2>4 DEF Left
<1> QED
  BY <1>3, <1>4, <1>5, <1>6, <1>7, <1>8, <1>9 DEF Next, Call, Work

-----------------------------------------------------------------------------
(***************************************************************************)
(* The theorems.                                                           *)
(***************************************************************************)
\* The order of things, the counters, what is posted and what is refused.
IInv == Order /\ Modest /\ SentAtMostOnce /\ RefusalJustified

LEMMA Inductive == Spec => []IInv
<1>1. Init => IInv
  <2> SUFFICES ASSUME Init PROVE IInv
    OBVIOUS
  <2>1. Order
    BY OrderInit
  <2>2. Modest
    <3>1. \A a \in Answers : Counter(a) = 0 /\ Heard(a) \in Nat
      <4>1. \A a \in Answers : Cardinality(Recorded(a)) \in Nat /\ Cardinality(Recording(a)) \in Nat
        BY SomeAlerts, SomeWorkers DEF Recorded, Recording
      <4> QED
        BY <4>1 DEF Heard, Counter, Init
    <3> QED
      BY <3>1 DEF Modest, Init
  <2>3. SentAtMostOnce /\ RefusalJustified
    BY DEF Init, SentAtMostOnce, RefusalJustified
  <2> QED
    BY <2>1, <2>2, <2>3 DEF IInv
<1>2. IInv /\ [Next]_vars => IInv'
  BY OrderStep, ModestStep, PostedStep, RefusedStep DEF IInv
<1> QED
  BY <1>1, <1>2, PTL DEF Spec

\* The types of send_batch's variables, with a queue that keeps its bound.
THEOREM TypeCorrect == Spec => []TypeOK
<1>1. IInv => TypeOK
  BY DEF IInv, Order
<1> QED
  BY <1>1, Inductive, PTL

\* An alert is refused only after as many as the queue holds were let in,
\* for any bound on the queue and any number of workers emptying it.
THEOREM RefusalCorrect == Spec => []RefusalJustified
<1>1. IInv => RefusalJustified
  BY DEF IInv
<1> QED
  BY <1>1, Inductive, PTL

\* If no join times out, the sentinels stop the workers after the last alert
\* that was let in has been sent, and none is reported as a timeout.
THEOREM NobodyForgotten == Spec => []NobodyLeftOut
<1>1. IInv => NobodyLeftOut
  BY AllDone DEF IInv
<1> QED
  BY <1>1, Inductive, PTL

\* No alert is posted twice, and none that is refused is posted at all, for
\* any number of workers taking from one queue.
THEOREM SentOnce == Spec => []SentAtMostOnce
<1>1. IInv => SentAtMostOnce
  BY DEF IInv
<1> QED
  BY <1>1, Inductive, PTL

\* alerts_sent and alerts_failed never tell of more than has been answered,
\* however many workers add to them without the lock.
THEOREM CountersCorrect == Spec => []CountersModest
<1>1. IInv => CountersModest
  BY ModestCounts DEF IInv, Order
<1> QED
  BY <1>1, Inductive, PTL

\* send_batch implements the contract's steps: alerts are let in or refused
\* in order, taken in order, and reported in order with what is known of them.
THEOREM ContractKept == Spec => Contract!Init /\ [][Contract!Next]_(Contract!vars)
<1>1. Init => Contract!Init
  BY ContractInit
<1>2. IInv /\ [Next]_vars => [Contract!Next]_(Contract!vars)
  BY ContractStep DEF IInv
<1> QED
  BY <1>1, <1>2, Inductive, PTL DEF Spec

\* send_batch and its workers never block each other: until it returns, the
\* caller can go on or a worker can that empties the full queue it waits at,
\* and with the sentinels put every worker that is left finds one or is busy.
THEOREM NoDeadlock == Spec => []NobodyStuck
<1>1. IInv => NobodyStuck
  BY NotStuck DEF IInv
<1> QED
  BY <1>1, Inductive, PTL

\* Every step, of the caller or of a worker, takes from what is left to do,
\* which is a natural number: however the threads are scheduled, a batch ends
\* after at most seven steps for each alert and each worker.
THEOREM BatchEnds ==
    Spec => Left = 7 * (Total + NumWorkers) /\ [](Left \in Nat) /\ [][Left' < Left]_vars
<1>1. Init => Left = 7 * (Total + NumWorkers)
  BY LeftFirst
<1>2. TypeOK => Left \in Nat
  BY LeftNat
<1>3. TypeOK /\ [Next]_vars => [Left' < Left]_vars
  BY LeftFalls
<1> QED
  BY <1>1, <1>2, <1>3, TypeCorrect, PTL DEF Spec

===============================================================================
