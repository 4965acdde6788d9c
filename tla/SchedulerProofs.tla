--------------------------- MODULE SchedulerProofs ---------------------------
(***************************************************************************)
(* Proofs about Scheduler, for any number of clients and tasks, any times  *)
(* and any waiting times.                                                  *)
(***************************************************************************)
EXTENDS Scheduler, TLAPS

\* A thread leaves the lock only after heapify.
HeapedWhenFree == lock = Free => heaped

\* The entry of __init__ is never due.
FarAway == startTime[0] = MaxTime + 1

IInv == /\ TypeOK /\ HeapedWhenFree /\ FarAway
        /\ EachTaskOnce /\ NeverEarly /\ NoOversleep

-----------------------------------------------------------------------------
\* There is only the entry of __init__.
LEMMA InitIInv == Init => IInv
<1> SUFFICES ASSUME Init PROVE IInv
  OBVIOUS
<1> USE SchedulerAssumption DEF Tasks
<1>1. TypeOK /\ FarAway
  <2>1. startTime \in [Tasks \cup {0} -> Int] /\ startTime[0] = MaxTime + 1
    BY DEF Init
  <2>2. 0 \in 0..MaxTasks /\ 0 \in 0..MaxTime
    OBVIOUS
  <2>3. now = 0 /\ count = 0 /\ heap = {0} /\ stops = {} /\ started = {} /\ cancelled = {}
        /\ deadline = 0 /\ running = 0
    BY DEF Init
  <2>4. heaped \in BOOLEAN /\ event \in BOOLEAN /\ keepRunning \in BOOLEAN
        /\ lock = Free /\ spc = "test"
    BY DEF Init
  <2> QED
    BY <2>1, <2>2, <2>3, <2>4 DEF TypeOK, FarAway
<1>2. EachTaskOnce /\ NeverEarly /\ NoOversleep /\ HeapedWhenFree
  BY DEF Init, EachTaskOnce, NeverEarly, NoOversleep, HeapedWhenFree
<1> QED
  BY <1>1, <1>2 DEF IInv

\* A push takes the next task, which was nowhere, and leaves the times of the
\* others alone.
LEMMA PushFacts ==
  ASSUME IInv, NEW t \in Actors, NEW when \in Int, Push(t, when)
  PROVE  /\ count' = count + 1 /\ count' \in Tasks /\ count \in Nat
         /\ count' \notin heap \cup started \cup cancelled
         /\ heap' = heap \cup {count'} /\ lock = Free /\ lock' = t /\ t # Free
         /\ startTime' \in [Tasks \cup {0} -> Int]
         /\ \A x \in heap \cup started : startTime'[x] = startTime[x]
         /\ startTime'[0] = startTime[0]
<1> USE SchedulerAssumption DEF Tasks, IInv, TypeOK
<1>1. /\ count' = count + 1 /\ count' \in Tasks /\ count \in Nat
      /\ heap' = heap \cup {count'} /\ lock = Free /\ lock' = t /\ t # Free
  BY DEF Push, MayCall, Actors
<1>2. heap \ {0} \subseteq 1..count /\ started \subseteq 1..count /\ cancelled \subseteq 1..count
  BY DEF EachTaskOnce
<1>3. count' \notin heap \cup started \cup cancelled
  BY <1>1, <1>2
<1>4. startTime' = [startTime EXCEPT ![count'] = when]
  BY DEF Push
<1>5. \A x \in Tasks \cup {0} : x # count' => startTime'[x] = startTime[x]
  BY <1>4
<1>6. startTime' \in [Tasks \cup {0} -> Int]
  BY <1>1, <1>4
<1> QED
  BY <1>1, <1>3, <1>5, <1>6

\* The pushes of AddTask and Stop.
LEMMA PushStep ==
  ASSUME IInv, NEW t \in Actors, NEW when \in Int, Push(t, when),
         stops' \subseteq stops \cup {count'},
         UNCHANGED <<now, heaped, event, loop, cancelled>>
  PROVE  IInv'
<1> USE DEF IInv
<1>1. /\ count' = count + 1 /\ count' \in Tasks /\ count \in Nat
      /\ count' \notin heap \cup started \cup cancelled
      /\ heap' = heap \cup {count'} /\ lock = Free /\ lock' = t /\ t # Free
      /\ startTime' \in [Tasks \cup {0} -> Int]
      /\ \A x \in heap \cup started : startTime'[x] = startTime[x]
      /\ startTime'[0] = startTime[0]
  BY PushFacts
<1>2. TypeOK'
  BY <1>1, SchedulerAssumption DEF TypeOK, loop, Tasks
<1>3. HeapedWhenFree' /\ FarAway' /\ NoOversleep'
  BY <1>1 DEF HeapedWhenFree, FarAway, NoOversleep
<1>4. EachTaskOnce'
  <2>1. 1..count' = 1..count \cup {count'} /\ count' # 0
    BY <1>1 DEF Tasks
  <2> QED
    BY <1>1, <2>1 DEF EachTaskOnce, loop
<1>5. NeverEarly'
  BY <1>1 DEF NeverEarly, loop
<1> QED
  BY <1>2, <1>3, <1>4, <1>5

\* The strengthening is inductive.
LEMMA Inductive == IInv /\ [Next]_vars => IInv'
<1> SUFFICES ASSUME IInv, [Next]_vars PROVE IInv'
  OBVIOUS
<1> USE SchedulerAssumption DEF IInv
<1>1. ASSUME NEW t \in Actors, AddTask(t) PROVE IInv'
  <2> PICK d \in Delays : Push(t, now + d)
    BY <1>1 DEF AddTask
  <2>1. now + d \in Int
    BY DEF TypeOK
  <2> QED
    BY <1>1, <2>1, PushStep DEF AddTask
<1>2. ASSUME NEW t \in Actors, Stop(t) PROVE IInv'
  <2>1. now - 1 \in Int
    BY DEF TypeOK
  <2> QED
    BY <1>2, <2>1, PushStep DEF Stop
<1>3. ASSUME NEW t \in Actors, NEW x \in heap, Remove(t, x) PROVE IInv'
  <2> USE <1>3 DEF Remove, MayCall, tasks, loop
  <2>1. x \in Tasks /\ x # 0 /\ t # Free
    BY DEF TypeOK, Tasks, Actors
  <2>2. TypeOK'
    BY <2>1 DEF TypeOK
  <2>3. HeapedWhenFree' /\ FarAway' /\ NoOversleep'
    BY <2>1 DEF HeapedWhenFree, FarAway, NoOversleep
  <2>4. EachTaskOnce'
    BY <2>1 DEF EachTaskOnce
  <2>5. NeverEarly'
    BY DEF NeverEarly
  <2> QED
    BY <2>2, <2>3, <2>4, <2>5
<1>4. ASSUME NEW t \in Actors, Announce(t) PROVE IInv'
  <2> USE <1>4 DEF Announce, tasks, loop
  <2>1. TypeOK'
    BY DEF TypeOK
  <2>2. HeapedWhenFree' /\ FarAway' /\ NoOversleep' /\ EachTaskOnce' /\ NeverEarly'
    BY DEF HeapedWhenFree, FarAway, NoOversleep, EachTaskOnce, NeverEarly
  <2> QED
    BY <2>1, <2>2
<1>5. CASE Test
  BY <1>5 DEF Test, tasks, TypeOK, HeapedWhenFree, FarAway, NoOversleep, EachTaskOnce, NeverEarly
<1>6. CASE Wake
  BY <1>6 DEF Wake, tasks, TypeOK, HeapedWhenFree, FarAway, NoOversleep, EachTaskOnce, NeverEarly
<1>7. CASE Look
  <2> USE <1>7 DEF tasks
  <2> PICK x \in heap :
        /\ IsHead(x)
        /\ IF startTime[x] <= now
           THEN /\ heap' = heap \ {x} /\ running' = x
                /\ started' = started \cup {x} /\ spc' = "run" /\ UNCHANGED deadline
           ELSE /\ deadline' = startTime[x] /\ spc' = "test"
                /\ UNCHANGED <<heap, running, started>>
    BY DEF Look
  <2>1. /\ lock = Free /\ event' = FALSE
        /\ UNCHANGED <<now, tasks, heaped, lock, keepRunning, cancelled>>
    BY DEF Look
  <2>2. CASE startTime[x] <= now
    <3>1. x \in Tasks /\ x # 0
      BY <2>2 DEF TypeOK, FarAway, Tasks
    <3>2. TypeOK'
      BY <2>1, <2>2, <3>1 DEF TypeOK
    <3>3. HeapedWhenFree' /\ FarAway' /\ NoOversleep' /\ EachTaskOnce'
      BY <2>1, <2>2, <3>1 DEF HeapedWhenFree, FarAway, NoOversleep, EachTaskOnce
    <3>4. NeverEarly'
      BY <2>1, <2>2 DEF NeverEarly
    <3> QED
      BY <3>2, <3>3, <3>4
  <2>3. CASE ~(startTime[x] <= now)
    <3>1. TypeOK'
      BY <2>1, <2>3 DEF TypeOK
    <3>2. HeapedWhenFree' /\ FarAway' /\ EachTaskOnce' /\ NeverEarly'
      BY <2>1, <2>3 DEF HeapedWhenFree, FarAway, EachTaskOnce, NeverEarly
    <3>3. NoOversleep'
      BY <2>1, <2>3 DEF NoOversleep, HeapedWhenFree, IsHead
    <3> QED
      BY <3>1, <3>2, <3>3
  <2> QED
    BY <2>2, <2>3
<1>8. CASE EndTask
  BY <1>8 DEF EndTask, tasks, TypeOK, HeapedWhenFree, FarAway, NoOversleep, EachTaskOnce, NeverEarly
<1>9. CASE Peek
  <2> PICK x \in heap : IsHead(x) /\ deadline' = startTime[x]
    BY <1>9 DEF Peek
  <2>1. spc' = "test" /\ UNCHANGED <<now, tasks, heap, heaped, lock, event, running, started,
                                    keepRunning, cancelled>>
    BY <1>9 DEF Peek
  <2>2. TypeOK'
    BY <2>1 DEF TypeOK, tasks
  <2>3. HeapedWhenFree' /\ FarAway' /\ EachTaskOnce' /\ NeverEarly'
    BY <2>1 DEF HeapedWhenFree, FarAway, EachTaskOnce, NeverEarly, tasks
  <2>4. NoOversleep'
    BY <2>1 DEF NoOversleep, HeapedWhenFree, IsHead, tasks
  <2> QED
    BY <2>2, <2>3, <2>4
<1>10. CASE Tick
  <2> USE <1>10 DEF Tick, tasks, loop
  <2>1. TypeOK'
    BY DEF TypeOK
  <2>2. HeapedWhenFree' /\ FarAway' /\ NoOversleep' /\ EachTaskOnce'
    BY DEF HeapedWhenFree, FarAway, NoOversleep, EachTaskOnce
  <2>3. NeverEarly'
    BY DEF NeverEarly, TypeOK, Tasks
  <2> QED
    BY <2>1, <2>2, <2>3
<1>11. CASE UNCHANGED vars
  BY <1>11 DEF vars, tasks, loop, TypeOK, HeapedWhenFree, FarAway, NoOversleep, EachTaskOnce,
              NeverEarly
<1> QED
  BY <1>1, <1>2, <1>3, <1>4, <1>5, <1>6, <1>7, <1>8, <1>9, <1>10, <1>11
     DEF Next, Client, MainLoop

\* The inductive invariant holds throughout.
LEMMA Invariance == Spec => []IInv
<1> QED
  BY InitIInv, Inductive, PTL DEF Spec

\* Type correctness.
THEOREM TypeCorrect == Spec => []TypeOK
<1>1. IInv => TypeOK
  BY DEF IInv
<1> QED
  BY <1>1, Invariance, PTL

\* The scheduler reads the head of the heap without the lock (MainLoop), and
\* yet it never sleeps longer than until its first task is due.
THEOREM NothingIsSleptThrough == Spec => []NoOversleep
<1>1. IInv => NoOversleep
  BY DEF IInv
<1> QED
  BY <1>1, Invariance, PTL

\* A task is waiting, started or cancelled, and only one of them: CancelTask
\* and the scheduler never both have it.
THEOREM EveryTaskOnce == Spec => []EachTaskOnce
<1>1. IInv => EachTaskOnce
  BY DEF IInv
<1> QED
  BY <1>1, Invariance, PTL

\* No task is started before its time (MainLoop).
THEOREM NothingIsEarly == Spec => []NeverEarly
<1>1. IInv => NeverEarly
  BY DEF IInv
<1> QED
  BY <1>1, Invariance, PTL
==============================================================================
