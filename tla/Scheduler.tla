------------------------------ MODULE Scheduler ------------------------------
(***************************************************************************)
(* eg/Classes/Scheduler.py: one thread that sleeps until the first task of *)
(* a heap is due and runs it, while any thread, and any task, adds and     *)
(* cancels tasks under a lock.  The scheduler sleeps on an Event that      *)
(* adding and cancelling set; it clears the event under the lock, but      *)
(* after it has run a task it reads the head of the heap without the lock. *)
(*                                                                         *)
(* A task is a number, given in the order of the adds; 0 is the entry far  *)
(* in the future that __init__ puts into the heap.  AddTask adds LongTask, *)
(* whose function only starts a thread.  Of the heap's array all that      *)
(* matters is its head: a first task, or any while `remove` has run and    *)
(* `heapify` has not.                                                      *)
(***************************************************************************)
EXTENDS Integers

CONSTANTS Clients,   (* threads that use the scheduler                     *)
          Sched,     (* the scheduler's own thread                         *)
          Free,      (* nobody: the lock is free                           *)
          MaxTasks,  (* bound on the number of tasks                       *)
          MaxTime,   (* bound on the clock                                 *)
          Delays     (* the waiting times asked for                        *)

Tasks == 1..MaxTasks
Actors == Clients \cup {Sched}

ASSUME SchedulerAssumption ==
  /\ MaxTasks \in Nat
  /\ MaxTime \in Nat
  /\ Delays \subseteq Int
  /\ Sched \notin Clients
  /\ Free \notin Actors

VARIABLES
  now,         (* time()                                                   *)
  count,       (* tasks added so far                                       *)
  startTime,   (* of each task                                             *)
  heap,        (* self.heap, as a set                                      *)
  heaped,      (* the array is a heap                                      *)
  lock,        (* the owner of self.lock                                   *)
  event,       (* self.event                                               *)
  keepRunning, (* self.keepRunning                                         *)
  stops,       (* the tasks that call DoIt                                 *)
  spc,         (* where MainLoop is                                        *)
  deadline,    (* when event.wait(timeout) gives up                        *)
  running,     (* the task whose function runs, 0 if there is none         *)
  started,     (* tasks whose function was called (history)                *)
  cancelled    (* tasks for which CancelTask returned (history)            *)

tasks == <<count, startTime, stops>>
loop == <<spc, deadline, running, started, keepRunning>>
vars == <<now, tasks, heap, heaped, lock, event, loop, cancelled>>

TypeOK ==
  /\ now \in 0..MaxTime
  /\ count \in 0..MaxTasks
  /\ startTime \in [Tasks \cup {0} -> Int]
  /\ heap \subseteq Tasks \cup {0}
  /\ heaped \in BOOLEAN
  /\ lock \in Actors \cup {Free}
  /\ event \in BOOLEAN
  /\ keepRunning \in BOOLEAN
  /\ stops \subseteq Tasks
  /\ spc \in {"test", "wait", "look", "run", "peek", "done"}
  /\ deadline \in Int
  /\ running \in Tasks \cup {0}
  /\ started \subseteq Tasks
  /\ cancelled \subseteq Tasks

Init ==
  /\ now = 0
  /\ count = 0
  /\ startTime = [x \in Tasks \cup {0} |-> IF x = 0 THEN MaxTime + 1 ELSE 0]
  /\ heap = {0}
  /\ heaped = TRUE
  /\ lock = Free
  /\ event = FALSE
  /\ keepRunning = TRUE
  /\ stops = {}
  /\ spc = "test"
  /\ deadline = 0
  /\ running = 0
  /\ started = {}
  /\ cancelled = {}

\* heap[0]: tasks of the same time are in no particular order.
IsHead(x) == /\ x \in heap
             /\ heaped => \A y \in heap : startTime[x] <= startTime[y]

-----------------------------------------------------------------------------
(***************************************************************************)
(* The threads that use the scheduler, its own while a task runs.          *)
(***************************************************************************)
MayCall(t) == lock = Free /\ (t = Sched => spc = "run")

\* AddShortTaskAbsolute up to heappush: the lock is taken.
Push(t, when) ==
  /\ MayCall(t)
  /\ count < MaxTasks
  /\ count' = count + 1
  /\ startTime' = [startTime EXCEPT ![count'] = when]
  /\ heap' = heap \cup {count'}
  /\ lock' = t

AddTask(t) ==
  /\ \E d \in Delays : now + d <= MaxTime /\ Push(t, now + d)
  /\ UNCHANGED <<now, stops, heaped, event, loop, cancelled>>

\* Stop adds DoIt as a task of a second ago.
Stop(t) ==
  /\ Push(t, now - 1)
  /\ stops' = stops \cup {count'}
  /\ UNCHANGED <<now, heaped, event, loop, cancelled>>

\* Wrong: the head is assumed to stay in place.
RemoveLast(t, x) ==
  /\ MayCall(t)
  /\ x \in heap \ {0}
  /\ \E y \in heap \ {0} : heap' = heap \ {y}
  /\ heaped' = FALSE
  /\ lock' = t
  /\ cancelled' = cancelled \cup {x}
  /\ UNCHANGED <<now, tasks, event, loop>>

\* CancelTask up to heap.remove(task), which raises, and changes nothing, if
\* the task is not there.  Stop gives its task to nobody.
Remove(t, x) ==
  /\ MayCall(t)
  /\ x \in heap \ ({0} \cup stops)
  /\ heap' = heap \ {x}
  /\ heaped' = FALSE
  /\ lock' = t
  /\ cancelled' = cancelled \cup {x}
  /\ UNCHANGED <<now, tasks, event, loop>>

\* Wrong: the event is not set.
AnnounceSilently(t) ==
  /\ lock = t
  /\ heaped' = TRUE
  /\ lock' = Free
  /\ UNCHANGED <<now, tasks, heap, event, loop, cancelled>>

\* heapify, event.set() and the release of the lock.
Announce(t) ==
  /\ lock = t
  /\ heaped' = TRUE
  /\ event' = TRUE
  /\ lock' = Free
  /\ UNCHANGED <<now, tasks, heap, loop, cancelled>>

-----------------------------------------------------------------------------
(***************************************************************************)
(* MainLoop.                                                               *)
(***************************************************************************)
\* Wrong: the event is cleared before the wait.
TestClearing ==
  /\ spc = "test"
  /\ event' = FALSE
  /\ spc' = IF keepRunning THEN "wait" ELSE "done"
  /\ UNCHANGED <<now, tasks, heap, heaped, lock, deadline, running, started,
                 keepRunning, cancelled>>

Test ==
  /\ spc = "test"
  /\ spc' = IF keepRunning THEN "wait" ELSE "done"
  /\ UNCHANGED <<now, tasks, heap, heaped, lock, event, deadline, running,
                 started, keepRunning, cancelled>>

\* event.wait(timeout) returns.
Wake ==
  /\ spc = "wait"
  /\ event \/ deadline <= now
  /\ spc' = "look"
  /\ UNCHANGED <<now, tasks, heap, heaped, lock, event, deadline, running,
                 started, keepRunning, cancelled>>

\* Under the lock: clear the event, look at the first task and pop it if it
\* is due.  The function is called after the release.
Look ==
  /\ spc = "look"
  /\ lock = Free
  /\ event' = FALSE
  /\ \E x \in heap : IsHead(x) /\
       IF startTime[x] <= now
       THEN /\ heap' = heap \ {x}
            /\ running' = x
            /\ started' = started \cup {x}
            /\ spc' = "run"
            /\ UNCHANGED deadline
       ELSE /\ deadline' = startTime[x]
            /\ spc' = "test"
            /\ UNCHANGED <<heap, running, started>>
  /\ UNCHANGED <<now, tasks, heaped, lock, keepRunning, cancelled>>

\* The function returns or raises, which is printed; DoIt ends the loop.
EndTask ==
  /\ spc = "run"
  /\ lock # Sched
  /\ keepRunning' = (keepRunning /\ running \notin stops)
  /\ running' = 0
  /\ spc' = "peek"
  /\ UNCHANGED <<now, tasks, heap, heaped, lock, event, deadline, started, cancelled>>

\* startTime = self.heap[0][0], without the lock.
Peek ==
  /\ spc = "peek"
  /\ \E x \in heap : IsHead(x) /\ deadline' = startTime[x]
  /\ spc' = "test"
  /\ UNCHANGED <<now, tasks, heap, heaped, lock, event, running, started,
                 keepRunning, cancelled>>

MainLoop == Test \/ Wake \/ Look \/ EndTask \/ Peek

Tick ==
  /\ now < MaxTime
  /\ now' = now + 1
  /\ UNCHANGED <<tasks, heap, heaped, lock, event, loop, cancelled>>

Client(t) == AddTask(t) \/ Stop(t) \/ (\E x \in heap : Remove(t, x)) \/ Announce(t)

Next == (\E t \in Actors : Client(t)) \/ MainLoop \/ Tick

Spec == Init /\ [][Next]_vars

(***************************************************************************)
(* The clock goes on, the scheduler's thread runs, functions of tasks end  *)
(* (one that should not is what AddTask and LongTask are for) and a thread *)
(* inside the lock goes on to release it.                                  *)
(***************************************************************************)
Fairness == /\ WF_vars(MainLoop) /\ WF_vars(Tick)
            /\ \A t \in Actors : WF_vars(Announce(t))

FairSpec == Spec /\ Fairness

-----------------------------------------------------------------------------
\* No task is slept through (MainLoop's unlocked read of the head): whenever
\* the scheduler is about to sleep or sleeps with its event not set, and
\* nobody is inside the lock about to set it, it wakes up no later than the
\* first task of the heap is due.
NoOversleep ==
  spc \in {"test", "wait"} /\ ~event /\ lock = Free /\ keepRunning =>
    \A x \in heap : deadline <= startTime[x]

\* Doc of CancelTask: a task is cancelled "if the task hasn't been started
\* yet".  Each task added is in exactly one place: still in the heap, started
\* once, or cancelled; none is lost or both run and cancelled.
EachTaskOnce ==
  /\ 1..count = (heap \ {0}) \cup started \cup cancelled
  /\ heap \cap (started \cup cancelled) = {}
  /\ started \cap cancelled = {}

\* Doc of AddShortTask: the callable is called "after waitTime seconds",
\* never before its time.
NeverEarly == \A x \in started : startTime[x] <= now

\* A task whose time comes is started, unless it is cancelled first or the
\* scheduler has been stopped.
TaskIsStarted ==
  \A x \in Tasks : x \in heap ~> x \in started \cup cancelled \/ spc = "done"

\* Stop ends the thread, however many tasks are waiting.
StopEndsScheduler == stops # {} ~> spc = "done"
=============================================================================
