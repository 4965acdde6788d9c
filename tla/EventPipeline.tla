--------------------------- MODULE EventPipeline ---------------------------
(***************************************************************************)
(* The life of an event, from the plugin that triggers it to its end:      *)
(* eg/Classes/PluginBase.py (TriggerEvent, TriggerEnduringEvent and        *)
(* EndLastEvent), EventThread.py (the Transfer functions), ActionThread.py *)
(* and EventGhostEvent.py (Execute, SetShouldEnd, SetStarted, DoUpFuncs),  *)
(* with the tray icon's processing state of TaskBarIcon.py.                *)
(*                                                                         *)
(* The two worker threads appear as FIFO queues with one taker, which is   *)
(* what ThreadWorker is proved to implement (WorkQueue).  Events are       *)
(* numbered in the order they are created; event 0 is the dummy event all  *)
(* plugins start with, a class attribute of PluginInstanceInfo.  Payloads, *)
(* names and handlers are left out: a handler is what registers an up      *)
(* function, flushes the queues or executes an event of its own.           *)
(***************************************************************************)
EXTENDS Integers, Sequences, FiniteSets

CONSTANTS Threads,    (* threads that trigger and end events                *)
          Plugins,    (* plugin instances                                   *)
          PluginOf,   (* the plugin each thread works for                   *)
          Enders,     (* the threads that call EndLastEvent                 *)
          MaxEvents,  (* bound on the events created                        *)
          Filters,    (* whether an event filter may swallow an event       *)
          Listeners,  (* whether a notification listener may stop Execute   *)
          Flush,      (* whether a macro executes FlushEvents               *)
          Nested      (* whether a macro executes an event immediately      *)

ASSUME PipelineAssumption ==
  /\ PluginOf \in [Threads -> Plugins]
  /\ Enders \subseteq Threads
  /\ "eg" \notin Plugins /\ "none" \notin Plugins
  /\ MaxEvents \in Nat
  /\ Filters \in BOOLEAN /\ Listeners \in BOOLEAN
  /\ Flush \in BOOLEAN /\ Nested \in BOOLEAN

Events == 1..MaxEvents
Dummy == 0
ET == "EventThread"
Actors == Threads \cup {ET}
NoThread == "nobody"
ASSUME ActorAssumption == ET \notin Threads /\ NoThread \notin Threads

VARIABLES
  created,       (* number of events created so far                         *)
  origin,        (* the plugin that triggered each event, or "eg"           *)
  enduring,      (* the events of TriggerEnduringEvent                      *)
  shouldEnd,     (* the events whose shouldEnd is set                       *)
  isEnded,       (* the events whose isEnded is true                        *)
  upFuncs,       (* per event, length of upFuncList                         *)
  lastEvent,     (* per plugin, info.lastEvent                              *)
  lock,          (* the holder of gTriggerEventLock                         *)
  pc,            (* where each trigger thread and the event thread is       *)
  op,            (* what a thread is doing: an operation, or "none"         *)
  target,        (* the event whose SetShouldEnd a thread is in             *)
  fresh,         (* the event a trigger has created and not stored yet      *)
  eventQueue,    (* the event thread's queue of Transfer functions          *)
  actionQueue,   (* the action thread's queue                               *)
  apc,           (* where the action thread is                              *)
  current,       (* the event in Execute on the action thread               *)
  currentEvent, processingEvent, currentState,   (* TaskBarIcon             *)
  started,       (* the events whose Execute got past its listeners         *)
  dropped        (* events that were swallowed, stopped or flushed          *)

eventVars == <<created, origin, enduring>>
iconVars == <<currentEvent, processingEvent, currentState>>
threadVars == <<lastEvent, lock, pc, op, target, fresh>>
actionVars == <<apc, current, started>>
vars == <<eventVars, shouldEnd, isEnded, upFuncs, threadVars, eventQueue,
          actionQueue, actionVars, iconVars, dropped>>

Ids == 0..MaxEvents
NoEvent == MaxEvents + 1
None == "none"

\* What is queued for the action thread: Execute or DoUpFuncs of an event.
Actions == [do : {"exec"}, ev : Events] \cup [do : {"up"}, ev : Ids]

TypeOK ==
  /\ created \in 0..MaxEvents
  /\ origin \in [Events -> Plugins \cup {"eg", None}]
  /\ enduring \subseteq Events
  /\ shouldEnd \subseteq Ids /\ isEnded \subseteq Ids
  /\ upFuncs \in [Ids -> Nat]
  /\ lastEvent \in [Plugins -> Ids]
  /\ lock \in Threads \cup {NoThread}
  /\ pc \in [Actors -> {"idle", "test", "set", "icon", "post", "create",
                        "store", "transfer"}]
  /\ op \in [Actors -> {None, "end", "trigger", "enduring", "transfer"}]
  /\ target \in [Actors -> Ids]
  /\ fresh \in [Actors -> Ids]
  /\ eventQueue \in Seq(Events)
  /\ actionQueue \in Seq(Actions)
  /\ pc[ET] = "transfer" => target[ET] \in Events
  /\ apc \in {"idle", "run", "inner", "finish"}
  /\ current \in Ids
  /\ currentEvent \in Ids \cup {NoEvent}
  /\ processingEvent \in Ids \cup {NoEvent}
  /\ currentState \in 0..2
  /\ started \subseteq Events
  /\ dropped \subseteq Events

Init ==
  /\ created = 0
  /\ origin = [e \in Events |-> None]
  /\ enduring = {}
  /\ shouldEnd = {} /\ isEnded = {}
  /\ upFuncs = [e \in Ids |-> 0]
  /\ lastEvent = [p \in Plugins |-> Dummy]
  /\ lock = NoThread
  /\ pc = [a \in Actors |-> "idle"]
  /\ op = [a \in Actors |-> None]
  /\ target = [a \in Actors |-> Dummy]
  /\ fresh = [a \in Actors |-> Dummy]
  /\ eventQueue = <<>> /\ actionQueue = <<>>
  /\ apc = "idle" /\ current = Dummy
  /\ currentEvent = NoEvent /\ processingEvent = NoEvent /\ currentState = 0
  /\ started = {} /\ dropped = {}

Goto(a, label) == pc' = [pc EXCEPT ![a] = label]

-----------------------------------------------------------------------------
\* Wrong: the end of the handlers does not look at shouldEnd.
SetProcessingStateBlind(state, e) ==
  \/ /\ state = 0
     /\ currentState' = IF e = processingEvent THEN 1
                        ELSE IF e = currentEvent THEN 0 ELSE currentState
     /\ UNCHANGED <<currentEvent, processingEvent>>
  \/ /\ state = 1
     /\ processingEvent' = NoEvent
     /\ UNCHANGED <<currentEvent, currentState>>
  \/ /\ state = 2
     /\ currentEvent' = e /\ processingEvent' = e /\ currentState' = 2

(***************************************************************************)
(* TaskBarIcon.SetProcessingState, whole under its own lock.               *)
(***************************************************************************)
SetProcessingState(state, e) ==
  \/ /\ state = 0 /\ e = processingEvent
     /\ currentState' = 1
     /\ UNCHANGED <<currentEvent, processingEvent>>
  \/ /\ state = 0 /\ e # processingEvent
     /\ currentState' = IF e = currentEvent THEN 0 ELSE currentState
     /\ UNCHANGED <<currentEvent, processingEvent>>
  \/ /\ state = 1
     /\ processingEvent' = NoEvent
     /\ IF e \in shouldEnd THEN currentEvent' = NoEvent /\ currentState' = 0
        ELSE UNCHANGED <<currentEvent, currentState>>
  \/ /\ state = 2
     /\ currentEvent' = e /\ processingEvent' = e /\ currentState' = 2

-----------------------------------------------------------------------------
(***************************************************************************)
(* The triggering threads.                                                 *)
(***************************************************************************)

\* Wrong: no lock is taken.
LockNothing(t) ==
  /\ pc[t] = "idle"
  /\ lock' = t
  /\ \E o \in {"trigger", "enduring"} : op' = [op EXCEPT ![t] = o]
  /\ target' = [target EXCEPT ![t] = lastEvent[PluginOf[t]]]
  /\ Goto(t, "test")
  /\ UNCHANGED <<eventVars, shouldEnd, isEnded, upFuncs, lastEvent, fresh,
                 eventQueue, actionQueue, actionVars, iconVars, dropped>>

\* Wrong: the plugin's last event is not ended first.
LockEndNothing(t) ==
  /\ pc[t] = "idle"
  /\ lock = NoThread
  /\ lock' = t
  /\ \E o \in {"trigger", "enduring"} : op' = [op EXCEPT ![t] = o]
  /\ Goto(t, "create")
  /\ UNCHANGED <<eventVars, shouldEnd, isEnded, upFuncs, lastEvent, target, fresh,
                 eventQueue, actionQueue, actionVars, iconVars, dropped>>

\* `with gTriggerEventLock` of TriggerEvent and TriggerEnduringEvent, and the
\* read of `info.lastEvent`, which nobody else writes while the lock is held.
Lock(t) ==
  /\ pc[t] = "idle"
  /\ lock = NoThread
  /\ lock' = t
  /\ \E o \in {"trigger", "enduring"} : op' = [op EXCEPT ![t] = o]
  /\ target' = [target EXCEPT ![t] = lastEvent[PluginOf[t]]]
  /\ Goto(t, "test")
  /\ UNCHANGED <<eventVars, shouldEnd, isEnded, upFuncs, lastEvent, fresh,
                 eventQueue, actionQueue, actionVars, iconVars, dropped>>

\* EndLastEvent takes no lock.
EndLastEvent(t) ==
  /\ t \in Enders
  /\ pc[t] = "idle"
  /\ op' = [op EXCEPT ![t] = "end"]
  /\ target' = [target EXCEPT ![t] = lastEvent[PluginOf[t]]]
  /\ Goto(t, "test")
  /\ UNCHANGED <<eventVars, shouldEnd, isEnded, upFuncs, lastEvent, lock, fresh,
                 eventQueue, actionQueue, actionVars, iconVars, dropped>>

\* EventGhostEvent(...), then the filters of its source, then AppendAction.
Create(t) ==
  /\ pc[t] = "create"
  /\ created < MaxEvents
  /\ created' = created + 1
  /\ origin' = [origin EXCEPT ![created'] = PluginOf[t]]
  /\ enduring' = IF op[t] = "enduring" THEN enduring \cup {created'} ELSE enduring
  /\ fresh' = [fresh EXCEPT ![t] = created']
  /\ \/ /\ eventQueue' = Append(eventQueue, created')
        /\ UNCHANGED dropped
     \/ /\ Filters
        /\ dropped' = dropped \cup {created'}
        /\ UNCHANGED eventQueue
  /\ Goto(t, "store")
  /\ UNCHANGED <<shouldEnd, isEnded, upFuncs, lastEvent, lock, op, target,
                 actionQueue, actionVars, iconVars>>

\* `info.lastEvent = event`, and the lock is released.
Store(t) ==
  /\ pc[t] = "store"
  /\ lastEvent' = [lastEvent EXCEPT ![PluginOf[t]] = fresh[t]]
  /\ lock' = NoThread
  /\ op' = [op EXCEPT ![t] = None]
  /\ fresh' = [fresh EXCEPT ![t] = Dummy]
  /\ Goto(t, "idle")
  /\ UNCHANGED <<eventVars, shouldEnd, isEnded, upFuncs, target,
                 eventQueue, actionQueue, actionVars, iconVars, dropped>>

-----------------------------------------------------------------------------
(***************************************************************************)
(* EventGhostEvent.SetShouldEnd, on whichever thread calls it: the test of *)
(* shouldEnd, its setting, the icon and the Call of DoUpFuncs are steps    *)
(* other threads can fall between.                                         *)
(***************************************************************************)

\* Where a thread goes on when SetShouldEnd is over.
AfterEnd(a) ==
  /\ op' = [op EXCEPT ![a] = IF op[a] \in {"end", "transfer"} THEN None ELSE op[a]]
  /\ target' = [target EXCEPT ![a] = Dummy]
  /\ Goto(a, IF op[a] \in {"end", "transfer"} THEN "idle" ELSE "create")

TestShouldEnd(a) ==
  /\ pc[a] = "test"
  /\ \/ /\ target[a] \in shouldEnd
        /\ AfterEnd(a)
     \/ /\ target[a] \notin shouldEnd
        /\ Goto(a, "set")
        /\ UNCHANGED <<op, target>>
  /\ UNCHANGED <<eventVars, shouldEnd, isEnded, upFuncs, lastEvent, lock, fresh,
                 eventQueue, actionQueue, actionVars, iconVars, dropped>>

SetShouldEnd(a) ==
  /\ pc[a] = "set"
  /\ shouldEnd' = shouldEnd \cup {target[a]}
  /\ Goto(a, "icon")
  /\ UNCHANGED <<eventVars, isEnded, upFuncs, lastEvent, lock, op, target, fresh,
                 eventQueue, actionQueue, actionVars, iconVars, dropped>>

EndIcon(a) ==
  /\ pc[a] = "icon"
  /\ SetProcessingState(0, target[a])
  /\ Goto(a, "post")
  /\ UNCHANGED <<eventVars, shouldEnd, isEnded, upFuncs, lastEvent, lock, op, target,
                 fresh, eventQueue, actionQueue, actionVars, dropped>>

\* Wrong: nothing is posted to the action thread.
PostNothing(a) ==
  /\ pc[a] = "post"
  /\ AfterEnd(a)
  /\ UNCHANGED <<eventVars, shouldEnd, isEnded, upFuncs, lastEvent, lock, fresh,
                 eventQueue, actionQueue, actionVars, iconVars, dropped>>

PostUpFuncs(a) ==
  /\ pc[a] = "post"
  /\ actionQueue' = Append(actionQueue, [do |-> "up", ev |-> target[a]])
  /\ AfterEnd(a)
  /\ UNCHANGED <<eventVars, shouldEnd, isEnded, upFuncs, lastEvent, lock, fresh,
                 eventQueue, actionVars, iconVars, dropped>>

-----------------------------------------------------------------------------
(***************************************************************************)
(* The event thread.                                                       *)
(***************************************************************************)

\* Wrong: the newest Transfer is taken first.
TakeNewest ==
  /\ pc[ET] = "idle"
  /\ eventQueue # <<>>
  /\ target' = [target EXCEPT ![ET] = eventQueue[Len(eventQueue)]]
  /\ eventQueue' = SubSeq(eventQueue, 1, Len(eventQueue) - 1)
  /\ Goto(ET, "transfer")
  /\ UNCHANGED <<eventVars, shouldEnd, isEnded, upFuncs, lastEvent, lock, op, fresh,
                 actionQueue, actionVars, iconVars, dropped>>

TakeTransfer ==
  /\ pc[ET] = "idle"
  /\ eventQueue # <<>>
  /\ target' = [target EXCEPT ![ET] = Head(eventQueue)]
  /\ eventQueue' = Tail(eventQueue)
  /\ Goto(ET, "transfer")
  /\ UNCHANGED <<eventVars, shouldEnd, isEnded, upFuncs, lastEvent, lock, op, fresh,
                 actionQueue, actionVars, iconVars, dropped>>

\* Wrong: no event is ended after its Execute was posted.
TransferOnly ==
  /\ pc[ET] = "transfer"
  /\ actionQueue' = Append(actionQueue, [do |-> "exec", ev |-> target[ET]])
  /\ target' = [target EXCEPT ![ET] = Dummy]
  /\ Goto(ET, "idle")
  /\ UNCHANGED <<eventVars, shouldEnd, isEnded, upFuncs, lastEvent, lock, op, fresh,
                 eventQueue, actionVars, iconVars, dropped>>

\* `ActionThreadCall(event.Execute)`; TriggerEvent's Transfer then ends the
\* event, TriggerEnduringEvent's does not.
Transfer ==
  /\ pc[ET] = "transfer"
  /\ actionQueue' = Append(actionQueue, [do |-> "exec", ev |-> target[ET]])
  /\ \/ /\ target[ET] \in enduring
        /\ target' = [target EXCEPT ![ET] = Dummy]
        /\ Goto(ET, "idle")
        /\ UNCHANGED op
     \/ /\ target[ET] \notin enduring
        /\ Goto(ET, "test")
        /\ op' = [op EXCEPT ![ET] = "transfer"]
        /\ UNCHANGED target
  /\ UNCHANGED <<eventVars, shouldEnd, isEnded, upFuncs, lastEvent, lock, fresh,
                 eventQueue, actionVars, iconVars, dropped>>

-----------------------------------------------------------------------------
(***************************************************************************)
(* The action thread.                                                      *)
(***************************************************************************)

\* DoUpFuncs: every up function is called and the list is emptied.
DoUpFuncs(e) ==
  /\ upFuncs' = [upFuncs EXCEPT ![e] = 0]
  /\ isEnded' = isEnded \cup {e}

TakeUpFuncs ==
  /\ apc = "idle"
  /\ actionQueue # <<>> /\ Head(actionQueue).do = "up"
  /\ actionQueue' = Tail(actionQueue)
  /\ DoUpFuncs(Head(actionQueue).ev)
  /\ UNCHANGED <<eventVars, shouldEnd, threadVars, eventQueue, actionVars, iconVars,
                 dropped>>

\* Wrong: the up functions are called whether or not the event was told to end.
SetStartedEnds(e) == DoUpFuncs(e)

\* SetStarted, at the end of every Execute that no listener stopped.
SetStarted(e) ==
  IF e \in shouldEnd THEN DoUpFuncs(e) ELSE UNCHANGED <<upFuncs, isEnded>>

\* Execute up to its first handler.  A listener that returns True ends it at
\* once; otherwise the event becomes eg.event, and if config.onlyLogAssigned is
\* set and no handler is active, only SetStarted is left to do.
Execute ==
  /\ apc = "idle"
  /\ actionQueue # <<>> /\ Head(actionQueue).do = "exec"
  /\ actionQueue' = Tail(actionQueue)
  /\ LET e == Head(actionQueue).ev IN
       \/ /\ Listeners
          /\ dropped' = dropped \cup {e}
          /\ UNCHANGED <<isEnded, upFuncs, actionVars, iconVars>>
       \/ /\ started' = started \cup {e}
          /\ SetStarted(e)
          /\ UNCHANGED <<apc, current, iconVars, dropped>>
       \/ /\ started' = started \cup {e}
          /\ SetProcessingState(2, e)
          /\ apc' = "run" /\ current' = e
          /\ UNCHANGED <<isEnded, upFuncs, dropped>>
  /\ UNCHANGED <<eventVars, shouldEnd, threadVars, eventQueue>>

\* Wrong: the function is appended without a look at isEnded.
AddUpFuncBlind ==
  /\ apc = "run"
  /\ upFuncs[current] = 0
  /\ upFuncs' = [upFuncs EXCEPT ![current] = 1]
  /\ UNCHANGED <<eventVars, shouldEnd, isEnded, threadVars, eventQueue, actionQueue,
                 actionVars, iconVars, dropped>>

\* A handler calls eg.event.AddUpFunc, which calls the function at once when
\* the event has ended.  One up function per event is enough here.
AddUpFunc ==
  /\ apc = "run"
  /\ current \notin isEnded
  /\ upFuncs[current] = 0
  /\ upFuncs' = [upFuncs EXCEPT ![current] = 1]
  /\ UNCHANGED <<eventVars, shouldEnd, isEnded, threadVars, eventQueue, actionQueue,
                 actionVars, iconVars, dropped>>

\* A handler executes FlushEvents: both queues are cleared, in this order.
FlushEvents ==
  /\ Flush
  /\ apc = "run"
  /\ eventQueue' = <<>> /\ actionQueue' = <<>>
  /\ dropped' = dropped \cup {eventQueue[i] : i \in 1..Len(eventQueue)}
                        \cup {e \in Events : \E i \in 1..Len(actionQueue) :
                                 actionQueue[i] = [do |-> "exec", ev |-> e]}
  /\ UNCHANGED <<eventVars, shouldEnd, isEnded, upFuncs, threadVars, actionVars, iconVars>>

\* A handler runs the TriggerEvent action without its queue: a new event is
\* executed in place, and nobody ever calls its SetShouldEnd.
ExecuteInner ==
  /\ Nested
  /\ apc = "run"
  /\ created < MaxEvents
  /\ created' = created + 1
  /\ origin' = [origin EXCEPT ![created'] = "eg"]
  /\ started' = started \cup {created'}
  /\ SetProcessingState(2, created')
  /\ apc' = "inner"
  /\ UNCHANGED <<enduring, shouldEnd, isEnded, upFuncs, threadVars, eventQueue,
                 actionQueue, current, dropped>>

\* (currentEvent is still that event: only Execute changes it.)
InnerDone ==
  /\ apc = "inner"
  /\ SetProcessingState(1, currentEvent)
  /\ apc' = "run"
  /\ UNCHANGED <<eventVars, shouldEnd, isEnded, upFuncs, threadVars, eventQueue,
                 actionQueue, current, started, dropped>>

\* The handlers are done: SetStarted, then SetProcessingState(1).
HandlersDone ==
  /\ apc = "run"
  /\ SetStarted(current)
  /\ apc' = "finish"
  /\ UNCHANGED <<eventVars, shouldEnd, threadVars, eventQueue, actionQueue, current,
                 started, iconVars, dropped>>

Finish ==
  /\ apc = "finish"
  /\ SetProcessingState(1, current)
  /\ apc' = "idle"
  /\ current' = Dummy
  /\ UNCHANGED <<eventVars, shouldEnd, isEnded, upFuncs, threadVars, eventQueue,
                 actionQueue, started, dropped>>

-----------------------------------------------------------------------------
Trigger(t) == Lock(t) \/ EndLastEvent(t) \/ Create(t) \/ Store(t)

End(a) == TestShouldEnd(a) \/ SetShouldEnd(a) \/ EndIcon(a) \/ PostUpFuncs(a)

ActionStep == TakeUpFuncs \/ Execute \/ HandlersDone \/ InnerDone \/ Finish

Next == \/ \E t \in Threads : Trigger(t)
        \/ \E a \in Actors : End(a)
        \/ TakeTransfer \/ Transfer
        \/ ActionStep \/ AddUpFunc \/ FlushEvents \/ ExecuteInner

Spec == Init /\ [][Next]_vars

(***************************************************************************)
(* The two worker threads serve their queues, macros end, and a thread     *)
(* inside SetShouldEnd goes on; no thread has to trigger or end an event.  *)
(***************************************************************************)
Fairness == /\ \A a \in Actors : WF_vars(End(a))
            /\ WF_vars(TakeTransfer \/ Transfer)
            /\ WF_vars(ActionStep)

FairSpec == Spec /\ Fairness

-----------------------------------------------------------------------------
(***************************************************************************)
(* The pipeline implements the log of events: the dummy event, which the   *)
(* first trigger of every plugin tells to end, is not one of its events.   *)
(***************************************************************************)
Log == INSTANCE EventLog WITH told <- shouldEnd \ {Dummy}, ended <- isEnded \ {Dummy}

\* Whatever the threads do, with filters, listeners, flushes and events
\* executed in place, plugins and macros see the log: no event of a plugin
\* before its earlier ones were told to end, handlers in the order of the
\* triggers, up functions only of events that were told to end.
ImplementsLog == Log!Spec

-----------------------------------------------------------------------------
(***************************************************************************)
(* Properties.                                                             *)
(***************************************************************************)

OpenEvents(p) == {e \in Events : origin[e] = p /\ e \notin shouldEnd}

\* gTriggerEventLock and lastEvent: whatever number of threads trigger and end
\* events of a plugin, it never has two events that nobody told to end.
OneOpenEvent ==
  \A p \in Plugins : \A e, f \in OpenEvents(p) : e = f

\* Two FIFO queues in a row keep the order of the triggers: an event that
\* started has no earlier event of a plugin that is still to start.
EventsInOrder ==
  \A e, f \in Events :
    e < f /\ f \in started /\ origin[e] \in Plugins /\ origin[f] \in Plugins =>
      e \in started \/ e \in dropped

\* Doc of TriggerEnduringEvent: ending the last event first "will ensure, that
\* only one event per plugin can be active at the same time"; the doc of
\* isEnded calls an enduring event active until isEnded is true.  When the
\* handlers of an event run, the up functions of the plugin's earlier events
\* have been called.
OneActiveEvent ==
  \A e, f \in started :
    e < f /\ origin[e] = origin[f] /\ origin[e] \in Plugins => e \in isEnded

\* An up function waits only for an event that has not ended: none is left in
\* the list of an event whose isEnded is true (SetStarted against a DoUpFuncs
\* that was queued before the event was executed).
NoForgottenUpFunc ==
  \A e \in isEnded : upFuncs[e] = 0

Quiet == /\ eventQueue = <<>> /\ actionQueue = <<>> /\ apc = "idle"
         /\ \A a \in Actors : pc[a] = "idle"
         /\ \A e \in 1..created : origin[e] \in Plugins => e \in shouldEnd

\* The tray icon agrees with the pipeline: when every event has been told to
\* end and nothing is queued or running, it shows the idle state.
IconQuiescent == Quiet => currentState = 0

\* Doc of TriggerEvent: the event "will also automatically be ended
\* immediately".  An event of TriggerEvent is told to end without a further
\* call of the plugin.
TriggeredEventsEnd ==
  \A e \in Events :
    (e <= created /\ e \notin enduring /\ origin[e] \in Plugins) ~> e \in shouldEnd

\* An event that was told to end does end: its up functions are called.
UpFuncsAreCalled ==
  \A e \in Events : e \in shouldEnd ~> e \in isEnded
=============================================================================
