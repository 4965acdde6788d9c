------------------------ MODULE EventPipelineProofs ------------------------
(***************************************************************************)
(* Proofs about EventPipeline for any plugins, any number of threads per   *)
(* plugin and any number of events.                                        *)
(*                                                                         *)
(* OneOpenEvent is not inductive: it has to be known that whoever creates  *)
(* an event holds the lock, that the plugin's last event was told to end   *)
(* before, and that an event nobody told to end is the last event or the   *)
(* one just created.                                                       *)
(***************************************************************************)
EXTENDS EventPipeline, TLAPS

\* Who holds the lock, and what the other program counters say.
LockInv ==
  /\ \A t \in Threads : /\ op[t] \in {"trigger", "enduring"} <=> lock = t
                        /\ pc[t] = "idle" <=> op[t] = None
                        /\ op[t] # "transfer" /\ pc[t] # "transfer"
                        /\ pc[t] \in {"create", "store"} => lock = t
  /\ op[ET] \in {None, "transfer"}
  /\ pc[ET] \in {"idle", "transfer"} <=> op[ET] = None
  /\ pc[ET] \notin {"create", "store"}

\* The holder of the lock ends its plugin's last event before it creates the
\* next one.
HolderInv(t) ==
  /\ pc[t] \in {"test", "set", "icon", "post"} =>
       target[t] = lastEvent[PluginOf[t]]
  /\ pc[t] \in {"icon", "post"} => target[t] \in shouldEnd
  /\ pc[t] \in {"create", "store"} => lastEvent[PluginOf[t]] \in shouldEnd
  /\ pc[t] = "store" => /\ fresh[t] \in 1..created
                        /\ origin[fresh[t]] = PluginOf[t]

LastInv == \A t \in Threads : lock = t => HolderInv(t)

\* An event nobody told to end is the plugin's last event or a fresh one.
OpenInv ==
  \A e \in Events : origin[e] \in Plugins /\ e \notin shouldEnd =>
    \/ e = lastEvent[origin[e]]
    \/ \E t \in Threads : /\ pc[t] = "store" /\ fresh[t] = e
                          /\ PluginOf[t] = origin[e]

PInv == TypeOK /\ LockInv /\ LastInv /\ OpenInv

-----------------------------------------------------------------------------
\* The initial state satisfies the invariant.
LEMMA InitPInv == Init => PInv
<1> SUFFICES ASSUME Init PROVE PInv
  OBVIOUS
<1> USE PipelineAssumption, ActorAssumption DEF Init
<1>1. TypeOK
  <2>1. /\ eventQueue \in Seq(Events) /\ actionQueue \in Seq(Actions)
    OBVIOUS
  <2>2. /\ origin \in [Events -> Plugins \cup {"eg", None}]
        /\ upFuncs \in [Ids -> Nat]
        /\ lastEvent \in [Plugins -> Ids]
        /\ target \in [Actors -> Ids] /\ fresh \in [Actors -> Ids]
    BY DEF Ids, Dummy
  <2>3. /\ pc \in [Actors -> {"idle", "test", "set", "icon", "post", "create",
                              "store", "transfer"}]
        /\ op \in [Actors -> {None, "end", "trigger", "enduring", "transfer"}]
        /\ pc[ET] = "idle"
    BY DEF Actors
  <2>4. created \in 0..MaxEvents /\ current \in Ids /\ currentState \in 0..2
    BY DEF Ids, Dummy
  <2> QED
    BY ONLY Init, <2>1, <2>2, <2>3, <2>4 DEF Init, TypeOK
<1>2. LockInv
  BY DEF LockInv, Actors, None
<1>3. LastInv
  BY DEF LastInv
<1>4. OpenInv
  BY DEF OpenInv, None
<1> QED
  BY <1>1, <1>2, <1>3, <1>4 DEF PInv

\* The icon keeps its types whatever it is told about an event.
LEMMA IconTypes ==
  ASSUME TypeOK, NEW e \in Ids, NEW s \in 0..2, SetProcessingState(s, e)
  PROVE  /\ currentEvent' \in Ids \cup {NoEvent}
         /\ processingEvent' \in Ids \cup {NoEvent}
         /\ currentState' \in 0..2
  BY DEF TypeOK, SetProcessingState

\* DoUpFuncs keeps the types of what it changes.
LEMMA UpFuncTypes ==
  ASSUME TypeOK, NEW e \in Ids,
         DoUpFuncs(e) \/ UNCHANGED <<upFuncs, isEnded>>
  PROVE  upFuncs' \in [Ids -> Nat] /\ isEnded' \subseteq Ids
  BY DEF TypeOK, DoUpFuncs

\* A queued action is Execute of an event or DoUpFuncs.
LEMMA HeadAction ==
  ASSUME TypeOK, actionQueue # <<>>
  PROVE  /\ Tail(actionQueue) \in Seq(Actions)
         /\ Head(actionQueue).ev \in Ids
         /\ Head(actionQueue).do = "exec" => Head(actionQueue).ev \in Events
<1>1. Head(actionQueue) \in Actions /\ Tail(actionQueue) \in Seq(Actions)
  BY DEF TypeOK
<1> QED
  BY <1>1, PipelineAssumption DEF Actions, Events, Ids

\* Every step keeps the types.
LEMMA TypeStep == TypeOK /\ [Next]_vars => TypeOK'
<1> SUFFICES ASSUME TypeOK, [Next]_vars PROVE TypeOK'
  OBVIOUS
<1> USE PipelineAssumption, ActorAssumption
<1>0. Events \subseteq Ids /\ Dummy \in Ids /\ Threads \subseteq Actors /\ ET \in Actors
  BY DEF Events, Ids, Dummy, Actors
<1>1. ASSUME NEW t \in Threads, Lock(t) PROVE TypeOK'
  BY <1>0, <1>1 DEF Lock, Goto, TypeOK, eventVars, actionVars, iconVars
<1>2. ASSUME NEW t \in Threads, EndLastEvent(t) PROVE TypeOK'
  BY <1>0, <1>2 DEF EndLastEvent, Goto, TypeOK, eventVars, actionVars, iconVars
<1>3. ASSUME NEW t \in Threads, Create(t) PROVE TypeOK'
  <2>0. created \in Nat /\ created < MaxEvents /\ created' = created + 1
    BY <1>3 DEF Create, TypeOK
  <2>1. created' \in Events /\ created' \in Ids /\ created' \in 0..MaxEvents
    BY <2>0 DEF Events, Ids
  <2>2. dropped' \subseteq Events /\ enduring' \subseteq Events
    BY <1>3, <2>1 DEF Create, TypeOK
  <2>5. eventQueue' = Append(eventQueue, created') \/ eventQueue' = eventQueue
    BY <1>3 DEF Create
  <2>7. eventQueue \in Seq(Events)
    BY DEF TypeOK
  <2>6. eventQueue' \in Seq(Events)
    BY ONLY <2>1, <2>5, <2>7
  <2>3. origin' \in [Events -> Plugins \cup {"eg", None}]
    BY <1>3, <2>1 DEF Create, TypeOK
  <2>4. fresh' \in [Actors -> Ids] /\ pc' = [pc EXCEPT ![t] = "store"]
    BY <1>3, <2>1 DEF Create, TypeOK, Goto
  <2> QED
    BY <1>0, <1>3, <2>1, <2>2, <2>6, <2>3, <2>4 DEF Create, TypeOK, actionVars, iconVars
<1>4. ASSUME NEW t \in Threads, Store(t) PROVE TypeOK'
  <2>1. lastEvent' \in [Plugins -> Ids] /\ fresh' \in [Actors -> Ids]
    BY <1>0, <1>4 DEF Store, TypeOK
  <2>2. /\ op' = [op EXCEPT ![t] = None] /\ pc' = [pc EXCEPT ![t] = "idle"]
        /\ lock' = NoThread
    BY <1>4 DEF Store, Goto
  <2>3. pc'[ET] = "transfer" => target'[ET] \in Events
    BY <1>4, <2>2 DEF Store, TypeOK
  <2>4. /\ op' \in [Actors -> {None, "end", "trigger", "enduring", "transfer"}]
        /\ pc' \in [Actors -> {"idle", "test", "set", "icon", "post", "create",
                               "store", "transfer"}]
    BY <2>2 DEF TypeOK
  <2> QED
    BY <1>4, <2>1, <2>2, <2>3, <2>4 DEF Store, TypeOK, eventVars, actionVars, iconVars
<1>5. ASSUME NEW a \in Actors, TestShouldEnd(a) PROVE TypeOK'
  <2>1. pc[a] = "test" /\ a \in DOMAIN pc /\ a \in DOMAIN op
    BY <1>5 DEF TestShouldEnd, TypeOK
  <2>2. \E l \in {"idle", "create", "set"} : pc' = [pc EXCEPT ![a] = l]
    BY <1>5 DEF TestShouldEnd, AfterEnd, Goto
  <2>3. target' = target \/ target' = [target EXCEPT ![a] = Dummy]
    BY <1>5 DEF TestShouldEnd, AfterEnd
  <2>6. op' = [op EXCEPT ![a] = None] \/ op' = [op EXCEPT ![a] = op[a]] \/ op' = op
    BY <1>5 DEF TestShouldEnd, AfterEnd
  <2>7. op' \in [Actors -> {None, "end", "trigger", "enduring", "transfer"}]
    BY <2>1, <2>6 DEF TypeOK
  <2>4. pc'[ET] = "transfer" => target'[ET] \in Events
    <3>1. pc[ET] = "transfer" => target[ET] \in Events
      BY DEF TypeOK
    <3>2. DOMAIN pc = Actors /\ DOMAIN target = Actors
      BY DEF TypeOK
    <3>3. CASE a = ET
      BY ONLY <1>0, <2>1, <2>2, <3>3
    <3>4. CASE a # ET
      BY ONLY <1>0, <2>1, <2>2, <2>3, <3>1, <3>2, <3>4
    <3> QED
      BY <3>3, <3>4
  <2>5. target' \in [Actors -> Ids]
    BY <1>0, <2>3 DEF TypeOK
  <2> QED
    BY <1>5, <2>2, <2>7, <2>4, <2>5 DEF TestShouldEnd, TypeOK, eventVars, actionVars, iconVars
<1>6. ASSUME NEW a \in Actors, SetShouldEnd(a) PROVE TypeOK'
  BY <1>0, <1>6 DEF SetShouldEnd, Goto, TypeOK, eventVars, actionVars, iconVars
<1>7. ASSUME NEW a \in Actors, EndIcon(a) PROVE TypeOK'
  <2>1. target[a] \in Ids /\ SetProcessingState(0, target[a])
    BY <1>7 DEF EndIcon, TypeOK
  <2>2. /\ currentEvent' \in Ids \cup {NoEvent}
        /\ processingEvent' \in Ids \cup {NoEvent} /\ currentState' \in 0..2
    BY <2>1, IconTypes
  <2> QED
    BY <1>0, <1>7, <2>2 DEF EndIcon, Goto, TypeOK, eventVars, actionVars
<1>8. ASSUME NEW a \in Actors, PostUpFuncs(a) PROVE TypeOK'
  <2>1. [do |-> "up", ev |-> target[a]] \in Actions
    BY <1>8 DEF Actions, TypeOK
  <2>2. actionQueue' \in Seq(Actions)
    BY <1>8, <2>1 DEF PostUpFuncs, TypeOK
  <2> QED
    BY <1>0, <1>8, <2>2
    DEF PostUpFuncs, AfterEnd, Goto, TypeOK, eventVars, actionVars, iconVars
<1>9. CASE TakeTransfer
  <2>1. Head(eventQueue) \in Events /\ Tail(eventQueue) \in Seq(Events)
    BY <1>9 DEF TakeTransfer, TypeOK
  <2> QED
    BY <1>0, <1>9, <2>1 DEF TakeTransfer, Goto, TypeOK, eventVars, actionVars, iconVars
<1>10. CASE Transfer
  <2>1. [do |-> "exec", ev |-> target[ET]] \in Actions
    BY <1>10 DEF Transfer, Actions, TypeOK
  <2>2. actionQueue' \in Seq(Actions)
    BY <1>10, <2>1 DEF Transfer, TypeOK
  <2>3. /\ target' \in [Actors -> Ids] /\ pc'[ET] # "transfer"
    <3>1. target \in [Actors -> Ids] /\ DOMAIN pc = Actors
      BY DEF TypeOK
    <3> QED
      BY ONLY <1>0, <1>10, <3>1 DEF Transfer, Goto
  <2>4. /\ op' \in [Actors -> {None, "end", "trigger", "enduring", "transfer"}]
        /\ pc' \in [Actors -> {"idle", "test", "set", "icon", "post", "create",
                               "store", "transfer"}]
    BY <1>0, <1>10 DEF Transfer, Goto, TypeOK
  <2> QED
    BY <1>10, <2>2, <2>3, <2>4 DEF Transfer, TypeOK, eventVars, actionVars, iconVars
<1>11. CASE TakeUpFuncs
  <2>1. /\ upFuncs' \in [Ids -> Nat] /\ isEnded' \subseteq Ids
        /\ actionQueue' \in Seq(Actions)
    BY <1>11, HeadAction, UpFuncTypes DEF TakeUpFuncs
  <2> QED
    BY <1>11, <2>1 DEF TakeUpFuncs, TypeOK, eventVars, threadVars, actionVars, iconVars
<1>12. CASE Execute
  <2> DEFINE e == Head(actionQueue).ev
  <2>1. e \in Events /\ e \in Ids /\ actionQueue' \in Seq(Actions)
    BY <1>12, HeadAction DEF Execute
  <2>2. /\ upFuncs' \in [Ids -> Nat] /\ isEnded' \subseteq Ids
    BY <1>12, <2>1, UpFuncTypes DEF Execute, SetStarted, TypeOK
  <2>3. /\ currentEvent' \in Ids \cup {NoEvent}
        /\ processingEvent' \in Ids \cup {NoEvent} /\ currentState' \in 0..2
    BY <1>12, <2>1, IconTypes DEF Execute, TypeOK, iconVars
  <2>4. /\ started' \subseteq Events /\ dropped' \subseteq Events
        /\ apc' \in {"idle", "run", "inner", "finish"} /\ current' \in Ids
    BY <1>12, <2>1 DEF Execute, TypeOK, actionVars
  <2> QED
    BY <1>12, <2>1, <2>2, <2>3, <2>4 DEF Execute, TypeOK, eventVars, threadVars
<1>13. CASE AddUpFunc
  BY <1>13 DEF AddUpFunc, TypeOK, eventVars, threadVars, actionVars, iconVars
<1>14. CASE FlushEvents
  <2>1. {eventQueue[i] : i \in 1..Len(eventQueue)} \subseteq Events
    BY DEF TypeOK
  <2>2. dropped' \subseteq Events
    BY <1>14, <2>1 DEF FlushEvents, TypeOK
  <2> QED
    BY <1>14, <2>2 DEF FlushEvents, TypeOK, eventVars, threadVars, actionVars, iconVars
<1>15. CASE ExecuteInner
  <2>0. created \in Nat /\ created < MaxEvents /\ created' = created + 1
    BY <1>15 DEF ExecuteInner, TypeOK
  <2>1. created' \in Events /\ created' \in Ids /\ created' \in 0..MaxEvents
    BY <2>0 DEF Events, Ids
  <2>2. /\ currentEvent' \in Ids \cup {NoEvent}
        /\ processingEvent' \in Ids \cup {NoEvent} /\ currentState' \in 0..2
    BY <1>15, <2>1, IconTypes DEF ExecuteInner
  <2>3. origin' \in [Events -> Plugins \cup {"eg", None}] /\ started' \subseteq Events
    BY <1>15, <2>1 DEF ExecuteInner, TypeOK
  <2> QED
    BY <1>15, <2>1, <2>2, <2>3 DEF ExecuteInner, TypeOK, threadVars
<1>16. CASE InnerDone
  <2>1. \/ UNCHANGED <<currentEvent, processingEvent, currentState>>
        \/ /\ currentEvent' \in Ids \cup {NoEvent}
           /\ processingEvent' \in Ids \cup {NoEvent} /\ currentState' \in 0..2
    BY <1>16 DEF InnerDone, SetProcessingState, TypeOK
  <2> QED
    BY <1>16, <2>1 DEF InnerDone, TypeOK, eventVars, threadVars
<1>17. CASE HandlersDone
  <2>1. upFuncs' \in [Ids -> Nat] /\ isEnded' \subseteq Ids
    BY <1>17, UpFuncTypes DEF HandlersDone, SetStarted, TypeOK
  <2> QED
    BY <1>17, <2>1 DEF HandlersDone, TypeOK, eventVars, threadVars, iconVars
<1>18. CASE Finish
  <2>1. /\ currentEvent' \in Ids \cup {NoEvent}
        /\ processingEvent' \in Ids \cup {NoEvent} /\ currentState' \in 0..2
    BY <1>18, IconTypes DEF Finish, TypeOK
  <2> QED
    BY <1>0, <1>18, <2>1 DEF Finish, TypeOK, eventVars, threadVars
<1>19. CASE UNCHANGED vars
  BY <1>19 DEF vars, TypeOK, eventVars, threadVars, actionVars, iconVars
<1> QED
  BY <1>1, <1>2, <1>3, <1>4, <1>5, <1>6, <1>7, <1>8, <1>9, <1>10, <1>11, <1>12,
     <1>13, <1>14, <1>15, <1>16, <1>17, <1>18, <1>19
  DEF Next, Trigger, End, ActionStep

-----------------------------------------------------------------------------
\* What the actions that are not a thread's own leave alone.
LEMMA OtherSteps ==
  ASSUME \/ TakeUpFuncs \/ Execute \/ HandlersDone \/ InnerDone \/ Finish
         \/ AddUpFunc \/ FlushEvents \/ ExecuteInner \/ UNCHANGED vars
  PROVE  /\ UNCHANGED <<shouldEnd, lastEvent, lock, pc, op, target, fresh>>
         /\ ExecuteInner \/ UNCHANGED <<created, origin>>
  BY DEF TakeUpFuncs, Execute, HandlersDone, InnerDone, Finish, AddUpFunc,
     FlushEvents, ExecuteInner, vars, threadVars, eventVars

\* A step keeps what the program counters say about the lock.
LEMMA LockStep == TypeOK /\ LockInv /\ [Next]_vars => LockInv'
<1> SUFFICES ASSUME TypeOK, LockInv, [Next]_vars PROVE LockInv'
  OBVIOUS
<1>0. /\ DOMAIN pc = Threads \cup {ET} /\ DOMAIN op = Threads \cup {ET}
      /\ ET \notin Threads /\ NoThread \notin Threads
  BY ActorAssumption DEF TypeOK, Actors
<1> USE <1>0 DEF LockInv
<1>1. ASSUME NEW t \in Threads, Lock(t) PROVE LockInv'
  BY <1>1 DEF Lock, Goto, None
<1>2. ASSUME NEW t \in Threads, EndLastEvent(t) PROVE LockInv'
  BY <1>2 DEF EndLastEvent, Goto, None
<1>3. ASSUME NEW t \in Threads, Create(t) PROVE LockInv'
  BY <1>3 DEF Create, Goto, None
<1>4. ASSUME NEW t \in Threads, Store(t) PROVE LockInv'
  BY <1>4 DEF Store, Goto, None
<1>5. ASSUME NEW a \in Actors, TestShouldEnd(a) \/ PostUpFuncs(a) PROVE LockInv'
  <2>1. /\ pc[a] \in {"test", "post"} /\ UNCHANGED lock
        /\ \/ AfterEnd(a)
           \/ pc' = [pc EXCEPT ![a] = "set"] /\ UNCHANGED op
    BY <1>5 DEF TestShouldEnd, PostUpFuncs, Goto
  <2>2. CASE a \in Threads
    <3>1. CASE op[a] \in {"trigger", "enduring"}
      BY <2>1, <2>2, <3>1 DEF AfterEnd, Goto, None
    <3>2. CASE op[a] = "end"
      BY <2>1, <2>2, <3>2 DEF AfterEnd, Goto, None
    <3> QED
      BY <2>1, <2>2, <3>1, <3>2 DEF TypeOK, Actors
  <2>3. CASE a = ET
    BY <2>1, <2>3 DEF AfterEnd, Goto, None
  <2> QED
    BY <2>2, <2>3 DEF Actors
<1>6. ASSUME NEW a \in Actors, SetShouldEnd(a) \/ EndIcon(a) PROVE LockInv'
  <2>1. /\ pc[a] \in {"set", "icon"} /\ UNCHANGED <<lock, op>>
        /\ \E l \in {"icon", "post"} : pc' = [pc EXCEPT ![a] = l]
    BY <1>6 DEF SetShouldEnd, EndIcon, Goto
  <2>2. a \in Threads \cup {ET}
    BY DEF Actors
  <2> QED
    BY <2>1, <2>2 DEF None
<1>7. CASE TakeTransfer \/ Transfer
  BY <1>7 DEF TakeTransfer, Transfer, Goto, None
<1>8. CASE \/ TakeUpFuncs \/ Execute \/ HandlersDone \/ InnerDone \/ Finish
           \/ AddUpFunc \/ FlushEvents \/ ExecuteInner \/ UNCHANGED vars
  BY <1>8, OtherSteps
<1> QED
  BY <1>1, <1>2, <1>3, <1>4, <1>5, <1>6, <1>7, <1>8
  DEF Next, Trigger, End, ActionStep

\* A step keeps what the holder of the lock has done.
LEMMA LastStep == TypeOK /\ LockInv /\ LastInv /\ [Next]_vars => LastInv'
<1> SUFFICES ASSUME TypeOK, LockInv, LastInv, [Next]_vars,
                    NEW u \in Threads, lock' = u
             PROVE  HolderInv(u)'
  BY DEF LastInv
<1>0. /\ DOMAIN pc = Threads \cup {ET} /\ DOMAIN op = Threads \cup {ET}
      /\ DOMAIN target = Threads \cup {ET} /\ DOMAIN fresh = Threads \cup {ET}
      /\ ET \notin Threads /\ NoThread \notin Threads
      /\ DOMAIN origin = 1..MaxEvents /\ created \in Nat /\ MaxEvents \in Nat
  BY ActorAssumption, PipelineAssumption DEF TypeOK, Actors, Events
<1>l. lock = u => HolderInv(u)
  BY DEF LastInv
<1>k. pc[u] \in {"create", "store"} => lock = u
  BY DEF LockInv
<1> USE <1>0, <1>l
<1>1. ASSUME NEW t \in Threads, Lock(t) PROVE HolderInv(u)'
  BY <1>1 DEF Lock, Goto, HolderInv
<1>2. ASSUME NEW t \in Threads, EndLastEvent(t) PROVE HolderInv(u)'
  <2>1. t # u
    BY <1>2 DEF EndLastEvent, LockInv, None
  <2> QED
    BY <1>2, <2>1 DEF EndLastEvent, Goto, HolderInv, eventVars
<1>3. ASSUME NEW t \in Threads, Create(t) PROVE HolderInv(u)'
  <2>1. lock = t /\ t = u /\ lock = u
    BY <1>3 DEF Create, LockInv
  <2>2. /\ created' = created + 1 /\ created < MaxEvents
        /\ origin' = [origin EXCEPT ![created'] = PluginOf[t]]
        /\ fresh' = [fresh EXCEPT ![t] = created']
        /\ pc[t] = "create" /\ pc' = [pc EXCEPT ![t] = "store"]
        /\ UNCHANGED <<lastEvent, shouldEnd>>
    BY <1>3 DEF Create, Goto
  <2>3. fresh'[u] = created' /\ created' \in 1..MaxEvents /\ pc'[u] = "store"
    BY <2>1, <2>2
  <2> QED
    BY <2>1, <2>2, <2>3 DEF HolderInv
<1>4. ASSUME NEW t \in Threads, Store(t) PROVE HolderInv(u)'
  BY <1>4 DEF Store
<1>5. ASSUME NEW a \in Actors, TestShouldEnd(a) \/ PostUpFuncs(a) PROVE HolderInv(u)'
  <2>1. /\ UNCHANGED <<eventVars, shouldEnd, lastEvent, lock, fresh>>
        /\ \/ AfterEnd(a) /\ target[a] \in shouldEnd /\ pc[a] = "test"
           \/ AfterEnd(a) /\ pc[a] = "post"
           \/ pc[a] = "test" /\ pc' = [pc EXCEPT ![a] = "set"] /\ UNCHANGED target
    BY <1>5 DEF TestShouldEnd, PostUpFuncs, Goto
  <2>2. CASE a = u
    <3>1. op[u] \in {"trigger", "enduring"}
      BY <2>1 DEF LockInv
    <3> QED
      BY <2>1, <2>2, <3>1 DEF AfterEnd, Goto, HolderInv, eventVars
  <2>3. CASE a # u
    BY <2>1, <2>3 DEF AfterEnd, Goto, HolderInv, eventVars
  <2> QED
    BY <2>2, <2>3
<1>6. ASSUME NEW a \in Actors, SetShouldEnd(a) \/ EndIcon(a) PROVE HolderInv(u)'
  <2>1. /\ UNCHANGED <<eventVars, lastEvent, lock, target, fresh>>
        /\ \/ /\ pc[a] = "set" /\ pc' = [pc EXCEPT ![a] = "icon"]
              /\ shouldEnd' = shouldEnd \cup {target[a]}
           \/ /\ pc[a] = "icon" /\ pc' = [pc EXCEPT ![a] = "post"]
              /\ UNCHANGED shouldEnd
    BY <1>6 DEF SetShouldEnd, EndIcon, Goto
  <2> QED
    BY <2>1 DEF HolderInv, eventVars
<1>7. CASE TakeTransfer \/ Transfer
  BY <1>7 DEF TakeTransfer, Transfer, Goto, HolderInv, eventVars
<1>8. CASE ExecuteInner
  <2>1. /\ UNCHANGED <<shouldEnd, lastEvent, lock, pc, target, fresh>>
        /\ created' = created + 1 /\ origin' = [origin EXCEPT ![created'] = "eg"]
    BY <1>8 DEF ExecuteInner, threadVars
  <2>2. pc[u] = "store" => fresh[u] \in 1..created' /\ origin'[fresh[u]] = origin[fresh[u]]
    BY <2>1 DEF HolderInv
  <2> QED
    BY <2>1, <2>2 DEF HolderInv
<1>9. CASE \/ TakeUpFuncs \/ Execute \/ HandlersDone \/ InnerDone \/ Finish
           \/ AddUpFunc \/ FlushEvents \/ UNCHANGED vars
  <2>1. UNCHANGED <<created, origin>>
    BY <1>9 DEF TakeUpFuncs, Execute, HandlersDone, InnerDone, Finish, AddUpFunc,
                FlushEvents, vars, eventVars
  <2> QED
    BY <1>9, <2>1, OtherSteps DEF HolderInv
<1> QED
  BY <1>1, <1>2, <1>3, <1>4, <1>5, <1>6, <1>7, <1>8, <1>9
  DEF Next, Trigger, End, ActionStep

\* A step keeps at most the last event and a fresh one open.
LEMMA OpenStep == PInv /\ [Next]_vars => OpenInv'
<1> SUFFICES ASSUME PInv, [Next]_vars, NEW e \in Events,
                    origin'[e] \in Plugins, e \notin shouldEnd'
             PROVE  \/ e = lastEvent'[origin'[e]]
                    \/ \E t \in Threads : /\ pc'[t] = "store" /\ fresh'[t] = e
                                          /\ PluginOf[t] = origin'[e]
  BY DEF OpenInv
<1>0. /\ DOMAIN pc = Threads \cup {ET} /\ DOMAIN fresh = Threads \cup {ET}
      /\ ET \notin Threads /\ "eg" \notin Plugins
      /\ DOMAIN origin = Events /\ DOMAIN lastEvent = Plugins
      /\ \A t \in Threads : PluginOf[t] \in Plugins
  BY ActorAssumption, PipelineAssumption DEF PInv, TypeOK, Actors
<1>o. origin[e] \in Plugins /\ e \notin shouldEnd =>
        \/ e = lastEvent[origin[e]]
        \/ \E t \in Threads : /\ pc[t] = "store" /\ fresh[t] = e
                              /\ PluginOf[t] = origin[e]
  BY DEF PInv, OpenInv
<1> USE <1>0, <1>o
<1>1. ASSUME NEW t \in Threads, Create(t)
      PROVE  e = lastEvent'[origin'[e]] \/ \E v \in Threads :
               pc'[v] = "store" /\ fresh'[v] = e /\ PluginOf[v] = origin'[e]
  <2>1. /\ pc[t] = "create" /\ pc' = [pc EXCEPT ![t] = "store"]
        /\ fresh' = [fresh EXCEPT ![t] = created']
        /\ origin' = [origin EXCEPT ![created'] = PluginOf[t]]
        /\ UNCHANGED <<lastEvent, shouldEnd>>
    BY <1>1 DEF Create, Goto
  <2>2. CASE e = created'
    BY <2>1, <2>2
  <2>3. CASE e # created'
    BY <2>1, <2>3
  <2> QED
    BY <2>2, <2>3
<1>2. ASSUME NEW t \in Threads, Store(t)
      PROVE  e = lastEvent'[origin'[e]] \/ \E v \in Threads :
               pc'[v] = "store" /\ fresh'[v] = e /\ PluginOf[v] = origin'[e]
  <2>1. /\ pc[t] = "store" /\ UNCHANGED <<origin, shouldEnd>>
        /\ lastEvent' = [lastEvent EXCEPT ![PluginOf[t]] = fresh[t]]
    BY <1>2 DEF Store, eventVars
  <2>2. lock = t /\ lastEvent[PluginOf[t]] \in shouldEnd
    BY <2>1 DEF PInv, LockInv, LastInv, HolderInv
  <2>3. \A v \in Threads : pc[v] = "store" => v = t
    BY <2>2 DEF PInv, LockInv
  <2> QED
    BY <2>1, <2>2, <2>3
<1>3. CASE \/ \E t \in Threads : Lock(t) \/ EndLastEvent(t)
           \/ \E a \in Actors : End(a)
           \/ TakeTransfer \/ Transfer
  <2>1. /\ UNCHANGED <<origin, lastEvent, fresh>> /\ shouldEnd \subseteq shouldEnd'
    BY <1>3 DEF Lock, EndLastEvent, End, TestShouldEnd, SetShouldEnd, EndIcon,
                PostUpFuncs, TakeTransfer, Transfer, eventVars
  <2>2. ASSUME NEW v \in Threads, pc[v] = "store" PROVE pc'[v] = "store"
    <3>1. CASE \E t \in Threads : Lock(t) \/ EndLastEvent(t)
      BY <2>2, <3>1 DEF Lock, EndLastEvent, Goto
    <3>2. CASE \E a \in Actors : End(a)
      <4>1. PICK a \in Actors : End(a)
        BY <3>2
      <4>2. pc[a] # "store" /\ (a # v => pc'[v] = pc[v])
        BY <4>1 DEF End, TestShouldEnd, SetShouldEnd, EndIcon, PostUpFuncs,
                    AfterEnd, Goto
      <4> QED
        BY <2>2, <4>2
    <3>3. CASE TakeTransfer \/ Transfer
      BY <2>2, <3>3 DEF TakeTransfer, Transfer, Goto
    <3> QED
      BY <1>3, <3>1, <3>2, <3>3
  <2> QED
    BY <2>1, <2>2
<1>4. CASE ExecuteInner
  <2>1. /\ UNCHANGED <<shouldEnd, lastEvent, pc, fresh>>
        /\ origin' = [origin EXCEPT ![created'] = "eg"]
    BY <1>4 DEF ExecuteInner, threadVars
  <2>2. e # created' /\ origin'[e] = origin[e]
    BY <2>1
  <2> QED
    BY <2>1, <2>2
<1>5. CASE \/ TakeUpFuncs \/ Execute \/ HandlersDone \/ InnerDone \/ Finish
           \/ AddUpFunc \/ FlushEvents \/ UNCHANGED vars
  <2>1. UNCHANGED <<created, origin>>
    BY <1>5 DEF TakeUpFuncs, Execute, HandlersDone, InnerDone, Finish, AddUpFunc,
                FlushEvents, vars, eventVars
  <2> QED
    BY <1>5, <2>1, OtherSteps
<1> QED
  BY <1>1, <1>2, <1>3, <1>4, <1>5 DEF Next, Trigger, ActionStep

-----------------------------------------------------------------------------
\* The invariant holds in every reachable state, for every configuration of
\* threads, plugins and handlers.
THEOREM PInvariance == Spec => []PInv
<1>1. PInv /\ [Next]_vars => PInv'
  BY TypeStep, LockStep, LastStep, OpenStep DEF PInv
<1> QED
  BY InitPInv, <1>1, PTL DEF Spec

\* Queues, program counters and the icon keep their types.
THEOREM PipelineTypeCorrect == Spec => []TypeOK
BY PInvariance, PTL DEF PInv

\* No plugin ever has two events that nobody told to end (OneOpenEvent), for
\* any number of threads triggering and ending events of the same plugin:
\* what gTriggerEventLock is for.
THEOREM OneOpenEventHolds == Spec => []OneOpenEvent
<1>1. PInv => OneOpenEvent
  <2> SUFFICES ASSUME PInv, NEW p \in Plugins,
                      NEW e \in OpenEvents(p), NEW f \in OpenEvents(p)
               PROVE  e = f
    BY DEF OneOpenEvent
  <2>1. \A g \in OpenEvents(p) :
          \/ g = lastEvent[p]
          \/ \E t \in Threads : pc[t] = "store" /\ fresh[t] = g /\ PluginOf[t] = p
    BY DEF PInv, OpenInv, OpenEvents
  <2>2. \A t \in Threads : pc[t] = "store" =>
          lock = t /\ lastEvent[PluginOf[t]] \in shouldEnd
    BY DEF PInv, LockInv, LastInv, HolderInv
  <2>3. e \notin shouldEnd /\ f \notin shouldEnd
    BY DEF OpenEvents
  <2> QED
    BY <2>1, <2>2, <2>3
<1> QED
  BY PInvariance, <1>1, PTL

-----------------------------------------------------------------------------
\* DoUpFuncs empties the list when it declares the event ended, and nothing is
\* added to the list of an event that has ended.
LEMMA UpFuncStep == TypeOK /\ NoForgottenUpFunc /\ [Next]_vars => NoForgottenUpFunc'
<1> SUFFICES ASSUME TypeOK, NoForgottenUpFunc, [Next]_vars PROVE NoForgottenUpFunc'
  OBVIOUS
<1> USE DEF NoForgottenUpFunc
<1>1. upFuncs \in [Ids -> Nat] /\ isEnded \subseteq Ids /\ current \in Ids
  BY DEF TypeOK
<1>2. ASSUME NEW e \in Ids, DoUpFuncs(e) PROVE NoForgottenUpFunc'
  BY <1>1, <1>2 DEF DoUpFuncs
<1>3. CASE TakeUpFuncs
  <2>1. Head(actionQueue).ev \in Ids
    BY <1>3, HeadAction DEF TypeOK, TakeUpFuncs
  <2> QED
    BY <1>2, <1>3, <2>1 DEF TakeUpFuncs
<1>4. CASE HandlersDone
  BY <1>1, <1>2, <1>4 DEF HandlersDone, SetStarted
<1>5. CASE AddUpFunc
  BY <1>1, <1>5 DEF AddUpFunc
<1>6. CASE Execute
  <2>1. \A e \in Ids : SetStarted(e) => NoForgottenUpFunc'
    BY <1>2 DEF SetStarted
  <2>2. Head(actionQueue).ev \in Ids
    BY <1>6, HeadAction DEF TypeOK, Execute
  <2> QED
    BY <1>6, <2>1, <2>2 DEF Execute
<1>7. ASSUME UNCHANGED <<upFuncs, isEnded>> PROVE NoForgottenUpFunc'
  BY <1>7
<1>8. ASSUME NEW a \in Actors, End(a) PROVE NoForgottenUpFunc'
  BY <1>7, <1>8 DEF End, TestShouldEnd, SetShouldEnd, EndIcon, PostUpFuncs
<1>9. ASSUME NEW t \in Threads, Trigger(t) PROVE NoForgottenUpFunc'
  BY <1>7, <1>9 DEF Trigger, Lock, EndLastEvent, Create, Store
<1>10. CASE \/ TakeTransfer \/ Transfer \/ InnerDone \/ Finish \/ FlushEvents
            \/ ExecuteInner \/ UNCHANGED vars
  BY <1>7, <1>10 DEF TakeTransfer, Transfer, InnerDone, Finish, FlushEvents, ExecuteInner,
                     vars
<1> QED
  BY <1>3, <1>4, <1>5, <1>6, <1>8, <1>9, <1>10 DEF Next, ActionStep

\* No up function is left in the list of an event that has ended, in whatever
\* order SetStarted, AddUpFunc and the posted DoUpFuncs come, with flushes and
\* events executed in place.
THEOREM NoForgottenUpFuncHolds == Spec => []NoForgottenUpFunc
<1>1. Init => NoForgottenUpFunc
  BY DEF Init, NoForgottenUpFunc
<1> QED
  BY <1>1, UpFuncStep, PipelineTypeCorrect, PTL DEF Spec

-----------------------------------------------------------------------------
(***************************************************************************)
(* EventsInOrder, proved for any threads, plugins, filters, listeners and  *)
(* flushes.  An event that was triggered is in one place at a time: the    *)
(* event thread's queue, the event thread's hands, the action thread's     *)
(* queue, or it has started (or was dropped).  The places are crossed in   *)
(* this order, and whatever is further along was created earlier.          *)
(*                                                                         *)
(* From the places follows when events end: OneActiveEvent, since the end  *)
(* of an event is queued before the plugin's next event; that the icon     *)
(* agrees with the pipeline (IconQuiescent); and that the pipeline         *)
(* implements the log of events (ImplementsLog).                           *)
(***************************************************************************)
Exec(e) == [do |-> "exec", ev |-> e]

\* The places.
InEventQueue == {e \in Events : \E i \in 1..Len(eventQueue) : eventQueue[i] = e}
Carried == {e \in Events : pc[ET] = "transfer" /\ target[ET] = e}
InActionQueue == {e \in Events : \E i \in 1..Len(actionQueue) : actionQueue[i] = Exec(e)}
Started == {e \in started : origin[e] \in Plugins}

Below(S, T) == \A e \in S, f \in T : e < f

\* Each queue is sorted.
SortedInv ==
  /\ \A i, j \in 1..Len(eventQueue) : i < j => eventQueue[i] < eventQueue[j]
  /\ \A i, j \in 1..Len(actionQueue) : \A e, f \in Events :
       i < j /\ actionQueue[i] = Exec(e) /\ actionQueue[j] = Exec(f) => e < f

\* The places are sorted.
StagesInv ==
  /\ Below(Started, InActionQueue) /\ Below(Started, Carried)
  /\ Below(Started, InEventQueue)
  /\ Below(InActionQueue, Carried) /\ Below(InActionQueue, InEventQueue)
  /\ Below(Carried, InEventQueue)

\* No event is lost, and none is anywhere before it was created.
PlacesInv ==
  /\ \A e \in started \cup InActionQueue \cup Carried \cup InEventQueue : e <= created
  /\ \A e \in Events : origin[e] \in Plugins =>
       e \in started \cup dropped \cup InActionQueue \cup Carried \cup InEventQueue

OInv == SortedInv /\ StagesInv /\ PlacesInv

-----------------------------------------------------------------------------
(***************************************************************************)
(* What the operations on the queues do to the places.                     *)
(***************************************************************************)

\* An event appended to the event thread's queue is in it, behind the others.
LEMMA AppendEvent ==
  ASSUME TypeOK, NEW e \in Events, eventQueue' = Append(eventQueue, e)
  PROVE  /\ InEventQueue' = InEventQueue \cup {e}
         /\ Len(eventQueue') = Len(eventQueue) + 1 /\ Len(eventQueue) \in Nat
         /\ \A i \in 1..Len(eventQueue) :
              eventQueue'[i] = eventQueue[i] /\ eventQueue[i] \in InEventQueue
         /\ eventQueue'[Len(eventQueue) + 1] = e
<1>1. /\ Len(eventQueue') = Len(eventQueue) + 1 /\ Len(eventQueue) \in Nat
      /\ \A i \in 1..Len(eventQueue) :
           eventQueue'[i] = eventQueue[i] /\ eventQueue[i] \in Events
      /\ eventQueue'[Len(eventQueue) + 1] = e
  BY DEF TypeOK
<1>2. \A i \in 1..Len(eventQueue') : i \in 1..Len(eventQueue) \/ i = Len(eventQueue) + 1
  BY <1>1
<1>3. /\ Len(eventQueue) + 1 \in 1..Len(eventQueue')
      /\ \A i \in 1..Len(eventQueue) : i \in 1..Len(eventQueue')
  BY <1>1
<1> QED
  BY <1>1, <1>2, <1>3 DEF InEventQueue

\* The head of the event thread's queue was in it, before the others.
LEMMA TakeEvent ==
  ASSUME TypeOK, eventQueue # <<>>, eventQueue' = Tail(eventQueue)
  PROVE  /\ Head(eventQueue) \in Events
         /\ InEventQueue = InEventQueue' \cup {Head(eventQueue)}
         /\ Len(eventQueue') = Len(eventQueue) - 1 /\ Len(eventQueue) \in Nat
         /\ \A i \in 1..Len(eventQueue') :
              i + 1 \in 1..Len(eventQueue) /\ eventQueue'[i] = eventQueue[i + 1]
         /\ 1 \in 1..Len(eventQueue) /\ Head(eventQueue) = eventQueue[1]
<1>1. /\ Len(eventQueue') = Len(eventQueue) - 1
      /\ Len(eventQueue) \in Nat /\ Len(eventQueue) > 0
      /\ \A i \in 1..(Len(eventQueue) - 1) : eventQueue'[i] = eventQueue[i + 1]
      /\ Head(eventQueue) = eventQueue[1] /\ Head(eventQueue) \in Events
  BY DEF TypeOK
<1>2. \A n \in Nat : n > 0 => /\ 1 \in 1..n
                              /\ \A i \in 1..(n - 1) : i + 1 \in 1..n
                              /\ \A i \in 1..n :
                                   i = 1 \/ (i - 1 \in 1..(n - 1) /\ (i - 1) + 1 = i)
  OBVIOUS
<1>3. /\ 1 \in 1..Len(eventQueue)
      /\ \A i \in 1..Len(eventQueue') :
           i + 1 \in 1..Len(eventQueue) /\ eventQueue'[i] = eventQueue[i + 1]
      /\ \A i \in 1..Len(eventQueue) :
           i = 1 \/ (i - 1 \in 1..Len(eventQueue') /\ eventQueue'[i - 1] = eventQueue[i])
  BY <1>1, <1>2
<1>4. InEventQueue = InEventQueue' \cup {Head(eventQueue)}
  BY <1>1, <1>3 DEF InEventQueue
<1> QED
  BY <1>1, <1>3, <1>4

\* An action appended to the action thread's queue is behind the others.
LEMMA AppendAction ==
  ASSUME TypeOK, NEW x \in Actions, actionQueue' = Append(actionQueue, x)
  PROVE  /\ InActionQueue' = InActionQueue \cup {e \in Events : x = Exec(e)}
         /\ Len(actionQueue') = Len(actionQueue) + 1 /\ Len(actionQueue) \in Nat
         /\ \A i \in 1..Len(actionQueue) : actionQueue'[i] = actionQueue[i]
         /\ actionQueue'[Len(actionQueue) + 1] = x
<1>1. /\ Len(actionQueue') = Len(actionQueue) + 1 /\ Len(actionQueue) \in Nat
      /\ \A i \in 1..Len(actionQueue) : actionQueue'[i] = actionQueue[i]
      /\ actionQueue'[Len(actionQueue) + 1] = x
  BY DEF TypeOK
<1>2. \A i \in 1..Len(actionQueue') : i \in 1..Len(actionQueue) \/ i = Len(actionQueue) + 1
  BY <1>1
<1>3. /\ Len(actionQueue) + 1 \in 1..Len(actionQueue')
      /\ \A i \in 1..Len(actionQueue) : i \in 1..Len(actionQueue')
  BY <1>1
<1> QED
  BY <1>1, <1>2, <1>3 DEF InActionQueue

\* The head of the action thread's queue was in it, before the others.
LEMMA TakeAction ==
  ASSUME TypeOK, actionQueue # <<>>, actionQueue' = Tail(actionQueue)
  PROVE  /\ InActionQueue = InActionQueue' \cup {e \in Events : Head(actionQueue) = Exec(e)}
         /\ \A i \in 1..Len(actionQueue') :
              i + 1 \in 1..Len(actionQueue) /\ actionQueue'[i] = actionQueue[i + 1]
         /\ 1 \in 1..Len(actionQueue) /\ Head(actionQueue) = actionQueue[1]
         /\ Len(actionQueue') \in Nat
<1>1. /\ Len(actionQueue') = Len(actionQueue) - 1
      /\ Len(actionQueue) \in Nat /\ Len(actionQueue) > 0
      /\ \A i \in 1..(Len(actionQueue) - 1) : actionQueue'[i] = actionQueue[i + 1]
      /\ Head(actionQueue) = actionQueue[1]
  BY DEF TypeOK
<1>2. \A n \in Nat : n > 0 => /\ 1 \in 1..n /\ n - 1 \in Nat
                              /\ \A i \in 1..(n - 1) : i + 1 \in 1..n
                              /\ \A i \in 1..n :
                                   i = 1 \/ (i - 1 \in 1..(n - 1) /\ (i - 1) + 1 = i)
  OBVIOUS
<1>3. /\ 1 \in 1..Len(actionQueue) /\ Len(actionQueue') \in Nat
      /\ \A i \in 1..Len(actionQueue') :
           i + 1 \in 1..Len(actionQueue) /\ actionQueue'[i] = actionQueue[i + 1]
      /\ \A i \in 1..Len(actionQueue) :
           i = 1 \/ (i - 1 \in 1..Len(actionQueue') /\ actionQueue'[i - 1] = actionQueue[i])
  BY <1>1, <1>2
<1>4. InActionQueue = InActionQueue' \cup {e \in Events : Head(actionQueue) = Exec(e)}
  BY <1>1, <1>3 DEF InActionQueue
<1> QED
  BY <1>1, <1>3, <1>4

-----------------------------------------------------------------------------
(***************************************************************************)
(* The invariant is inductive.                                             *)
(***************************************************************************)

\* The initial state satisfies the invariant.
LEMMA InitOInv == Init => OInv
<1> SUFFICES ASSUME Init PROVE OInv
  OBVIOUS
<1>1. eventQueue = <<>> /\ actionQueue = <<>> /\ started = {} /\ pc[ET] = "idle"
      /\ \A e \in Events : origin[e] \notin Plugins
  BY PipelineAssumption DEF Init, Actors, None
<1>2. InEventQueue = {} /\ Carried = {} /\ InActionQueue = {} /\ Started = {}
  BY <1>1 DEF InEventQueue, Carried, InActionQueue, Started
<1> QED
  BY <1>1, <1>2 DEF OInv, SortedInv, StagesInv, PlacesInv, Below

\* A step that moves no event keeps the invariant.
LEMMA NoMove ==
  ASSUME OInv, UNCHANGED <<eventQueue, actionQueue, started, dropped, origin, created>>,
         Carried' = Carried
  PROVE  OInv'
<1>1. InEventQueue' = InEventQueue /\ InActionQueue' = InActionQueue /\ Started' = Started
  BY DEF InEventQueue, InActionQueue, Started
<1> QED
  BY <1>1 DEF OInv, SortedInv, StagesInv, PlacesInv, Below

\* What the event thread carries depends on its own program counter only.
LEMMA SameHands ==
  ASSUME pc'[ET] = pc[ET] /\ target'[ET] = target[ET]
  PROVE  Carried' = Carried
BY DEF Carried

\* A new event is behind all others, or it is dropped.
LEMMA CreateOrder ==
  ASSUME PInv, OInv, NEW t \in Threads, Create(t)
  PROVE  OInv'
<1> DEFINE n == created + 1
<1>1. /\ created' = n /\ n \in Events /\ created \in Nat /\ t # ET
      /\ origin' = [origin EXCEPT ![n] = PluginOf[t]] /\ DOMAIN origin = Events
      /\ UNCHANGED <<actionQueue, started, target>> /\ pc'[ET] = pc[ET]
      /\ \/ eventQueue' = Append(eventQueue, n) /\ UNCHANGED dropped
         \/ dropped' = dropped \cup {n} /\ UNCHANGED eventQueue
  BY ActorAssumption, PipelineAssumption
  DEF PInv, TypeOK, Create, Goto, Actors, actionVars, Events
<1>2. \A e \in started \cup InActionQueue \cup Carried \cup InEventQueue :
        e \in Events /\ e <= created /\ e < n /\ e # n /\ e <= n
  <2>1. \A e \in Events : e \in Nat
    BY PipelineAssumption DEF Events
  <2>2. \A e \in started \cup InActionQueue \cup Carried \cup InEventQueue : e \in Events
    BY DEF PInv, TypeOK, InActionQueue, Carried, InEventQueue
  <2> QED
    BY <1>1, <2>1, <2>2 DEF OInv, PlacesInv
<1>3. Carried' = Carried /\ InActionQueue' = InActionQueue /\ Started' = Started
  <2>1. Started' = Started
    BY <1>1, <1>2 DEF Started, PInv, TypeOK
  <2> QED
    BY <1>1, <2>1 DEF Carried, InActionQueue
<1>4. CASE eventQueue' = Append(eventQueue, n) /\ UNCHANGED dropped
  <2>1. /\ InEventQueue' = InEventQueue \cup {n}
        /\ Len(eventQueue') = Len(eventQueue) + 1 /\ Len(eventQueue) \in Nat
        /\ \A i \in 1..Len(eventQueue) :
             eventQueue'[i] = eventQueue[i] /\ eventQueue[i] \in InEventQueue
        /\ eventQueue'[Len(eventQueue) + 1] = n
    BY <1>1, <1>4, AppendEvent DEF PInv
  <2>2. \A i, j \in 1..Len(eventQueue') : i < j => eventQueue'[i] < eventQueue'[j]
    <3> SUFFICES ASSUME NEW i \in 1..Len(eventQueue'), NEW j \in 1..Len(eventQueue'), i < j
                 PROVE  eventQueue'[i] < eventQueue'[j]
      OBVIOUS
    <3>1. i \in 1..Len(eventQueue) /\ (j \in 1..Len(eventQueue) \/ j = Len(eventQueue) + 1)
      BY <2>1
    <3> QED
      BY <1>2, <2>1, <3>1 DEF OInv, SortedInv
  <2>3. SortedInv'
    BY <1>1, <2>2 DEF OInv, SortedInv
  <2>4. StagesInv'
    <3>1. \A e \in Started \cup InActionQueue \cup Carried : e < n
      BY <1>2 DEF Started
    <3> QED
      BY <1>3, <2>1, <3>1 DEF OInv, StagesInv, Below
  <2>5. PlacesInv'
    <3>1. \A e \in Events : e # n => origin'[e] = origin[e]
      BY <1>1
    <3> QED
      BY <1>1, <1>2, <1>3, <1>4, <2>1, <3>1 DEF OInv, PlacesInv
  <2> QED
    BY <2>3, <2>4, <2>5 DEF OInv
<1>5. CASE dropped' = dropped \cup {n} /\ UNCHANGED eventQueue
  <2>1. InEventQueue' = InEventQueue
    BY <1>5 DEF InEventQueue
  <2>2. SortedInv' /\ StagesInv'
    BY <1>1, <1>3, <1>5, <2>1 DEF OInv, SortedInv, StagesInv, Below
  <2>3. PlacesInv'
    <3>1. \A e \in Events : e # n => origin'[e] = origin[e]
      BY <1>1
    <3> QED
      BY <1>1, <1>2, <1>3, <1>5, <2>1, <3>1 DEF OInv, PlacesInv
  <2> QED
    BY <2>2, <2>3 DEF OInv
<1> QED
  BY <1>1, <1>4, <1>5

\* The event thread takes the earliest event of its queue.
LEMMA TakeOrder ==
  ASSUME PInv, OInv, TakeTransfer
  PROVE  OInv'
<1> DEFINE h == Head(eventQueue)
<1>1. /\ eventQueue # <<>> /\ eventQueue' = Tail(eventQueue) /\ pc[ET] = "idle"
      /\ pc'[ET] = "transfer" /\ target'[ET] = h
      /\ UNCHANGED <<actionQueue, started, dropped, origin, created>>
  BY DEF TakeTransfer, Goto, PInv, TypeOK, Actors, eventVars, actionVars
<1>2. /\ h \in Events /\ InEventQueue = InEventQueue' \cup {h}
      /\ Len(eventQueue') = Len(eventQueue) - 1 /\ Len(eventQueue) \in Nat
      /\ \A i \in 1..Len(eventQueue') :
           i + 1 \in 1..Len(eventQueue) /\ eventQueue'[i] = eventQueue[i + 1]
      /\ 1 \in 1..Len(eventQueue) /\ h = eventQueue[1]
  BY <1>1, TakeEvent DEF PInv
<1>3. /\ Carried = {} /\ Carried' = {h}
      /\ InActionQueue' = InActionQueue /\ Started' = Started
  BY <1>1, <1>2 DEF Carried, InActionQueue, Started
<1>4. Below({h}, InEventQueue')
  <2>1. \A i \in 1..Len(eventQueue') : 1 < i + 1
    BY <1>2
  <2>2. \A i \in 1..Len(eventQueue') : h < eventQueue'[i]
    BY <1>2, <2>1 DEF OInv, SortedInv
  <2> QED
    BY <2>2 DEF Below, InEventQueue
<1>5. SortedInv'
  <2>1. \A i, j \in 1..Len(eventQueue') : i < j => eventQueue'[i] < eventQueue'[j]
    <3> SUFFICES ASSUME NEW i \in 1..Len(eventQueue'), NEW j \in 1..Len(eventQueue'), i < j
                 PROVE  eventQueue'[i] < eventQueue'[j]
      OBVIOUS
    <3>1. i + 1 < j + 1
      BY <1>2
    <3> QED
      BY <1>2, <3>1 DEF OInv, SortedInv
  <2> QED
    BY <1>1, <2>1 DEF OInv, SortedInv
<1>6. StagesInv'
  BY <1>2, <1>3, <1>4 DEF OInv, StagesInv, Below
<1>7. PlacesInv'
  BY <1>1, <1>2, <1>3 DEF OInv, PlacesInv
<1> QED
  BY <1>5, <1>6, <1>7 DEF OInv

\* What the event thread carried is put behind the actions of earlier events.
LEMMA TransferOrder ==
  ASSUME PInv, OInv, Transfer
  PROVE  OInv'
<1> DEFINE h == target[ET]
<1>1. /\ h \in Events /\ Exec(h) \in Actions /\ pc[ET] = "transfer"
      /\ actionQueue' = Append(actionQueue, Exec(h)) /\ pc'[ET] # "transfer"
      /\ UNCHANGED <<eventQueue, started, dropped, origin, created>>
  BY DEF Transfer, Goto, PInv, TypeOK, Actors, Actions, Exec, eventVars, actionVars
<1>2. /\ InActionQueue' = InActionQueue \cup {e \in Events : Exec(h) = Exec(e)}
      /\ Len(actionQueue') = Len(actionQueue) + 1 /\ Len(actionQueue) \in Nat
      /\ \A i \in 1..Len(actionQueue) : actionQueue'[i] = actionQueue[i]
      /\ actionQueue'[Len(actionQueue) + 1] = Exec(h)
  BY <1>1, AppendAction DEF PInv
<1>3. \A e, f : Exec(e) = Exec(f) => e = f
  BY DEF Exec
<1>4. /\ Carried = {h} /\ Carried' = {}
      /\ InActionQueue' = InActionQueue \cup {h}
      /\ InEventQueue' = InEventQueue /\ Started' = Started
  BY <1>1, <1>2, <1>3 DEF Carried, InEventQueue, Started
<1>5. SortedInv'
  <2> SUFFICES ASSUME NEW i \in 1..Len(actionQueue'), NEW j \in 1..Len(actionQueue'), i < j,
                      NEW e \in Events, NEW f \in Events,
                      actionQueue'[i] = Exec(e), actionQueue'[j] = Exec(f)
               PROVE  e < f
    BY <1>1 DEF OInv, SortedInv
  <2>1. i \in 1..Len(actionQueue) /\ (j \in 1..Len(actionQueue) \/ j = Len(actionQueue) + 1)
    BY <1>2
  <2>2. CASE j \in 1..Len(actionQueue)
    BY <1>2, <2>1, <2>2 DEF OInv, SortedInv
  <2>3. CASE j = Len(actionQueue) + 1
    <3>1. f = h /\ e \in InActionQueue
      BY <1>2, <1>3, <2>1, <2>3 DEF InActionQueue
    <3> QED
      BY <1>4, <3>1 DEF OInv, StagesInv, Below
  <2> QED
    BY <2>1, <2>2, <2>3
<1>6. StagesInv'
  BY <1>4 DEF OInv, StagesInv, Below
<1>7. PlacesInv'
  BY <1>1, <1>4 DEF OInv, PlacesInv
<1> QED
  BY <1>5, <1>6, <1>7 DEF OInv

\* A queue of actions that lost its head is still sorted.
LEMMA TailSorted ==
  ASSUME PInv, OInv, actionQueue # <<>>, actionQueue' = Tail(actionQueue),
         UNCHANGED eventQueue
  PROVE  SortedInv'
<1>1. /\ Len(actionQueue') \in Nat
      /\ \A i \in 1..Len(actionQueue') :
           i + 1 \in 1..Len(actionQueue) /\ actionQueue'[i] = actionQueue[i + 1]
  BY TakeAction DEF PInv
<1> SUFFICES ASSUME NEW i \in 1..Len(actionQueue'), NEW j \in 1..Len(actionQueue'), i < j,
                    NEW e \in Events, NEW f \in Events,
                    actionQueue'[i] = Exec(e), actionQueue'[j] = Exec(f)
             PROVE  e < f
  BY DEF OInv, SortedInv
<1>2. i + 1 < j + 1
  BY <1>1
<1> QED
  BY <1>1, <1>2 DEF OInv, SortedInv

\* The action thread starts, or drops, the earliest event of its queue.
LEMMA ExecuteOrder ==
  ASSUME PInv, OInv, Execute
  PROVE  OInv'
<1> DEFINE h == Head(actionQueue).ev
<1>1. /\ actionQueue # <<>> /\ actionQueue' = Tail(actionQueue)
      /\ h \in Events /\ Head(actionQueue) = Exec(h)
      /\ \/ started' = started /\ dropped' = dropped \cup {h}
         \/ started' = started \cup {h} /\ dropped' = dropped
      /\ UNCHANGED <<eventQueue, pc, target, origin, created>>
  <2>1. actionQueue # <<>> /\ Head(actionQueue).do = "exec"
    BY DEF Execute
  <2>2. Head(actionQueue) \in Actions
    BY <2>1 DEF PInv, TypeOK
  <2>3. h \in Events /\ Head(actionQueue) = Exec(h)
    BY <2>1, <2>2 DEF Actions, Exec
  <2> QED
    BY <2>1, <2>3 DEF Execute, actionVars, threadVars, eventVars
<1>2. /\ InActionQueue = InActionQueue' \cup {e \in Events : Exec(h) = Exec(e)}
      /\ \A i \in 1..Len(actionQueue') :
           i + 1 \in 1..Len(actionQueue) /\ actionQueue'[i] = actionQueue[i + 1]
      /\ 1 \in 1..Len(actionQueue) /\ Exec(h) = actionQueue[1]
      /\ Len(actionQueue') \in Nat
  BY <1>1, TakeAction DEF PInv
<1>3. \A e, f : Exec(e) = Exec(f) => e = f
  BY DEF Exec
<1>4. /\ InActionQueue = InActionQueue' \cup {h}
      /\ Carried' = Carried /\ InEventQueue' = InEventQueue
      /\ Started' \subseteq Started \cup {h}
  BY <1>1, <1>2, <1>3 DEF Carried, InEventQueue, Started
<1>5. Below({h}, InActionQueue')
  <2>1. \A i \in 1..Len(actionQueue') : 1 < i + 1
    BY <1>2
  <2>2. \A i \in 1..Len(actionQueue') : \A f \in Events : actionQueue'[i] = Exec(f) => h < f
    BY <1>1, <1>2, <2>1 DEF OInv, SortedInv
  <2> QED
    BY <2>2 DEF Below, InActionQueue
<1>6. SortedInv'
  BY <1>1, TailSorted
<1>7. StagesInv'
  BY <1>4, <1>5 DEF OInv, StagesInv, Below
<1>8. PlacesInv'
  BY <1>1, <1>4 DEF OInv, PlacesInv
<1> QED
  BY <1>6, <1>7, <1>8 DEF OInv

\* DoUpFuncs is posted and taken between the events.
LEMMA UpFuncOrder ==
  ASSUME PInv, OInv, TakeUpFuncs \/ \E a \in Actors : PostUpFuncs(a)
  PROVE  OInv'
<1>1. \A e, x : x.do = "up" => x # Exec(e)
  BY DEF Exec
<1>2. ASSUME SortedInv', InActionQueue' = InActionQueue, Carried' = Carried,
             UNCHANGED <<eventQueue, started, dropped, origin, created>>
      PROVE  OInv'
  BY <1>2 DEF OInv, StagesInv, PlacesInv, Below, InEventQueue, Started
<1>3. CASE TakeUpFuncs
  <2>1. /\ actionQueue # <<>> /\ actionQueue' = Tail(actionQueue)
        /\ Head(actionQueue).do = "up"
        /\ UNCHANGED <<eventQueue, started, dropped, origin, created, pc, target>>
    BY <1>3 DEF TakeUpFuncs, eventVars, threadVars, actionVars
  <2>2. InActionQueue' = InActionQueue
    BY <1>1, <2>1, TakeAction DEF PInv
  <2> QED
    BY <1>2, <2>1, <2>2, TailSorted DEF Carried
<1>4. ASSUME NEW a \in Actors, PostUpFuncs(a) PROVE OInv'
  <2> DEFINE x == [do |-> "up", ev |-> target[a]]
  <2>1. /\ x \in Actions /\ actionQueue' = Append(actionQueue, x) /\ x.do = "up"
        /\ pc[a] = "post" /\ AfterEnd(a)
        /\ UNCHANGED <<eventQueue, started, dropped, origin, created>>
    BY <1>4 DEF PostUpFuncs, PInv, TypeOK, Actions, eventVars, actionVars
  <2>2. Carried' = Carried
    BY <2>1 DEF AfterEnd, Goto, Carried, PInv, TypeOK, Actors
  <2>3. /\ InActionQueue' = InActionQueue
        /\ Len(actionQueue') = Len(actionQueue) + 1 /\ Len(actionQueue) \in Nat
        /\ \A i \in 1..Len(actionQueue) : actionQueue'[i] = actionQueue[i]
        /\ actionQueue'[Len(actionQueue) + 1] = x
    BY <1>1, <2>1, AppendAction DEF PInv
  <2>4. SortedInv'
    <3> SUFFICES ASSUME NEW i \in 1..Len(actionQueue'), NEW j \in 1..Len(actionQueue'),
                        i < j, NEW e \in Events, NEW f \in Events,
                        actionQueue'[i] = Exec(e), actionQueue'[j] = Exec(f)
                 PROVE  e < f
      BY <2>1 DEF OInv, SortedInv
    <3>1. /\ i \in 1..Len(actionQueue) \/ i = Len(actionQueue) + 1
          /\ j \in 1..Len(actionQueue) \/ j = Len(actionQueue) + 1
      BY <2>3
    <3>2. i \in 1..Len(actionQueue) /\ j \in 1..Len(actionQueue)
      BY <1>1, <2>1, <2>3, <3>1
    <3> QED
      BY <2>3, <3>2 DEF OInv, SortedInv
  <2> QED
    BY <1>2, <2>1, <2>2, <2>3, <2>4
<1> QED
  BY <1>3, <1>4

\* A flush empties both queues into what was dropped.
LEMMA FlushOrder ==
  ASSUME PInv, OInv, FlushEvents
  PROVE  OInv'
<1>1. /\ eventQueue' = <<>> /\ actionQueue' = <<>>
      /\ UNCHANGED <<started, origin, created, pc, target>>
      /\ dropped' = dropped \cup {eventQueue[i] : i \in 1..Len(eventQueue)}
                            \cup InActionQueue
  BY DEF FlushEvents, eventVars, threadVars, actionVars, InActionQueue, Exec
<1>2. InEventQueue \subseteq dropped' /\ InActionQueue \subseteq dropped'
      /\ dropped \subseteq dropped'
  BY <1>1 DEF InEventQueue
<1>3. /\ InEventQueue' = {} /\ InActionQueue' = {}
      /\ Carried' = Carried /\ Started' = Started
  BY <1>1 DEF InEventQueue, InActionQueue, Carried, Started
<1>4. SortedInv'
  BY <1>1 DEF SortedInv
<1>5. StagesInv'
  BY <1>3 DEF OInv, StagesInv, Below
<1>6. PlacesInv'
  BY <1>1, <1>2, <1>3 DEF OInv, PlacesInv
<1> QED
  BY <1>4, <1>5, <1>6 DEF OInv

\* An event executed in place is not a plugin's, and in none of the places.
LEMMA InnerOrder ==
  ASSUME PInv, OInv, ExecuteInner
  PROVE  OInv'
<1> DEFINE n == created + 1
<1>1. /\ created' = n /\ n \in Events /\ created \in Nat
      /\ origin' = [origin EXCEPT ![n] = "eg"] /\ DOMAIN origin = Events
      /\ "eg" \notin Plugins /\ started' = started \cup {n}
      /\ UNCHANGED <<eventQueue, actionQueue, dropped, pc, target>>
  BY PipelineAssumption DEF PInv, TypeOK, ExecuteInner, threadVars, Events
<1>2. \A e \in started \cup InActionQueue \cup Carried \cup InEventQueue :
        e \in Events /\ e # n /\ e <= n
  <2>1. \A e \in Events : e \in Nat
    BY PipelineAssumption DEF Events
  <2>2. \A e \in started \cup InActionQueue \cup Carried \cup InEventQueue : e \in Events
    BY DEF PInv, TypeOK, InActionQueue, Carried, InEventQueue
  <2> QED
    BY <1>1, <2>1, <2>2 DEF OInv, PlacesInv
<1>3. /\ origin'[n] = "eg" /\ n <= n
      /\ \A e \in Events : e # n => origin'[e] = origin[e]
  BY <1>1
<1>4. /\ Carried' = Carried /\ InActionQueue' = InActionQueue
      /\ InEventQueue' = InEventQueue /\ Started' = Started
  <2>1. Started' = Started
    BY <1>1, <1>2, <1>3 DEF Started
  <2> QED
    BY <1>1, <2>1 DEF Carried, InActionQueue, InEventQueue
<1>5. SortedInv' /\ StagesInv'
  BY <1>1, <1>4 DEF OInv, SortedInv, StagesInv, Below
<1>6. PlacesInv'
  BY <1>1, <1>2, <1>3, <1>4 DEF OInv, PlacesInv
<1> QED
  BY <1>5, <1>6 DEF OInv

\* Every step keeps the invariant.
LEMMA OStep == PInv /\ OInv /\ [Next]_vars => OInv'
<1> SUFFICES ASSUME PInv, OInv, [Next]_vars PROVE OInv'
  OBVIOUS
<1>0. /\ DOMAIN pc = Threads \cup {ET} /\ DOMAIN target = Threads \cup {ET}
      /\ ET \notin Threads
  BY ActorAssumption DEF PInv, TypeOK, Actors
<1>1. ASSUME NEW t \in Threads, Lock(t) \/ EndLastEvent(t) \/ Store(t) PROVE OInv'
  <2>1. /\ UNCHANGED <<eventQueue, actionQueue, started, dropped, origin, created>>
        /\ pc'[ET] = pc[ET] /\ target'[ET] = target[ET]
    BY <1>0, <1>1 DEF Lock, EndLastEvent, Store, Goto, eventVars, actionVars
  <2> QED
    BY <2>1, SameHands, NoMove
<1>2. ASSUME NEW a \in Actors, TestShouldEnd(a) \/ SetShouldEnd(a) \/ EndIcon(a)
      PROVE  OInv'
  <2>1. /\ UNCHANGED <<eventQueue, actionQueue, started, dropped, origin, created>>
        /\ pc[a] # "transfer"
        /\ \/ AfterEnd(a)
           \/ /\ UNCHANGED target
              /\ \E l \in {"set", "icon", "post"} : pc' = [pc EXCEPT ![a] = l]
    BY <1>2 DEF TestShouldEnd, SetShouldEnd, EndIcon, Goto, eventVars, actionVars
  <2>2. Carried' = Carried
    BY <1>0, <2>1 DEF AfterEnd, Goto, Carried
  <2> QED
    BY <2>1, <2>2, NoMove
<1>3. CASE HandlersDone \/ InnerDone \/ Finish \/ AddUpFunc \/ UNCHANGED vars
  <2>1. UNCHANGED <<eventQueue, actionQueue, started, dropped, origin, created, pc, target>>
    BY <1>3 DEF HandlersDone, InnerDone, Finish, AddUpFunc, vars, eventVars,
                threadVars, actionVars
  <2> QED
    BY <2>1, SameHands, NoMove
<1> QED
  BY <1>1, <1>2, <1>3, CreateOrder, TakeOrder, TransferOrder, ExecuteOrder, UpFuncOrder,
     FlushOrder, InnerOrder
  DEF Next, Trigger, End, ActionStep

\* An event starts only when the plugins' earlier events have started or were
\* dropped (EventsInOrder), for any number of threads and plugins: what two
\* FIFO queues in a row, each with one taker, are for.
THEOREM EventsInOrderHolds == Spec => []EventsInOrder
<1>1. PInv /\ OInv => EventsInOrder
  <2> SUFFICES ASSUME PInv, OInv, NEW e \in Events, NEW f \in Events, e < f,
                      f \in started, origin[e] \in Plugins, origin[f] \in Plugins,
                      e \notin started, e \notin dropped
               PROVE  FALSE
    BY DEF EventsInOrder
  <2>1. e \in Nat /\ f \in Nat
    BY PipelineAssumption DEF Events
  <2>2. f \in Started /\ e \in InActionQueue \cup Carried \cup InEventQueue
    BY DEF Started, OInv, PlacesInv
  <2>3. f < e
    BY <2>2 DEF OInv, StagesInv, Below
  <2> QED
    BY <2>1, <2>3
<1> QED
  BY <1>1, InitOInv, OStep, PInvariance, PTL DEF Spec

-----------------------------------------------------------------------------
(***************************************************************************)
(* OneActiveEvent, when nothing is flushed and a thread that ends a        *)
(* plugin's events triggers all of them too; and the icon at rest, when    *)
(* no event is executed in place.                                          *)
(***************************************************************************)
OwnEnders ==
  \A t \in Enders, u \in Threads : PluginOf[u] = PluginOf[t] => u = t

Up(e) == [do |-> "up", ev |-> e]
UpQueued(e) == \E i \in 1..Len(actionQueue) : actionQueue[i] = Up(e)
InWork(a, e) == pc[a] \in {"icon", "post"} /\ target[a] = e

\* An event that was told to end has ended or is going to.
AnnouncedInv ==
  \A e \in Events : e \in shouldEnd =>
    e \in isEnded \/ UpQueued(e) \/ \E a \in Actors : InWork(a, e)

\* A thread ends events of its own plugin only; only Enders end them without
\* the lock.
OwnInv ==
  /\ \A e \in Events : origin[e] # None <=> e <= created
  /\ \A p \in Plugins : lastEvent[p] \in Events => origin[lastEvent[p]] = p
  /\ \A t \in Threads :
       /\ op[t] = "end" => t \in Enders
       /\ pc[t] \in {"test", "set", "icon", "post"} /\ target[t] \in Events =>
            origin[target[t]] = PluginOf[t]

Earlier(e, f) == e < f /\ origin[e] = origin[f] /\ origin[e] \in Plugins

\* When an event was created, the end of its plugin's earlier events had been
\* posted, unless the event thread was about to, which transfers events only
\* after that.
PastInv ==
  \A e, f \in Events : Earlier(e, f) =>
    e \in isEnded \/ UpQueued(e) \/ InWork(ET, e)

\* So in the action thread's queue the end of the one comes before the other.
BeforeInv ==
  \A e, f \in Events : Earlier(e, f) =>
    \A j \in 1..Len(actionQueue) : actionQueue[j] = Exec(f) =>
      e \in isEnded \/ \E i \in 1..Len(actionQueue) : i < j /\ actionQueue[i] = Up(e)

\* And it has come when the other starts.
EndedInv == \A e \in Events, f \in started : Earlier(e, f) => e \in isEnded

EInv == AnnouncedInv /\ OwnInv /\ PastInv /\ BeforeInv /\ EndedInv

\* What the icon shows, and for whom.
IconInv ==
  /\ \A e \in 1..created : origin[e] \in Plugins
  /\ apc # "idle" => /\ apc # "inner" /\ current \in 1..created
                     /\ currentEvent = current /\ processingEvent = current
  /\ apc = "idle" => processingEvent = NoEvent
  /\ apc = "idle" /\ currentState # 0 =>
       /\ currentEvent \in 1..created
       /\ \/ currentEvent \notin shouldEnd
          \/ \E a \in Actors : pc[a] = "icon" /\ target[a] = currentEvent

\* What no step takes back: the end of an event that was posted or is about to
\* be, until it has come.
LEMMA EndGoesOn ==
  ASSUME TypeOK, LockInv, ~Flush, [Next]_vars, NEW e \in Ids
  PROVE  /\ isEnded \subseteq isEnded'
         /\ UpQueued(e) => e \in isEnded' \/ UpQueued(e)'
         /\ \A a \in Actors : InWork(a, e) => InWork(a, e)' \/ UpQueued(e)'
<1>0. /\ DOMAIN pc = Actors /\ DOMAIN target = Actors /\ ET \notin Threads
      /\ Threads \subseteq Actors /\ ET \in Actors
  BY ActorAssumption DEF TypeOK, Actors
<1>1. isEnded \subseteq isEnded'
  BY DEF Next, Trigger, Lock, EndLastEvent, Create, Store, End, TestShouldEnd, SetShouldEnd,
         EndIcon, PostUpFuncs, TakeTransfer, Transfer, ActionStep, TakeUpFuncs, Execute,
         SetStarted, DoUpFuncs, HandlersDone, InnerDone, Finish, AddUpFunc, FlushEvents,
         ExecuteInner, vars
<1>2. ASSUME UNCHANGED actionQueue PROVE UpQueued(e) => UpQueued(e)'
  BY <1>2 DEF UpQueued
<1>3. ASSUME NEW x \in Actions, actionQueue' = Append(actionQueue, x)
      PROVE  /\ UpQueued(e) => UpQueued(e)'
             /\ x = Up(e) => UpQueued(e)'
  <2>1. /\ Len(actionQueue') = Len(actionQueue) + 1 /\ Len(actionQueue) \in Nat
        /\ \A i \in 1..Len(actionQueue) : actionQueue'[i] = actionQueue[i]
        /\ actionQueue'[Len(actionQueue) + 1] = x
    BY <1>3, AppendAction
  <2>2. /\ Len(actionQueue) + 1 \in 1..Len(actionQueue')
        /\ \A i \in 1..Len(actionQueue) : i \in 1..Len(actionQueue')
    BY <2>1
  <2> QED
    BY <2>1, <2>2 DEF UpQueued
<1>4. ASSUME NEW a \in Actors, PostUpFuncs(a)
      PROVE  /\ UpQueued(e) => UpQueued(e)'
             /\ InWork(a, e) => UpQueued(e)'
  <2>1. Up(target[a]) \in Actions /\ actionQueue' = Append(actionQueue, Up(target[a]))
    BY <1>4 DEF PostUpFuncs, Up, Actions, TypeOK
  <2> QED
    BY <1>3, <2>1 DEF InWork
<1>5. CASE Transfer
  <2>1. Exec(target[ET]) \in Actions /\ actionQueue' = Append(actionQueue, Exec(target[ET]))
    BY <1>5 DEF Transfer, Exec, Actions, TypeOK
  <2> QED
    BY <1>0, <1>1, <1>3, <1>5, <2>1 DEF Transfer, InWork, Goto
<1>6. CASE TakeUpFuncs \/ Execute
  <2>1. /\ actionQueue # <<>> /\ actionQueue' = Tail(actionQueue)
        /\ TakeUpFuncs => isEnded' = isEnded \cup {Head(actionQueue).ev}
        /\ Execute => Head(actionQueue).do = "exec"
        /\ UNCHANGED <<pc, target>>
    BY <1>6 DEF TakeUpFuncs, Execute, DoUpFuncs, threadVars
  <2>2. Head(actionQueue) = actionQueue[1]
    BY <2>1, TakeAction
  <2>3. \A i \in 1..Len(actionQueue) : i = 1 \/ (i - 1 \in 1..Len(actionQueue')
                                                /\ actionQueue'[i - 1] = actionQueue[i])
    BY <2>1 DEF TypeOK
  <2>4. ASSUME NEW i \in 1..Len(actionQueue), actionQueue[i] = Up(e)
        PROVE  e \in isEnded' \/ UpQueued(e)'
    <3>1. CASE i = 1
      BY <1>6, <2>1, <2>2, <2>4, <3>1 DEF Up
    <3>2. CASE i # 1
      BY <2>3, <2>4, <3>2 DEF UpQueued
    <3> QED
      BY <3>1, <3>2
  <2> QED
    BY <1>1, <2>1, <2>4 DEF UpQueued, InWork
<1>7. ASSUME NEW t \in Threads, Trigger(t)
      PROVE  UNCHANGED actionQueue /\ \A a \in Actors : InWork(a, e) => InWork(a, e)'
  BY <1>0, <1>7 DEF Trigger, Lock, EndLastEvent, Create, Store, InWork, Goto
<1>8. ASSUME NEW a \in Actors, TestShouldEnd(a) \/ SetShouldEnd(a) \/ EndIcon(a)
      PROVE  UNCHANGED actionQueue /\ \A b \in Actors : InWork(b, e) => InWork(b, e)'
  BY <1>0, <1>8 DEF TestShouldEnd, SetShouldEnd, EndIcon, AfterEnd, InWork, Goto
<1>9. ASSUME NEW a \in Actors, PostUpFuncs(a), NEW b \in Actors, b # a, InWork(b, e)
      PROVE  InWork(b, e)'
  BY <1>0, <1>9 DEF PostUpFuncs, AfterEnd, InWork, Goto
<1>10. CASE TakeTransfer
  BY <1>0, <1>1, <1>2, <1>10 DEF TakeTransfer, InWork, Goto
<1>11. CASE \/ HandlersDone \/ InnerDone \/ Finish \/ AddUpFunc \/ ExecuteInner
            \/ UNCHANGED vars
  BY <1>1, <1>2, <1>11 DEF HandlersDone, InnerDone, Finish, AddUpFunc, ExecuteInner, vars,
                           threadVars, InWork
<1>12. ~FlushEvents
  BY DEF FlushEvents
<1> QED
  BY <1>1, <1>2, <1>4, <1>5, <1>6, <1>7, <1>8, <1>9, <1>10, <1>11, <1>12
  DEF Next, End, ActionStep

\* Whoever tells an event to end is on the way to post its end.
LEMMA AnnouncedStep ==
  TypeOK /\ LockInv /\ ~Flush /\ AnnouncedInv /\ [Next]_vars => AnnouncedInv'
<1> SUFFICES ASSUME TypeOK, LockInv, ~Flush, AnnouncedInv, [Next]_vars,
                    NEW e \in Events, e \in shouldEnd'
             PROVE  e \in isEnded' \/ UpQueued(e)' \/ \E a \in Actors : InWork(a, e)'
  BY DEF AnnouncedInv
<1>1. e \in Ids
  BY PipelineAssumption DEF Events, Ids
<1>2. CASE e \in shouldEnd
  <2>1. e \in isEnded \/ UpQueued(e) \/ \E a \in Actors : InWork(a, e)
    BY <1>2 DEF AnnouncedInv
  <2> QED
    BY <1>1, <2>1, EndGoesOn
<1>3. CASE e \notin shouldEnd
  <2>1. \E a \in Actors : SetShouldEnd(a)
    BY <1>3 DEF Next, Trigger, Lock, EndLastEvent, Create, Store, End, TestShouldEnd,
         EndIcon, PostUpFuncs, TakeTransfer, Transfer, ActionStep, TakeUpFuncs, Execute,
         HandlersDone, InnerDone, Finish, AddUpFunc, FlushEvents, ExecuteInner, vars
  <2>2. PICK a \in Actors : SetShouldEnd(a)
    BY <2>1
  <2>3. target[a] = e /\ target'[a] = e /\ pc'[a] = "icon"
    BY <1>3, <2>2 DEF SetShouldEnd, Goto, TypeOK
  <2> QED
    BY <2>3 DEF InWork
<1> QED
  BY <1>2, <1>3

\* Where an event comes from is settled when it is created.
LEMMA Origins ==
  ASSUME TypeOK, OwnInv, [Next]_vars
  PROVE  /\ \A e \in Events : e <= created => origin'[e] = origin[e] /\ e <= created'
         /\ \/ UNCHANGED <<origin, created>>
            \/ /\ ExecuteInner \/ \E t \in Threads : Create(t)
               /\ created' = created + 1 /\ created' \in Events
               /\ \E o \in Plugins \cup {"eg"} : origin' = [origin EXCEPT ![created'] = o]
<1>1. ASSUME ExecuteInner \/ \E t \in Threads : Create(t)
      PROVE  /\ created' = created + 1 /\ created' \in Events /\ created \in Nat
             /\ \E o \in Plugins \cup {"eg"} : origin' = [origin EXCEPT ![created'] = o]
  BY <1>1, PipelineAssumption DEF ExecuteInner, Create, TypeOK, Events
<1>2. ASSUME ~(ExecuteInner \/ \E t \in Threads : Create(t))
      PROVE  UNCHANGED <<origin, created>>
  BY <1>2 DEF Next, Trigger, Lock, EndLastEvent, Store, End, TestShouldEnd, SetShouldEnd,
         EndIcon, PostUpFuncs, TakeTransfer, Transfer, ActionStep, TakeUpFuncs, Execute,
         HandlersDone, InnerDone, Finish, AddUpFunc, FlushEvents, vars, eventVars
<1>3. DOMAIN origin = Events /\ created \in Nat /\ \A e \in Events : e \in Nat
  BY PipelineAssumption DEF TypeOK, Events
<1>4. \A e \in Events : e <= created => e # created + 1 /\ e <= created + 1
  BY <1>3
<1> QED
  BY <1>1, <1>2, <1>3, <1>4

\* Threads end their own plugin's events, with the lock or as Enders.
LEMMA OwnStep ==
  TypeOK /\ TypeOK' /\ LockInv /\ LastInv /\ OwnInv /\ [Next]_vars => OwnInv'
<1> SUFFICES ASSUME TypeOK, TypeOK', LockInv, LastInv, OwnInv, [Next]_vars PROVE OwnInv'
  OBVIOUS
<1>0. /\ DOMAIN pc = Actors /\ DOMAIN target = Actors /\ DOMAIN op = Actors
      /\ ET \notin Threads /\ Threads \subseteq Actors /\ ET \in Actors
      /\ \A t \in Threads : PluginOf[t] \in Plugins
      /\ DOMAIN lastEvent = Plugins
  BY ActorAssumption, PipelineAssumption DEF TypeOK, Actors
<1>d. /\ created \in Nat /\ (\A e \in Events : e \in Nat) /\ DOMAIN origin = Events
      /\ None \notin Plugins \cup {"eg"} /\ Dummy \notin Events
  BY PipelineAssumption DEF TypeOK, None, Dummy, Events
<1>1. \A e \in Events : origin'[e] # None <=> e <= created'
  <2>1. CASE UNCHANGED <<origin, created>>
    BY <2>1 DEF OwnInv
  <2>2. ASSUME NEW o \in Plugins \cup {"eg"}, created' = created + 1,
               origin' = [origin EXCEPT ![created'] = o], NEW e \in Events
        PROVE  origin'[e] # None <=> e <= created'
    <3>1. CASE e = created'
      <4>1. origin'[e] = o
        BY <1>d, <2>2, <3>1
      <4> QED
        BY <1>d, <2>2, <3>1, <4>1
    <3>2. CASE e # created'
      <4>1. origin'[e] = origin[e]
        BY <1>d, <2>2, <3>2
      <4>2. e <= created <=> e <= created'
        BY <1>d, <2>2, <3>2
      <4> QED
        BY <4>1, <4>2 DEF OwnInv
    <3> QED
      BY <3>1, <3>2
  <2> QED
    BY <2>1, <2>2, Origins
<1>2. \A e \in Events, p \in Plugins : origin[e] = p => origin'[e] = p
  BY <1>d, Origins DEF OwnInv
<1>3. \A p \in Plugins : lastEvent'[p] \in Events => origin'[lastEvent'[p]] = p
  <2>1. CASE UNCHANGED lastEvent
    BY <1>2, <2>1 DEF OwnInv
  <2>2. ASSUME NEW t \in Threads, Store(t)
        PROVE  \A p \in Plugins : lastEvent'[p] \in Events => origin'[lastEvent'[p]] = p
    <3>1. origin[fresh[t]] = PluginOf[t]
      BY <2>2 DEF Store, LockInv, LastInv, HolderInv
    <3>2. lastEvent' = [lastEvent EXCEPT ![PluginOf[t]] = fresh[t]]
      BY <2>2 DEF Store
    <3>3. UNCHANGED origin
      BY <2>2 DEF Store, eventVars
    <3> QED
      BY <1>0, <3>1, <3>2, <3>3 DEF OwnInv
  <2>3. UNCHANGED lastEvent \/ \E t \in Threads : Store(t)
    BY DEF Next, Trigger, Lock, EndLastEvent, Create, End, TestShouldEnd, SetShouldEnd,
         EndIcon, PostUpFuncs, TakeTransfer, Transfer, ActionStep, TakeUpFuncs, Execute,
         HandlersDone, InnerDone, Finish, AddUpFunc, FlushEvents, ExecuteInner, vars, threadVars
  <2> QED
    BY <2>1, <2>2, <2>3
<1> DEFINE Steps == {"test", "set", "icon", "post"}
           Own(t) == /\ op[t] = "end" => t \in Enders
                     /\ pc[t] \in Steps /\ target[t] \in Events =>
                          origin[target[t]] = PluginOf[t]
<1>4. ASSUME NEW t \in Threads PROVE Own(t)'
  <2>0. Own(t)
    BY DEF OwnInv
  <2>1. ASSUME op'[t] = op[t] \/ op'[t] \in {None, "trigger", "enduring"},
               (pc'[t] \in Steps => pc[t] \in Steps /\ target'[t] = target[t])
               \/ target'[t] = lastEvent[PluginOf[t]]
        PROVE  Own(t)'
    <3>1. op'[t] = "end" => t \in Enders
      BY <2>0, <2>1 DEF None
    <3>2. pc'[t] \in Steps /\ target'[t] \in Events => origin[target'[t]] = PluginOf[t]
      BY <1>0, <1>d, <2>0, <2>1 DEF OwnInv
    <3> QED
      BY <1>0, <1>2, <3>1, <3>2
  <2>2. ASSUME NEW u \in Threads, Trigger(u) PROVE Own(t)'
    <3>1. CASE EndLastEvent(u)
      <4>1. op'[t] = "end" => t \in Enders
        BY <1>0, <2>0, <3>1 DEF EndLastEvent
      <4>2. /\ target'[t] = target[t] /\ pc'[t] = pc[t]
            \/ target'[t] = lastEvent[PluginOf[t]]
        BY <1>0, <3>1 DEF EndLastEvent, Goto
      <4>3. pc'[t] \in Steps /\ target'[t] \in Events => origin[target'[t]] = PluginOf[t]
        BY <1>0, <1>d, <2>0, <4>2 DEF OwnInv
      <4> QED
        BY <1>0, <1>2, <4>1, <4>3
    <3>2. CASE Lock(u)
      BY <1>0, <1>d, <2>1, <3>2 DEF Lock, Goto
    <3>3. CASE Create(u) \/ Store(u)
      BY <1>0, <2>1, <3>3 DEF Create, Store, Goto
    <3> QED
      BY <2>2, <3>1, <3>2, <3>3 DEF Trigger
  <2>3. ASSUME NEW a \in Actors, End(a) PROVE Own(t)'
    BY <1>0, <2>1, <2>3 DEF End, TestShouldEnd, SetShouldEnd, EndIcon, PostUpFuncs, AfterEnd, Goto
  <2>4. CASE TakeTransfer \/ Transfer
    BY <1>0, <2>1, <2>4 DEF TakeTransfer, Transfer, Goto
  <2>5. CASE \/ TakeUpFuncs \/ Execute \/ HandlersDone \/ InnerDone \/ Finish
             \/ AddUpFunc \/ FlushEvents \/ ExecuteInner \/ UNCHANGED vars
    BY <2>1, <2>5, OtherSteps
  <2> QED
    BY <2>2, <2>3, <2>4, <2>5 DEF Next, ActionStep
<1> QED
  BY <1>1, <1>3, <1>4 DEF OwnInv

\* When a thread comes to create an event, the earlier ones of its plugin have
\* ended, or their end is posted or is the event thread's next step.
LEMMA PastStep ==
  TypeOK /\ LockInv /\ LastInv /\ OpenInv /\ AnnouncedInv /\ OwnInv /\ PastInv
    /\ OwnEnders /\ ~Flush /\ [Next]_vars => PastInv'
<1> SUFFICES ASSUME TypeOK, LockInv, LastInv, OpenInv, AnnouncedInv, OwnInv, PastInv,
                    OwnEnders, ~Flush, [Next]_vars,
                    NEW e \in Events, NEW f \in Events, Earlier(e, f)'
             PROVE  e \in isEnded' \/ UpQueued(e)' \/ InWork(ET, e)'
  BY DEF PastInv
<1>0. /\ e < f /\ origin'[e] = origin'[f] /\ origin'[e] \in Plugins
      /\ e \in Nat /\ f \in Nat /\ created \in Nat /\ e \in Ids /\ ET \in Actors
      /\ "eg" \notin Plugins /\ None \notin Plugins
  BY PipelineAssumption DEF Earlier, Events, Ids, TypeOK, Actors, None
<1>1. SUFFICES e \in isEnded \/ UpQueued(e) \/ InWork(ET, e)
  BY <1>0, EndGoesOn
<1>2. CASE f <= created
  <2>1. origin'[e] = origin[e] /\ origin'[f] = origin[f]
    BY <1>0, <1>2, Origins
  <2> QED
    BY <1>0, <2>1 DEF PastInv, Earlier
<1>3. CASE f > created
  <2>1. origin[f] = None
    BY <1>0, <1>3 DEF OwnInv
  <2>2. PICK t \in Threads : Create(t)
    <3>1. CASE UNCHANGED <<origin, created>>
      BY <1>0, <2>1, <3>1
    <3>2. CASE ExecuteInner
      BY <1>0, <2>1, <3>2 DEF ExecuteInner, TypeOK
    <3> QED
      BY <3>1, <3>2, Origins
  <2>3. /\ origin' = [origin EXCEPT ![created + 1] = PluginOf[t]] /\ pc[t] = "create"
        /\ f = created + 1 /\ e <= created /\ e # created + 1
    BY <1>0, <2>1, <2>2 DEF Create, TypeOK
  <2>4. origin[e] = PluginOf[t] /\ lock = t /\ lastEvent[PluginOf[t]] \in shouldEnd
    BY <1>0, <2>3 DEF TypeOK, LockInv, LastInv, HolderInv
  <2>5. e \in shouldEnd
    <3>1. \A u \in Threads : pc[u] = "store" => u = t
      BY <2>4 DEF LockInv
    <3> QED
      BY <1>0, <2>3, <2>4, <3>1 DEF OpenInv
  <2>6. ASSUME NEW u \in Threads, InWork(u, e) PROVE FALSE
    <3>1. origin[e] = PluginOf[u] /\ pc[u] \in {"icon", "post"}
      BY <2>6 DEF InWork, OwnInv
    <3>2. u # t
      BY <2>3, <3>1
    <3>3. op[u] = "end"
      BY <2>4, <3>1, <3>2 DEF LockInv, TypeOK, Actors
    <3> QED
      BY <2>4, <3>1, <3>2, <3>3 DEF OwnInv, OwnEnders
  <2> QED
    BY <2>5, <2>6 DEF AnnouncedInv, Actors
<1> QED
  BY <1>0, <1>2, <1>3

\* Two events of one plugin that are related after a step, and both were
\* created, were related before it.
LEMMA EarlierOnes ==
  ASSUME TypeOK, OwnInv, [Next]_vars, NEW e \in Events, NEW f \in Events,
         Earlier(e, f)', f <= created
  PROVE  Earlier(e, f)
<1>1. e < f /\ e \in Nat /\ f \in Nat /\ created \in Nat
  BY PipelineAssumption DEF Earlier, Events, TypeOK
<1>2. e <= created
  BY <1>1
<1> QED
  BY <1>2, Origins DEF Earlier

\* The end of an event is queued before the plugin's next event.
LEMMA BeforeStep ==
  TypeOK /\ LockInv /\ PlacesInv /\ OwnInv /\ PastInv /\ BeforeInv /\ ~Flush /\ [Next]_vars
    => BeforeInv'
<1> SUFFICES ASSUME TypeOK, LockInv, PlacesInv, OwnInv, PastInv, BeforeInv, ~Flush, [Next]_vars,
                    NEW e \in Events, NEW f \in Events, Earlier(e, f)',
                    NEW j \in 1..Len(actionQueue'), actionQueue'[j] = Exec(f), e \notin isEnded'
             PROVE  \E i \in 1..Len(actionQueue') : i < j /\ actionQueue'[i] = Up(e)
  BY DEF BeforeInv
<1>0. e \notin isEnded /\ e \in Ids
  BY EndGoesOn, PipelineAssumption DEF Events, Ids
<1>1. ASSUME NEW k \in 1..Len(actionQueue), actionQueue[k] = Exec(f)
      PROVE  \E i \in 1..Len(actionQueue) : i < k /\ actionQueue[i] = Up(e)
  <2>1. f <= created
    BY <1>1 DEF PlacesInv, InActionQueue
  <2> QED
    BY <1>0, <1>1, <2>1, EarlierOnes DEF BeforeInv
<1>2. CASE UNCHANGED actionQueue
  BY <1>1, <1>2
<1>3. ASSUME NEW x \in Actions, actionQueue' = Append(actionQueue, x),
             x = Exec(f) => UpQueued(e)
      PROVE  \E i \in 1..Len(actionQueue') : i < j /\ actionQueue'[i] = Up(e)
  <2>1. /\ Len(actionQueue') = Len(actionQueue) + 1 /\ Len(actionQueue) \in Nat
        /\ \A i \in 1..Len(actionQueue) : actionQueue'[i] = actionQueue[i]
        /\ actionQueue'[Len(actionQueue) + 1] = x
    BY <1>3, AppendAction
  <2>2. /\ j \in 1..Len(actionQueue) \/ j = Len(actionQueue) + 1
        /\ \A i \in 1..Len(actionQueue) : i \in 1..Len(actionQueue') /\ i < Len(actionQueue) + 1
    BY <2>1
  <2> QED
    BY <1>1, <1>3, <2>1, <2>2 DEF UpQueued
<1>4. ASSUME NEW a \in Actors, PostUpFuncs(a)
      PROVE  \E i \in 1..Len(actionQueue') : i < j /\ actionQueue'[i] = Up(e)
  <2>1. Up(target[a]) \in Actions /\ actionQueue' = Append(actionQueue, Up(target[a]))
    BY <1>4 DEF PostUpFuncs, Up, Actions, TypeOK
  <2>2. Up(target[a]) # Exec(f)
    BY DEF Up, Exec
  <2> QED
    BY <1>3, <2>1, <2>2
<1>5. CASE Transfer
  <2>1. /\ Exec(target[ET]) \in Actions /\ actionQueue' = Append(actionQueue, Exec(target[ET]))
        /\ pc[ET] = "transfer"
    BY <1>5 DEF Transfer, Exec, Actions, TypeOK
  <2>2. ASSUME Exec(target[ET]) = Exec(f) PROVE UpQueued(e)
    <3>1. target[ET] = f
      BY <2>2 DEF Exec
    <3>2. f <= created
      BY <2>1, <3>1 DEF PlacesInv, Carried
    <3>3. Earlier(e, f)
      BY <3>2, EarlierOnes
    <3> QED
      BY <1>0, <2>1, <3>3 DEF PastInv, InWork
  <2> QED
    BY <1>3, <2>1, <2>2
<1>6. CASE TakeUpFuncs \/ Execute
  <2>1. /\ actionQueue # <<>> /\ actionQueue' = Tail(actionQueue)
        /\ TakeUpFuncs => isEnded' = isEnded \cup {Head(actionQueue).ev}
        /\ Execute => Head(actionQueue).do = "exec"
    BY <1>6 DEF TakeUpFuncs, Execute, DoUpFuncs
  <2>2. /\ Head(actionQueue) = actionQueue[1]
        /\ j + 1 \in 1..Len(actionQueue) /\ actionQueue'[j] = actionQueue[j + 1]
    BY <2>1, TakeAction
  <2>3. PICK i \in 1..Len(actionQueue) : i < j + 1 /\ actionQueue[i] = Up(e)
    BY <1>1, <2>2
  <2>4. i # 1
    BY <1>6, <2>1, <2>2, <2>3 DEF Up
  <2>5. i - 1 \in 1..Len(actionQueue') /\ actionQueue'[i - 1] = actionQueue[i] /\ i - 1 < j
    BY <2>1, <2>3, <2>4 DEF TypeOK
  <2> QED
    BY <2>3, <2>5
<1>7. UNCHANGED actionQueue \/ Transfer \/ TakeUpFuncs \/ Execute \/ \E a \in Actors : PostUpFuncs(a)
  BY DEF Next, Trigger, Lock, EndLastEvent, Create, Store, End, TestShouldEnd, SetShouldEnd,
         EndIcon, TakeTransfer, ActionStep, HandlersDone, InnerDone, Finish, AddUpFunc,
         FlushEvents, ExecuteInner, vars
<1> QED
  BY <1>2, <1>4, <1>5, <1>6, <1>7

\* When an event starts, the plugin's earlier events have ended.
LEMMA EndedStep ==
  TypeOK /\ TypeOK' /\ LockInv /\ PlacesInv /\ OwnInv /\ BeforeInv /\ EndedInv /\ ~Flush
    /\ [Next]_vars => EndedInv'
<1> SUFFICES ASSUME TypeOK, TypeOK', LockInv, PlacesInv, OwnInv, BeforeInv, EndedInv, ~Flush,
                    [Next]_vars, NEW e \in Events, NEW f \in Events, f \in started',
                    Earlier(e, f)'
             PROVE  e \in isEnded'
  BY DEF EndedInv, TypeOK
<1>0. isEnded \subseteq isEnded'
  BY EndGoesOn, PipelineAssumption DEF Ids, Events
<1>1. CASE f \in started
  <2>1. f <= created
    BY <1>1 DEF PlacesInv
  <2> QED
    BY <1>0, <1>1, <2>1, EarlierOnes DEF EndedInv
<1>2. CASE f \notin started
  <2>1. Execute \/ ExecuteInner
    BY <1>2 DEF Next, Trigger, Lock, EndLastEvent, Create, Store, End, TestShouldEnd,
         SetShouldEnd, EndIcon, PostUpFuncs, TakeTransfer, Transfer, ActionStep, TakeUpFuncs,
         HandlersDone, InnerDone, Finish, AddUpFunc, FlushEvents, vars, actionVars
  <2>2. CASE Execute
    <3>1. /\ actionQueue # <<>> /\ actionQueue' = Tail(actionQueue)
          /\ Head(actionQueue).do = "exec" /\ Head(actionQueue).ev = f
      BY <1>2, <2>2 DEF Execute, actionVars
    <3>2. Head(actionQueue) \in Actions /\ Head(actionQueue) = actionQueue[1]
          /\ 1 \in 1..Len(actionQueue)
      BY <3>1, TakeAction DEF TypeOK
    <3>3. actionQueue[1] = Exec(f)
      BY <3>1, <3>2 DEF Exec, Actions
    <3>4. f <= created
      BY <3>2, <3>3 DEF PlacesInv, InActionQueue
    <3>5. Earlier(e, f)
      BY <3>4, EarlierOnes
    <3>6. \A i \in 1..Len(actionQueue) : ~(i < 1)
      OBVIOUS
    <3> QED
      BY <1>0, <3>2, <3>3, <3>5, <3>6 DEF BeforeInv
  <2>3. CASE ExecuteInner
    <3>1. f = created + 1 /\ origin' = [origin EXCEPT ![created + 1] = "eg"]
      BY <1>2, <2>3 DEF ExecuteInner
    <3>2. origin'[f] = "eg"
      BY <3>1 DEF TypeOK
    <3> QED
      BY <3>2, PipelineAssumption DEF Earlier
  <2> QED
    BY <2>1, <2>2, <2>3
<1> QED
  BY <1>1, <1>2

\* The invariant about the order of events holds at the start.
LEMMA InitEInv == Init => EInv
<1> SUFFICES ASSUME Init PROVE EInv
  OBVIOUS
<1>1. \A e \in Events : e \in Nat /\ e > 0 /\ origin[e] = None
  BY PipelineAssumption DEF Init, Events
<1>2. None \notin Plugins /\ Dummy \notin Events /\ Threads \subseteq Actors
  BY PipelineAssumption DEF None, Dummy, Events, Actors
<1>3. AnnouncedInv /\ PastInv /\ BeforeInv /\ EndedInv
  BY <1>1, <1>2 DEF Init, AnnouncedInv, PastInv, BeforeInv, EndedInv, Earlier
<1>4. OwnInv
  <2>1. \A e \in Events : ~(e <= 0)
    BY <1>1
  <2> QED
    BY <1>1, <1>2, <2>1 DEF Init, OwnInv, None
<1> QED
  BY <1>3, <1>4 DEF EInv

\* When the handlers of an event run, the up functions of its plugin's earlier
\* events have been called (OneActiveEvent), for any number of plugins and
\* threads, with filters, listeners and events executed in place: as long as
\* nothing is flushed and no thread calls EndLastEvent beside another thread
\* that triggers events of the same plugin.
THEOREM OneActiveEventHolds == OwnEnders /\ ~Flush /\ Spec => []OneActiveEvent
<1>1. ASSUME OwnEnders, ~Flush PROVE Spec => []OneActiveEvent
  <2>1. PInv /\ PInv' /\ OInv /\ EInv /\ [Next]_vars => EInv'
    BY <1>1, AnnouncedStep, OwnStep, PastStep, BeforeStep, EndedStep DEF PInv, OInv, EInv
  <2>2. PInv /\ EInv => OneActiveEvent
    BY DEF PInv, TypeOK, EInv, EndedInv, OneActiveEvent, Earlier
  <2>3. Spec => [](PInv /\ OInv)
    BY InitOInv, OStep, PInvariance, PTL DEF Spec
  <2> QED
    BY <2>1, <2>2, <2>3, InitEInv, PTL DEF Spec
<1> QED
  BY <1>1

\* The icon follows the action thread, and an event it still shows after its
\* handlers were done was not told to end, or its end is about to be shown.
LEMMA IconStep == PInv /\ PInv' /\ OInv /\ IconInv /\ ~Nested /\ [Next]_vars => IconInv'
<1> SUFFICES ASSUME TypeOK, TypeOK', LockInv, PlacesInv, IconInv, ~Nested, [Next]_vars
             PROVE  IconInv'
  BY DEF PInv, OInv
<1>0. /\ DOMAIN pc = Actors /\ DOMAIN target = Actors
      /\ Threads \subseteq Actors /\ ET \in Actors
      /\ \A t \in Threads : PluginOf[t] \in Plugins
  BY PipelineAssumption DEF TypeOK, Actors
<1>d. /\ created \in Nat /\ MaxEvents \in Nat /\ DOMAIN origin = Events
      /\ (\A e \in 1..created : e \in Ids /\ e \in Events /\ e # NoEvent)
      /\ NoEvent \notin Ids
  BY PipelineAssumption DEF TypeOK, Events, Ids, NoEvent
<1> DEFINE Shown(e, a) == pc[a] = "icon" /\ target[a] = e
<1>1. ASSUME UNCHANGED <<origin, created, apc, current, iconVars, shouldEnd>>,
             \A a \in Actors : pc[a] = "icon" => pc'[a] = "icon" /\ target'[a] = target[a]
      PROVE  IconInv'
  BY <1>1 DEF IconInv, iconVars
<1>2. ASSUME NEW t \in Threads, Lock(t) \/ EndLastEvent(t) \/ Store(t) PROVE IconInv'
  BY <1>0, <1>1, <1>2 DEF Lock, EndLastEvent, Store, Goto, eventVars, actionVars
<1>3. ASSUME NEW t \in Threads, Create(t) PROVE IconInv'
  <2>1. /\ created' = created + 1 /\ origin' = [origin EXCEPT ![created + 1] = PluginOf[t]]
        /\ UNCHANGED <<apc, current, iconVars, shouldEnd>>
        /\ \A a \in Actors : pc[a] = "icon" => pc'[a] = "icon" /\ target'[a] = target[a]
        /\ created + 1 \in Events
    BY <1>0, <1>3, PipelineAssumption DEF Create, Goto, actionVars, TypeOK, Events
  <2>2. \A e \in 1..created' : e \in 1..created \/ e = created + 1
    BY <1>d, <2>1
  <2>3. \A e \in 1..created : e \in 1..created' /\ e # created + 1
    BY <1>d, <2>1
  <2>4. \A e \in 1..created' : origin'[e] \in Plugins
    BY <1>0, <1>d, <2>1, <2>2, <2>3 DEF IconInv
  <2> QED
    BY <2>1, <2>3, <2>4 DEF IconInv, iconVars
<1>4. ASSUME NEW a \in Actors, TestShouldEnd(a) \/ PostUpFuncs(a) PROVE IconInv'
  BY <1>0, <1>1, <1>4 DEF TestShouldEnd, PostUpFuncs, AfterEnd, Goto, eventVars, actionVars
<1>5. ASSUME NEW a \in Actors, SetShouldEnd(a) PROVE IconInv'
  <2>1. /\ UNCHANGED <<origin, created, apc, current, iconVars, target>>
        /\ shouldEnd' = shouldEnd \cup {target[a]} /\ pc' = [pc EXCEPT ![a] = "icon"]
    BY <1>5 DEF SetShouldEnd, Goto, eventVars, actionVars
  <2>2. pc'[a] = "icon" /\ \A b \in Actors : pc[b] = "icon" => pc'[b] = "icon"
    BY <1>0, <2>1
  <2> QED
    BY <2>1, <2>2 DEF IconInv, iconVars
<1>6. ASSUME NEW a \in Actors, EndIcon(a) PROVE IconInv'
  <2>1. /\ UNCHANGED <<origin, created, apc, current, shouldEnd, target, currentEvent,
                       processingEvent>>
        /\ pc[a] = "icon" /\ pc' = [pc EXCEPT ![a] = "post"] /\ target[a] \in Ids
        /\ \/ target[a] = processingEvent /\ currentState' = 1
           \/ /\ target[a] # processingEvent
              /\ currentState' = IF target[a] = currentEvent THEN 0 ELSE currentState
    BY <1>6 DEF EndIcon, SetProcessingState, Goto, eventVars, actionVars, TypeOK
  <2>2. \A b \in Actors : b # a => pc'[b] = pc[b]
    BY <1>0, <2>1
  <2>3. CASE apc = "idle"
    BY <1>d, <2>1, <2>2, <2>3 DEF IconInv
  <2>4. CASE apc # "idle"
    BY <2>1, <2>4 DEF IconInv
  <2> QED
    BY <2>3, <2>4
<1>7. CASE TakeTransfer \/ Transfer
  BY <1>0, <1>1, <1>7 DEF TakeTransfer, Transfer, Goto, eventVars, actionVars
<1>8. CASE TakeUpFuncs \/ AddUpFunc \/ FlushEvents \/ UNCHANGED vars
  BY <1>1, <1>8 DEF TakeUpFuncs, AddUpFunc, FlushEvents, vars, eventVars, threadVars,
                    actionVars, iconVars
<1>9. CASE HandlersDone
  BY <1>9 DEF HandlersDone, IconInv, iconVars, eventVars, threadVars
<1>10. CASE Execute
  <2> DEFINE e == Head(actionQueue).ev
  <2>1. /\ actionQueue # <<>> /\ Head(actionQueue).do = "exec" /\ apc = "idle"
        /\ UNCHANGED <<origin, created, shouldEnd, pc, target>>
        /\ \/ UNCHANGED <<apc, current, iconVars>>
           \/ apc' = "run" /\ current' = e /\ currentEvent' = e /\ processingEvent' = e
    BY <1>10 DEF Execute, SetProcessingState, eventVars, threadVars, actionVars
  <2>2. e \in 1..created
    <3>1. Head(actionQueue) \in Actions /\ Head(actionQueue) = actionQueue[1]
          /\ 1 \in 1..Len(actionQueue)
      BY <2>1, TakeAction DEF TypeOK
    <3>2. actionQueue[1] = Exec(e) /\ e \in Events
      BY <2>1, <3>1 DEF Exec, Actions
    <3>3. e <= created
      BY <3>1, <3>2 DEF PlacesInv, InActionQueue
    <3> QED
      BY <1>d, <3>2, <3>3 DEF Events
  <2> QED
    BY <2>1, <2>2 DEF IconInv, iconVars
<1>11. CASE Finish
  <2>1. /\ apc = "finish" /\ apc' = "idle" /\ processingEvent' = NoEvent
        /\ UNCHANGED <<origin, created, shouldEnd, pc, target>>
        /\ IF current \in shouldEnd THEN currentState' = 0 ELSE UNCHANGED currentEvent
    BY <1>11 DEF Finish, SetProcessingState, eventVars, threadVars
  <2> QED
    BY <2>1 DEF IconInv
<1>12. ~InnerDone /\ ~ExecuteInner
  BY DEF InnerDone, ExecuteInner, IconInv
<1> QED
  BY <1>2, <1>3, <1>4, <1>5, <1>6, <1>7, <1>8, <1>9, <1>10, <1>11, <1>12
  DEF Next, Trigger, End, ActionStep

\* When all events were told to end and nothing is under way the icon is idle
\* (IconQuiescent), whatever is flushed, swallowed or ended by several threads,
\* as long as no event is executed in place.
THEOREM IconQuiescentHolds == ~Nested /\ Spec => []IconQuiescent
<1>1. ASSUME ~Nested PROVE Spec => []IconQuiescent
  <2>1. Init => IconInv
    BY PipelineAssumption DEF Init, IconInv
  <2>2. PInv /\ PInv' /\ OInv /\ IconInv /\ [Next]_vars => IconInv'
    BY <1>1, IconStep
  <2>3. IconInv => IconQuiescent
    BY DEF IconInv, IconQuiescent, Quiet
  <2>4. Spec => [](PInv /\ OInv)
    BY InitOInv, OStep, PInvariance, PTL DEF Spec
  <2> QED
    BY <2>1, <2>2, <2>3, <2>4, PTL DEF Spec
<1> QED
  BY <1>1

-----------------------------------------------------------------------------
(***************************************************************************)
(* The pipeline implements the log of events (ImplementsLog).  What waits  *)
(* in the log is what is queued or in the event thread's hands here.       *)
(***************************************************************************)
Queued == InActionQueue \cup Carried \cup InEventQueue

\* What is queued is a plugin's and was not dropped, and so is what the event
\* thread tells to end.
QueuedInv ==
  /\ \A e \in Queued : origin[e] \in Plugins /\ e \notin dropped
  /\ \A e \in dropped : e <= created
  /\ pc[ET] \in {"test", "set", "icon", "post"} =>
       target[ET] \in Events /\ origin[target[ET]] \in Plugins

\* The end of an event is posted only after it was told to end.
ToldInv ==
  /\ \A a \in Actors : pc[a] \in {"icon", "post"} => target[a] \in shouldEnd
  /\ \A i \in 1..Len(actionQueue) :
       actionQueue[i].do = "up" => actionQueue[i].ev \in shouldEnd

LogInv == QueuedInv /\ ToldInv

\* What the log has waiting is what is queued.
LEMMA WaitingIsQueued == ASSUME PInv, OInv, QueuedInv PROVE Log!Waiting = Queued
<1>1. Log!Events = Events /\ Queued \subseteq Events
  BY DEF Log!Events, Events, Queued, InActionQueue, Carried, InEventQueue
<1>2. \A e \in Log!Waiting : e \in Queued
  BY <1>1 DEF Log!Waiting, OInv, PlacesInv, Queued
<1>3. ASSUME NEW e \in Queued PROVE e \in Log!Waiting
  <2>1. e \in Nat /\ origin[e] \in Plugins /\ e \notin dropped
    BY <1>1, <1>3, PipelineAssumption DEF QueuedInv, Events
  <2>2. e \notin started
    BY <1>3, <2>1 DEF Queued, Started, OInv, StagesInv, Below
  <2> QED
    BY <1>1, <2>1, <2>2 DEF Log!Waiting
<1> QED
  BY <1>2, <1>3

\* Execute takes the oldest event that is queued.
LEMMA OldestIsTaken ==
  ASSUME PInv, OInv, Execute
  PROVE  LET h == Head(actionQueue).ev
         IN /\ h \in Queued /\ h \in Events
            /\ Queued' \subseteq Queued
            /\ \A f \in Queued : f = h \/ h < f
            /\ \A f \in Queued' : h < f
<1> DEFINE h == Head(actionQueue).ev
<1>1. /\ actionQueue # <<>> /\ actionQueue' = Tail(actionQueue)
      /\ Head(actionQueue).do = "exec" /\ UNCHANGED <<eventQueue, pc, target>>
  BY DEF Execute, threadVars
<1>2. /\ InActionQueue = InActionQueue' \cup {e \in Events : Head(actionQueue) = Exec(e)}
      /\ \A i \in 1..Len(actionQueue') :
           i + 1 \in 1..Len(actionQueue) /\ actionQueue'[i] = actionQueue[i + 1]
      /\ 1 \in 1..Len(actionQueue) /\ Head(actionQueue) = actionQueue[1]
      /\ Len(actionQueue') \in Nat
  BY <1>1, TakeAction DEF PInv
<1>3. h \in Events /\ actionQueue[1] = Exec(h)
  <2>1. actionQueue[1] \in Actions /\ actionQueue[1].do = "exec"
    BY <1>1, <1>2 DEF PInv, TypeOK
  <2> QED
    BY <1>2, <2>1 DEF Actions, Exec
<1>4. \A e, f : Exec(e) = Exec(f) => e = f
  BY DEF Exec
<1>5. /\ InActionQueue = InActionQueue' \cup {h}
      /\ Carried' = Carried /\ InEventQueue' = InEventQueue
  BY <1>1, <1>2, <1>3, <1>4 DEF Carried, InEventQueue
<1>6. \A f \in InActionQueue' : h < f
  <2>1. \A i \in 1..Len(actionQueue') : 1 < i + 1
    BY <1>2
  <2>2. \A i \in 1..Len(actionQueue') : \A f \in Events : actionQueue'[i] = Exec(f) => h < f
    BY <1>2, <1>3, <2>1 DEF OInv, SortedInv
  <2> QED
    BY <2>2 DEF InActionQueue
<1>7. \A f \in Carried \cup InEventQueue : h < f
  BY <1>5 DEF OInv, StagesInv, Below
<1> QED
  BY <1>3, <1>5, <1>6, <1>7 DEF Queued

\* What is queued stays a plugin's, and what is dropped is no longer queued.
LEMMA QueuedStep ==
  ASSUME PInv, PInv', OInv, OwnInv, QueuedInv, [Next]_vars
  PROVE  QueuedInv'
<1>0. /\ DOMAIN pc = Threads \cup {ET} /\ DOMAIN target = Threads \cup {ET} /\ ET \notin Threads
      /\ Threads \subseteq Actors /\ ET \in Actors
  BY ActorAssumption DEF PInv, TypeOK, Actors
<1>1. /\ \A e \in Queued \cup dropped : e \in Events /\ e <= created
      /\ \A e \in Events : e <= created => origin'[e] = origin[e] /\ e <= created'
      /\ dropped \subseteq Events /\ dropped' \subseteq Events
  BY Origins DEF PInv, TypeOK, QueuedInv, Queued, OInv, PlacesInv, InActionQueue, Carried,
                 InEventQueue
<1> DEFINE Way == /\ \A e \in Queued : origin[e] \in Plugins /\ e \notin dropped
                  /\ \A e \in dropped : e <= created
           Hand == pc[ET] \in {"test", "set", "icon", "post"} =>
                     target[ET] \in Events /\ origin[target[ET]] \in Plugins
<1>2. SUFFICES Way' /\ Hand'
  BY DEF QueuedInv
<1>3. ASSUME Queued' \subseteq Queued,
             \A e \in dropped' : e \in dropped \/ (e \in Queued /\ e \notin Queued')
      PROVE  Way'
  BY <1>1, <1>3 DEF QueuedInv
<1>4. Hand'
  <2>1. ASSUME pc'[ET] \in {"test", "set", "icon", "post"} =>
                 pc[ET] \in {"test", "set", "icon", "post", "transfer"} /\ target'[ET] = target[ET]
        PROVE  Hand'
    <3> SUFFICES ASSUME pc'[ET] \in {"test", "set", "icon", "post"}
                 PROVE  target[ET] \in Events /\ origin'[target[ET]] \in Plugins
      BY <2>1
    <3>1. CASE pc[ET] = "transfer"
      <4>1. target[ET] \in Queued
        BY <3>1 DEF Queued, Carried, PInv, TypeOK
      <4> QED
        BY <1>1, <4>1 DEF QueuedInv
    <3>2. CASE pc[ET] # "transfer"
      <4>1. target[ET] \in Events /\ origin[target[ET]] \in Plugins
        BY <2>1, <3>2 DEF QueuedInv
      <4>2. origin[target[ET]] # None
        BY <4>1, PipelineAssumption DEF None
      <4> QED
        BY <1>1, <4>1, <4>2 DEF OwnInv
    <3> QED
      BY <3>1, <3>2
  <2>2. ASSUME NEW t \in Threads, Trigger(t) PROVE Hand'
    BY <1>0, <2>1, <2>2 DEF Trigger, Lock, EndLastEvent, Create, Store, Goto
  <2>3. ASSUME NEW a \in Actors, End(a) PROVE Hand'
    <3>1. /\ pc[a] \in {"test", "set", "icon", "post"}
          /\ \/ AfterEnd(a)
             \/ UNCHANGED target /\ \E l : pc' = [pc EXCEPT ![a] = l]
      BY <2>3 DEF End, TestShouldEnd, SetShouldEnd, EndIcon, PostUpFuncs, Goto
    <3> QED
      BY <1>0, <2>1, <3>1 DEF AfterEnd, Goto
  <2>4. CASE TakeTransfer \/ Transfer
    BY <1>0, <2>1, <2>4 DEF TakeTransfer, Transfer, Goto
  <2>5. CASE \/ TakeUpFuncs \/ Execute \/ HandlersDone \/ InnerDone \/ Finish
             \/ AddUpFunc \/ FlushEvents \/ ExecuteInner \/ UNCHANGED vars
    <3>1. pc' = pc /\ target' = target
      BY <2>5 DEF TakeUpFuncs, Execute, HandlersDone, InnerDone, Finish, AddUpFunc,
                  FlushEvents, ExecuteInner, vars, threadVars
    <3> QED
      BY <2>1, <3>1
  <2> QED
    BY <2>2, <2>3, <2>4, <2>5 DEF Next, ActionStep
<1>5. ASSUME NEW t \in Threads, Create(t) PROVE Way'
  <2>1. /\ created' = created + 1 /\ created + 1 \in Events /\ created \in Nat
        /\ origin'[created + 1] = PluginOf[t] /\ PluginOf[t] \in Plugins
        /\ UNCHANGED <<actionQueue, target>> /\ pc'[ET] = pc[ET]
        /\ \/ eventQueue' = Append(eventQueue, created + 1) /\ UNCHANGED dropped
           \/ eventQueue' = eventQueue /\ dropped' = dropped \cup {created + 1}
    BY <1>0, <1>5, PipelineAssumption DEF Create, Goto, PInv, TypeOK, Events
  <2>2. InActionQueue' = InActionQueue /\ Carried' = Carried
    BY <2>1 DEF InActionQueue, Carried
  <2>3. created + 1 \notin Queued \cup dropped
    BY <1>1, <2>1
  <2>4. CASE eventQueue' = Append(eventQueue, created + 1) /\ UNCHANGED dropped
    <3>1. Queued' = Queued \cup {created + 1}
      BY <2>1, <2>2, <2>4, AppendEvent DEF Queued, PInv
    <3> QED
      BY <1>1, <2>1, <2>3, <2>4, <3>1 DEF QueuedInv
  <2>5. CASE eventQueue' = eventQueue /\ dropped' = dropped \cup {created + 1}
    <3>1. Queued' = Queued
      BY <2>2, <2>5 DEF Queued, InEventQueue
    <3> QED
      BY <1>1, <2>1, <2>3, <2>5, <3>1 DEF QueuedInv
  <2> QED
    BY <2>1, <2>4, <2>5
<1>6. ASSUME TakeTransfer PROVE Way'
  <2>1. /\ eventQueue # <<>> /\ eventQueue' = Tail(eventQueue) /\ pc[ET] = "idle"
        /\ pc'[ET] = "transfer" /\ target'[ET] = Head(eventQueue)
        /\ UNCHANGED <<actionQueue, dropped>>
    BY <1>0, <1>6 DEF TakeTransfer, Goto
  <2>2. InEventQueue = InEventQueue' \cup {Head(eventQueue)} /\ InActionQueue' = InActionQueue
    BY <2>1, TakeEvent DEF PInv, InActionQueue
  <2>3. Carried' = {Head(eventQueue)}
    BY <2>1, TakeEvent DEF PInv, Carried
  <2> QED
    BY <1>3, <2>1, <2>2, <2>3 DEF Queued
<1>7. ASSUME Transfer PROVE Way'
  <2>1. /\ target[ET] \in Events /\ Exec(target[ET]) \in Actions /\ pc[ET] = "transfer"
        /\ actionQueue' = Append(actionQueue, Exec(target[ET])) /\ pc'[ET] # "transfer"
        /\ UNCHANGED <<eventQueue, dropped>>
    BY <1>0, <1>7 DEF Transfer, Goto, PInv, TypeOK, Actions, Exec
  <2>2. InActionQueue' = InActionQueue \cup {e \in Events : Exec(target[ET]) = Exec(e)}
    BY <2>1, AppendAction DEF PInv
  <2>3. InActionQueue' = InActionQueue \cup {target[ET]}
    BY <2>1, <2>2 DEF Exec
  <2>4. Carried = {target[ET]} /\ Carried' = {} /\ InEventQueue' = InEventQueue
    BY <2>1 DEF Carried, InEventQueue
  <2> QED
    BY <1>3, <2>1, <2>3, <2>4 DEF Queued
<1>8. ASSUME Execute PROVE Way'
  <2>1. dropped' \in {dropped, dropped \cup {Head(actionQueue).ev}}
    BY <1>8 DEF Execute
  <2>2. /\ Head(actionQueue).ev \in Queued /\ Head(actionQueue).ev \in Nat
        /\ Queued' \subseteq Queued /\ \A f \in Queued' : Head(actionQueue).ev < f
    BY <1>8, OldestIsTaken, PipelineAssumption DEF Events
  <2> QED
    BY <1>3, <2>1, <2>2
<1>9. ASSUME NEW a \in Actors, PostUpFuncs(a) PROVE Way'
  <2> DEFINE x == [do |-> "up", ev |-> target[a]]
  <2>1. /\ x \in Actions /\ actionQueue' = Append(actionQueue, x) /\ x.do = "up"
        /\ pc[a] = "post" /\ AfterEnd(a) /\ UNCHANGED <<eventQueue, dropped>>
    BY <1>9 DEF PostUpFuncs, PInv, TypeOK, Actions
  <2>2. \A e : x # Exec(e)
    BY DEF Exec
  <2>3. InActionQueue' = InActionQueue
    BY <2>1, <2>2, AppendAction DEF PInv
  <2>4. Carried' = Carried /\ InEventQueue' = InEventQueue
    BY <1>0, <2>1 DEF AfterEnd, Goto, Carried, InEventQueue
  <2> QED
    BY <1>3, <2>1, <2>3, <2>4 DEF Queued
<1>10. ASSUME TakeUpFuncs PROVE Way'
  <2>1. /\ actionQueue # <<>> /\ actionQueue' = Tail(actionQueue)
        /\ Head(actionQueue).do = "up" /\ UNCHANGED <<eventQueue, dropped, pc, target>>
    BY <1>10 DEF TakeUpFuncs, threadVars
  <2>2. \A e : Head(actionQueue) # Exec(e)
    BY <2>1 DEF Exec
  <2>3. InActionQueue' = InActionQueue /\ Carried' = Carried /\ InEventQueue' = InEventQueue
    BY <2>1, <2>2, TakeAction DEF PInv, Carried, InEventQueue
  <2> QED
    BY <1>3, <2>1, <2>3 DEF Queued
<1>11. ASSUME FlushEvents PROVE Way'
  <2>1. /\ eventQueue' = <<>> /\ actionQueue' = <<>> /\ UNCHANGED <<pc, target>>
        /\ dropped' = dropped \cup {eventQueue[i] : i \in 1..Len(eventQueue)} \cup InActionQueue
    BY <1>11 DEF FlushEvents, threadVars, InActionQueue, Exec
  <2>2. InEventQueue' = {} /\ InActionQueue' = {} /\ Carried' = Carried
    BY <2>1 DEF InEventQueue, InActionQueue, Carried
  <2>3. {eventQueue[i] : i \in 1..Len(eventQueue)} = InEventQueue
    <3>1. \A i \in 1..Len(eventQueue) : eventQueue[i] \in Events
      BY DEF PInv, TypeOK
    <3> QED
      BY <3>1 DEF InEventQueue
  <2>4. \A e \in InEventQueue \cup InActionQueue : e \in Nat /\ e \notin Carried
    BY PipelineAssumption DEF OInv, StagesInv, Below, InEventQueue, InActionQueue, Events
  <2> QED
    BY <1>3, <2>1, <2>2, <2>3, <2>4 DEF Queued
<1>12. ASSUME UNCHANGED <<eventQueue, actionQueue, dropped>>, Carried' = Carried PROVE Way'
  BY <1>3, <1>12 DEF Queued, InEventQueue, InActionQueue
<1>13. ASSUME NEW t \in Threads, Lock(t) \/ EndLastEvent(t) \/ Store(t) PROVE Way'
  BY <1>0, <1>12, <1>13, SameHands DEF Lock, EndLastEvent, Store, Goto
<1>14. ASSUME NEW a \in Actors, TestShouldEnd(a) \/ SetShouldEnd(a) \/ EndIcon(a) PROVE Way'
  <2>1. /\ UNCHANGED <<eventQueue, actionQueue, dropped>> /\ pc[a] # "transfer"
        /\ \/ AfterEnd(a)
           \/ /\ UNCHANGED target
              /\ \E l \in {"set", "icon", "post"} : pc' = [pc EXCEPT ![a] = l]
    BY <1>14 DEF TestShouldEnd, SetShouldEnd, EndIcon, Goto
  <2>2. Carried' = Carried
    BY <1>0, <2>1 DEF AfterEnd, Goto, Carried
  <2> QED
    BY <1>12, <2>1, <2>2
<1>15. ASSUME \/ HandlersDone \/ InnerDone \/ Finish \/ AddUpFunc \/ ExecuteInner
              \/ UNCHANGED vars
       PROVE  Way'
  BY <1>12, <1>15, SameHands
  DEF HandlersDone, InnerDone, Finish, AddUpFunc, ExecuteInner, vars, threadVars
<1> QED
  BY <1>4, <1>5, <1>6, <1>7, <1>8, <1>9, <1>10, <1>11, <1>13, <1>14, <1>15
  DEF Next, Trigger, End, ActionStep

\* Nothing ends an event before it was told to end.
LEMMA ToldStep == ASSUME PInv, ToldInv, [Next]_vars PROVE ToldInv'
<1>0. /\ DOMAIN pc = Actors /\ DOMAIN target = Actors /\ Threads \subseteq Actors /\ ET \in Actors
  BY DEF PInv, TypeOK, Actors
<1> DEFINE Telling == \A a \in Actors : pc[a] \in {"icon", "post"} => target[a] \in shouldEnd
           Posted == \A i \in 1..Len(actionQueue) :
                       actionQueue[i].do = "up" => actionQueue[i].ev \in shouldEnd
<1>1. shouldEnd \subseteq shouldEnd'
  BY DEF Next, Trigger, Lock, EndLastEvent, Create, Store, End, TestShouldEnd, SetShouldEnd,
         EndIcon, PostUpFuncs, TakeTransfer, Transfer, ActionStep, TakeUpFuncs, Execute,
         HandlersDone, InnerDone, Finish, AddUpFunc, FlushEvents, ExecuteInner, vars
<1>2. Telling'
  <2>1. ASSUME \A a \in Actors : pc'[a] \in {"icon", "post"} =>
                 pc[a] \in {"icon", "post"} /\ target'[a] = target[a]
        PROVE  Telling'
    BY <1>1, <2>1 DEF ToldInv
  <2>2. ASSUME NEW t \in Threads, Trigger(t) PROVE Telling'
    BY <1>0, <2>1, <2>2 DEF Trigger, Lock, EndLastEvent, Create, Store, Goto
  <2>3. ASSUME NEW b \in Actors, SetShouldEnd(b) PROVE Telling'
    BY <1>0, <2>3 DEF SetShouldEnd, Goto, ToldInv
  <2>4. ASSUME NEW b \in Actors, TestShouldEnd(b) \/ EndIcon(b) \/ PostUpFuncs(b) PROVE Telling'
    BY <1>0, <2>1, <2>4 DEF TestShouldEnd, EndIcon, PostUpFuncs, AfterEnd, Goto
  <2>5. CASE TakeTransfer \/ Transfer
    BY <1>0, <2>1, <2>5 DEF TakeTransfer, Transfer, Goto
  <2>6. CASE \/ TakeUpFuncs \/ Execute \/ HandlersDone \/ InnerDone \/ Finish
             \/ AddUpFunc \/ FlushEvents \/ ExecuteInner \/ UNCHANGED vars
    BY <2>1, <2>6 DEF TakeUpFuncs, Execute, HandlersDone, InnerDone, Finish, AddUpFunc,
                      FlushEvents, ExecuteInner, vars, threadVars
  <2> QED
    BY <2>2, <2>3, <2>4, <2>5, <2>6 DEF Next, End, ActionStep
<1>3. Posted'
  <2>1. CASE UNCHANGED actionQueue
    BY <1>1, <2>1 DEF ToldInv
  <2>2. ASSUME NEW x \in Actions, actionQueue' = Append(actionQueue, x),
               x.do = "up" => x.ev \in shouldEnd
        PROVE  Posted'
    <3>1. /\ Len(actionQueue') = Len(actionQueue) + 1 /\ Len(actionQueue) \in Nat
          /\ \A i \in 1..Len(actionQueue) : actionQueue'[i] = actionQueue[i]
          /\ actionQueue'[Len(actionQueue) + 1] = x
      BY <2>2, AppendAction DEF PInv
    <3>2. \A i \in 1..Len(actionQueue') : i \in 1..Len(actionQueue) \/ i = Len(actionQueue) + 1
      BY <3>1
    <3> QED
      BY <1>1, <2>2, <3>1, <3>2 DEF ToldInv
  <2>3. CASE TakeUpFuncs \/ Execute
    <3>1. actionQueue # <<>> /\ actionQueue' = Tail(actionQueue)
      BY <2>3 DEF TakeUpFuncs, Execute
    <3>2. \A i \in 1..Len(actionQueue') :
            i + 1 \in 1..Len(actionQueue) /\ actionQueue'[i] = actionQueue[i + 1]
      BY <3>1, TakeAction DEF PInv
    <3> QED
      BY <1>1, <3>2 DEF ToldInv
  <2>4. ASSUME NEW a \in Actors, PostUpFuncs(a) PROVE Posted'
    <3>1. /\ pc[a] = "post" /\ actionQueue' = Append(actionQueue, [do |-> "up", ev |-> target[a]])
          /\ [do |-> "up", ev |-> target[a]] \in Actions
      BY <2>4 DEF PostUpFuncs, PInv, TypeOK, Actions
    <3> QED
      BY <2>2, <3>1 DEF ToldInv
  <2>5. CASE Transfer
    <3>1. /\ actionQueue' = Append(actionQueue, [do |-> "exec", ev |-> target[ET]])
          /\ [do |-> "exec", ev |-> target[ET]] \in Actions
      BY <2>5 DEF Transfer, PInv, TypeOK, Actions
    <3> QED
      BY <2>2, <3>1
  <2>6. CASE FlushEvents
    BY <2>6 DEF FlushEvents
  <2>7. \/ UNCHANGED actionQueue \/ Transfer \/ TakeUpFuncs \/ Execute \/ FlushEvents
        \/ \E a \in Actors : PostUpFuncs(a)
    BY DEF Next, Trigger, Lock, EndLastEvent, Create, Store, End, TestShouldEnd, SetShouldEnd,
           EndIcon, TakeTransfer, ActionStep, HandlersDone, InnerDone, Finish, AddUpFunc,
           ExecuteInner, vars
  <2> QED
    BY <2>1, <2>3, <2>4, <2>5, <2>6, <2>7
<1> QED
  BY <1>2, <1>3 DEF ToldInv

\* Every step of the threads is a step of the log, or one it does not see.
LEMMA LogStep ==
  ASSUME PInv, OInv, OwnInv, QueuedInv, ToldInv, [Next]_vars
  PROVE  [Log!Next]_(Log!vars)
<1>0. /\ Log!Events = Events /\ Dummy \notin Events /\ Ids = Events \cup {Dummy}
      /\ target \in [Actors -> Ids] /\ Actors = Threads \cup {ET}
      /\ \A t \in Threads : PluginOf[t] \in Plugins
  BY PipelineAssumption DEF Log!Events, Events, Dummy, Ids, PInv, TypeOK, Actors
<1> DEFINE Unseen == UNCHANGED <<created, origin, shouldEnd, started, dropped, isEnded>>
<1>1. ASSUME Unseen PROVE UNCHANGED Log!vars
  BY <1>1 DEF Log!vars
<1>2. ASSUME NEW e \in Ids, e \in shouldEnd, isEnded' = isEnded \cup {e},
             UNCHANGED <<created, origin, shouldEnd, started, dropped>>
      PROVE  [Log!Next]_(Log!vars)
  <2>1. CASE e = Dummy
    BY <1>2, <2>1 DEF Log!vars
  <2>2. CASE e # Dummy
    <3>1. Log!End(e)
      BY <1>2, <2>2 DEF Log!End
    <3> QED
      BY <1>0, <2>2, <3>1 DEF Log!Next
  <2> QED
    BY <2>1, <2>2
<1>3. ASSUME NEW t \in Threads, Create(t) PROVE Log!Next
  <2>1. /\ pc[t] = "create" /\ created < MaxEvents /\ created' = created + 1
        /\ origin' = [origin EXCEPT ![created'] = PluginOf[t]]
        /\ dropped' \in {dropped, dropped \cup {created'}}
        /\ UNCHANGED <<shouldEnd, started, isEnded>>
    BY <1>3 DEF Create, actionVars
  <2>2. lock = t /\ lastEvent[PluginOf[t]] \in shouldEnd
    BY <2>1 DEF PInv, LockInv, LastInv, HolderInv
  <2>3. \A u \in Threads : pc[u] = "store" => u = t
    BY <2>2 DEF PInv, LockInv
  <2>4. \A e \in Events : origin[e] = PluginOf[t] => e \in shouldEnd \ {Dummy}
    BY <1>0, <2>1, <2>2, <2>3 DEF PInv, OpenInv
  <2>5. Log!Trigger(PluginOf[t])
    BY <1>0, <2>1, <2>4 DEF Log!Trigger, Log!New
  <2> QED
    BY <1>0, <2>5 DEF Log!Next
<1>4. ASSUME NEW a \in Actors, SetShouldEnd(a) PROVE [Log!Next]_(Log!vars)
  <2>1. /\ pc[a] = "set" /\ shouldEnd' = shouldEnd \cup {target[a]}
        /\ UNCHANGED <<created, origin, started, dropped, isEnded>>
    BY <1>4 DEF SetShouldEnd, eventVars, actionVars
  <2>2. CASE target[a] = Dummy
    BY <2>1, <2>2 DEF Log!vars
  <2>3. CASE target[a] # Dummy
    <3>1. target[a] \in Events
      BY <1>0, <2>3
    <3>2. origin[target[a]] \in Plugins
      BY <1>0, <2>1, <3>1 DEF OwnInv, QueuedInv
    <3>3. Log!Tell(target[a])
      BY <2>1, <2>3, <3>2 DEF Log!Tell
    <3> QED
      BY <1>0, <3>1, <3>3 DEF Log!Next
  <2> QED
    BY <2>2, <2>3
<1>5. CASE Execute
  <2> DEFINE h == Head(actionQueue).ev
  <2>1. /\ UNCHANGED <<created, origin, shouldEnd>>
        /\ \/ dropped' = dropped \cup {h} /\ UNCHANGED <<started, isEnded>>
           \/ /\ started' = started \cup {h} /\ UNCHANGED dropped
              /\ \/ UNCHANGED isEnded
                 \/ h \in shouldEnd /\ isEnded' = isEnded \cup {h}
    BY <1>5 DEF Execute, SetStarted, DoUpFuncs, eventVars, actionVars
  <2>2. h \in Events /\ h \in Nat /\ h \in Queued /\ \A f \in Queued : f = h \/ h < f
    BY <1>5, OldestIsTaken, PipelineAssumption DEF Events
  <2>3. Queued \subseteq Nat
    BY PipelineAssumption DEF Queued, InActionQueue, Carried, InEventQueue, Events
  <2>4. Log!IsOldest(h)
    <3>1. Log!Waiting = Queued
      BY WaitingIsQueued
    <3>2. \A f \in Queued : h <= f
      BY <2>2, <2>3
    <3> QED
      BY <2>2, <3>1, <3>2 DEF Log!IsOldest
  <2> HIDE DEF h
  <2>5. CASE dropped' = dropped \cup {h} /\ UNCHANGED <<started, isEnded>>
    <3>1. Log!Refuse(h)
      BY <2>1, <2>4, <2>5 DEF Log!Refuse
    <3> QED
      BY <1>0, <2>2, <3>1 DEF Log!Next
  <2>6. CASE /\ started' = started \cup {h} /\ UNCHANGED dropped
             /\ \/ UNCHANGED isEnded
                \/ h \in shouldEnd /\ isEnded' = isEnded \cup {h}
    <3>1. isEnded' \ {Dummy} \in {isEnded \ {Dummy},
                                  (isEnded \ {Dummy}) \cup ({h} \cap (shouldEnd \ {Dummy}))}
      BY <1>0, <2>2, <2>6
    <3>2. Log!Start(h)
      BY <2>1, <2>4, <2>6, <3>1 DEF Log!Start
    <3> QED
      BY <1>0, <2>2, <3>2 DEF Log!Next
  <2> QED
    BY <2>1, <2>5, <2>6
<1>6. CASE TakeUpFuncs
  <2>1. /\ actionQueue # <<>> /\ Head(actionQueue).do = "up"
        /\ isEnded' = isEnded \cup {Head(actionQueue).ev}
        /\ UNCHANGED <<created, origin, shouldEnd, started, dropped>>
    BY <1>6 DEF TakeUpFuncs, DoUpFuncs, eventVars, actionVars
  <2>2. Head(actionQueue) \in Actions /\ Head(actionQueue) = actionQueue[1]
        /\ 1 \in 1..Len(actionQueue)
    BY <2>1 DEF PInv, TypeOK
  <2>3. Head(actionQueue).ev \in Ids /\ Head(actionQueue).ev \in shouldEnd
    BY <2>1, <2>2, HeadAction DEF ToldInv, PInv, TypeOK
  <2> QED
    BY <1>2, <2>1, <2>3
<1>7. CASE HandlersDone
  <2>1. current \in Ids
    BY DEF PInv, TypeOK
  <2>2. UNCHANGED <<created, origin, shouldEnd, started, dropped>>
    BY <1>7 DEF HandlersDone, eventVars
  <2>3. \/ UNCHANGED isEnded
        \/ current \in shouldEnd /\ isEnded' = isEnded \cup {current}
    BY <1>7 DEF HandlersDone, SetStarted, DoUpFuncs
  <2> QED
    BY <1>1, <1>2, <2>1, <2>2, <2>3
<1>8. CASE FlushEvents
  <2> DEFINE S == InEventQueue \cup InActionQueue
  <2>1. {eventQueue[i] : i \in 1..Len(eventQueue)} = InEventQueue
    <3>1. \A i \in 1..Len(eventQueue) : eventQueue[i] \in Events
      BY DEF PInv, TypeOK
    <3> QED
      BY <3>1 DEF InEventQueue
  <2>2. /\ dropped' = dropped \cup S
        /\ UNCHANGED <<created, origin, shouldEnd, started, isEnded>>
    BY <1>8, <2>1 DEF FlushEvents, InActionQueue, Exec, eventVars, actionVars
  <2>3. S \in SUBSET Log!Waiting /\ \A e, f \in Log!Waiting \ S : e = f
    BY WaitingIsQueued DEF Queued, Carried
  <2> HIDE DEF S
  <2>4. Log!Discard(S)
    BY <2>2, <2>3 DEF Log!Discard
  <2> QED
    BY <2>3, <2>4 DEF Log!Next
<1>9. CASE ExecuteInner
  <2>1. Log!InPlace
    BY <1>9 DEF ExecuteInner, Log!InPlace, Log!New
  <2> QED
    BY <2>1 DEF Log!Next
<1>10. ASSUME NEW t \in Threads, Lock(t) \/ EndLastEvent(t) \/ Store(t) PROVE Unseen
  BY <1>10 DEF Lock, EndLastEvent, Store, eventVars, actionVars
<1>11. ASSUME NEW a \in Actors, TestShouldEnd(a) \/ EndIcon(a) \/ PostUpFuncs(a) PROVE Unseen
  BY <1>11 DEF TestShouldEnd, EndIcon, PostUpFuncs, eventVars, actionVars
<1>12. ASSUME TakeTransfer \/ Transfer \/ AddUpFunc \/ InnerDone \/ Finish \/ UNCHANGED vars
       PROVE  Unseen
  BY <1>12 DEF TakeTransfer, Transfer, AddUpFunc, InnerDone, Finish, vars, eventVars, actionVars
<1> QED
  BY <1>1, <1>3, <1>4, <1>5, <1>6, <1>7, <1>8, <1>9, <1>10, <1>11, <1>12
  DEF Next, Trigger, End, ActionStep

\* The events are as OwnInv and LogInv say in every reachable state.
LEMMA LogInvariance == Spec => [](PInv /\ OInv /\ OwnInv /\ LogInv)
<1>1. Init => OwnInv /\ LogInv
  <2> SUFFICES ASSUME Init PROVE LogInv
    BY InitEInv DEF EInv
  <2>1. /\ eventQueue = <<>> /\ actionQueue = <<>> /\ dropped = {}
        /\ \A a \in Actors : pc[a] = "idle"
    BY DEF Init
  <2>2. Queued = {}
    BY <2>1 DEF Queued, InActionQueue, Carried, InEventQueue, Actors
  <2> QED
    BY <2>1, <2>2 DEF LogInv, QueuedInv, ToldInv, Actors
<1>2. PInv /\ PInv' /\ OInv /\ OwnInv /\ LogInv /\ [Next]_vars => OwnInv' /\ LogInv'
  BY OwnStep, QueuedStep, ToldStep DEF PInv, LogInv
<1> QED
  BY <1>1, <1>2, InitOInv, OStep, PInvariance, PTL DEF Spec

\* What plugins and macros see of the pipeline is the log of events
\* (ImplementsLog), for any number of plugins, threads and events and with
\* filters, listeners, flushes and events executed in place: a plugin's next
\* event comes after its earlier ones were told to end, handlers run in the
\* order of the triggers, a flush spares one waiting event at most, and only
\* what was told to end ends.
THEOREM ImplementsLogHolds == Spec => ImplementsLog
<1>1. Init => Log!Init
  BY DEF Init, Log!Init, Log!Events, Events, None
<1>2. PInv /\ OInv /\ OwnInv /\ LogInv /\ [Next]_vars => [Log!Next]_(Log!vars)
  BY LogStep DEF LogInv
<1> QED
  BY <1>1, <1>2, LogInvariance, PTL DEF Spec, ImplementsLog, Log!Spec
=============================================================================
