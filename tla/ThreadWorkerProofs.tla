------------------------- MODULE ThreadWorkerProofs -------------------------
(***************************************************************************)
(* Proofs about ThreadWorker for any set of callers, any number of actions *)
(* and any choice of the other constants.                                  *)
(*                                                                         *)
(* The inductive invariant has four parts.  The worker part ties `running` *)
(* to the worker's position; the order part says that the deque holds, in  *)
(* increasing order, exactly the appended actions that are neither         *)
(* executed, nor being executed, nor flushed; the answer part ties an      *)
(* answer to the stored result and the result to the outcome; the caller   *)
(* part says which action each caller owns.                                *)
(***************************************************************************)
EXTENDS ThreadWorker, SequenceTheorems, TLAPS

WorkerInv == /\ running # 0 <=> wpc \in {"run", "publish"}
             /\ wpc = "run" => outcome[running] = None
             /\ wpc = "publish" => outcome[running] # None

OrderInv ==
  /\ \A i, k \in 1..Len(queue) : i < k => queue[i] < queue[k]
  /\ \A i \in 1..Len(queue) : /\ queue[i] <= count
                              /\ running < queue[i]
                              /\ \A j \in Jobs : outcome[j] # None => j < queue[i]
  /\ running <= count
  /\ running # 0 => \A j \in Jobs : outcome[j] # None => j <= running
  /\ \A j \in Jobs : outcome[j] # None => j <= count
  /\ \A j \in 1..count : \/ outcome[j] # None
                         \/ j \in flushed
                         \/ j = running
                         \/ \E i \in 1..Len(queue) : queue[i] = j

AnswerInv ==
  /\ \A j \in Jobs : outcome[j] # None => result[j] = Stored(kind[j], outcome[j])
  /\ \A j \in processed : outcome[j] # None
  /\ \A j \in Jobs : answer[j] \notin {None, "timeout"} =>
                       outcome[j] # None /\ answer[j] = result[j]
  /\ \A j \in Jobs : answer[j] # None => j <= count

CallerInv ==
  /\ \A t \in Callers :
       /\ mine[t] <= count
       /\ cpc[t] \in {"posted", "waiting"} <=> mine[t] # 0
       /\ mine[t] # 0 => answer[mine[t]] = None
       /\ cpc[t] = "waiting" => kind[mine[t]] \in SyncKinds
  /\ \A t, u \in Callers : mine[t] = mine[u] /\ mine[t] # 0 => t = u

StopInv ==
  /\ wpc = "done" => ~alive
  /\ ~alive => quit \/ \E s \in Jobs : kind[s] = "stop" /\ outcome[s] # None

IInv == TypeOK /\ WorkerInv /\ OrderInv /\ AnswerInv /\ CallerInv /\ StopInv

-----------------------------------------------------------------------------
(***************************************************************************)
(* Facts about sequences, in the form the steps below use them.            *)
(***************************************************************************)

\* Appending keeps the old elements at their places and adds one at the end.
LEMMA AppendFacts ==
  ASSUME NEW S, NEW q \in Seq(S), NEW e \in S
  PROVE  /\ Append(q, e) \in Seq(S)
         /\ Len(Append(q, e)) = Len(q) + 1
         /\ \A i \in 1..Len(q) : Append(q, e)[i] = q[i]
         /\ Append(q, e)[Len(q) + 1] = e
  OBVIOUS

\* Taking the head of a nonempty sequence shifts the other elements down.
LEMMA TailFacts ==
  ASSUME NEW S, NEW q \in Seq(S), q # <<>>
  PROVE  /\ Len(q) \in Nat \ {0}
         /\ Head(q) = q[1] /\ Head(q) \in S
         /\ Tail(q) \in Seq(S)
         /\ Len(Tail(q)) = Len(q) - 1
         /\ \A i \in 1..Len(q) - 1 : Tail(q)[i] = q[i + 1]
  OBVIOUS

\* The numbers the order part is about.
LEMMA NumberFacts ==
  ASSUME TypeOK
  PROVE  /\ Jobs \subseteq Nat \ {0}
         /\ count \in Nat /\ running \in Nat
         /\ 1..count \subseteq Jobs
         /\ Len(queue) \in Nat
         /\ \A i \in 1..Len(queue) : queue[i] \in Jobs
<1>1. MaxJobs \in Nat /\ count \in 0..MaxJobs /\ running \in Jobs \cup {0}
  BY WorkerAssumption DEF TypeOK
<1>2. queue \in Seq(Jobs)
  BY DEF TypeOK
<1>3. Len(queue) \in Nat /\ \A i \in 1..Len(queue) : queue[i] \in Jobs
  BY <1>2
<1>4. Jobs \subseteq Nat \ {0} /\ 1..count \subseteq Jobs
  BY <1>1 DEF Jobs
<1> QED
  BY <1>1, <1>3, <1>4

\* What all three operations that append an action have in common.
Appending(t) ==
  /\ cpc[t] \in {"idle", "starting", "stopping"}
  /\ \E k \in UserKinds \cup OwnKinds : AppendJob(t, k)
  /\ UNCHANGED <<workerVars, wakeEvent, start, answer, flushed>>

\* Post, StartSetup and Stop are appends.
LEMMA AppendsAreAppending ==
  ASSUME NEW t \in Callers
  PROVE  /\ \A k \in PostKinds : Post(t, k) => Appending(t)
         /\ StartSetup(t) => Appending(t)
         /\ Stop(t) => Appending(t)
  BY WorkerAssumption DEF Post, StartSetup, Stop, Appending, OwnKinds

-----------------------------------------------------------------------------
(***************************************************************************)
(* Types.                                                                  *)
(***************************************************************************)

\* The initial state satisfies every part of the invariant.
LEMMA InitIInv == Init => IInv
<1> SUFFICES ASSUME Init PROVE IInv
  OBVIOUS
<1> USE WorkerAssumption DEF Init, Jobs, None
<1>1. queue = <<>> /\ Len(queue) = 0 /\ queue \in Seq(Jobs)
  OBVIOUS
<1>2. TypeOK
  <2>1. /\ kind \in [Jobs -> UserKinds \cup OwnKinds \cup {None}]
        /\ outcome \in [Jobs -> AllOutcomes \cup {None}]
        /\ result \in [Jobs -> {"value", "exc", "empty"}]
        /\ answer \in [Jobs -> {None, "value", "exc", "empty", "timeout"}]
    OBVIOUS
  <2>2. /\ cpc \in [Callers -> {"idle", "starting", "posted", "waiting", "stopping"}]
        /\ mine \in [Callers -> Jobs \cup {0}]
    OBVIOUS
  <2>3. /\ running \in Jobs \cup {0}
        /\ count \in 0..MaxJobs
        /\ processed \subseteq Jobs /\ flushed \subseteq Jobs
    OBVIOUS
  <2>4. /\ alive \in BOOLEAN /\ wakeEvent \in BOOLEAN
        /\ aborted \in BOOLEAN /\ quit \in BOOLEAN
    OBVIOUS
  <2>5. /\ wpc \in {"new", "loop", "wait", "drain", "run", "publish", "done"}
        /\ start \in {"no", "busy", "ok", "failed"}
    OBVIOUS
  <2> QED
    BY ONLY <1>1, <2>1, <2>2, <2>3, <2>4, <2>5 DEF TypeOK
<1>3. WorkerInv /\ StopInv
  BY DEF WorkerInv, StopInv
<1>4. OrderInv
  BY <1>1 DEF OrderInv
<1>5. AnswerInv /\ CallerInv
  BY DEF AnswerInv, CallerInv
<1> QED
  BY <1>2, <1>3, <1>4, <1>5 DEF IInv

\* Every step keeps the types, given the ownership the invariant records.
LEMMA TypeStep == IInv /\ [Next]_vars => TypeOK'
<1> SUFFICES ASSUME IInv, [Next]_vars PROVE TypeOK'
  OBVIOUS
<1> USE WorkerAssumption DEF IInv, TypeOK
<1>1. ASSUME NEW t \in Callers, Appending(t) PROVE TypeOK'
  <2> PICK k \in UserKinds \cup OwnKinds : AppendJob(t, k)
    BY <1>1 DEF Appending
  <2>1. count' \in Jobs
    BY DEF AppendJob, Jobs
  <2>2. queue' \in Seq(Jobs)
    BY <2>1, AppendFacts DEF AppendJob
  <2> QED
    BY <1>1, <2>1, <2>2 DEF Appending, AppendJob, Jobs, workerVars
<1>2. ASSUME NEW t \in Callers, Signal(t) PROVE TypeOK'
  BY <1>2 DEF Signal, workerVars
<1>3. ASSUME NEW t \in Callers, Return(t) PROVE TypeOK'
  BY <1>3 DEF Return, Resume, workerVars
<1>4. ASSUME NEW t \in Callers, TimeOut(t) PROVE TypeOK'
  BY <1>4 DEF TimeOut, Resume, workerVars
<1>5. ASSUME NEW t \in Callers, StartThread(t) PROVE TypeOK'
  BY <1>5 DEF StartThread
<1>6. CASE ClearPendingEvents
  <2>1. flushed' \subseteq Jobs /\ queue' \in Seq(Jobs)
    BY <1>6 DEF ClearPendingEvents
  <2> QED
    BY <1>6, <2>1 DEF ClearPendingEvents, workerVars
<1>7. CASE LoopTest
  BY <1>7 DEF LoopTest, callerVars
<1>8. CASE Wake
  BY <1>8 DEF Wake, callerVars
<1>9. CASE PollTimeout
  BY <1>9 DEF PollTimeout, callerVars
<1>10. CASE PumpQuit
  BY <1>10 DEF PumpQuit, callerVars
<1>11. CASE PopLeft
  <2>1. queue' \in Seq(Jobs) /\ running' \in Jobs \cup {0}
    <3>1. CASE queue = <<>>
      BY <1>11, <3>1 DEF PopLeft
    <3>2. CASE queue # <<>>
      <4>1. Head(queue) \in Jobs /\ Tail(queue) \in Seq(Jobs)
        BY <3>2, TailFacts
      <4> QED
        BY <1>11, <3>2, <4>1 DEF PopLeft
    <3> QED
      BY <3>1, <3>2
  <2>2. wpc' \in {"loop", "run"}
    BY <1>11 DEF PopLeft
  <2> QED
    BY <1>11, <2>1, <2>2 DEF PopLeft, callerVars
<1>12. CASE RunJob
  <2> PICK o \in Outcomes :
           /\ outcome' = [outcome EXCEPT ![running] = o]
           /\ result' = [result EXCEPT ![running] = Stored(kind[running], o)]
    BY <1>12 DEF RunJob
  <2>1. o \in AllOutcomes /\ Stored(kind[running], o) \in {"value", "exc", "empty"}
    BY DEF Stored
  <2> QED
    BY <1>12, <2>1 DEF RunJob, callerVars
<1>13. CASE Publish
  <2>1. running \in Jobs
    BY <1>13 DEF Publish, WorkerInv
  <2>2. processed' \subseteq Jobs /\ aborted' \in BOOLEAN
    BY <1>13, <2>1 DEF Publish, Escapes
  <2> QED
    BY <1>13, <2>2 DEF Publish, callerVars
<1>14. CASE UNCHANGED vars
  BY <1>14 DEF vars, workerVars, callerVars
<1> QED
  BY <1>1, <1>2, <1>3, <1>4, <1>5, <1>6, <1>7, <1>8, <1>9, <1>10, <1>11,
     <1>12, <1>13, <1>14, AppendsAreAppending
  DEF Next, Caller, Worker

-----------------------------------------------------------------------------
(***************************************************************************)
(* The four parts of the invariant that relate variables.                  *)
(***************************************************************************)

\* A worker with a current action is executing or publishing it.
LEMMA WorkerStepInv == IInv /\ [Next]_vars => WorkerInv'
<1> SUFFICES ASSUME IInv, [Next]_vars PROVE WorkerInv'
  OBVIOUS
<1> USE DEF IInv, WorkerInv
<1>1. CASE UNCHANGED <<running, wpc, outcome>>
  BY <1>1
<1>2. ASSUME NEW t \in Callers, StartThread(t) PROVE WorkerInv'
  BY <1>2 DEF StartThread
<1>3. CASE LoopTest
  BY <1>3 DEF LoopTest
<1>4. CASE Wake \/ PollTimeout
  BY <1>4 DEF Wake, PollTimeout
<1>5. CASE PumpQuit
  BY <1>5 DEF PumpQuit
<1>6. CASE PopLeft
  <2>1. CASE queue = <<>>
    BY <1>6, <2>1 DEF PopLeft
  <2>2. CASE queue # <<>>
    <3>1. Head(queue) \in Jobs /\ Head(queue) # 0
      BY <2>2, TailFacts, NumberFacts DEF TypeOK
    <3>2. outcome[Head(queue)] = None
      <4>1. queue[1] = Head(queue) /\ 1 \in 1..Len(queue)
        BY <2>2, TailFacts DEF TypeOK
      <4> QED
        BY <3>1, <4>1 DEF OrderInv, Jobs
    <3> QED
      BY <1>6, <2>2, <3>1, <3>2 DEF PopLeft
  <2> QED
    BY <2>1, <2>2
<1>7. CASE RunJob
  <2> PICK o \in AllOutcomes : outcome' = [outcome EXCEPT ![running] = o]
    BY <1>7, WorkerAssumption DEF RunJob, AllOutcomes
  <2>1. o # None /\ running \in Jobs
    BY <1>7 DEF RunJob, AllOutcomes, None, TypeOK
  <2> QED
    BY <1>7, <2>1 DEF RunJob, TypeOK
<1>8. CASE Publish
  BY <1>8 DEF Publish
<1>9. ASSUME NEW t \in Callers,
             Appending(t) \/ Signal(t) \/ Return(t) \/ TimeOut(t)
      PROVE  UNCHANGED <<running, wpc, outcome>>
  BY <1>9 DEF Appending, Signal, Return, TimeOut, Resume, workerVars
<1>10. ClearPendingEvents \/ UNCHANGED vars => UNCHANGED <<running, wpc, outcome>>
  BY DEF ClearPendingEvents, vars, workerVars
<1> QED
  BY <1>1, <1>2, <1>3, <1>4, <1>5, <1>6, <1>7, <1>8, <1>9, <1>10,
     AppendsAreAppending
  DEF Next, Caller, Worker

\* The deque stays in the order of the appends and no action slips out of it.
LEMMA OrderStepInv == IInv /\ [Next]_vars => OrderInv'
<1> SUFFICES ASSUME IInv, [Next]_vars PROVE OrderInv'
  OBVIOUS
<1> USE DEF IInv
<1>1. CASE UNCHANGED <<queue, count, running, outcome, flushed>>
  BY <1>1 DEF OrderInv
<1>2. ASSUME NEW t \in Callers, Appending(t) PROVE OrderInv'
  <2> DEFINE n == count + 1
  <2>1. /\ n \in Jobs /\ count' = n
        /\ queue' = Append(queue, n)
        /\ UNCHANGED <<running, outcome, flushed>>
    <3> PICK k \in UserKinds \cup OwnKinds : AppendJob(t, k)
      BY <1>2 DEF Appending
    <3>1. n \in Jobs /\ count' = n /\ queue' = Append(queue, n)
      BY WorkerAssumption DEF AppendJob, Jobs, TypeOK
    <3>2. UNCHANGED <<running, outcome, flushed>>
      BY <1>2 DEF Appending, workerVars
    <3> QED
      BY <3>1, <3>2
  <2>2. /\ Len(queue) \in Nat /\ Len(queue') = Len(queue) + 1
        /\ \A i \in 1..Len(queue) : queue'[i] = queue[i]
        /\ queue'[Len(queue) + 1] = n
    BY <2>1, AppendFacts DEF TypeOK
  <2>3. \A i \in 1..Len(queue) : queue[i] \in Jobs /\ queue[i] <= count
    BY NumberFacts DEF OrderInv
  <2>4. /\ count \in Nat /\ running \in Nat /\ Jobs \subseteq Nat
        /\ running <= count
        /\ \A j \in Jobs : outcome[j] # None => j <= count
    BY NumberFacts DEF OrderInv
  <2> HIDE DEF n
  <2>5. ASSUME NEW i \in 1..Len(queue'), NEW k \in 1..Len(queue'), i < k
        PROVE  queue'[i] < queue'[k]
    <3>1. i \in 1..Len(queue) /\ queue'[i] = queue[i]
      BY <2>2, <2>5
    <3>2. CASE k \in 1..Len(queue)
      <4>1. \A a, b \in 1..Len(queue) : a < b => queue[a] < queue[b]
        BY DEF OrderInv
      <4> QED
        BY <2>2, <2>5, <3>1, <3>2, <4>1
    <3>3. CASE k = Len(queue) + 1
      <4>1. queue'[k] = n /\ queue[i] <= count /\ queue[i] \in Nat
        BY <2>2, <2>3, <2>4, <3>1, <3>3
      <4> QED
        BY <2>4, <3>1, <4>1 DEF n
    <3> QED
      BY <2>2, <3>2, <3>3
  <2>6. ASSUME NEW i \in 1..Len(queue')
        PROVE  /\ queue'[i] <= count' /\ running < queue'[i]
               /\ \A j \in Jobs : outcome[j] # None => j < queue'[i]
    <3>1. CASE i \in 1..Len(queue)
      <4>1. /\ queue[i] <= count /\ running < queue[i]
            /\ \A j \in Jobs : outcome[j] # None => j < queue[i]
        BY <3>1 DEF OrderInv
      <4>2. queue'[i] = queue[i] /\ queue[i] \in Nat
        BY <2>2, <2>3, <2>4, <3>1
      <4> QED
        BY <2>1, <2>4, <4>1, <4>2 DEF n
    <3>2. CASE i = Len(queue) + 1
      BY <2>1, <2>2, <2>4, <3>2 DEF n
    <3> QED
      BY <2>2, <3>1, <3>2
  <2>7. \A j \in 1..count' : \/ outcome[j] # None \/ j \in flushed \/ j = running
                            \/ \E i \in 1..Len(queue') : queue'[i] = j
    <3> SUFFICES ASSUME NEW j \in 1..count', outcome[j] = None, j \notin flushed,
                        j # running
                 PROVE  \E i \in 1..Len(queue') : queue'[i] = j
      OBVIOUS
    <3>1. CASE j = n
      BY <2>2, <3>1
    <3>2. CASE j # n
      <4>1. j \in 1..count
        BY <2>1, <2>4, <3>2 DEF n
      <4>2. PICK i \in 1..Len(queue) : queue[i] = j
        BY <4>1 DEF OrderInv
      <4> QED
        BY <2>2, <4>2
    <3> QED
      BY <3>1, <3>2
  <2>8. /\ running <= count'
        /\ running # 0 => \A j \in Jobs : outcome[j] # None => j <= running
        /\ \A j \in Jobs : outcome[j] # None => j <= count'
    BY <2>1, <2>4 DEF OrderInv, n
  <2> QED
    BY <2>1, <2>5, <2>6, <2>7, <2>8 DEF OrderInv
<1>3. CASE ClearPendingEvents
  <2>1. /\ flushed' = flushed \cup {queue[i] : i \in 1..Len(queue)}
        /\ queue' = <<>> /\ Len(queue') = 0
        /\ UNCHANGED <<count, running, outcome>>
    BY <1>3 DEF ClearPendingEvents, workerVars
  <2> QED
    BY <2>1 DEF OrderInv
<1>4. CASE PopLeft
  <2>1. CASE queue = <<>>
    BY <1>1, <1>4, <2>1 DEF PopLeft, callerVars
  <2>2. CASE queue # <<>>
    <3>1. /\ running = 0
          /\ running' = queue[1] /\ queue' = Tail(queue)
          /\ UNCHANGED <<count, outcome, flushed>>
      BY <1>4, <2>2, TailFacts DEF PopLeft, callerVars, WorkerInv, TypeOK
    <3>2. /\ Len(queue) \in Nat \ {0} /\ Len(queue') = Len(queue) - 1
          /\ \A i \in 1..Len(queue') : queue'[i] = queue[i + 1]
      BY <2>2, <3>1, TailFacts DEF TypeOK
    <3>3. /\ \A i \in 1..Len(queue) : queue[i] \in Jobs
          /\ Jobs \subseteq Nat /\ count \in Nat
      BY NumberFacts
    <3>4. \A i \in 1..Len(queue') : i + 1 \in 1..Len(queue) /\ 1 < i + 1
      BY <3>2
    <3>5. 1 \in 1..Len(queue)
      BY <3>2
    <3>6. \A i, k \in 1..Len(queue') : i < k => queue'[i] < queue'[k]
      BY <3>2, <3>4 DEF OrderInv
    <3>7. \A i \in 1..Len(queue') :
             /\ queue'[i] <= count /\ queue[1] < queue'[i]
             /\ \A j \in Jobs : outcome[j] # None => j < queue'[i]
      BY <3>2, <3>4, <3>5 DEF OrderInv
    <3>8. queue[1] <= count /\ \A j \in Jobs : outcome[j] # None => j <= queue[1]
      <4>1. \A j \in Jobs : outcome[j] # None => j < queue[1]
        BY <3>5 DEF OrderInv
      <4>2. queue[1] <= count /\ queue[1] \in Nat
        BY <3>3, <3>5 DEF OrderInv
      <4> QED
        BY <3>3, <4>1, <4>2
    <3>9. \A j \in 1..count : \/ outcome[j] # None \/ j \in flushed \/ j = queue[1]
                             \/ \E i \in 1..Len(queue') : queue'[i] = j
      <4> SUFFICES ASSUME NEW j \in 1..count, outcome[j] = None, j \notin flushed,
                          j # queue[1]
                   PROVE  \E i \in 1..Len(queue') : queue'[i] = j
        OBVIOUS
      <4>1. PICK i \in 1..Len(queue) : queue[i] = j
        BY <3>1, <3>3 DEF OrderInv
      <4>2. i - 1 \in 1..Len(queue') /\ (i - 1) + 1 = i
        BY <3>2, <4>1
      <4> QED
        BY <3>2, <4>1, <4>2
    <3> QED
      BY <3>1, <3>6, <3>7, <3>8, <3>9 DEF OrderInv
  <2> QED
    BY <2>1, <2>2
<1>5. CASE RunJob
  <2>1. running \in Jobs /\ running # 0
    BY <1>5 DEF RunJob, WorkerInv, TypeOK
  <2> PICK o \in AllOutcomes : outcome' = [outcome EXCEPT ![running] = o]
    BY <1>5, WorkerAssumption DEF RunJob, AllOutcomes
  <2>2. UNCHANGED <<queue, count, running, flushed>>
    BY <1>5 DEF RunJob, callerVars
  <2>3. \A j \in Jobs : outcome'[j] # None => outcome[j] # None \/ j = running
    BY DEF TypeOK
  <2>4. \A j \in Jobs : outcome[j] # None => outcome'[j] # None
    BY DEF TypeOK, AllOutcomes, None
  <2>5. 1..count \subseteq Jobs /\ Jobs \subseteq Nat /\ running \in Nat
    BY NumberFacts
  <2> QED
    BY <2>1, <2>2, <2>3, <2>4, <2>5 DEF OrderInv
<1>6. CASE Publish
  <2>1. /\ running' = 0 /\ UNCHANGED <<queue, count, outcome, flushed>>
        /\ running # 0 /\ outcome[running] # None
    BY <1>6 DEF Publish, callerVars, WorkerInv
  <2>2. \A i \in 1..Len(queue) : 0 < queue[i]
    BY NumberFacts
  <2> QED
    BY <2>1, <2>2, NumberFacts DEF OrderInv
<1>7. ASSUME NEW t \in Callers,
             Signal(t) \/ Return(t) \/ TimeOut(t) \/ StartThread(t)
      PROVE  UNCHANGED <<queue, count, running, outcome, flushed>>
  BY <1>7 DEF Signal, Return, TimeOut, StartThread, Resume, workerVars
<1>8. LoopTest \/ Wake \/ PollTimeout \/ PumpQuit \/ UNCHANGED vars =>
        UNCHANGED <<queue, count, running, outcome, flushed>>
  BY DEF LoopTest, Wake, PollTimeout, PumpQuit, vars, workerVars, callerVars
<1> QED
  BY <1>1, <1>2, <1>3, <1>4, <1>5, <1>6, <1>7, <1>8, AppendsAreAppending
  DEF Next, Caller, Worker

\* What a caller is told is what its action stored, and that is what its
\* function did.
LEMMA AnswerStepInv == IInv /\ [Next]_vars => AnswerInv'
<1> SUFFICES ASSUME IInv, [Next]_vars PROVE AnswerInv'
  OBVIOUS
<1> USE DEF IInv
<1>1. CASE UNCHANGED <<count, kind, outcome, result, processed, answer>>
  BY <1>1 DEF AnswerInv, Stored
<1>2. ASSUME NEW t \in Callers, Appending(t) PROVE AnswerInv'
  <2> DEFINE n == count + 1
  <2> PICK k \in UserKinds \cup OwnKinds :
           count' = n /\ kind' = [kind EXCEPT ![n] = k]
    BY <1>2 DEF Appending, AppendJob
  <2>1. UNCHANGED <<outcome, result, processed, answer>>
    BY <1>2 DEF Appending, workerVars
  <2>2. \A j \in Jobs : outcome[j] # None => j # n /\ j <= n
    BY NumberFacts DEF OrderInv
  <2>3. \A j \in Jobs : answer[j] # None => j <= n
    BY NumberFacts DEF AnswerInv
  <2>4. \A j \in Jobs : j # n => kind'[j] = kind[j]
    BY DEF TypeOK
  <2> HIDE DEF n
  <2>5. \A j \in Jobs : outcome[j] # None => result[j] = Stored(kind'[j], outcome[j])
    BY <2>2, <2>4 DEF AnswerInv
  <2> QED
    BY <2>1, <2>3, <2>5 DEF AnswerInv, Stored
<1>3. ASSUME NEW t \in Callers, Return(t) PROVE AnswerInv'
  <2>1. /\ answer' = [answer EXCEPT ![mine[t]] = result[mine[t]]]
        /\ mine[t] \in processed /\ mine[t] \in Jobs /\ mine[t] <= count
        /\ UNCHANGED <<count, kind, outcome, result, processed>>
    BY <1>3 DEF Return, Resume, workerVars, TypeOK, CallerInv
  <2>2. outcome[mine[t]] # None
    BY <2>1 DEF AnswerInv
  <2> QED
    BY <2>1, <2>2 DEF AnswerInv, Stored, TypeOK
<1>4. ASSUME NEW t \in Callers, TimeOut(t) PROVE AnswerInv'
  <2>1. /\ answer' = [answer EXCEPT ![mine[t]] = "timeout"]
        /\ mine[t] <= count
        /\ UNCHANGED <<count, kind, outcome, result, processed>>
    BY <1>4 DEF TimeOut, Resume, workerVars, CallerInv
  <2> QED
    BY <2>1 DEF AnswerInv, Stored, TypeOK
<1>5. CASE RunJob
  <2> PICK o \in AllOutcomes :
           /\ outcome' = [outcome EXCEPT ![running] = o]
           /\ result' = [result EXCEPT ![running] = Stored(kind[running], o)]
    BY <1>5, WorkerAssumption DEF RunJob, AllOutcomes
  <2>1. running \in Jobs /\ outcome[running] = None /\ o # None
    BY <1>5 DEF RunJob, WorkerInv, TypeOK, AllOutcomes, None
  <2>2. UNCHANGED <<count, kind, processed, answer>>
    BY <1>5 DEF RunJob, callerVars
  <2>3. /\ \A j \in Jobs : j # running => outcome'[j] = outcome[j] /\ result'[j] = result[j]
        /\ outcome'[running] = o /\ result'[running] = Stored(kind[running], o)
    BY <2>1 DEF TypeOK
  <2>4. running \notin processed /\ answer[running] \in {None, "timeout"}
    BY <2>1 DEF AnswerInv
  <2>5. \A j \in Jobs : outcome'[j] # None => result'[j] = Stored(kind[j], outcome'[j])
    BY <2>1, <2>3 DEF AnswerInv
  <2>6. \A j \in processed : outcome'[j] # None
    BY <2>3, <2>4 DEF AnswerInv, TypeOK
  <2>7. \A j \in Jobs : answer[j] \notin {None, "timeout"} =>
                         outcome'[j] # None /\ answer[j] = result'[j]
    BY <2>3, <2>4 DEF AnswerInv
  <2> QED
    BY <2>2, <2>5, <2>6, <2>7 DEF AnswerInv, Stored
<1>6. CASE Publish
  <2>1. processed' \subseteq processed \cup {running} /\ outcome[running] # None
    BY <1>6 DEF Publish, WorkerInv
  <2>2. UNCHANGED <<count, kind, outcome, result, answer>>
    BY <1>6 DEF Publish, callerVars
  <2> QED
    BY <2>1, <2>2 DEF AnswerInv, Stored
<1>7. ASSUME NEW t \in Callers, Signal(t) \/ StartThread(t)
      PROVE  UNCHANGED <<count, kind, outcome, result, processed, answer>>
  BY <1>7 DEF Signal, StartThread, workerVars
<1>8. ClearPendingEvents \/ LoopTest \/ Wake \/ PollTimeout \/ PumpQuit \/ PopLeft
      \/ UNCHANGED vars =>
        UNCHANGED <<count, kind, outcome, result, processed, answer>>
  BY DEF ClearPendingEvents, LoopTest, Wake, PollTimeout, PumpQuit, PopLeft,
         vars, workerVars, callerVars
<1> QED
  BY <1>1, <1>2, <1>3, <1>4, <1>5, <1>6, <1>7, <1>8, AppendsAreAppending
  DEF Next, Caller, Worker

\* Every caller owns at most one action, no two callers own the same one, and
\* an owned action is not answered yet.
LEMMA CallerStepInv == IInv /\ [Next]_vars => CallerInv'
<1> SUFFICES ASSUME IInv, [Next]_vars PROVE CallerInv'
  OBVIOUS
<1> USE DEF IInv
<1>1. CASE UNCHANGED <<count, kind, cpc, mine, answer>>
  BY <1>1 DEF CallerInv
<1>2. ASSUME NEW t \in Callers, Appending(t) PROVE CallerInv'
  <2> DEFINE n == count + 1
  <2> PICK k \in UserKinds \cup OwnKinds :
           /\ count' = n /\ kind' = [kind EXCEPT ![n] = k]
           /\ mine' = [mine EXCEPT ![t] = n]
           /\ cpc' = [cpc EXCEPT ![t] = "posted"]
    BY <1>2 DEF Appending, AppendJob
  <2>1. UNCHANGED answer
    BY <1>2 DEF Appending
  <2>2. /\ n \in Jobs /\ n # 0 /\ count \in Nat /\ Jobs \subseteq Nat
        /\ answer[n] = None
    <3>1. n \in Jobs
      BY <1>2, WorkerAssumption DEF Appending, AppendJob, Jobs, TypeOK
    <3> QED
      BY <3>1, NumberFacts DEF AnswerInv
  <2>3. \A u \in Callers : mine[u] <= count /\ mine[u] # n
    BY <2>2 DEF CallerInv
  <2>4. /\ mine'[t] = n /\ cpc'[t] = "posted"
        /\ \A u \in Callers : u # t => mine'[u] = mine[u] /\ cpc'[u] = cpc[u]
    BY DEF TypeOK
  <2>5. \A u \in Callers : cpc[u] = "waiting" => kind'[mine[u]] = kind[mine[u]]
    BY <2>3 DEF TypeOK, CallerInv
  <2> HIDE DEF n
  <2>6. \A u \in Callers : mine[u] <= n
    <3>1. \A u \in Callers : mine[u] \in Nat
      BY NumberFacts DEF TypeOK
    <3> QED
      BY <2>2, <2>3, <3>1 DEF n
  <2> QED
    BY <2>1, <2>2, <2>3, <2>4, <2>5, <2>6 DEF CallerInv
<1>3. ASSUME NEW t \in Callers, Signal(t) PROVE CallerInv'
  <2>1. UNCHANGED <<count, kind, answer>>
    BY <1>3 DEF Signal
  <2>2. CASE kind[mine[t]] \in SyncKinds
    BY <1>3, <2>1, <2>2 DEF Signal, CallerInv, TypeOK
  <2>3. CASE kind[mine[t]] \notin SyncKinds
    BY <1>3, <2>1, <2>3, NumberFacts DEF Signal, CallerInv, TypeOK
  <2> QED
    BY <2>2, <2>3
<1>4. ASSUME NEW t \in Callers, NEW a, Resume(t, a), cpc[t] = "waiting"
      PROVE  CallerInv'
  <2>1. UNCHANGED <<count, kind>>
    BY <1>4 DEF Resume
  <2>2. /\ mine'[t] = 0 /\ cpc'[t] \in {"idle", "stopping"}
        /\ \A u \in Callers : u # t => mine'[u] = mine[u] /\ cpc'[u] = cpc[u]
    BY <1>4 DEF Resume, TypeOK
  <2>3. \A u \in Callers : u # t /\ mine[u] # 0 => answer'[mine[u]] = answer[mine[u]]
    BY <1>4 DEF Resume, TypeOK, CallerInv
  <2> QED
    BY <2>1, <2>2, <2>3, NumberFacts DEF CallerInv
<1>5. ASSUME NEW t \in Callers, StartThread(t) PROVE CallerInv'
  BY <1>5 DEF StartThread, CallerInv, TypeOK
<1>6. ClearPendingEvents \/ Worker \/ UNCHANGED vars =>
        UNCHANGED <<count, kind, cpc, mine, answer>>
  BY DEF ClearPendingEvents, Worker, LoopTest, Wake, PollTimeout, PumpQuit,
         PopLeft, RunJob, Publish, vars, callerVars
<1>7. ASSUME NEW t \in Callers, Return(t) \/ TimeOut(t) PROVE CallerInv'
  BY <1>4, <1>7 DEF Return, TimeOut
<1> QED
  BY <1>1, <1>2, <1>3, <1>5, <1>6, <1>7, AppendsAreAppending DEF Next, Caller

\* `alive` is cleared by an executed StopCall or by WM_QUIT and never set.
LEMMA StopStepInv == IInv /\ [Next]_vars => StopInv'
<1> SUFFICES ASSUME IInv, [Next]_vars PROVE StopInv'
  OBVIOUS
<1> USE DEF IInv
<1>1. CASE UNCHANGED <<alive, wpc, kind, outcome, quit>>
  BY <1>1 DEF StopInv
<1>2. ASSUME NEW t \in Callers, Appending(t) PROVE StopInv'
  <2> PICK k \in UserKinds \cup OwnKinds : kind' = [kind EXCEPT ![count + 1] = k]
    BY <1>2 DEF Appending, AppendJob
  <2>1. UNCHANGED <<alive, wpc, outcome, quit>>
    BY <1>2 DEF Appending, workerVars
  <2>2. \A s \in Jobs : outcome[s] # None => kind'[s] = kind[s]
    BY NumberFacts DEF OrderInv, TypeOK
  <2> QED
    BY <2>1, <2>2 DEF StopInv
<1>3. ASSUME NEW t \in Callers, StartThread(t) PROVE StopInv'
  BY <1>3 DEF StartThread, StopInv
<1>4. CASE LoopTest
  BY <1>4 DEF LoopTest, StopInv, callerVars
<1>5. CASE Wake \/ PollTimeout \/ PopLeft
  BY <1>5 DEF Wake, PollTimeout, PopLeft, StopInv, callerVars
<1>6. CASE PumpQuit
  BY <1>6 DEF PumpQuit, StopInv, callerVars
<1>7. CASE RunJob
  <2> PICK o \in AllOutcomes : outcome' = [outcome EXCEPT ![running] = o]
    BY <1>7, WorkerAssumption DEF RunJob, AllOutcomes
  <2>1. running \in Jobs /\ o # None
    BY <1>7 DEF RunJob, WorkerInv, TypeOK, AllOutcomes, None
  <2>2. \A s \in Jobs : outcome[s] # None \/ s = running => outcome'[s] # None
    BY <2>1 DEF TypeOK
  <2>3. UNCHANGED <<kind, quit>> /\ wpc' = "publish"
        /\ alive' = IF kind[running] = "stop" THEN FALSE ELSE alive
    BY <1>7 DEF RunJob, callerVars
  <2> QED
    BY <2>1, <2>2, <2>3 DEF StopInv
<1>8. CASE Publish
  BY <1>8 DEF Publish, StopInv, callerVars
<1>9. ASSUME NEW t \in Callers, Signal(t) \/ Return(t) \/ TimeOut(t)
      PROVE  UNCHANGED <<alive, wpc, kind, outcome, quit>>
  BY <1>9 DEF Signal, Return, TimeOut, Resume, workerVars
<1>10. ClearPendingEvents \/ UNCHANGED vars =>
         UNCHANGED <<alive, wpc, kind, outcome, quit>>
  BY DEF ClearPendingEvents, vars, workerVars, callerVars
<1> QED
  BY <1>1, <1>2, <1>3, <1>4, <1>5, <1>6, <1>7, <1>8, <1>9, <1>10,
     AppendsAreAppending
  DEF Next, Caller, Worker

\* The invariant holds in every reachable state.
THEOREM Invariance == Spec => []IInv
<1>1. IInv /\ [Next]_vars => IInv'
  BY TypeStep, WorkerStepInv, OrderStepInv, AnswerStepInv, CallerStepInv,
     StopStepInv
  DEF IInv
<1> QED
  BY <1>1, InitIInv, PTL DEF Spec

\* Every variable keeps its type, for any callers and any number of actions.
THEOREM TypeCorrect == Spec => []TypeOK
<1>1. IInv => TypeOK
  BY DEF IInv
<1> QED
  BY <1>1, Invariance, PTL

-----------------------------------------------------------------------------
(***************************************************************************)
(* The properties.                                                         *)
(***************************************************************************)

\* No wake-up is lost between append/SetEvent and wait/drain: NoLostWakeup is
\* inductive together with the types.
THEOREM NoLostWakeupHolds == Spec => []NoLostWakeup
<1>1. Init => NoLostWakeup
  BY DEF Init, NoLostWakeup
<1>2. TypeOK /\ NoLostWakeup /\ [Next]_vars => NoLostWakeup'
  <2> SUFFICES ASSUME TypeOK, NoLostWakeup, [Next]_vars PROVE NoLostWakeup'
    OBVIOUS
  <2> USE DEF TypeOK
  <2>1. CASE UNCHANGED <<wpc, queue, wakeEvent, aborted, cpc>>
    BY <2>1 DEF NoLostWakeup
  <2>2. ASSUME NEW t \in Callers, Appending(t) PROVE NoLostWakeup'
    <3>1. cpc'[t] = "posted"
      BY <2>2 DEF Appending, AppendJob
    <3> QED
      BY <3>1 DEF NoLostWakeup
  <2>3. ASSUME NEW t \in Callers, Signal(t) PROVE NoLostWakeup'
    BY <2>3 DEF Signal, NoLostWakeup
  <2>4. ASSUME NEW t \in Callers,
               StartThread(t) \/ Return(t) \/ TimeOut(t)
        PROVE  NoLostWakeup'
    <3>1. \A u \in Callers : cpc[u] = "posted" => cpc'[u] = "posted"
      BY <2>4 DEF StartThread, Return, TimeOut, Resume
    <3>2. UNCHANGED <<queue, wakeEvent, aborted>>
      BY <2>4 DEF StartThread, Return, TimeOut, Resume, workerVars
    <3>3. wpc' \in {"new", "loop", "wait"} => wpc \in {"new", "loop", "wait"}
      BY <2>4 DEF StartThread, Return, TimeOut, Resume, workerVars
    <3> QED
      BY <3>1, <3>2, <3>3 DEF NoLostWakeup
  <2>5. CASE ClearPendingEvents
    BY <2>5 DEF ClearPendingEvents, NoLostWakeup
  <2>6. CASE LoopTest \/ PollTimeout \/ PumpQuit
    BY <2>6 DEF LoopTest, PollTimeout, PumpQuit, NoLostWakeup, callerVars
  <2>7. CASE Wake \/ RunJob
    BY <2>7 DEF Wake, RunJob, NoLostWakeup
  <2>8. CASE PopLeft
    BY <2>8 DEF PopLeft, NoLostWakeup
  <2>9. CASE Publish
    <3>1. wpc' = "loop" => aborted'
      BY <2>9 DEF Publish
    <3>2. wpc' \in {"loop", "drain"}
      BY <2>9 DEF Publish
    <3> QED
      BY <3>1, <3>2 DEF NoLostWakeup
  <2>10. UNCHANGED vars => UNCHANGED <<wpc, queue, wakeEvent, aborted, cpc>>
    BY DEF vars, workerVars, callerVars
  <2> QED
    BY <2>1, <2>2, <2>3, <2>4, <2>5, <2>6, <2>7, <2>8, <2>9, <2>10,
       AppendsAreAppending
    DEF Next, Caller, Worker
<1> QED
  BY <1>1, <1>2, TypeCorrect, PTL DEF Spec

\* Actions run in the order of their appends, whichever threads append them.
THEOREM ExecutedInOrderHolds == Spec => []ExecutedInOrder
<1>1. IInv => ExecutedInOrder
  <2> SUFFICES ASSUME IInv, NEW i \in Jobs, NEW j \in Jobs, i < j,
                      outcome[j] # None, outcome[i] = None, i \notin flushed
               PROVE  FALSE
    BY DEF ExecutedInOrder
  <2> USE DEF IInv
  <2>1. i \in 1..count
    <3>1. j <= count /\ count \in Nat /\ i \in Nat \ {0} /\ j \in Nat
      BY NumberFacts DEF OrderInv
    <3> QED
      BY <3>1
  <2>2. CASE i = running
    <3>1. j <= i /\ i \in Nat /\ j \in Nat
      BY <2>2, NumberFacts DEF OrderInv
    <3> QED
      BY <3>1
  <2>3. ASSUME NEW k \in 1..Len(queue), queue[k] = i PROVE FALSE
    <3>1. j < i /\ i \in Nat /\ j \in Nat
      BY <2>3, NumberFacts DEF OrderInv
    <3> QED
      BY <3>1
  <2> QED
    BY <2>1, <2>2, <2>3 DEF OrderInv
<1> QED
  BY <1>1, Invariance, PTL

\* A worker that ended without WM_QUIT has executed a StopCall and everything
\* that was appended before it and not flushed.
THEOREM StopIsOrderlyHolds == Spec => []StopIsOrderly
<1>1. IInv /\ ExecutedInOrder => StopIsOrderly
  <2> SUFFICES ASSUME IInv, ExecutedInOrder, wpc = "done", ~quit
               PROVE  \E s \in Jobs : /\ kind[s] = "stop" /\ outcome[s] # None
                                      /\ \A j \in 1..s : outcome[j] # None \/ j \in flushed
    BY DEF StopIsOrderly
  <2>1. PICK s \in Jobs : kind[s] = "stop" /\ outcome[s] # None
    BY DEF IInv, StopInv
  <2>2. \A j \in 1..s : j = s \/ (j \in Jobs /\ j < s)
    BY WorkerAssumption DEF Jobs
  <2> QED
    BY <2>1, <2>2 DEF ExecutedInOrder
<1> QED
  BY <1>1, Invariance, ExecutedInOrderHolds, PTL

\* A synchronous call reports its own action's outcome and no other.
THEOREM AnswersAreTrueHolds == Spec => []AnswersAreTrue
<1>1. IInv => AnswersAreTrue
  BY DEF IInv, AnswerInv, AnswersAreTrue
<1> QED
  BY <1>1, Invariance, PTL

-----------------------------------------------------------------------------
(***************************************************************************)
(* The worker thread implements the abstract queue.                        *)
(***************************************************************************)

\* Every step of the worker and of its callers is a step of the abstract queue
\* or leaves it alone, so what WorkQueue promises holds of ThreadWorker.
THEOREM Implementation == Spec => ImplementsWorkQueue
<1> USE DEF Abstract!Jobs, Abstract!None, Jobs, None
<1>1. Init => Abstract!Init
  BY DEF Init, Abstract!Init
<1>2. IInv /\ [Next]_vars => [Abstract!Next]_(Abstract!vars)
  <2> SUFFICES ASSUME IInv, [Next]_vars
               PROVE  Abstract!Next \/ UNCHANGED Abstract!vars
    OBVIOUS
  <2> USE DEF IInv
  <2>1. ASSUME NEW t \in Callers, Appending(t) PROVE Abstract!Accept
    BY <2>1 DEF Appending, AppendJob, Abstract!Accept, workerVars
  <2>2. ASSUME NEW t \in Callers, Return(t)
        PROVE  \E j \in Abstract!Jobs : Abstract!Answer(j)
    <3>1. /\ mine[t] \in Jobs /\ mine[t] \in processed
          /\ answer[mine[t]] = None
          /\ kind[mine[t]] \in SyncKinds
      BY <2>2 DEF Return, CallerInv, TypeOK, Jobs
    <3>2. /\ outcome[mine[t]] # None
          /\ result[mine[t]] = Stored(kind[mine[t]], outcome[mine[t]])
      BY <3>1 DEF AnswerInv
    <3>3. outcome[mine[t]] \in AllOutcomes
      BY <3>1, <3>2 DEF TypeOK
    <3>4. result[mine[t]] = Abstract!Reported(outcome[mine[t]])
      BY <3>1, <3>2, <3>3 DEF Stored, Abstract!Reported, AllOutcomes
    <3>5. /\ answer' = [answer EXCEPT ![mine[t]] = result[mine[t]]]
          /\ UNCHANGED <<count, queue, running, outcome>>
      BY <2>2 DEF Return, Resume, workerVars
    <3>6. Abstract!Answer(mine[t])
      BY <3>1, <3>2, <3>4, <3>5 DEF Abstract!Answer
    <3> QED
      BY <3>1, <3>6
  <2>3. ASSUME NEW t \in Callers, TimeOut(t)
        PROVE  \E j \in Abstract!Jobs : Abstract!GiveUp(j)
    <3>1. /\ mine[t] \in Jobs /\ mine[t] <= count /\ answer[mine[t]] = None
      BY <2>3 DEF TimeOut, CallerInv, TypeOK
    <3>2. Abstract!GiveUp(mine[t])
      BY <2>3, <3>1 DEF TimeOut, Resume, workerVars, Abstract!GiveUp
    <3> QED
      BY <3>1, <3>2
  <2>4. ClearPendingEvents => Abstract!Discard
    BY DEF ClearPendingEvents, Abstract!Discard, workerVars
  <2>5. PopLeft => Abstract!Take \/ UNCHANGED Abstract!vars
    BY DEF PopLeft, Abstract!Take, Abstract!vars, WorkerInv, callerVars
  <2>6. ASSUME RunJob PROVE \E o \in Outcomes : Abstract!Finish(o)
    <3> PICK o \in Outcomes : outcome' = [outcome EXCEPT ![running] = o]
      BY <2>6, WorkerAssumption DEF RunJob
    <3>1. Abstract!Finish(o)
      BY <2>6 DEF RunJob, WorkerInv, Abstract!Finish, callerVars
    <3> QED
      BY <3>1
  <2>7. Publish => Abstract!Release
    BY DEF Publish, WorkerInv, Abstract!Release, callerVars
  <2>8. ASSUME NEW t \in Callers, Signal(t) \/ StartThread(t)
        PROVE  UNCHANGED Abstract!vars
    BY <2>8 DEF Signal, StartThread, Abstract!vars, workerVars
  <2>9. LoopTest \/ Wake \/ PollTimeout \/ PumpQuit \/ UNCHANGED vars =>
          UNCHANGED Abstract!vars
    BY DEF LoopTest, Wake, PollTimeout, PumpQuit, Abstract!vars, vars,
           workerVars, callerVars
  <2> QED
    BY <2>1, <2>2, <2>3, <2>4, <2>5, <2>6, <2>7, <2>8, <2>9, AppendsAreAppending
    DEF Next, Caller, Worker, Abstract!Next
<1> QED
  BY <1>1, <1>2, Invariance, PTL DEF Spec, Abstract!Spec, ImplementsWorkQueue
=============================================================================
