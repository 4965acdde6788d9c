---------------------------- MODULE ThreadWorker ----------------------------
(***************************************************************************)
(* eg/Classes/ThreadWorker.py: the queue-and-event worker thread that the  *)
(* action thread, the event thread and the message receiver are instances  *)
(* of.  Any thread appends an action to a deque and then sets an auto-     *)
(* reset event, two steps another thread can fall between; the worker      *)
(* waits for the event, drains the deque until it is empty, and leaves its *)
(* loop when an executed StopCall (or WM_QUIT) has cleared `alive`.        *)
(*                                                                         *)
(* An action is a number, given in the order of the appends.  Of a         *)
(* function only the way it ends is kept: with a value, with an Exception  *)
(* ("exc") or with something `except Exception` does not catch ("base").   *)
(***************************************************************************)
EXTENDS Naturals, Sequences

CONSTANTS Callers,    (* threads that use the worker, other than itself     *)
          MaxJobs,    (* bound on the number of actions appended            *)
          PostKinds,  (* the ways of appending the callers use              *)
          Outcomes,   (* how an executed function may end                   *)
          Flush,      (* whether ClearPendingEvents is called               *)
          Quit        (* whether a WM_QUIT message may arrive               *)

Jobs == 1..MaxJobs
None == "none"

(***************************************************************************)
(* The ways of appending: Call, Func without and with a timeout, and       *)
(* AppendAction, which queues a bare function ("raw") with no              *)
(* ThreadWorkerAction around it.  Start and Stop append actions of their   *)
(* own.                                                                    *)
(***************************************************************************)
UserKinds == {"call", "func", "timed", "raw"}
OwnKinds == {"setup", "setupcall", "stop"}
SyncKinds == {"func", "timed", "setup"}
TimedKinds == {"timed", "setup"}
AllOutcomes == {"value", "exc", "base"}

ASSUME WorkerAssumption ==
  /\ MaxJobs \in Nat
  /\ PostKinds \subseteq UserKinds
  /\ Outcomes \subseteq AllOutcomes
  /\ "value" \in Outcomes
  /\ Flush \in BOOLEAN
  /\ Quit \in BOOLEAN

VARIABLES
  alive,      (* self.__alive                                               *)
  queue,      (* self.__queue                                               *)
  wakeEvent,  (* self.__wakeEvent, auto-reset                               *)
  wpc,        (* where the worker thread is                                 *)
  running,    (* the action __DoOneEvent popped, 0 if there is none         *)
  count,      (* the number of actions appended so far                      *)
  kind,       (* how each action was appended                               *)
  outcome,    (* how its function ended (history)                           *)
  result,     (* action.returnValue and action.exceptionInfo                *)
  processed,  (* the actions whose `processed` event is set                 *)
  start,      (* progress of Start(): "no", "busy", "ok" or "failed"        *)
  cpc,        (* where each caller is                                       *)
  mine,       (* the action a caller is appending or waiting for, or 0      *)
  answer,     (* what the call of each action returned or raised            *)
  flushed,    (* actions ClearPendingEvents removed (history)               *)
  aborted,    (* a raw action's failure ended the last drain (history)      *)
  quit        (* WM_QUIT was received (history)                             *)

workerVars == <<alive, wpc, running, outcome, result, processed, aborted, quit>>
callerVars == <<count, kind, start, cpc, mine, answer, flushed>>
vars == <<workerVars, queue, wakeEvent, callerVars>>

TypeOK ==
  /\ alive \in BOOLEAN
  /\ queue \in Seq(Jobs)
  /\ wakeEvent \in BOOLEAN
  /\ wpc \in {"new", "loop", "wait", "drain", "run", "publish", "done"}
  /\ running \in Jobs \cup {0}
  /\ count \in 0..MaxJobs
  /\ kind \in [Jobs -> UserKinds \cup OwnKinds \cup {None}]
  /\ outcome \in [Jobs -> AllOutcomes \cup {None}]
  /\ result \in [Jobs -> {"value", "exc", "empty"}]
  /\ processed \subseteq Jobs
  /\ start \in {"no", "busy", "ok", "failed"}
  /\ cpc \in [Callers -> {"idle", "starting", "posted", "waiting", "stopping"}]
  /\ mine \in [Callers -> Jobs \cup {0}]
  /\ answer \in [Jobs -> {None, "value", "exc", "empty", "timeout"}]
  /\ flushed \subseteq Jobs
  /\ aborted \in BOOLEAN
  /\ quit \in BOOLEAN

Init ==
  /\ alive = TRUE
  /\ queue = <<>>
  /\ wakeEvent = FALSE
  /\ wpc = "new"
  /\ running = 0
  /\ count = 0
  /\ kind = [j \in Jobs |-> None]
  /\ outcome = [j \in Jobs |-> None]
  /\ result = [j \in Jobs |-> "empty"]
  /\ processed = {}
  /\ start = "no"
  /\ cpc = [t \in Callers |-> "idle"]
  /\ mine = [t \in Callers |-> 0]
  /\ answer = [j \in Jobs |-> None]
  /\ flushed = {}
  /\ aborted = FALSE
  /\ quit = FALSE

-----------------------------------------------------------------------------
(***************************************************************************)
(* The calling threads.                                                    *)
(***************************************************************************)

\* `self.__queue.append(action)`: the first half of every append.
AppendJob(t, k) ==
  /\ count < MaxJobs
  /\ count' = count + 1
  /\ queue' = Append(queue, count')
  /\ kind' = [kind EXCEPT ![count'] = k]
  /\ mine' = [mine EXCEPT ![t] = count']
  /\ cpc' = [cpc EXCEPT ![t] = "posted"]

\* Call, Func and AppendAction, by a thread that got the worker from its
\* owner, which is after Start has returned or raised.
Post(t, k) ==
  /\ cpc[t] = "idle"
  /\ start \in {"ok", "failed"}
  /\ AppendJob(t, k)
  /\ UNCHANGED <<workerVars, wakeEvent, start, answer, flushed>>

\* Wrong: the event is set only for a worker that is seen waiting.
SignalIfWaiting(t) ==
  /\ cpc[t] = "posted"
  /\ wakeEvent' = (wakeEvent \/ wpc = "wait")
  /\ \/ /\ kind[mine[t]] \in SyncKinds
        /\ cpc' = [cpc EXCEPT ![t] = "waiting"]
        /\ UNCHANGED <<mine, start>>
     \/ /\ kind[mine[t]] \notin SyncKinds
        /\ cpc' = [cpc EXCEPT ![t] = "idle"]
        /\ mine' = [mine EXCEPT ![t] = 0]
        /\ start' = IF start = "busy" THEN "ok" ELSE start
  /\ UNCHANGED <<workerVars, queue, count, kind, answer, flushed>>

\* `SetEvent(self.__wakeEvent)`, the second half; then a Func waits for its
\* action and everything else is finished.
Signal(t) ==
  /\ cpc[t] = "posted"
  /\ wakeEvent' = TRUE
  /\ \/ /\ kind[mine[t]] \in SyncKinds
        /\ cpc' = [cpc EXCEPT ![t] = "waiting"]
        /\ UNCHANGED <<mine, start>>
     \/ /\ kind[mine[t]] \notin SyncKinds
        /\ cpc' = [cpc EXCEPT ![t] = "idle"]
        /\ mine' = [mine EXCEPT ![t] = 0]
        /\ start' = IF start = "busy"
                    THEN IF kind[mine[t]] = "stop" THEN "failed" ELSE "ok"
                    ELSE start
  /\ UNCHANGED <<workerVars, queue, count, kind, answer, flushed>>

\* What the Wrapper of Func does with the answer: the caller of a Setup that
\* did not succeed goes on to call Stop, every other caller is finished.
Resume(t, a) ==
  /\ answer' = [answer EXCEPT ![mine[t]] = a]
  /\ mine' = [mine EXCEPT ![t] = 0]
  /\ \/ /\ kind[mine[t]] = "setup" /\ a \in {"exc", "timeout"}
        /\ cpc' = [cpc EXCEPT ![t] = "stopping"]
        /\ UNCHANGED start
     \/ /\ kind[mine[t]] = "setup" /\ a \notin {"exc", "timeout"}
        /\ cpc' = [cpc EXCEPT ![t] = "idle"]
        /\ start' = "ok"
     \/ /\ kind[mine[t]] # "setup"
        /\ cpc' = [cpc EXCEPT ![t] = "idle"]
        /\ UNCHANGED start
  /\ UNCHANGED <<workerVars, queue, wakeEvent, count, kind, flushed>>

\* Wrong: one event for all actions instead of one each.
ReturnOnAny(t) ==
  /\ cpc[t] = "waiting"
  /\ processed # {}
  /\ Resume(t, result[mine[t]])

\* `action.processed.wait(timeout)` ends because the action is processed.
Return(t) ==
  /\ cpc[t] = "waiting"
  /\ mine[t] \in processed
  /\ Resume(t, result[mine[t]])

\* Wrong: no test of `processed` after the wait.
TimeOutUnchecked(t) ==
  /\ cpc[t] = "waiting"
  /\ kind[mine[t]] \in TimedKinds
  /\ Resume(t, result[mine[t]])

\* ... or because the time is over and `processed.isSet()` is still false.
TimeOut(t) ==
  /\ cpc[t] = "waiting"
  /\ kind[mine[t]] \in TimedKinds
  /\ mine[t] \notin processed
  /\ Resume(t, "timeout")

\* Start: `self.__thread.start()`, which a thread allows once, ...
StartThread(t) ==
  /\ start = "no"
  /\ wpc = "new"
  /\ cpc[t] = "idle"
  /\ start' = "busy"
  /\ wpc' = "loop"
  /\ cpc' = [cpc EXCEPT ![t] = "starting"]
  /\ UNCHANGED <<alive, running, outcome, result, processed, aborted, quit,
                 queue, wakeEvent, count, kind, mine, answer, flushed>>

\* ... and then Func(setup, timeout), or Call(setup) if timeout <= 0.
StartSetup(t) ==
  /\ cpc[t] = "starting"
  /\ \E k \in {"setup", "setupcall"} : AppendJob(t, k)
  /\ UNCHANGED <<workerVars, wakeEvent, start, answer, flushed>>

\* Wrong: Stop clears `alive` itself, ahead of what is queued.
StopAtOnce(t) ==
  /\ \/ cpc[t] = "idle" /\ start \in {"ok", "failed"}
     \/ cpc[t] = "stopping"
  /\ alive' = FALSE
  /\ wakeEvent' = TRUE
  /\ cpc' = [cpc EXCEPT ![t] = "idle"]
  /\ start' = IF start = "busy" THEN "failed" ELSE start
  /\ UNCHANGED <<wpc, running, outcome, result, processed, aborted, quit, queue,
                 count, kind, mine, answer, flushed>>

\* Stop queues StopCall; Start does so when Setup failed or timed out.
Stop(t) ==
  /\ \/ cpc[t] = "idle" /\ start \in {"ok", "failed"}
     \/ cpc[t] = "stopping"
  /\ AppendJob(t, "stop")
  /\ UNCHANGED <<workerVars, wakeEvent, start, answer, flushed>>

\* ClearPendingEvents, by a caller or by an action the worker executes.
ClearPendingEvents ==
  /\ Flush
  /\ \/ wpc = "run"
     \/ start \in {"ok", "failed"} /\ \E t \in Callers : cpc[t] = "idle"
  /\ queue # <<>>
  /\ flushed' = flushed \cup {queue[i] : i \in 1..Len(queue)}
  /\ queue' = <<>>
  /\ UNCHANGED <<workerVars, wakeEvent, count, kind, start, cpc, mine, answer>>

-----------------------------------------------------------------------------
(***************************************************************************)
(* The worker thread.                                                      *)
(***************************************************************************)

\* `while self.__alive`, and Finish when the loop is over.
LoopTest ==
  /\ wpc = "loop"
  /\ wpc' = IF alive THEN "wait" ELSE "done"
  /\ UNCHANGED <<alive, running, outcome, result, processed, aborted, quit,
                 queue, wakeEvent, callerVars>>

\* The wait is satisfied by the wake event, which the wait itself resets.
Wake ==
  /\ wpc = "wait"
  /\ wakeEvent
  /\ wakeEvent' = FALSE
  /\ wpc' = "drain"
  /\ aborted' = FALSE
  /\ UNCHANGED <<alive, running, outcome, result, processed, quit,
                 queue, callerVars>>

\* Ten seconds without an event or a message: Poll.
PollTimeout ==
  /\ wpc = "wait"
  /\ ~wakeEvent
  /\ wpc' = "loop"
  /\ UNCHANGED <<alive, running, outcome, result, processed, aborted, quit,
                 queue, wakeEvent, callerVars>>

\* __PumpWaitingMessages meets WM_QUIT: from __DoOneEvent, or from an action
\* that pumps messages in Wait or WaitOnEvent.
PumpQuit ==
  /\ Quit /\ ~quit
  /\ \/ wpc = "wait" /\ ~wakeEvent /\ wpc' = "loop"
     \/ wpc = "run" /\ wpc' = wpc
  /\ quit' = TRUE
  /\ alive' = FALSE
  /\ UNCHANGED <<running, outcome, result, processed, aborted,
                 queue, wakeEvent, callerVars>>

\* `self.__queue.popleft()` in the drain loop; an empty deque ends the drain.
PopLeft ==
  /\ wpc = "drain"
  /\ \/ /\ queue = <<>>
        /\ wpc' = "loop"
        /\ UNCHANGED <<queue, running>>
     \/ /\ queue # <<>>
        /\ running' = Head(queue)
        /\ queue' = Tail(queue)
        /\ wpc' = "run"
  /\ UNCHANGED <<alive, outcome, result, processed, aborted, quit,
                 wakeEvent, callerVars>>

\* What the action stores for its caller: the value, or the exception if the
\* action came from Func and the exception is an Exception.
Stored(k, o) == IF o = "value" \/ (o = "exc" /\ k \in SyncKinds)
                THEN o ELSE "empty"

\* Wrong: executing StopCall leaves `alive` as it is.
RunJobDeaf ==
  /\ wpc = "run"
  /\ \E o \in IF kind[running] = "stop" THEN {"value"} ELSE Outcomes :
       /\ outcome' = [outcome EXCEPT ![running] = o]
       /\ result' = [result EXCEPT ![running] = Stored(kind[running], o)]
  /\ wpc' = "publish"
  /\ UNCHANGED <<alive, running, processed, aborted, quit, queue, wakeEvent, callerVars>>

\* HandleAction runs the function; StopCall clears `alive` and cannot fail.
RunJob ==
  /\ wpc = "run"
  /\ \E o \in IF kind[running] = "stop" THEN {"value"} ELSE Outcomes :
       /\ outcome' = [outcome EXCEPT ![running] = o]
       /\ result' = [result EXCEPT ![running] = Stored(kind[running], o)]
  /\ alive' = IF kind[running] = "stop" THEN FALSE ELSE alive
  /\ wpc' = "publish"
  /\ UNCHANGED <<running, processed, aborted, quit, queue, wakeEvent, callerVars>>

\* A bare function that raises has no PrintUnhandledException: the exception
\* handler raises in turn and leaves the drain loop, whatever is queued.
Escapes(j) == kind[j] = "raw" /\ outcome[j] # "value"

\* Wrong: one action for each wake-up, `if` for `while`.
PublishOnce ==
  /\ wpc = "publish"
  /\ processed' = IF kind[running] = "raw" THEN processed
                  ELSE processed \cup {running}
  /\ running' = 0
  /\ wpc' = "loop"
  /\ aborted' = Escapes(running)
  /\ UNCHANGED <<alive, outcome, result, quit, queue, wakeEvent, callerVars>>

\* `finally: self.processed.set()`, and back to the drain loop.
Publish ==
  /\ wpc = "publish"
  /\ processed' = IF kind[running] = "raw" THEN processed
                  ELSE processed \cup {running}
  /\ running' = 0
  /\ wpc' = IF Escapes(running) THEN "loop" ELSE "drain"
  /\ aborted' = Escapes(running)
  /\ UNCHANGED <<alive, outcome, result, quit, queue, wakeEvent, callerVars>>

-----------------------------------------------------------------------------
Caller(t) == \/ \E k \in PostKinds : Post(t, k)
             \/ Signal(t) \/ Return(t) \/ TimeOut(t)
             \/ StartThread(t) \/ StartSetup(t) \/ Stop(t)

Worker == LoopTest \/ Wake \/ PollTimeout \/ PumpQuit \/ PopLeft \/ RunJob \/ Publish

\* The threads may all be finished or blocked: the program waits for users.
Next == (\E t \in Callers : Caller(t)) \/ ClearPendingEvents \/ Worker

Spec == Init /\ [][Next]_vars

(***************************************************************************)
(* The worker thread runs and a thread that appended goes on to SetEvent,  *)
(* because the operating system runs them and neither step can block; the  *)
(* same holds for a caller whose action is processed.  No caller has to    *)
(* post anything, no message has to arrive and no timeout has to expire.   *)
(***************************************************************************)
WorkerStep == LoopTest \/ Wake \/ PopLeft \/ RunJob \/ Publish

Fairness == /\ WF_vars(WorkerStep)
            /\ \A t \in Callers : WF_vars(Signal(t)) /\ WF_vars(Return(t))

FairSpec == Spec /\ Fairness

-----------------------------------------------------------------------------
(***************************************************************************)
(* Properties.                                                             *)
(***************************************************************************)

\* No lost wake-up (AppendAction, Call, Func against __DoOneEvent): whenever
\* the worker waits although actions are queued, its wake event is set, or a
\* thread stands between its append and its SetEvent, or a failing bare
\* function threw the worker out of its last drain.
NoLostWakeup ==
  wpc \in {"new", "loop", "wait"} /\ queue # <<>> =>
    wakeEvent \/ aborted \/ \E t \in Callers : cpc[t] = "posted"

\* Actions are executed in the order of their appends, whichever threads
\* appended them: an executed action has no unexecuted one before it, except
\* one that ClearPendingEvents removed.
ExecutedInOrder ==
  \A i, j \in Jobs :
    i < j /\ outcome[j] # None => outcome[i] # None \/ i \in flushed

\* Stop is orderly: a worker that has left its loop without WM_QUIT executed a
\* StopCall, and every action appended before it was executed or removed by
\* ClearPendingEvents (Stop queues StopCall behind what is already there).
StopIsOrderly ==
  wpc = "done" /\ ~quit =>
    \E s \in Jobs : /\ kind[s] = "stop" /\ outcome[s] # None
                    /\ \A j \in 1..s : outcome[j] # None \/ j \in flushed

\* A call of Func that returned or raised tells its own action's outcome,
\* never another's and never before the action stored it: only "timeout" is
\* an answer that the action did not give.
AnswersAreTrue ==
  \A j \in Jobs : answer[j] \notin {None, "timeout"} =>
    outcome[j] # None /\ answer[j] = Stored(kind[j], outcome[j])

\* Doc of Func: the call delivers what the function returned, and without a
\* timeout it waits until then.  A waiting caller goes on some time, unless the
\* worker's thread has ended, ClearPendingEvents took the caller's action away
\* (nobody sets `processed` of an action that is never executed), or a failing
\* bare function threw the worker out of its drain.
FuncReturns ==
  \A t \in Callers : cpc[t] = "waiting" ~> \/ cpc[t] # "waiting"
                                           \/ wpc = "done"
                                           \/ mine[t] \in flushed
                                           \/ aborted

\* Doc of Stop: "Call this if the thread should stop."  Once a StopCall has
\* been appended the thread ends, unless ClearPendingEvents removed the
\* StopCall too or a failing bare function left it in the queue.
StopEndsThread ==
  \A j \in Jobs : kind[j] = "stop" ~> wpc = "done" \/ j \in flushed \/ aborted

\* The worker implements the abstract queue.
Abstract == INSTANCE WorkQueue WITH
              accepted <- count,
              pending <- queue,
              current <- running

ImplementsWorkQueue == Abstract!Spec
=============================================================================
