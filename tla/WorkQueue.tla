----------------------------- MODULE WorkQueue -----------------------------
(***************************************************************************)
(* What an eg.ThreadWorker promises to the threads that use it, with the   *)
(* wake event, the worker's loop and the callers' program counters left    *)
(* out: jobs are numbered in the order they were accepted, one thread      *)
(* takes them in that order and one at a time, each at most once, and a    *)
(* synchronous call is answered with what its own job produced.  Two       *)
(* exceptions are part of the promise: a call with a timeout may be        *)
(* answered "timeout" while its job is unfinished, and pending jobs may be *)
(* discarded, which leaves their callers without an answer.                *)
(***************************************************************************)
EXTENDS Naturals, Sequences

CONSTANTS MaxJobs,   (* bound on the jobs accepted                         *)
          Outcomes   (* how a job's function may end                       *)

Jobs == 1..MaxJobs
None == "none"

\* What the caller of a finished job is told: an exception of a class that
\* `except Exception` does not catch is not passed on, the call returns None.
Reported(o) == IF o = "base" THEN "empty" ELSE o

VARIABLES accepted,  (* how many jobs were accepted so far                  *)
          pending,   (* accepted jobs nobody took yet, oldest first         *)
          current,   (* the job being executed, 0 if there is none          *)
          outcome,   (* how each job ended                                  *)
          answer     (* what each job's caller was told                     *)

vars == <<accepted, pending, current, outcome, answer>>

Init == /\ accepted = 0
        /\ pending = <<>>
        /\ current = 0
        /\ outcome = [j \in Jobs |-> None]
        /\ answer = [j \in Jobs |-> None]

Accept == /\ accepted < MaxJobs
          /\ accepted' = accepted + 1
          /\ pending' = Append(pending, accepted')
          /\ UNCHANGED <<current, outcome, answer>>

Take == /\ current = 0
        /\ pending # <<>>
        /\ current' = Head(pending)
        /\ pending' = Tail(pending)
        /\ UNCHANGED <<accepted, outcome, answer>>

Finish(o) == /\ current # 0
             /\ outcome[current] = None
             /\ outcome' = [outcome EXCEPT ![current] = o]
             /\ UNCHANGED <<accepted, pending, current, answer>>

Release == /\ current # 0
           /\ outcome[current] # None
           /\ current' = 0
           /\ UNCHANGED <<accepted, pending, outcome, answer>>

Answer(j) == /\ answer[j] = None
             /\ outcome[j] # None
             /\ answer' = [answer EXCEPT ![j] = Reported(outcome[j])]
             /\ UNCHANGED <<accepted, pending, current, outcome>>

GiveUp(j) == /\ j <= accepted
             /\ answer[j] = None
             /\ answer' = [answer EXCEPT ![j] = "timeout"]
             /\ UNCHANGED <<accepted, pending, current, outcome>>

Discard == /\ pending' = <<>>
           /\ UNCHANGED <<accepted, current, outcome, answer>>

Next == \/ Accept
        \/ Take
        \/ \E o \in Outcomes : Finish(o)
        \/ Release
        \/ \E j \in Jobs : Answer(j) \/ GiveUp(j)
        \/ Discard

Spec == Init /\ [][Next]_vars
=============================================================================
