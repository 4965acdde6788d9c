---------------------------- MODULE SerialThread ----------------------------
(***************************************************************************)
(* eg/Classes/SerialThread.py: a receive thread appends what comes from    *)
(* the port to a buffer and notifies a condition; a callback thread waits  *)
(* for the condition and calls the plugin's callback while it holds the    *)
(* condition and readEventLock; users read between SuspendReadEvents and   *)
(* ResumeReadEvents, which hold readEventLock.  The owner starts, arms     *)
(* (SetReadEventCallback) and closes the port.                             *)
(*                                                                         *)
(* Bytes are numbered as the device sends them.  readCondition is an RLock *)
(* that only the callback thread holds over several steps.  A Read of n    *)
(* bytes ends with n bytes or, when its time is over, with what there is.  *)
(* A callback is taken to read at least one byte: one that reads nothing   *)
(* is called again at once, with the condition held.                       *)
(***************************************************************************)
EXTENDS Naturals, Sequences

CONSTANTS Users,       (* threads that use the port                        *)
          Owner,       (* the thread that opens and closes it              *)
          Callback,    (* callbackThread                                   *)
          Free,        (* nobody                                           *)
          MaxBytes,    (* bound on the bytes the device sends              *)
          MaxSections  (* bound on the sections without read events        *)

Bytes == 1..MaxBytes
Readers == Users \cup {Owner, Callback}
Unread == "unread"
Flushed == "flushed"

ASSUME SerialAssumption ==
  /\ MaxBytes \in Nat /\ MaxSections \in Nat
  /\ Owner \notin Users /\ Callback \notin Users \cup {Owner}
  /\ Free \notin Readers /\ Unread \notin Readers /\ Flushed \notin Readers

VARIABLES
  sent,      (* bytes the device has sent                                  *)
  received,  (* bytes the receive thread has taken from the driver         *)
  hand,      (* the data HandleReceive is about to append                  *)
  buffer,    (* self.buffer                                                *)
  reader,    (* who got each byte (history)                                *)
  cond,      (* the owner of readCondition                                 *)
  evLock,    (* the owner of readEventLock                                 *)
  armed,     (* SetReadEventCallback has been called                       *)
  late,      (* it was called over a filled buffer, and nobody notified    *)
             (* the callback thread since (history)                        *)
  keepAlive, (* self.keepAlive                                             *)
  stopEvent, (* self.stopEvent                                             *)
  opc,       (* where the owner is                                         *)
  rpc,       (* where ReceiveThreadProc is                                 *)
  cpc,       (* where CallbackThreadProc is                                *)
  upc,       (* where each user is                                         *)
  sections   (* sections begun so far                                      *)

port == <<sent, received, hand>>
data == <<buffer, reader>>
owned == <<armed, keepAlive, stopEvent, opc>>
vars == <<port, data, cond, evLock, late, owned, rpc, cpc, upc, sections>>

\* The types, and that the callback thread holds its two locks where the code
\* does.
TypeOK ==
  /\ sent \in 0..MaxBytes /\ received \in 0..sent
  /\ hand \in Seq(Bytes) /\ buffer \in Seq(Bytes)
  /\ reader \in [Bytes -> Readers \cup {Unread, Flushed}]
  /\ cond \in {Callback, Free}
  /\ evLock \in Readers \cup {Free}
  /\ armed \in BOOLEAN /\ late \in BOOLEAN
  /\ keepAlive \in BOOLEAN /\ stopEvent \in BOOLEAN
  /\ opc \in {"new", "up", "flagged", "joining", "closed"}
  /\ rpc \in {"new", "test", "read", "got", "stopping", "done"}
  /\ cpc \in {"new", "test", "enter", "check", "call", "called", "more",
              "ending", "wait", "woken", "done"}
  /\ upc \in [Users -> {"idle", "in", "resuming"}]
  /\ sections \in 0..MaxSections
  /\ cond = Callback <=> cpc \in {"check", "call", "called", "ending"}
  /\ evLock = Callback <=> cpc \in {"call", "called", "more", "ending"}

Init ==
  /\ sent = 0 /\ received = 0 /\ hand = <<>> /\ buffer = <<>>
  /\ reader = [b \in Bytes |-> Unread]
  /\ cond = Free /\ evLock = Owner
  /\ armed = FALSE /\ late = FALSE /\ keepAlive = TRUE /\ stopEvent = FALSE
  /\ opc = "new" /\ rpc = "new" /\ cpc = "new"
  /\ upc = [u \in Users |-> "idle"] /\ sections = 0

\* The first k bytes of the buffer go to r.
Take(k, r) ==
  /\ reader' = [b \in Bytes |-> IF \E i \in 1..k : buffer[i] = b THEN r ELSE reader[b]]
  /\ buffer' = SubSeq(buffer, k + 1, Len(buffer))

\* readCondition.notifyAll(): only the callback thread waits without end.
NotifyAll ==
  /\ cond = Free
  /\ cpc' = IF cpc = "wait" THEN "woken" ELSE cpc
  /\ late' = FALSE

-----------------------------------------------------------------------------
(***************************************************************************)
(* The device, the owner and the users.                                    *)
(***************************************************************************)
Send ==
  /\ sent < MaxBytes
  /\ sent' = sent + 1
  /\ UNCHANGED <<received, hand, data, cond, evLock, late, owned, rpc, cpc, upc, sections>>

Start ==
  /\ opc = "new"
  /\ opc' = "up" /\ rpc' = "test" /\ cpc' = "test"
  /\ UNCHANGED <<port, data, cond, evLock, late, armed, keepAlive, stopEvent, upc, sections>>

\* Before Start, as its doc asks, or after it, as UIR and UIRT2 do once the
\* device has answered.
SetReadEventCallback ==
  /\ ~armed /\ opc \in {"new", "up"}
  /\ armed' = TRUE
  /\ evLock' = Free
  /\ late' = (buffer # <<>>)
  /\ UNCHANGED <<port, data, cond, keepAlive, stopEvent, opc, rpc, cpc, upc, sections>>

\* Close and Stop, step by step.
SetFlag ==
  /\ opc = "up"
  /\ keepAlive' = FALSE /\ opc' = "flagged"
  /\ UNCHANGED <<port, data, cond, evLock, late, armed, stopEvent, rpc, cpc, upc, sections>>

SetStopEvent ==
  /\ opc = "flagged"
  /\ stopEvent' = TRUE /\ opc' = "joining"
  /\ UNCHANGED <<port, data, cond, evLock, late, armed, keepAlive, rpc, cpc, upc, sections>>

\* join(1.0): the receive thread has ended or the second is over.
Joined ==
  /\ opc = "joining"
  /\ opc' = "closed"
  /\ UNCHANGED <<port, data, cond, evLock, late, armed, keepAlive, stopEvent, rpc, cpc, upc, sections>>

Flush ==
  /\ opc = "up" /\ cond = Free /\ buffer # <<>>
  /\ Take(Len(buffer), Flushed)
  /\ UNCHANGED <<port, cond, evLock, late, owned, rpc, cpc, upc, sections>>

\* Read, by the owner before SetReadEventCallback or by a user in a section.
Read(t) ==
  /\ evLock = t /\ opc # "new" /\ cond = Free
  /\ t \in Users => upc[t] = "in"
  /\ \E k \in 1..Len(buffer) : Take(k, t)
  /\ UNCHANGED <<port, cond, evLock, late, owned, rpc, cpc, upc, sections>>

SuspendReadEvents(u) ==
  /\ upc[u] = "idle" /\ opc # "new" /\ sections < MaxSections
  /\ evLock = Free
  /\ evLock' = u
  /\ upc' = [upc EXCEPT ![u] = "in"]
  /\ sections' = sections + 1
  /\ UNCHANGED <<port, data, cond, late, owned, rpc, cpc>>

\* ResumeReadEvents: the lock first, ...
ResumeReadEvents(u) ==
  /\ upc[u] = "in"
  /\ evLock' = Free
  /\ upc' = [upc EXCEPT ![u] = "resuming"]
  /\ UNCHANGED <<port, data, cond, late, owned, rpc, cpc, sections>>

\* Wrong: nobody is notified.
ResumeSilently(u) ==
  /\ upc[u] = "resuming" /\ cond = Free
  /\ upc' = [upc EXCEPT ![u] = "idle"]
  /\ UNCHANGED <<port, data, cond, evLock, late, owned, rpc, cpc, sections>>

\* ... then the condition.
ResumeNotify(u) ==
  /\ upc[u] = "resuming"
  /\ NotifyAll
  /\ upc' = [upc EXCEPT ![u] = "idle"]
  /\ UNCHANGED <<port, data, cond, evLock, owned, rpc, sections>>

-----------------------------------------------------------------------------
(***************************************************************************)
(* ReceiveThreadProc.                                                      *)
(***************************************************************************)
ReceiverGoes(from, to) == rpc = from /\ rpc' = to

TestReceiver ==
  /\ ReceiverGoes("test", IF keepAlive THEN "read" ELSE "done")
  /\ UNCHANGED <<port, data, cond, evLock, late, owned, cpc, upc, sections>>

\* A byte is there, at once or when the wait ends, and _ReadAllAvailable takes
\* the rest; a byte goes before the stop event.
ReadAllAvailable ==
  /\ received < sent
  /\ ReceiverGoes("read", "got")
  /\ hand' = [i \in 1..(sent - received) |-> received + i]
  /\ received' = sent
  /\ UNCHANGED <<sent, data, cond, evLock, late, owned, cpc, upc, sections>>

\* Wrong: the new data is put in front.
HandleReceiveInFront ==
  /\ ReceiverGoes("got", "test")
  /\ buffer' = hand \o buffer
  /\ hand' = <<>>
  /\ NotifyAll
  /\ UNCHANGED <<sent, received, reader, cond, evLock, owned, upc, sections>>

HandleReceive ==
  /\ ReceiverGoes("got", "test")
  /\ buffer' = buffer \o hand
  /\ hand' = <<>>
  /\ NotifyAll
  /\ UNCHANGED <<sent, received, reader, cond, evLock, owned, upc, sections>>

SeeStopEvent ==
  /\ stopEvent /\ received = sent
  /\ ReceiverGoes("read", "stopping")
  /\ UNCHANGED <<port, data, cond, evLock, late, owned, cpc, upc, sections>>

NotifyStop ==
  /\ ReceiverGoes("stopping", "done")
  /\ NotifyAll
  /\ UNCHANGED <<port, data, cond, evLock, owned, upc, sections>>

\* A hundred seconds without a byte; or the port fails: SerialError.
IdleOrFail ==
  /\ \E to \in {"test", "done"} : ReceiverGoes("read", to)
  /\ UNCHANGED <<port, data, cond, evLock, late, owned, cpc, upc, sections>>

-----------------------------------------------------------------------------
(***************************************************************************)
(* CallbackThreadProc.                                                     *)
(***************************************************************************)
CallbackGoes(from, to) == cpc = from /\ cpc' = to

TestCallback ==
  /\ CallbackGoes("test", IF keepAlive THEN "enter" ELSE "done")
  /\ UNCHANGED <<port, data, cond, evLock, late, owned, rpc, upc, sections>>

Enter ==
  /\ CallbackGoes("enter", "check")
  /\ cond = Free
  /\ cond' = Callback
  /\ UNCHANGED <<port, data, evLock, late, owned, rpc, upc, sections>>

\* Wrong: the lock is not asked for.
BeginCallLockless ==
  /\ CallbackGoes("check", "call")
  /\ buffer # <<>>
  /\ UNCHANGED <<port, data, cond, evLock, late, owned, rpc, upc, sections>>

\* `if self.readEventLock.acquire(0)`: call the callback ...
BeginCall ==
  /\ CallbackGoes("check", "call")
  /\ buffer # <<>> /\ evLock = Free
  /\ evLock' = Callback
  /\ UNCHANGED <<port, data, cond, late, owned, rpc, upc, sections>>

\* ... or wait for the condition, which releases it.
Wait ==
  /\ CallbackGoes("check", "wait")
  /\ buffer = <<>> \/ evLock # Free
  /\ cond' = Free
  /\ UNCHANGED <<port, data, evLock, late, owned, rpc, upc, sections>>

\* A Read in the callback that finds its bytes, or asks for no more.
CallbackRead ==
  /\ CallbackGoes("call", "called")
  /\ \E k \in 1..Len(buffer) : Take(k, Callback)
  /\ UNCHANGED <<port, cond, evLock, late, owned, rpc, upc, sections>>

\* A Read in the callback that waits, without the condition, and ends.
CallbackWait ==
  /\ CallbackGoes("called", "more")
  /\ cond' = Free
  /\ UNCHANGED <<port, data, evLock, late, owned, rpc, upc, sections>>

CallbackReadMore ==
  /\ CallbackGoes("more", "ending")
  /\ cond = Free
  /\ cond' = Callback
  /\ \E k \in 0..Len(buffer) : Take(k, Callback)
  /\ UNCHANGED <<port, evLock, late, owned, rpc, upc, sections>>

EndCall ==
  /\ \E from \in {"called", "ending"} : CallbackGoes(from, "check")
  /\ evLock' = Free
  /\ UNCHANGED <<port, data, cond, late, owned, rpc, upc, sections>>

\* wait() returns with the condition, which is released.
Woken ==
  /\ CallbackGoes("woken", "test")
  /\ cond = Free
  /\ UNCHANGED <<port, data, cond, evLock, late, owned, rpc, upc, sections>>

-----------------------------------------------------------------------------
Receiver == TestReceiver \/ ReadAllAvailable \/ HandleReceive \/ SeeStopEvent \/ NotifyStop
CallbackThread == \/ TestCallback \/ Enter \/ BeginCall \/ Wait \/ CallbackRead
                  \/ CallbackWait \/ CallbackReadMore \/ EndCall \/ Woken
OwnerThread == Start \/ SetReadEventCallback \/ SetFlag \/ SetStopEvent \/ Joined
User(u) == SuspendReadEvents(u) \/ ResumeReadEvents(u) \/ ResumeNotify(u)

Next == \/ Send \/ Flush \/ OwnerThread \/ Receiver \/ IdleOrFail \/ CallbackThread
        \/ \E u \in Users : User(u)
        \/ \E t \in Users \cup {Owner} : Read(t)

Spec == Init /\ [][Next]_vars

(***************************************************************************)
(* The two threads run (a callback returns), and a user that suspended     *)
(* the read events resumes them.                                           *)
(***************************************************************************)
Fairness ==
  /\ WF_vars(Receiver) /\ WF_vars(CallbackThread)
  /\ \A u \in Users : WF_vars(ResumeReadEvents(u)) /\ WF_vars(ResumeNotify(u))

FairSpec == Spec /\ Fairness

-----------------------------------------------------------------------------
\* No byte is lost, doubled or overtaken between the threads: the bytes nobody
\* has read are, in order, the end of the stream, in the buffer and in the
\* receive thread's hand.
StreamIsKept ==
  LET rest == buffer \o hand
  IN /\ \A i \in 1..Len(rest) : rest[i] = received - Len(rest) + i
     /\ \A b \in Bytes : reader[b] = Unread <=> b > received - Len(rest)

\* No data is stranded (the callback thread gives up when readEventLock is
\* taken, ResumeReadEvents releases it before it notifies): while the callback
\* thread waits over a filled buffer, a user holds the lock or is on its way
\* to notify; only bytes that lay there when SetReadEventCallback was called
\* after Start wait for the next byte.
NoStrandedData ==
  cpc = "wait" /\ buffer # <<>> /\ armed =>
    late \/ \E u \in Users : upc[u] # "idle"

\* While a user has suspended the read events, nobody else reads.
SectionIsExclusive ==
  [][\A u \in Users : evLock = u /\ evLock' = u =>
       \A b \in Bytes : reader'[b] \in {reader[b], u, Flushed}]_vars

\* What is received reaches a reader, unless the port is closed or the
\* callback was set too late to see it.
DataIsRead ==
  \A b \in Bytes : (armed /\ b <= received /\ reader[b] = Unread)
                     ~> (reader[b] # Unread \/ late \/ ~keepAlive)
===============================================================================
