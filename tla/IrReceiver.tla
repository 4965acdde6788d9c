----------------------------- MODULE IrReceiver -----------------------------
(***************************************************************************)
(* A remote control receiver: eg/Classes/IrDecoder turns the frames a      *)
(* receiver thread reads into enduring events of its plugin, and the       *)
(* thread of its ResettableTimer ends an event when no frame came for a    *)
(* while.  The two share lastDecoder, each decoder's lastCode and event    *)
(* without a lock.  That a time-out elapses is left to chance; the wait    *)
(* of the timer thread does not time out when its event is set.            *)
(***************************************************************************)
EXTENDS Naturals, FiniteSets

CONSTANTS Keys, NoKey, (* the codes the remote controls send, and None      *)
          Decoders, NoDecoder, Universal,
          DecoderOf, (* the decoder that makes sense of each key            *)
          Toggling,  (* decoders that see a key pressed anew (RC-5)         *)
          MaxFrames  (* bound on the frames received                        *)

ASSUME ReceiverAssumption ==
  /\ NoKey \notin Keys /\ NoDecoder \notin Decoders
  /\ Universal \in Decoders /\ Toggling \subseteq Decoders \ {Universal}
  /\ DecoderOf \in [Keys -> Decoders]
  /\ MaxFrames \in Nat

NoEvent == 0

VARIABLES
  rpc, key,        (* where Decode is, and the code it works with           *)
  frames,          (* frames received                                       *)
  lastDecoder, lastCode,
  event,           (* IrDecoder.event                                       *)
  lastEvent,       (* the plugin's info.lastEvent                           *)
  told,            (* the events whose shouldEnd is set                     *)
  tpc, timeout,    (* where ThreadLoop is, and its time-out                 *)
  ending,          (* the event OnTimeout has read                          *)
  next, signalled, (* ResettableTimer.timeout, and its event object         *)
  closed           (* Close was called                                      *)

decoderVars == <<lastDecoder, lastCode, event, lastEvent, told>>
timerVars == <<tpc, timeout, ending>>
resetVars == <<next, signalled>>
vars == <<rpc, key, frames, decoderVars, timerVars, resetVars, closed>>

TypeOK ==
  /\ rpc \in {"idle", "compare", "assign", "record", "reset"}
  /\ key \in Keys \cup {NoKey}
  /\ frames \in 0..MaxFrames
  /\ lastDecoder \in Decoders \cup {NoDecoder}
  /\ lastCode \in [Decoders -> Keys \cup {NoKey}]
  /\ event \in 0..MaxFrames /\ lastEvent \in 0..MaxFrames /\ told \subseteq 0..MaxFrames
  /\ tpc \in {"wait", "read", "callback", "load", "tell", "ended"}
  /\ tpc \in {"callback", "load", "tell"} => lastDecoder # NoDecoder /\ event # NoEvent
  /\ ending \in 0..MaxFrames
  /\ timeout \in {"infinite", "short"} /\ next \in {"infinite", "short", "stop"}
  /\ signalled \in BOOLEAN /\ closed \in BOOLEAN

Init ==
  /\ rpc = "idle" /\ key = NoKey /\ frames = 0
  /\ lastDecoder = NoDecoder /\ lastCode = [d \in Decoders |-> NoKey]
  /\ event = NoEvent /\ lastEvent = NoEvent /\ told = {}
  /\ tpc = "wait" /\ timeout = "infinite" /\ ending = NoEvent
  /\ next = "infinite" /\ signalled = FALSE
  /\ closed = FALSE

-----------------------------------------------------------------------------
(***************************************************************************)
(* The receiver thread.                                                    *)
(***************************************************************************)

\* Decode up to the choice of the decoder; a repeated unknown code goes on to
\* Reset.  A decoder with a toggle bit forgets its code for a new press.
Decode(k, newPress) ==
  LET d == DecoderOf[k]
      repeated == d = Universal /\ lastDecoder = Universal /\ lastCode[d] = k
  IN /\ rpc = "idle" /\ frames < MaxFrames
     /\ frames' = frames + 1 /\ key' = k
     /\ rpc' = IF repeated THEN "reset" ELSE "compare"
     /\ lastDecoder' = d
     /\ lastCode' = IF d \in Toggling /\ newPress /\ lastCode[d] = k
                    THEN [lastCode EXCEPT ![d] = NoKey] ELSE lastCode
     /\ UNCHANGED <<event, lastEvent, told, timerVars, resetVars, closed>>

\* Wrong: the last event goes on.
TriggerBeside ==
  /\ rpc = "compare"
  /\ IF lastCode[lastDecoder] = key
     THEN rpc' = "record" /\ UNCHANGED <<lastEvent, told>>
     ELSE rpc' = "assign" /\ lastEvent' = lastEvent + 1 /\ UNCHANGED told
  /\ UNCHANGED <<key, frames, lastDecoder, lastCode, event, timerVars, resetVars, closed>>

\* PluginBase.TriggerEnduringEvent: the last event ends.
Trigger ==
  /\ rpc = "compare"
  /\ IF lastCode[lastDecoder] = key
     THEN rpc' = "record" /\ UNCHANGED <<lastEvent, told>>
     ELSE rpc' = "assign" /\ lastEvent' = lastEvent + 1 /\ told' = told \cup {lastEvent}
  /\ UNCHANGED <<key, frames, lastDecoder, lastCode, event, timerVars, resetVars, closed>>

Assign ==
  /\ rpc = "assign" /\ rpc' = "record"
  /\ event' = lastEvent
  /\ UNCHANGED <<key, frames, lastDecoder, lastCode, lastEvent, told, timerVars, resetVars, closed>>

Record ==
  /\ rpc = "record" /\ rpc' = "reset"
  /\ lastCode' = [lastCode EXCEPT ![lastDecoder] = key]
  /\ UNCHANGED <<key, frames, lastDecoder, event, lastEvent, told, timerVars, resetVars, closed>>

\* timer.Reset(timeout).
Reset ==
  /\ rpc = "reset" /\ rpc' = "idle" /\ key' = NoKey
  /\ next' = "short" /\ signalled' = TRUE
  /\ UNCHANGED <<frames, decoderVars, timerVars, closed>>

\* Close, on the thread that stops the plugin: Reset(StopMessage).
Close ==
  /\ ~closed /\ closed' = TRUE
  /\ next' = "stop" /\ signalled' = TRUE
  /\ UNCHANGED <<rpc, key, frames, decoderVars, timerVars>>

-----------------------------------------------------------------------------
(***************************************************************************)
(* The timer thread.                                                       *)
(***************************************************************************)
Woken ==
  /\ tpc = "wait" /\ signalled
  /\ signalled' = FALSE /\ tpc' = "read"
  /\ UNCHANGED <<rpc, key, frames, decoderVars, timeout, ending, next, closed>>

ReadTimeout ==
  /\ tpc = "read"
  /\ IF next = "stop" THEN tpc' = "ended" /\ UNCHANGED timeout
                      ELSE tpc' = "wait" /\ timeout' = next
  /\ UNCHANGED <<rpc, key, frames, decoderVars, ending, resetVars, closed>>

TimedOut ==
  /\ tpc = "wait" /\ ~signalled /\ timeout = "short"
  /\ tpc' = "callback"
  /\ UNCHANGED <<rpc, key, frames, decoderVars, timeout, ending, resetVars, closed>>

\* OnTimeout, which reads what Decode may be changing.
Forget ==
  /\ tpc = "callback" /\ tpc' = "load"
  /\ lastCode' = [lastCode EXCEPT ![lastDecoder] = NoKey]
  /\ UNCHANGED <<rpc, key, frames, lastDecoder, event, lastEvent, told, timeout, ending,
                 resetVars, closed>>

LoadEvent ==
  /\ tpc = "load" /\ tpc' = "tell"
  /\ ending' = event
  /\ UNCHANGED <<rpc, key, frames, decoderVars, timeout, resetVars, closed>>

\* Wrong: what came during the callback is taken for answered.
TellAndClear ==
  /\ tpc = "tell" /\ tpc' = "wait"
  /\ told' = told \cup {ending}
  /\ timeout' = "infinite" /\ signalled' = FALSE
  /\ UNCHANGED <<rpc, key, frames, lastDecoder, lastCode, event, lastEvent, ending, next, closed>>

Tell ==
  /\ tpc = "tell" /\ tpc' = "wait"
  /\ told' = told \cup {ending}
  /\ timeout' = "infinite"
  /\ UNCHANGED <<rpc, key, frames, lastDecoder, lastCode, event, lastEvent, ending,
                 resetVars, closed>>

Receiver == Trigger \/ Assign \/ Record \/ Reset
Timer == Woken \/ ReadTimeout \/ TimedOut \/ Forget \/ LoadEvent \/ Tell

Next == \/ \E k \in Keys, newPress \in BOOLEAN : Decode(k, newPress)
        \/ Receiver \/ Close \/ Timer

\* The threads run and time-outs elapse; nothing makes frames come or the
\* plugin stop.
Spec == Init /\ [][Next]_vars
FairSpec == Spec /\ WF_vars(Receiver) /\ WF_vars(Timer)

-----------------------------------------------------------------------------
\* "This will ensure, that only one event per plugin can be active at the same
\* time" (PluginBase.TriggerEnduringEvent), and it is the one the time-out will
\* end, however OnTimeout and Decode interleave.
OneHeldEvent ==
  /\ 1..lastEvent \ told \subseteq {lastEvent}
  /\ rpc \notin {"assign"} => event = lastEvent

\* When the timer has nothing left to do, the key that was seen last is
\* forgotten and its event told to end: the same key is an event again.
QuietForgets ==
  rpc = "idle" /\ tpc = "wait" /\ ~signalled /\ timeout = "infinite" /\ event # NoEvent
    => lastCode[lastDecoder] = NoKey /\ event \in told

\* Every key that is held is released: once frames stop coming, the event is
\* told to end, unless the timer was stopped (ThreadLoop, OnTimeout).
HeldEventEnds ==
  \A e \in 1..MaxFrames : lastEvent = e ~> (e \in told \/ lastEvent # e \/ tpc = "ended")
=============================================================================
