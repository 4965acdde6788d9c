-------------------------- MODULE IrReceiverProofs --------------------------
(***************************************************************************)
(* Proofs about IrReceiver, for any remote controls and decoders.          *)
(***************************************************************************)
EXTENDS IrReceiver, TLAPS

\* Every event was triggered for a frame of its own.
FramesBound == lastEvent <= frames /\ (rpc = "compare" => lastEvent < frames)

\* What Decode has in its hands on its way.
Working ==
  /\ rpc # "idle" => key \in Keys /\ lastDecoder \in Decoders
  /\ rpc = "assign" => lastEvent > 0
  /\ rpc \in {"record", "reset"} => event # NoEvent

\* A code is remembered and the timer runs only when there has been an event.
EventBehind ==
  /\ \A d \in Decoders : lastCode[d] # NoKey => event # NoEvent
  /\ timeout = "short" \/ next = "short" \/ tpc \in {"callback", "load", "tell"}
       => lastDecoder \in Decoders /\ event # NoEvent

\* A wake-up always brings a time-out or the stop message.
SignalHasReason == signalled \/ tpc = "read" => next # "infinite"

\* While no frame is in work, the timer is on its way to forget the key and to
\* end the event, or it has done so.
OnItsWay ==
  rpc = "idle" /\ ~signalled /\ event # NoEvent =>
    \/ tpc \in {"read", "callback", "ended"}
    \/ tpc = "wait" /\ timeout = "short"
    \/ /\ lastCode[lastDecoder] = NoKey
       /\ \/ tpc = "load"
          \/ tpc = "tell" /\ ending = event
          \/ tpc = "wait" /\ event \in told

IInv == /\ TypeOK /\ FramesBound /\ Working /\ EventBehind
        /\ SignalHasReason /\ OneHeldEvent /\ OnItsWay

-----------------------------------------------------------------------------
USE DEF NoEvent

\* Nothing has happened yet.
LEMMA InitIInv == Init => IInv
<1> SUFFICES ASSUME Init PROVE IInv
  OBVIOUS
<1> USE ReceiverAssumption
<1>1. TypeOK
  <2>1. lastCode \in [Decoders -> Keys \cup {NoKey}]
    BY DEF Init
  <2>2. 0 \in 0..MaxFrames /\ told \subseteq 0..MaxFrames
    BY DEF Init
  <2> QED
    BY <2>1, <2>2 DEF Init, TypeOK
<1>2. FramesBound /\ Working /\ EventBehind /\ SignalHasReason /\ OnItsWay
  BY DEF Init, FramesBound, Working, EventBehind, SignalHasReason, OnItsWay
<1>3. OneHeldEvent
  BY DEF Init, OneHeldEvent
<1> QED
  BY <1>1, <1>2, <1>3 DEF IInv

\* Every step keeps the types: there is a frame for every event.
LEMMA TypeStep == IInv /\ [Next]_vars => TypeOK'
<1> SUFFICES ASSUME IInv, [Next]_vars PROVE TypeOK'
  OBVIOUS
<1> USE ReceiverAssumption DEF IInv, TypeOK, FramesBound, Working, EventBehind
<1>1. CASE \E k \in Keys, newPress \in BOOLEAN : Decode(k, newPress)
  <2> PICK k \in Keys, newPress \in BOOLEAN : Decode(k, newPress)
    BY <1>1
  <2> QED
    BY DEF Decode, decoderVars, timerVars, resetVars
<1>2. CASE Trigger
  <2>1. lastEvent' \in 0..MaxFrames
    BY <1>2 DEF Trigger
  <2>2. told' \subseteq 0..MaxFrames
    BY <1>2 DEF Trigger
  <2>3. rpc' \in {"record", "assign"}
    BY <1>2 DEF Trigger
  <2> QED
    BY <1>2, <2>1, <2>2, <2>3 DEF Trigger, timerVars, resetVars
<1>3. CASE Assign
  BY <1>3 DEF Assign, decoderVars, timerVars, resetVars
<1>4. CASE Record
  BY <1>4 DEF Record, decoderVars, timerVars, resetVars
<1>5. CASE Reset
  BY <1>5 DEF Reset, decoderVars, timerVars, resetVars
<1>6. CASE Close
  BY <1>6 DEF Close, decoderVars, timerVars, resetVars
<1>7. CASE Woken
  BY <1>7 DEF Woken, decoderVars, timerVars, resetVars
<1>8. CASE ReadTimeout
  BY <1>8 DEF ReadTimeout, decoderVars, timerVars, resetVars
<1>9. CASE TimedOut
  BY <1>9 DEF TimedOut, decoderVars, timerVars, resetVars
<1>10. CASE Forget
  BY <1>10 DEF Forget, decoderVars, timerVars, resetVars
<1>11. CASE LoadEvent
  BY <1>11 DEF LoadEvent, decoderVars, timerVars, resetVars
<1>12. CASE Tell
  BY <1>12 DEF Tell, decoderVars, timerVars, resetVars
<1>13. CASE UNCHANGED vars
  BY <1>13 DEF vars, decoderVars, timerVars, resetVars
<1> QED
  BY <1>1, <1>2, <1>3, <1>4, <1>5, <1>6, <1>7, <1>8, <1>9, <1>10, <1>11, <1>12,
     <1>13 DEF Next, Receiver, Timer

\* An event is triggered after its frame was counted.
LEMMA FramesStep == IInv /\ [Next]_vars => FramesBound'
<1> SUFFICES ASSUME IInv, [Next]_vars PROVE FramesBound'
  OBVIOUS
<1> USE ReceiverAssumption DEF IInv, TypeOK, FramesBound
<1>1. CASE \E k \in Keys, newPress \in BOOLEAN : Decode(k, newPress)
  <2> PICK k \in Keys, newPress \in BOOLEAN : Decode(k, newPress)
    BY <1>1
  <2> QED
    BY DEF Decode, decoderVars, timerVars, resetVars
<1>2. CASE Trigger
  BY <1>2 DEF Trigger, decoderVars, timerVars, resetVars
<1>3. CASE Assign
  BY <1>3 DEF Assign, decoderVars, timerVars, resetVars
<1>4. CASE Record
  BY <1>4 DEF Record, decoderVars, timerVars, resetVars
<1>5. CASE Reset
  BY <1>5 DEF Reset, decoderVars, timerVars, resetVars
<1>6. CASE Close
  BY <1>6 DEF Close, decoderVars, timerVars, resetVars
<1>7. CASE Woken
  BY <1>7 DEF Woken, decoderVars, timerVars, resetVars
<1>8. CASE ReadTimeout
  BY <1>8 DEF ReadTimeout, decoderVars, timerVars, resetVars
<1>9. CASE TimedOut
  BY <1>9 DEF TimedOut, decoderVars, timerVars, resetVars
<1>10. CASE Forget
  BY <1>10 DEF Forget, decoderVars, timerVars, resetVars
<1>11. CASE LoadEvent
  BY <1>11 DEF LoadEvent, decoderVars, timerVars, resetVars
<1>12. CASE Tell
  BY <1>12 DEF Tell, decoderVars, timerVars, resetVars
<1>13. CASE UNCHANGED vars
  BY <1>13 DEF vars, decoderVars, timerVars, resetVars
<1> QED
  BY <1>1, <1>2, <1>3, <1>4, <1>5, <1>6, <1>7, <1>8, <1>9, <1>10, <1>11, <1>12,
     <1>13 DEF Next, Receiver, Timer

\* Decode finds the event it has assigned.
LEMMA WorkingStep == IInv /\ [Next]_vars => Working'
<1> SUFFICES ASSUME IInv, [Next]_vars PROVE Working'
  OBVIOUS
<1> USE ReceiverAssumption DEF IInv, TypeOK, Working, EventBehind, OneHeldEvent
<1>1. CASE \E k \in Keys, newPress \in BOOLEAN : Decode(k, newPress)
  <2> PICK k \in Keys, newPress \in BOOLEAN : Decode(k, newPress)
    BY <1>1
  <2>1. CASE rpc' = "compare"
    BY <2>1 DEF Decode
  <2>2. CASE rpc' = "reset"
    <3>1. lastCode[DecoderOf[k]] = k /\ DecoderOf[k] \in Decoders /\ k # NoKey
      BY <2>2 DEF Decode
    <3>2. event # NoEvent /\ event' = event
      BY <3>1 DEF Decode
    <3> QED
      BY <2>2, <3>2 DEF Decode
  <2> QED
    BY <2>1, <2>2 DEF Decode
<1>2. CASE Trigger
  <2>1. CASE rpc' = "record"
    <3>1. lastCode[lastDecoder] # NoKey /\ lastDecoder \in Decoders
      BY <1>2, <2>1 DEF Trigger
    <3> QED
      BY <1>2, <2>1, <3>1 DEF Trigger
  <2>2. CASE rpc' = "assign"
    BY <1>2, <2>2 DEF Trigger
  <2> QED
    BY <1>2, <2>1, <2>2 DEF Trigger
<1>3. CASE Assign
  BY <1>3 DEF Assign, decoderVars, timerVars, resetVars
<1>4. CASE Record
  BY <1>4 DEF Record, decoderVars, timerVars, resetVars
<1>5. CASE Reset
  BY <1>5 DEF Reset, decoderVars, timerVars, resetVars
<1>6. CASE Close
  BY <1>6 DEF Close, decoderVars, timerVars, resetVars
<1>7. CASE Woken
  BY <1>7 DEF Woken, decoderVars, timerVars, resetVars
<1>8. CASE ReadTimeout
  BY <1>8 DEF ReadTimeout, decoderVars, timerVars, resetVars
<1>9. CASE TimedOut
  BY <1>9 DEF TimedOut, decoderVars, timerVars, resetVars
<1>10. CASE Forget
  BY <1>10 DEF Forget, decoderVars, timerVars, resetVars
<1>11. CASE LoadEvent
  BY <1>11 DEF LoadEvent, decoderVars, timerVars, resetVars
<1>12. CASE Tell
  BY <1>12 DEF Tell, decoderVars, timerVars, resetVars
<1>13. CASE UNCHANGED vars
  BY <1>13 DEF vars, decoderVars, timerVars, resetVars
<1> QED
  BY <1>1, <1>2, <1>3, <1>4, <1>5, <1>6, <1>7, <1>8, <1>9, <1>10, <1>11, <1>12,
     <1>13 DEF Next, Receiver, Timer

\* The timer is started only by a frame of an event.
LEMMA BehindStep == IInv /\ [Next]_vars => EventBehind'
<1> SUFFICES ASSUME IInv, [Next]_vars PROVE EventBehind'
  OBVIOUS
<1> USE ReceiverAssumption DEF IInv, TypeOK, Working, EventBehind
<1>1. CASE \E k \in Keys, newPress \in BOOLEAN : Decode(k, newPress)
  <2> PICK k \in Keys, newPress \in BOOLEAN : Decode(k, newPress)
    BY <1>1
  <2> QED
    BY DEF Decode, decoderVars, timerVars, resetVars
<1>2. CASE Trigger
  BY <1>2 DEF Trigger, decoderVars, timerVars, resetVars
<1>3. CASE Assign
  BY <1>3 DEF Assign, decoderVars, timerVars, resetVars
<1>4. CASE Record
  BY <1>4 DEF Record, decoderVars, timerVars, resetVars
<1>5. CASE Reset
  BY <1>5 DEF Reset, decoderVars, timerVars, resetVars
<1>6. CASE Close
  BY <1>6 DEF Close, decoderVars, timerVars, resetVars
<1>7. CASE Woken
  BY <1>7 DEF Woken, decoderVars, timerVars, resetVars
<1>8. CASE ReadTimeout
  BY <1>8 DEF ReadTimeout, decoderVars, timerVars, resetVars
<1>9. CASE TimedOut
  BY <1>9 DEF TimedOut, decoderVars, timerVars, resetVars
<1>10. CASE Forget
  BY <1>10 DEF Forget, decoderVars, timerVars, resetVars
<1>11. CASE LoadEvent
  BY <1>11 DEF LoadEvent, decoderVars, timerVars, resetVars
<1>12. CASE Tell
  BY <1>12 DEF Tell, decoderVars, timerVars, resetVars
<1>13. CASE UNCHANGED vars
  BY <1>13 DEF vars, decoderVars, timerVars, resetVars
<1> QED
  BY <1>1, <1>2, <1>3, <1>4, <1>5, <1>6, <1>7, <1>8, <1>9, <1>10, <1>11, <1>12,
     <1>13 DEF Next, Receiver, Timer

\* Reset leaves a time-out before it sets the event object.
LEMMA ReasonStep == IInv /\ [Next]_vars => SignalHasReason'
<1> SUFFICES ASSUME IInv, [Next]_vars PROVE SignalHasReason'
  OBVIOUS
<1> USE ReceiverAssumption DEF IInv, TypeOK, SignalHasReason
<1>1. CASE \E k \in Keys, newPress \in BOOLEAN : Decode(k, newPress)
  <2> PICK k \in Keys, newPress \in BOOLEAN : Decode(k, newPress)
    BY <1>1
  <2> QED
    BY DEF Decode, decoderVars, timerVars, resetVars
<1>2. CASE Trigger
  BY <1>2 DEF Trigger, decoderVars, timerVars, resetVars
<1>3. CASE Assign
  BY <1>3 DEF Assign, decoderVars, timerVars, resetVars
<1>4. CASE Record
  BY <1>4 DEF Record, decoderVars, timerVars, resetVars
<1>5. CASE Reset
  BY <1>5 DEF Reset, decoderVars, timerVars, resetVars
<1>6. CASE Close
  BY <1>6 DEF Close, decoderVars, timerVars, resetVars
<1>7. CASE Woken
  BY <1>7 DEF Woken, decoderVars, timerVars, resetVars
<1>8. CASE ReadTimeout
  BY <1>8 DEF ReadTimeout, decoderVars, timerVars, resetVars
<1>9. CASE TimedOut
  BY <1>9 DEF TimedOut, decoderVars, timerVars, resetVars
<1>10. CASE Forget
  BY <1>10 DEF Forget, decoderVars, timerVars, resetVars
<1>11. CASE LoadEvent
  BY <1>11 DEF LoadEvent, decoderVars, timerVars, resetVars
<1>12. CASE Tell
  BY <1>12 DEF Tell, decoderVars, timerVars, resetVars
<1>13. CASE UNCHANGED vars
  BY <1>13 DEF vars, decoderVars, timerVars, resetVars
<1> QED
  BY <1>1, <1>2, <1>3, <1>4, <1>5, <1>6, <1>7, <1>8, <1>9, <1>10, <1>11, <1>12,
     <1>13 DEF Next, Receiver, Timer

\* Trigger tells the event before the one it makes.
LEMMA HeldStep == IInv /\ [Next]_vars => OneHeldEvent'
<1> SUFFICES ASSUME IInv, [Next]_vars PROVE OneHeldEvent'
  OBVIOUS
<1> USE ReceiverAssumption DEF IInv, TypeOK, FramesBound, Working, OneHeldEvent
<1>1. CASE \E k \in Keys, newPress \in BOOLEAN : Decode(k, newPress)
  <2> PICK k \in Keys, newPress \in BOOLEAN : Decode(k, newPress)
    BY <1>1
  <2>1. rpc' # "assign" /\ UNCHANGED <<event, lastEvent, told>>
    BY DEF Decode
  <2>2. rpc # "assign"
    BY DEF Decode
  <2> QED
    BY <2>1, <2>2
<1>2. CASE Trigger
  <2>1. CASE rpc' = "record"
    BY <1>2, <2>1 DEF Trigger
  <2>2. CASE rpc' = "assign"
    <3>1. lastEvent \in Nat /\ lastEvent' = lastEvent + 1 /\ told' = told \cup {lastEvent}
      BY <1>2, <2>2 DEF Trigger
    <3>2. \A e \in 1..lastEvent' : e \in 1..lastEvent \/ e = lastEvent'
      BY <3>1
    <3>3. 1..lastEvent' \ told' \subseteq {lastEvent'}
      BY <3>1, <3>2
    <3> QED
      BY <2>2, <3>3
  <2> QED
    BY <1>2, <2>1, <2>2 DEF Trigger
<1>3. CASE Assign
  BY <1>3 DEF Assign, decoderVars, timerVars, resetVars
<1>4. CASE Record
  BY <1>4 DEF Record, decoderVars, timerVars, resetVars
<1>5. CASE Reset
  BY <1>5 DEF Reset, decoderVars, timerVars, resetVars
<1>6. CASE Close
  BY <1>6 DEF Close, decoderVars, timerVars, resetVars
<1>7. CASE Woken
  BY <1>7 DEF Woken, decoderVars, timerVars, resetVars
<1>8. CASE ReadTimeout
  BY <1>8 DEF ReadTimeout, decoderVars, timerVars, resetVars
<1>9. CASE TimedOut
  BY <1>9 DEF TimedOut, decoderVars, timerVars, resetVars
<1>10. CASE Forget
  BY <1>10 DEF Forget, decoderVars, timerVars, resetVars
<1>11. CASE LoadEvent
  BY <1>11 DEF LoadEvent, decoderVars, timerVars, resetVars
<1>12. CASE Tell
  BY <1>12 DEF Tell, decoderVars, timerVars, resetVars
<1>13. CASE UNCHANGED vars
  BY <1>13 DEF vars, decoderVars, timerVars, resetVars
<1> QED
  BY <1>1, <1>2, <1>3, <1>4, <1>5, <1>6, <1>7, <1>8, <1>9, <1>10, <1>11, <1>12,
     <1>13 DEF Next, Receiver, Timer

\* The timer forgets and tells in one round, and a frame starts another.
LEMMA WayStep == IInv /\ [Next]_vars => OnItsWay'
<1> SUFFICES ASSUME IInv, [Next]_vars PROVE OnItsWay'
  OBVIOUS
<1> USE ReceiverAssumption DEF IInv, TypeOK, Working, EventBehind, SignalHasReason, OneHeldEvent, OnItsWay
<1>1. CASE \E k \in Keys, newPress \in BOOLEAN : Decode(k, newPress)
  <2> PICK k \in Keys, newPress \in BOOLEAN : Decode(k, newPress)
    BY <1>1
  <2> QED
    BY DEF Decode, decoderVars, timerVars, resetVars
<1>2. CASE Trigger
  BY <1>2 DEF Trigger, decoderVars, timerVars, resetVars
<1>3. CASE Assign
  BY <1>3 DEF Assign, decoderVars, timerVars, resetVars
<1>4. CASE Record
  BY <1>4 DEF Record, decoderVars, timerVars, resetVars
<1>5. CASE Reset
  BY <1>5 DEF Reset, decoderVars, timerVars, resetVars
<1>6. CASE Close
  BY <1>6 DEF Close, decoderVars, timerVars, resetVars
<1>7. CASE Woken
  BY <1>7 DEF Woken, decoderVars, timerVars, resetVars
<1>8. CASE ReadTimeout
  BY <1>8 DEF ReadTimeout, decoderVars, timerVars, resetVars
<1>9. CASE TimedOut
  BY <1>9 DEF TimedOut, decoderVars, timerVars, resetVars
<1>10. CASE Forget
  BY <1>10 DEF Forget, decoderVars, timerVars, resetVars
<1>11. CASE LoadEvent
  BY <1>11 DEF LoadEvent, decoderVars, timerVars, resetVars
<1>12. CASE Tell
  BY <1>12 DEF Tell, decoderVars, timerVars, resetVars
<1>13. CASE UNCHANGED vars
  BY <1>13 DEF vars, decoderVars, timerVars, resetVars
<1> QED
  BY <1>1, <1>2, <1>3, <1>4, <1>5, <1>6, <1>7, <1>8, <1>9, <1>10, <1>11, <1>12,
     <1>13 DEF Next, Receiver, Timer

-----------------------------------------------------------------------------
\* The strengthening is inductive.
LEMMA Inductive == IInv /\ [Next]_vars => IInv'
BY TypeStep, FramesStep, WorkingStep, BehindStep, ReasonStep, HeldStep, WayStep DEF IInv

\* The inductive invariant holds throughout.
LEMMA Invariance == Spec => []IInv
<1> QED
  BY InitIInv, Inductive, PTL DEF Spec

\* Type correctness, for any keys and decoders and any number of frames.
THEOREM TypeCorrect == Spec => []TypeOK
<1>1. IInv => TypeOK
  BY DEF IInv
<1> QED
  BY <1>1, Invariance, PTL

\* At most one event of the plugin is held, and Decode's next time-out is the
\* one that will end it (PluginBase.TriggerEnduringEvent, IrDecoder.Decode).
THEOREM OnlyOneHeldEvent == Spec => []OneHeldEvent
<1>1. IInv => OneHeldEvent
  BY DEF IInv
<1> QED
  BY <1>1, Invariance, PTL

\* However frames and time-outs interleave, a receiver at rest has forgotten
\* its last key and told its event to end (IrDecoder.OnTimeout).
THEOREM RestMeansForgotten == Spec => []QuietForgets
<1>1. IInv => QuietForgets
  <2> SUFFICES ASSUME IInv, rpc = "idle", tpc = "wait", ~signalled, timeout = "infinite",
                      event # NoEvent
               PROVE  lastCode[lastDecoder] = NoKey /\ event \in told
    BY DEF QuietForgets
  <2> QED
    BY DEF IInv, OnItsWay
<1> QED
  BY <1>1, Invariance, PTL
=============================================================================
