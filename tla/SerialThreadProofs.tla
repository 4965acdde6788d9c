-------------------------- MODULE SerialThreadProofs --------------------------
(***************************************************************************)
(* Proofs about SerialThread, for any users, bytes and sections.           *)
(***************************************************************************)
EXTENDS SerialThread, Integers, TLAPS

\* readEventLock is the owner's until the callback is set, then that of the
\* user in a section, the callback thread's or nobody's.
Holders == /\ \A u \in Users : evLock = u <=> upc[u] = "in"
           /\ armed <=> evLock # Owner

\* The receive thread carries data only between the port and the buffer.
HandInv == hand # <<>> => rpc = "got"

\* How many bytes have been read or flushed.
Gone == received - Len(hand) - Len(buffer)

\* StreamIsKept, with the buffer and the hand each for itself.
Stream ==
  /\ Gone >= 0
  /\ \A i \in 1..Len(buffer) : buffer[i] = Gone + i
  /\ \A i \in 1..Len(hand) : hand[i] = Gone + Len(buffer) + i
  /\ \A b \in Bytes : reader[b] = Unread <=> b > Gone

\* Start starts the threads.
Unstarted == opc = "new" => rpc = "new" /\ cpc = "new"

\* The sequences and the readers keep their types.
DataOK == /\ hand \in Seq(Bytes) /\ buffer \in Seq(Bytes)
          /\ reader \in [Bytes -> Readers \cup {Unread, Flushed}]

IInv == TypeOK /\ Holders /\ HandInv /\ Unstarted /\ Stream /\ NoStrandedData

-----------------------------------------------------------------------------
\* The lengths are numbers.
LEMMA Lengths ==
  ASSUME TypeOK
  PROVE  /\ Len(buffer) \in Nat /\ Len(hand) \in Nat /\ Gone \in Int
         /\ received \in Nat /\ sent \in Nat
<1> QED
  BY SerialAssumption DEF TypeOK, Gone

\* The first bytes of the buffer, which are the oldest unread ones, go to r.
LEMMA TakeFacts ==
  ASSUME TypeOK, Stream, NEW k \in 0..Len(buffer),
         NEW r \in Readers \cup {Flushed}, Take(k, r), UNCHANGED <<received, hand>>
  PROVE  /\ buffer' \in Seq(Bytes)
         /\ reader' \in [Bytes -> Readers \cup {Unread, Flushed}]
         /\ Stream'
         /\ buffer' # <<>> => buffer # <<>>
         /\ \A b \in Bytes : reader'[b] \in {reader[b], r}
<1>1. /\ Len(buffer) \in Nat /\ Len(hand) \in Nat /\ Gone \in Int /\ received \in Nat
  BY Lengths
<1>2. buffer' = SubSeq(buffer, k + 1, Len(buffer)) /\ buffer \in Seq(Bytes)
  BY DEF Take, TypeOK
<1>3. /\ buffer' \in Seq(Bytes) /\ Len(buffer') = Len(buffer) - k
      /\ \A i \in 1..(Len(buffer) - k) : buffer'[i] = buffer[k + i]
  BY <1>1, <1>2
<1>4. Gone' = Gone + k
  BY <1>1, <1>3 DEF Gone
<1>5. \A b \in Bytes : reader'[b] = IF \E i \in 1..k : buffer[i] = b THEN r ELSE reader[b]
  BY DEF Take
<1>6. reader' \in [Bytes -> Readers \cup {Unread, Flushed}]
  BY DEF Take, TypeOK
<1>7. \A b \in Bytes : (\E i \in 1..k : buffer[i] = b) <=> (Gone < b /\ b <= Gone + k)
  <2> SUFFICES ASSUME NEW b \in Bytes
               PROVE  (\E i \in 1..k : buffer[i] = b) <=> (Gone < b /\ b <= Gone + k)
    OBVIOUS
  <2>1. ASSUME NEW i \in 1..k, buffer[i] = b PROVE Gone < b /\ b <= Gone + k
    BY <1>1, <2>1 DEF Stream
  <2>2. ASSUME Gone < b, b <= Gone + k PROVE \E i \in 1..k : buffer[i] = b
    <3>1. b - Gone \in 1..k /\ b - Gone \in 1..Len(buffer)
      BY <1>1, <2>2, SerialAssumption DEF Bytes
    <3>2. buffer[b - Gone] = b
      BY <1>1, <3>1, SerialAssumption DEF Stream, Bytes
    <3> QED
      BY <3>1, <3>2
  <2> QED
    BY <2>1, <2>2
<1>8. r # Unread
  BY SerialAssumption DEF Readers, Unread, Flushed
<1>9. \A b \in Bytes : reader'[b] = Unread <=> b > Gone'
  <2> SUFFICES ASSUME NEW b \in Bytes PROVE reader'[b] = Unread <=> b > Gone'
    OBVIOUS
  <2>1. b \in Int /\ (reader[b] = Unread <=> b > Gone)
    BY SerialAssumption DEF Stream, Bytes
  <2>2. CASE Gone < b /\ b <= Gone + k
    BY <1>1, <1>4, <1>5, <1>7, <1>8, <2>1, <2>2
  <2>3. CASE ~(Gone < b /\ b <= Gone + k)
    <3>1. reader'[b] = reader[b]
      BY <1>5, <1>7, <2>3
    <3> QED
      BY <1>1, <1>4, <2>1, <2>3, <3>1
  <2> QED
    BY <2>2, <2>3
<1>10. \A i \in 1..Len(buffer') : buffer'[i] = Gone' + i
  BY <1>1, <1>3, <1>4 DEF Stream
<1>11. \A i \in 1..Len(hand') : hand'[i] = Gone' + Len(buffer') + i
  BY <1>1, <1>3, <1>4 DEF Stream
<1>12. Stream'
  BY <1>1, <1>4, <1>9, <1>10, <1>11 DEF Stream
<1>13. buffer' # <<>> => buffer # <<>>
  BY <1>1, <1>3
<1> QED
  BY <1>3, <1>5, <1>6, <1>12, <1>13

\* What the receive thread carries is appended.
LEMMA AppendFacts ==
  ASSUME TypeOK, Stream, buffer' = buffer \o hand, hand' = <<>>, UNCHANGED <<received, reader>>
  PROVE  buffer' \in Seq(Bytes) /\ hand' \in Seq(Bytes) /\ Stream'
<1>1. /\ Len(buffer) \in Nat /\ Len(hand) \in Nat /\ Gone \in Int /\ received \in Nat
  BY Lengths
<1>2. /\ buffer' \in Seq(Bytes) /\ hand' \in Seq(Bytes) /\ Len(hand') = 0
      /\ Len(buffer') = Len(buffer) + Len(hand)
      /\ \A i \in 1..(Len(buffer) + Len(hand)) :
           buffer'[i] = IF i <= Len(buffer) THEN buffer[i] ELSE hand[i - Len(buffer)]
  BY DEF TypeOK
<1>3. Gone' = Gone
  BY <1>1, <1>2 DEF Gone
<1>4. \A i \in 1..Len(buffer') : buffer'[i] = Gone' + i
  <2> SUFFICES ASSUME NEW i \in 1..Len(buffer') PROVE buffer'[i] = Gone' + i
    OBVIOUS
  <2>1. CASE i <= Len(buffer)
    BY <1>1, <1>2, <1>3, <2>1 DEF Stream
  <2>2. CASE i > Len(buffer)
    <3>1. i - Len(buffer) \in 1..Len(hand)
      BY <1>1, <1>2, <2>2
    <3>2. buffer'[i] = hand[i - Len(buffer)]
      BY <1>1, <1>2, <2>2
    <3>3. hand[i - Len(buffer)] = Gone + Len(buffer) + (i - Len(buffer))
      BY <3>1 DEF Stream
    <3> QED
      BY <1>1, <1>2, <1>3, <3>2, <3>3
  <2> QED
    BY <1>1, <1>2, <2>1, <2>2
<1> QED
  BY <1>1, <1>2, <1>3, <1>4 DEF Stream

\* All that the device has sent is taken into the empty hand.
LEMMA ReadFacts ==
  ASSUME TypeOK, Stream, hand = <<>>, received < sent,
         hand' = [i \in 1..(sent - received) |-> received + i], received' = sent,
         UNCHANGED <<buffer, reader>>
  PROVE  hand' \in Seq(Bytes) /\ Stream'
<1>1. /\ Len(buffer) \in Nat /\ Len(hand) = 0 /\ Gone \in Int /\ received \in Nat
      /\ sent \in Nat /\ sent <= MaxBytes
  BY Lengths, SerialAssumption DEF TypeOK
<1>2. sent - received \in Nat /\ \A i \in 1..(sent - received) : received + i \in Bytes
  BY <1>1, SerialAssumption DEF Bytes
<1>3. hand' \in Seq(Bytes) /\ Len(hand') = sent - received
  BY <1>2
<1>4. Gone' = Gone /\ Gone + Len(buffer) = received
  BY <1>1, <1>3 DEF Gone
<1>5. \A i \in 1..Len(hand') : hand'[i] = Gone' + Len(buffer') + i
  BY <1>1, <1>3, <1>4
<1> QED
  BY <1>1, <1>3, <1>4, <1>5 DEF Stream

-----------------------------------------------------------------------------
\* Nothing has been sent.
LEMMA InitIInv == Init => IInv
<1> SUFFICES ASSUME Init PROVE IInv
  OBVIOUS
<1> USE SerialAssumption
<1>1. reader = [b \in Bytes |-> Unread] /\ buffer = <<>> /\ hand = <<>>
      /\ upc = [u \in Users |-> "idle"] /\ sent = 0 /\ received = 0 /\ sections = 0
  BY DEF Init
<1>2. TypeOK
  <2>1. reader \in [Bytes -> Readers \cup {Unread, Flushed}]
    BY <1>1
  <2>2. upc \in [Users -> {"idle", "in", "resuming"}]
    BY <1>1
  <2>3. sent \in 0..MaxBytes /\ received \in 0..sent /\ sections \in 0..MaxSections
    BY <1>1
  <2>4. cond = Free /\ evLock = Owner /\ Free # Callback /\ Owner # Callback /\ Owner \in Readers
    BY DEF Init, Readers
  <2>5. hand \in Seq(Bytes) /\ buffer \in Seq(Bytes)
    BY <1>1
  <2> QED
    BY <2>1, <2>2, <2>3, <2>4, <2>5 DEF Init, TypeOK
<1>3. Holders /\ HandInv /\ Unstarted /\ NoStrandedData
  BY <1>1 DEF Init, Holders, HandInv, Unstarted, NoStrandedData
<1>4. Stream
  <2>1. Len(buffer) = 0 /\ Len(hand) = 0
    BY <1>1
  <2>2. Gone = 0
    <3>1. received = 0
      BY <1>1
    <3> QED
      BY <2>1, <3>1 DEF Gone
  <2> QED
    BY <1>1, <2>1, <2>2 DEF Stream, Bytes
<1> QED
  BY <1>2, <1>3, <1>4 DEF IInv

\* Every byte goes from the port to the hand, to the buffer and to one reader.
LEMMA StreamStep == IInv /\ [Next]_vars => (Stream /\ DataOK)'
<1> SUFFICES ASSUME IInv, [Next]_vars PROVE (Stream /\ DataOK)'
  OBVIOUS
<1> USE SerialAssumption DEF IInv, port, data, owned
<1>1. CASE Send
  BY <1>1 DEF Send, Stream, Gone, DataOK, TypeOK
<1>2. CASE Flush
  <2>1. Len(buffer) \in 0..Len(buffer) /\ Take(Len(buffer), Flushed)
    BY <1>2, Lengths DEF Flush
  <2>2. UNCHANGED <<received, hand>>
    BY <1>2 DEF Flush
  <2> QED
    BY <2>1, <2>2, TakeFacts DEF DataOK, TypeOK
<1>3. CASE Start
  BY <1>3 DEF Start, Stream, Gone, DataOK, TypeOK
<1>4. CASE SetReadEventCallback
  BY <1>4 DEF SetReadEventCallback, Stream, Gone, DataOK, TypeOK
<1>5. CASE SetFlag
  BY <1>5 DEF SetFlag, Stream, Gone, DataOK, TypeOK
<1>6. CASE SetStopEvent
  BY <1>6 DEF SetStopEvent, Stream, Gone, DataOK, TypeOK
<1>7. CASE Joined
  BY <1>7 DEF Joined, Stream, Gone, DataOK, TypeOK
<1>8. CASE TestReceiver
  BY <1>8 DEF TestReceiver, ReceiverGoes, Stream, Gone, DataOK, TypeOK
<1>9. CASE ReadAllAvailable
  BY <1>9, ReadFacts DEF ReadAllAvailable, ReceiverGoes, HandInv, DataOK, TypeOK
<1>10. CASE HandleReceive
  BY <1>10, AppendFacts DEF HandleReceive, DataOK, TypeOK
<1>11. CASE SeeStopEvent
  BY <1>11 DEF SeeStopEvent, ReceiverGoes, Stream, Gone, DataOK, TypeOK
<1>12. CASE NotifyStop
  BY <1>12 DEF NotifyStop, ReceiverGoes, NotifyAll, Stream, Gone, DataOK, TypeOK
<1>13. CASE IdleOrFail
  BY <1>13 DEF IdleOrFail, ReceiverGoes, Stream, Gone, DataOK, TypeOK
<1>14. CASE TestCallback
  BY <1>14 DEF TestCallback, CallbackGoes, Stream, Gone, DataOK, TypeOK
<1>15. CASE Enter
  BY <1>15 DEF Enter, CallbackGoes, Stream, Gone, DataOK, TypeOK
<1>16. CASE BeginCall
  BY <1>16 DEF BeginCall, CallbackGoes, Stream, Gone, DataOK, TypeOK
<1>17. CASE Wait
  BY <1>17 DEF Wait, CallbackGoes, Stream, Gone, DataOK, TypeOK
<1>18. CASE CallbackRead
  <2>1. PICK k \in 0..Len(buffer) : Take(k, Callback)
    BY <1>18, Lengths DEF CallbackRead
  <2>2. Callback \in Readers /\ UNCHANGED <<received, hand>>
    BY <1>18 DEF CallbackRead, Readers
  <2> QED
    BY <2>1, <2>2, TakeFacts DEF DataOK, TypeOK
<1>19. CASE CallbackWait
  BY <1>19 DEF CallbackWait, CallbackGoes, Stream, Gone, DataOK, TypeOK
<1>20. CASE CallbackReadMore
  <2>1. PICK k \in 0..Len(buffer) : Take(k, Callback)
    BY <1>20, Lengths DEF CallbackReadMore
  <2>2. Callback \in Readers /\ UNCHANGED <<received, hand>>
    BY <1>20 DEF CallbackReadMore, Readers
  <2> QED
    BY <2>1, <2>2, TakeFacts DEF DataOK, TypeOK
<1>21. CASE EndCall
  BY <1>21 DEF EndCall, CallbackGoes, Stream, Gone, DataOK, TypeOK
<1>22. CASE Woken
  BY <1>22 DEF Woken, CallbackGoes, Stream, Gone, DataOK, TypeOK
<1>23. ASSUME NEW u \in Users, SuspendReadEvents(u) PROVE (Stream /\ DataOK)'
  BY <1>23 DEF SuspendReadEvents, Stream, Gone, DataOK, TypeOK
<1>24. ASSUME NEW u \in Users, ResumeReadEvents(u) PROVE (Stream /\ DataOK)'
  BY <1>24 DEF ResumeReadEvents, Stream, Gone, DataOK, TypeOK
<1>25. ASSUME NEW u \in Users, ResumeNotify(u) PROVE (Stream /\ DataOK)'
  BY <1>25 DEF ResumeNotify, NotifyAll, Stream, Gone, DataOK, TypeOK
<1>26. ASSUME NEW t \in Users \cup {Owner}, Read(t) PROVE (Stream /\ DataOK)'
  <2>1. PICK k \in 0..Len(buffer) : Take(k, t)
    BY <1>26, Lengths DEF Read
  <2>2. t \in Readers /\ UNCHANGED <<received, hand>>
    BY <1>26 DEF Read, Readers
  <2> QED
    BY <2>1, <2>2, TakeFacts DEF DataOK, TypeOK
<1>27. CASE UNCHANGED vars
  BY <1>27 DEF vars, Stream, Gone, DataOK, TypeOK
<1> QED
  BY <1>1, <1>2, <1>3, <1>4, <1>5, <1>6, <1>7, <1>8, <1>9, <1>10, <1>11, <1>12,
     <1>13, <1>14, <1>15, <1>16, <1>17, <1>18, <1>19, <1>20, <1>21, <1>22,
     <1>23, <1>24, <1>25, <1>26, <1>27
     DEF Next, OwnerThread, Receiver, CallbackThread, User

\* The locks are taken when free and released by their holders.
LEMMA HoldersStep == IInv /\ [Next]_vars => (Holders /\ HandInv /\ Unstarted)'
<1> SUFFICES ASSUME IInv, [Next]_vars PROVE (Holders /\ HandInv /\ Unstarted)'
  OBVIOUS
<1> USE SerialAssumption DEF IInv, port, data, owned, TypeOK, Holders, HandInv, Unstarted, Readers
<1>1. CASE Send
  BY <1>1 DEF Send
<1>2. CASE Flush
  BY <1>2 DEF Flush
<1>3. CASE Start
  BY <1>3 DEF Start
<1>4. CASE SetReadEventCallback
  BY <1>4 DEF SetReadEventCallback
<1>5. CASE SetFlag
  BY <1>5 DEF SetFlag
<1>6. CASE SetStopEvent
  BY <1>6 DEF SetStopEvent
<1>7. CASE Joined
  BY <1>7 DEF Joined
<1>8. CASE TestReceiver
  BY <1>8 DEF TestReceiver, ReceiverGoes
<1>9. CASE ReadAllAvailable
  BY <1>9 DEF ReadAllAvailable, ReceiverGoes
<1>10. CASE HandleReceive
  BY <1>10 DEF HandleReceive, ReceiverGoes, NotifyAll
<1>11. CASE SeeStopEvent
  BY <1>11 DEF SeeStopEvent, ReceiverGoes
<1>12. CASE NotifyStop
  BY <1>12 DEF NotifyStop, ReceiverGoes, NotifyAll
<1>13. CASE IdleOrFail
  BY <1>13 DEF IdleOrFail, ReceiverGoes
<1>14. CASE TestCallback
  BY <1>14 DEF TestCallback, CallbackGoes
<1>15. CASE Enter
  BY <1>15 DEF Enter, CallbackGoes
<1>16. CASE BeginCall
  BY <1>16 DEF BeginCall, CallbackGoes
<1>17. CASE Wait
  BY <1>17 DEF Wait, CallbackGoes
<1>18. CASE CallbackRead
  BY <1>18 DEF CallbackRead, CallbackGoes
<1>19. CASE CallbackWait
  BY <1>19 DEF CallbackWait, CallbackGoes
<1>20. CASE CallbackReadMore
  BY <1>20 DEF CallbackReadMore, CallbackGoes
<1>21. CASE EndCall
  BY <1>21 DEF EndCall, CallbackGoes
<1>22. CASE Woken
  BY <1>22 DEF Woken, CallbackGoes
<1>23. ASSUME NEW u \in Users, SuspendReadEvents(u) PROVE (Holders /\ HandInv /\ Unstarted)'
  BY <1>23 DEF SuspendReadEvents
<1>24. ASSUME NEW u \in Users, ResumeReadEvents(u) PROVE (Holders /\ HandInv /\ Unstarted)'
  BY <1>24 DEF ResumeReadEvents
<1>25. ASSUME NEW u \in Users, ResumeNotify(u) PROVE (Holders /\ HandInv /\ Unstarted)'
  BY <1>25 DEF ResumeNotify, NotifyAll
<1>26. ASSUME NEW t \in Users \cup {Owner}, Read(t) PROVE (Holders /\ HandInv /\ Unstarted)'
  BY <1>26 DEF Read
<1>27. CASE UNCHANGED vars
  BY <1>27 DEF vars
<1> QED
  BY <1>1, <1>2, <1>3, <1>4, <1>5, <1>6, <1>7, <1>8, <1>9, <1>10, <1>11, <1>12,
     <1>13, <1>14, <1>15, <1>16, <1>17, <1>18, <1>19, <1>20, <1>21, <1>22,
     <1>23, <1>24, <1>25, <1>26, <1>27
     DEF Next, OwnerThread, Receiver, CallbackThread, User

\* The callback thread gives up only over an empty buffer or a section.
LEMMA StrandedStep == IInv /\ [Next]_vars => NoStrandedData'
<1> SUFFICES ASSUME IInv, [Next]_vars PROVE NoStrandedData'
  OBVIOUS
<1> USE SerialAssumption DEF IInv, port, data, owned, TypeOK, Holders, NoStrandedData, Readers
<1>1. CASE Send
  BY <1>1 DEF Send
<1>2. CASE Flush
  BY <1>2 DEF Flush
<1>3. CASE Start
  BY <1>3 DEF Start
<1>4. CASE SetReadEventCallback
  BY <1>4 DEF SetReadEventCallback
<1>5. CASE SetFlag
  BY <1>5 DEF SetFlag
<1>6. CASE SetStopEvent
  BY <1>6 DEF SetStopEvent
<1>7. CASE Joined
  BY <1>7 DEF Joined
<1>8. CASE TestReceiver
  BY <1>8 DEF TestReceiver, ReceiverGoes
<1>9. CASE ReadAllAvailable
  BY <1>9 DEF ReadAllAvailable, ReceiverGoes
<1>10. CASE HandleReceive
  BY <1>10 DEF HandleReceive, ReceiverGoes, NotifyAll
<1>11. CASE SeeStopEvent
  BY <1>11 DEF SeeStopEvent, ReceiverGoes
<1>12. CASE NotifyStop
  BY <1>12 DEF NotifyStop, ReceiverGoes, NotifyAll
<1>13. CASE IdleOrFail
  BY <1>13 DEF IdleOrFail, ReceiverGoes
<1>14. CASE TestCallback
  BY <1>14 DEF TestCallback, CallbackGoes
<1>15. CASE Enter
  BY <1>15 DEF Enter, CallbackGoes
<1>16. CASE BeginCall
  BY <1>16 DEF BeginCall, CallbackGoes
<1>17. CASE Wait
  BY <1>17 DEF Wait, CallbackGoes
<1>18. CASE CallbackRead
  BY <1>18 DEF CallbackRead, CallbackGoes
<1>19. CASE CallbackWait
  BY <1>19 DEF CallbackWait, CallbackGoes
<1>20. CASE CallbackReadMore
  BY <1>20 DEF CallbackReadMore, CallbackGoes
<1>21. CASE EndCall
  BY <1>21 DEF EndCall, CallbackGoes
<1>22. CASE Woken
  BY <1>22 DEF Woken, CallbackGoes
<1>23. ASSUME NEW u \in Users, SuspendReadEvents(u) PROVE NoStrandedData'
  BY <1>23 DEF SuspendReadEvents
<1>24. ASSUME NEW u \in Users, ResumeReadEvents(u) PROVE NoStrandedData'
  BY <1>24 DEF ResumeReadEvents
<1>25. ASSUME NEW u \in Users, ResumeNotify(u) PROVE NoStrandedData'
  BY <1>25 DEF ResumeNotify, NotifyAll
<1>26. ASSUME NEW t \in Users \cup {Owner}, Read(t) PROVE NoStrandedData'
  BY <1>26 DEF Read
<1>27. CASE UNCHANGED vars
  BY <1>27 DEF vars
<1> QED
  BY <1>1, <1>2, <1>3, <1>4, <1>5, <1>6, <1>7, <1>8, <1>9, <1>10, <1>11, <1>12,
     <1>13, <1>14, <1>15, <1>16, <1>17, <1>18, <1>19, <1>20, <1>21, <1>22,
     <1>23, <1>24, <1>25, <1>26, <1>27
     DEF Next, OwnerThread, Receiver, CallbackThread, User

\* Every step keeps the types.
LEMMA TypeStep == IInv /\ [Next]_vars => TypeOK'
<1> SUFFICES ASSUME IInv, [Next]_vars PROVE TypeOK'
  OBVIOUS
<1> USE SerialAssumption DEF IInv, port, data, owned, TypeOK, Holders, HandInv, Unstarted, Readers
<1>0. DataOK'
  BY StreamStep
<1>1. CASE Send
  <2>1. sent' \in 0..MaxBytes /\ received' \in 0..sent'
    BY <1>1 DEF Send
  <2> QED
    BY <1>1, <2>1 DEF Send
<1>2. CASE Flush
  <2>1. UNCHANGED <<port, cond, evLock, late, owned, rpc, upc, sections>>
    BY <1>2 DEF Flush
  <2>2. cpc' = cpc
    BY <1>2 DEF Flush
  <2> QED
    BY <1>0, <2>1, <2>2 DEF DataOK
<1>3. CASE Start
  BY <1>3 DEF Start
<1>4. CASE SetReadEventCallback
  BY <1>4 DEF SetReadEventCallback
<1>5. CASE SetFlag
  BY <1>5 DEF SetFlag
<1>6. CASE SetStopEvent
  BY <1>6 DEF SetStopEvent
<1>7. CASE Joined
  BY <1>7 DEF Joined
<1>8. CASE TestReceiver
  BY <1>8 DEF TestReceiver, ReceiverGoes
<1>9. CASE ReadAllAvailable
  <2>1. received' \in 0..sent' /\ UNCHANGED sent
    BY <1>9 DEF ReadAllAvailable
  <2>2. UNCHANGED <<cond, evLock, late, owned, cpc, upc, sections>> /\ rpc' = "got"
    BY <1>9 DEF ReadAllAvailable, ReceiverGoes
  <2>3. sent' \in 0..MaxBytes /\ received' \in 0..sent'
    BY <2>1
  <2>4. hand' \in Seq(Bytes) /\ buffer' \in Seq(Bytes)
        /\ reader' \in [Bytes -> Readers \cup {Unread, Flushed}]
    BY <1>0 DEF DataOK
  <2> HIDE DEF Readers
  <2> QED
    BY <2>2, <2>3, <2>4
<1>10. CASE HandleReceive
  <2>1. UNCHANGED <<sent, received, cond, evLock, owned, upc, sections>> /\ rpc' = "test"
    BY <1>10 DEF HandleReceive, ReceiverGoes
  <2>2. late' = FALSE /\ cpc' = IF cpc = "wait" THEN "woken" ELSE cpc
    BY <1>10 DEF HandleReceive, NotifyAll
  <2> HIDE DEF Readers
  <2> QED
    BY <1>0, <2>1, <2>2 DEF DataOK
<1>11. CASE SeeStopEvent
  BY <1>11 DEF SeeStopEvent, ReceiverGoes
<1>12. CASE NotifyStop
  BY <1>12 DEF NotifyStop, ReceiverGoes, NotifyAll
<1>13. CASE IdleOrFail
  BY <1>13 DEF IdleOrFail, ReceiverGoes
<1>14. CASE TestCallback
  BY <1>14 DEF TestCallback, CallbackGoes
<1>15. CASE Enter
  BY <1>15 DEF Enter, CallbackGoes
<1>16. CASE BeginCall
  BY <1>16 DEF BeginCall, CallbackGoes
<1>17. CASE Wait
  BY <1>17 DEF Wait, CallbackGoes
<1>18. CASE CallbackRead
  <2>1. UNCHANGED <<port, evLock, late, owned, rpc, upc, sections>>
    BY <1>18 DEF CallbackRead
  <2>2. cpc = "call" /\ cpc' = "called" /\ cond' = cond
    BY <1>18 DEF CallbackRead, CallbackGoes
  <2> QED
    BY <1>0, <2>1, <2>2 DEF DataOK
<1>19. CASE CallbackWait
  BY <1>19 DEF CallbackWait, CallbackGoes
<1>20. CASE CallbackReadMore
  <2>1. UNCHANGED <<port, evLock, late, owned, rpc, upc, sections>>
    BY <1>20 DEF CallbackReadMore
  <2>2. cpc = "more" /\ cpc' = "ending" /\ cond' = Callback
    BY <1>20 DEF CallbackReadMore, CallbackGoes
  <2> QED
    BY <1>0, <2>1, <2>2 DEF DataOK
<1>21. CASE EndCall
  BY <1>21 DEF EndCall, CallbackGoes
<1>22. CASE Woken
  BY <1>22 DEF Woken, CallbackGoes
<1>23. ASSUME NEW u \in Users, SuspendReadEvents(u) PROVE TypeOK'
  BY <1>23 DEF SuspendReadEvents
<1>24. ASSUME NEW u \in Users, ResumeReadEvents(u) PROVE TypeOK'
  BY <1>24 DEF ResumeReadEvents
<1>25. ASSUME NEW u \in Users, ResumeNotify(u) PROVE TypeOK'
  BY <1>25 DEF ResumeNotify, NotifyAll
<1>26. ASSUME NEW t \in Users \cup {Owner}, Read(t) PROVE TypeOK'
  <2>1. UNCHANGED <<port, cond, evLock, late, owned, rpc, upc, sections>>
    BY <1>26 DEF Read
  <2>2. cpc' = cpc
    BY <1>26 DEF Read
  <2> QED
    BY <1>0, <2>1, <2>2 DEF DataOK
<1>27. CASE UNCHANGED vars
  BY <1>27 DEF vars
<1> QED
  BY <1>1, <1>2, <1>3, <1>4, <1>5, <1>6, <1>7, <1>8, <1>9, <1>10, <1>11, <1>12,
     <1>13, <1>14, <1>15, <1>16, <1>17, <1>18, <1>19, <1>20, <1>21, <1>22,
     <1>23, <1>24, <1>25, <1>26, <1>27
     DEF Next, OwnerThread, Receiver, CallbackThread, User

\* The strengthening is inductive.
LEMMA Inductive == IInv /\ [Next]_vars => IInv'
BY StreamStep, HoldersStep, StrandedStep, TypeStep DEF IInv

\* The inductive invariant holds throughout.
LEMMA Invariance == Spec => []IInv
<1> QED
  BY InitIInv, Inductive, PTL DEF Spec

-----------------------------------------------------------------------------
\* Type correctness, and the callback thread's two locks.
THEOREM TypeCorrect == Spec => []TypeOK
<1>1. IInv => TypeOK
  BY DEF IInv
<1> QED
  BY <1>1, Invariance, PTL

\* No byte is lost, doubled or overtaken on its way from the driver over the
\* receive thread and the buffer to its reader.
THEOREM TheStreamIsKept == Spec => []StreamIsKept
<1>1. IInv => StreamIsKept
  <2> SUFFICES ASSUME IInv PROVE StreamIsKept
    OBVIOUS
  <2> DEFINE rest == buffer \o hand
  <2>1. /\ Len(buffer) \in Nat /\ Len(hand) \in Nat /\ Gone \in Int /\ received \in Nat
    BY Lengths DEF IInv
  <2>2. /\ Len(rest) = Len(buffer) + Len(hand)
        /\ \A i \in 1..(Len(buffer) + Len(hand)) :
             rest[i] = IF i <= Len(buffer) THEN buffer[i] ELSE hand[i - Len(buffer)]
    BY DEF IInv, TypeOK
  <2>3. Gone = received - Len(rest)
    BY <2>1, <2>2 DEF Gone
  <2>4. \A i \in 1..Len(rest) : rest[i] = Gone + i
    <3> SUFFICES ASSUME NEW i \in 1..Len(rest) PROVE rest[i] = Gone + i
      OBVIOUS
    <3>1. CASE i <= Len(buffer)
      <4>1. i \in 1..Len(buffer) /\ rest[i] = buffer[i]
        BY <2>1, <2>2, <3>1
      <4> QED
        BY <4>1 DEF IInv, Stream
    <3>2. CASE i > Len(buffer)
      <4>1. i - Len(buffer) \in 1..Len(hand) /\ rest[i] = hand[i - Len(buffer)]
        BY <2>1, <2>2, <3>2
      <4>2. hand[i - Len(buffer)] = Gone + Len(buffer) + (i - Len(buffer))
        BY <4>1 DEF IInv, Stream
      <4> QED
        BY <2>1, <2>2, <4>1, <4>2
    <3> QED
      BY <2>1, <2>2, <3>1, <3>2
  <2>5. \A b \in Bytes : reader[b] = Unread <=> b > received - Len(rest)
    BY <2>3 DEF IInv, Stream
  <2> QED
    BY <2>3, <2>4, <2>5 DEF StreamIsKept
<1> QED
  BY <1>1, Invariance, PTL

\* The callback thread never waits over data that nobody will tell it of
\* (readEventLock.acquire(0) in CallbackThreadProc, ResumeReadEvents).
THEOREM NothingIsStranded == Spec => []NoStrandedData
<1>1. IInv => NoStrandedData
  BY DEF IInv
<1> QED
  BY <1>1, Invariance, PTL

\* Between SuspendReadEvents and ResumeReadEvents nobody else reads.
THEOREM SectionsAreExclusive == Spec => SectionIsExclusive
<1>1. ASSUME IInv, [Next]_vars, NEW u \in Users, evLock = u, evLock' = u, NEW b \in Bytes
      PROVE  reader'[b] \in {reader[b], u, Flushed}
  <2>1. u # Owner /\ u # Callback
    BY SerialAssumption
  <2>2. cpc \notin {"call", "more"}
    BY <1>1, <2>1 DEF IInv, TypeOK
  <2>3. CASE Flush
    <3>1. Take(Len(buffer), Flushed)
      BY <2>3 DEF Flush
    <3> QED
      BY <3>1 DEF Take
  <2>4. ASSUME NEW t \in Users \cup {Owner}, Read(t) PROVE reader'[b] \in {reader[b], u}
    <3>1. PICK k \in 1..Len(buffer) : Take(k, u)
      BY <1>1, <2>4 DEF Read
    <3> QED
      BY <3>1 DEF Take
  <2>5. CASE reader' = reader
    BY <2>5
  <2>6. \/ Flush \/ (\E t \in Users \cup {Owner} : Read(t)) \/ reader' = reader
    BY <1>1, <2>2
       DEF Next, OwnerThread, Receiver, CallbackThread, User, vars, data, Send, Start,
           SetReadEventCallback, SetFlag, SetStopEvent, Joined, SuspendReadEvents,
           ResumeReadEvents, ResumeNotify, TestReceiver, ReadAllAvailable, HandleReceive,
           SeeStopEvent, NotifyStop, IdleOrFail, TestCallback, Enter, BeginCall, Wait,
           CallbackRead, CallbackWait, CallbackReadMore, EndCall, Woken, CallbackGoes
  <2> QED
    BY <2>3, <2>4, <2>5, <2>6
<1>2. IInv /\ [Next]_vars => [\A u \in Users : evLock = u /\ evLock' = u =>
        \A b \in Bytes : reader'[b] \in {reader[b], u, Flushed}]_vars
  BY <1>1
<1> QED
  BY <1>2, Invariance, PTL DEF Spec, SectionIsExclusive
===============================================================================
