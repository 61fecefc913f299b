------------------------ MODULE CapturePipelineProofs ------------------------
(***************************************************************************)
(* Proofs about CapturePipeline, for any number of frames and of pushes:   *)
(* when BufferCB can wait for ever, what the buffer shows while entries of *)
(* the queue and copies of the encoder refer to it, and which encoders the *)
(* threads call.                                                           *)
(***************************************************************************)
EXTENDS CapturePipeline, SequenceTheorems, TLAPS

-----------------------------------------------------------------------------
(* What the invariants rest on.                                            *)

(* A callback runs only while the capture is open, and the graph is halted *)
(* while the dialog waits for the last one.                                *)
Opened ==
  /\ running \/ cb # "idle" => m_bIsVideoOpen
  /\ ui = "stopping" => ~running

(* When BufferCB decided to drop an entry there was one, and only a sender *)
(* takes entries.                                                          *)
DropsForSender ==
  cb = "drop" => nColorFormat = "YUY2" /\ (queue # <<>> \/ senders # {})

(* The dialog's thread creates an encoder, prepares it or fails to, starts *)
(* a thread.                                                               *)
Prepared ==
  /\ ui \in {"encoder", "thread"} => m_pEncoder \in Pushes
  /\ ui = "thread" => m_pEncoder \in ready \cup failed
  /\ \A s \in Pushes : snd[s] # "none" => s <= m_pEncoder /\ s \in ready \cup failed
  /\ \A s \in Pushes :
       snd[s] \in {"encode", "send", "crashed"} => using[s] \in 1..m_pEncoder
  /\ \A s \in Pushes : snd[s] = "crashed" /\ m_pEncoder <= 1 => using[s] \in failed

(* The cells converted so far show the frame of the callback. *)
Converted ==
  /\ cb # "idle" => \A j \in 1..filled : buf[FillOrder[j]] >= frame
  /\ cb \in {"drop", "put"} => filled = Len(FillOrder)

(* No number is ahead of the camera. *)
NotAhead ==
  /\ \A c \in Cells : buf[c] <= frame
  /\ \A i \in 1..Len(queue) : queue[i] <= frame
  /\ \A s \in Pushes : hand[s] <= frame

(* The buffer is never older than an entry some thread holds. *)
Covers == \A s \in Pushes, c \in Cells : buf[c] >= hand[s]

Control == Opened /\ DropsForSender /\ Prepared
Buffer  == Converted /\ NotAhead /\ Covers /\ QueuedConverted

IInv == TypeOK /\ Control /\ Buffer /\ NeverStale

-----------------------------------------------------------------------------
(* Both orders go through all four cells. *)
LEMMA Orders ==
  /\ Len(FillOrder) = 4 /\ Len(CopyOrder) = 4
  /\ \A j \in 1..4 : FillOrder[j] \in Cells /\ CopyOrder[j] \in Cells
  /\ \A c \in Cells : \E j \in 1..4 : FillOrder[j] = c
  BY DEF FillOrder, CopyOrder, Cells

(* What the queue is after an entry was put or taken. *)
LEMMA Appended ==
  ASSUME queue \in Seq(Frames), frame \in Frames, queue' = Append(queue, frame)
  PROVE  /\ queue' \in Seq(Frames) /\ queue' # <<>>
         /\ Len(queue') = Len(queue) + 1 /\ Len(queue) \in Nat
         /\ \A i \in 1..Len(queue') : queue'[i] = IF i <= Len(queue) THEN queue[i] ELSE frame
<1>1. Len(queue) \in Nat
  BY LenProperties
<1> QED
  BY <1>1, AppendProperties

LEMMA Taken ==
  ASSUME queue \in Seq(Frames), queue # <<>>, queue' = Tail(queue)
  PROVE  /\ queue' \in Seq(Frames) /\ Head(queue) \in Frames /\ Head(queue) = queue[1]
         /\ Len(queue) \in Nat \ {0} /\ Len(queue') = Len(queue) - 1
         /\ \A i \in 1..Len(queue') : queue'[i] = queue[i + 1]
<1>1. Len(queue) \in Nat \ {0}
  BY EmptySeq, LenProperties
<1>2. Head(queue) = queue[1] /\ queue[1] \in Frames
  BY <1>1, ElementOfSeq
<1> QED
  BY <1>1, <1>2, HeadTailProperties

-----------------------------------------------------------------------------
LEMMA InitCorrect == Init => IInv
<1> SUFFICES ASSUME Init PROVE IInv
  OBVIOUS
<1>1. TypeOK
  <2>1. 0 \in Frames /\ 0 \in 0..MaxPushes /\ 0 \in 0..Len(FillOrder) /\ 0 \in 0..Len(CopyOrder)
    BY MaxFramesAssumption, MaxPushesAssumption, Orders DEF Frames
  <2>2. queue \in Seq(Frames)
    BY EmptySeq DEF Init
  <2> QED
    BY <2>1, <2>2 DEF Init, TypeOK
<1>2. Control
  BY DEF Init, Control, Opened, DropsForSender, Prepared
<1>3. Buffer
  BY Orders, EmptySeq DEF Init, Buffer, Converted, NotAhead, Covers, QueuedConverted
<1>4. NeverStale
  BY DEF Init, NeverStale, senders
<1> QED
  BY <1>1, <1>2, <1>3, <1>4 DEF IInv

LEMMA TypeStep == TypeOK /\ Prepared /\ [Next]_vars => TypeOK'
<1> SUFFICES ASSUME TypeOK, Prepared, [Next]_vars PROVE TypeOK'
  OBVIOUS
<1> USE MaxFramesAssumption, MaxPushesAssumption DEF TypeOK, uiVars, cbVars, encVars, sndVars
<1>1. ASSUME NEW fmt \in {"YUY2", "RGB24"}, StartCapture(fmt) PROVE TypeOK'
  BY <1>1 DEF StartCapture
<1>2. CASE StopCapture
  BY <1>2 DEF StopCapture
<1>3. CASE StopReturns
  BY <1>3 DEF StopReturns
<1>4. CASE NewEncoder
  BY <1>4 DEF NewEncoder
<1>5. CASE InitEncode
  BY <1>5 DEF InitEncode, Prepared
<1>6. CASE CreateThread
  BY <1>6 DEF CreateThread
<1>7. CASE StopPush
  BY <1>7 DEF StopPush
<1>8. CASE BufferCB
  <2>1. frame' \in Frames /\ filled' \in 0..Len(FillOrder)
    <3>1. frame \in 0..MaxFrames /\ frame < MaxFrames /\ frame' = frame + 1 /\ filled' = 0
      BY <1>8 DEF BufferCB, Frames
    <3>2. Len(FillOrder) = 4
      BY Orders
    <3> QED
      BY ONLY <3>1, <3>2, MaxFramesAssumption DEF Frames
  <2> QED
    BY <1>8, <2>1 DEF BufferCB
<1>9. CASE Convert
  BY <1>9, Orders DEF Convert
<1>10. CASE CountQueue
  BY <1>10 DEF CountQueue
<1>11. CASE DropOldest
  BY <1>11, Taken DEF DropOldest
<1>12. CASE PutFrame
  BY <1>12, Appended DEF PutFrame
<1>13. ASSUME NEW s \in Pushes, GetFrame(s) PROVE TypeOK'
  BY <1>13, Taken DEF GetFrame
<1>14. ASSUME NEW s \in Pushes, CallEncode(s) PROVE TypeOK'
  BY <1>14, Orders DEF CallEncode
<1>15. ASSUME NEW s \in Pushes, CopyCell(s) PROVE TypeOK'
  <2> DEFINE c == CopyOrder[copied[s] + 1]
             e == using[s]
  <2>0. Len(CopyOrder) = 4
    BY Orders
  <2>b. copied[s] \in 0..Len(CopyOrder) /\ copied[s] < Len(CopyOrder)
    BY <1>15 DEF CopyCell
  <2>a. copied[s] + 1 \in 1..4
    BY ONLY <2>0, <2>b
  <2>1. copied' \in [Pushes -> 0..Len(CopyOrder)]
    BY <1>15, <2>0, <2>a DEF CopyCell
  <2>2. c \in Cells
    BY <2>a, Orders
  <2>3. yuv' = [yuv EXCEPT ![e] = [@ EXCEPT ![c] = buf[c]]]
    BY <1>15 DEF CopyCell
  <2> HIDE DEF c, e
  <2>4. yuv' \in [Pushes -> [Cells -> Frames]]
    BY <2>2, <2>3
  <2> QED
    BY <1>15, <2>1, <2>4 DEF CopyCell
<1>16. ASSUME NEW s \in Pushes, Encoded(s) PROVE TypeOK'
  BY <1>16 DEF Encoded
<1>17. ASSUME NEW s \in Pushes, Sent(s) PROVE TypeOK'
  BY <1>17 DEF Sent
<1>18. CASE UNCHANGED vars
  BY <1>18 DEF vars
<1>19. ASSUME NEW s \in Pushes, EncodeUnprepared(s) PROVE TypeOK'
  BY <1>19 DEF EncodeUnprepared
<1> QED
  BY <1>1, <1>2, <1>3, <1>4, <1>5, <1>6, <1>7, <1>8, <1>9, <1>10, <1>11, <1>12,
     <1>13, <1>14, <1>15, <1>16, <1>17, <1>18, <1>19 DEF Next

-----------------------------------------------------------------------------
(* While a thread exists there are senders. *)
LEMMA ControlStep == TypeOK /\ Control /\ [Next]_vars => Control'
<1> SUFFICES ASSUME TypeOK, Control, [Next]_vars PROVE Control'
  OBVIOUS
<1> USE MaxPushesAssumption DEF Control, Opened, DropsForSender, Prepared, senders,
        uiVars, cbVars, encVars, sndVars
<1>0. /\ ui \in {"idle", "stopping", "encoder", "thread"}
      /\ m_pEncoder \in 0..MaxPushes /\ Pushes = 1..MaxPushes
      /\ snd \in [Pushes -> {"none", "get", "got", "encode", "send", "crashed"}]
      /\ using \in [Pushes -> 0..MaxPushes]
  BY DEF TypeOK, Pushes
<1>1. ASSUME NEW fmt \in {"YUY2", "RGB24"}, StartCapture(fmt) PROVE Control'
  BY <1>1 DEF StartCapture
<1>2. CASE StopCapture
  BY <1>2 DEF StopCapture
<1>3. CASE StopReturns
  BY <1>3 DEF StopReturns
<1>4. CASE NewEncoder
  BY <1>0, <1>4 DEF NewEncoder
<1>5. CASE InitEncode
  BY <1>0, <1>5 DEF InitEncode
<1>6. CASE CreateThread
  BY <1>0, <1>6 DEF CreateThread
<1>7. CASE StopPush
  BY <1>7 DEF StopPush
<1>8. CASE BufferCB
  BY <1>8 DEF BufferCB
<1>9. CASE Convert
  BY <1>9 DEF Convert
<1>10. CASE CountQueue
  BY <1>10 DEF CountQueue
<1>11. CASE DropOldest
  BY <1>11 DEF DropOldest
<1>12. CASE PutFrame
  BY <1>12 DEF PutFrame
<1>13. ASSUME NEW s \in Pushes, GetFrame(s) PROVE Control'
  BY <1>0, <1>13 DEF GetFrame
<1>14. ASSUME NEW s \in Pushes, CallEncode(s) PROVE Control'
  BY <1>0, <1>14 DEF CallEncode
<1>15. ASSUME NEW s \in Pushes, CopyCell(s) PROVE Control'
  BY <1>15 DEF CopyCell
<1>16. ASSUME NEW s \in Pushes, Encoded(s) PROVE Control'
  BY <1>0, <1>16 DEF Encoded
<1>17. ASSUME NEW s \in Pushes, Sent(s) PROVE Control'
  BY <1>0, <1>17 DEF Sent
<1>18. CASE UNCHANGED vars
  BY <1>18 DEF vars
<1>19. ASSUME NEW s \in Pushes, EncodeUnprepared(s) PROVE Control'
  BY <1>0, <1>19 DEF EncodeUnprepared
<1> QED
  BY <1>1, <1>2, <1>3, <1>4, <1>5, <1>6, <1>7, <1>8, <1>9, <1>10, <1>11, <1>12,
     <1>13, <1>14, <1>15, <1>16, <1>17, <1>18, <1>19 DEF Next

-----------------------------------------------------------------------------
(* The buffer only ever shows later frames than before. *)
LEMMA BufferMonotone ==
  TypeOK /\ NotAhead /\ [Next]_vars => \A c \in Cells : buf'[c] >= buf[c]
<1> SUFFICES ASSUME TypeOK, NotAhead, [Next]_vars, NEW c \in Cells PROVE buf'[c] >= buf[c]
  OBVIOUS
<1>0. buf \in [Cells -> Frames] /\ frame \in Frames /\ buf[c] \in Nat /\ frame \in Nat
  BY DEF TypeOK, Frames
<1>1. CASE Convert
  <2>1. buf'[c] = IF c = FillOrder[filled + 1] THEN frame ELSE buf[c]
    BY <1>0, <1>1 DEF Convert
  <2> QED
    BY <1>0, <2>1 DEF NotAhead
<1>2. CASE buf' = buf
  BY <1>0, <1>2
<1> QED
  BY <1>1, <1>2 DEF Next, vars, uiVars, cbVars, encVars, sndVars, StartCapture, StopCapture,
     StopReturns, NewEncoder, InitEncode, CreateThread, StopPush, BufferCB, CountQueue,
     DropOldest, PutFrame, GetFrame, CallEncode, CopyCell, EncodeUnprepared, Encoded, Sent

LEMMA ConvertedStep == TypeOK /\ Buffer /\ [Next]_vars => Converted'
<1> SUFFICES ASSUME TypeOK, Buffer, [Next]_vars PROVE Converted'
  OBVIOUS
<1> USE DEF Converted, uiVars, cbVars, encVars, sndVars
<1>0. /\ buf \in [Cells -> Frames] /\ frame \in Nat /\ filled \in 0..4 /\ Len(FillOrder) = 4
      /\ Converted /\ NotAhead
  <2>1. Len(FillOrder) = 4
    BY Orders
  <2> QED
    BY <2>1 DEF TypeOK, Frames, Buffer
<1>1. CASE BufferCB
  BY <1>0, <1>1 DEF BufferCB
<1>2. CASE Convert
  <2>1. ASSUME NEW j \in 1..(filled + 1) PROVE buf'[FillOrder[j]] >= frame
    <3>1. j \in 1..4 /\ FillOrder[j] \in Cells
      BY <1>0, <1>2, Orders DEF Convert
    <3>2. buf'[FillOrder[j]] = IF j = filled + 1 \/ FillOrder[j] = FillOrder[filled + 1]
                               THEN frame ELSE buf[FillOrder[j]]
      BY <1>0, <1>2, <3>1 DEF Convert
    <3> QED
      BY <1>0, <1>2, <3>1, <3>2 DEF Convert
  <2> QED
    BY <1>0, <1>2, <2>1 DEF Convert
<1>3. CASE CountQueue
  BY <1>0, <1>3 DEF CountQueue
<1>4. CASE DropOldest
  BY <1>0, <1>4 DEF DropOldest
<1>5. CASE PutFrame
  BY <1>0, <1>5 DEF PutFrame
<1>6. CASE UNCHANGED cbVars
  BY <1>0, <1>6
<1> QED
  BY <1>1, <1>2, <1>3, <1>4, <1>5, <1>6 DEF Next, vars, StartCapture, StopCapture,
     StopReturns, NewEncoder, InitEncode, CreateThread, StopPush,
     GetFrame, CallEncode, CopyCell, EncodeUnprepared, Encoded, Sent

(* When an entry is put, the whole buffer shows its frame. *)
LEMMA WhenPut ==
  ASSUME TypeOK, Converted, NotAhead, cb = "put"
  PROVE  \A c \in Cells : buf[c] = frame
<1>1. \A j \in 1..4 : buf[FillOrder[j]] >= frame
  BY Orders DEF Converted
<1> SUFFICES ASSUME NEW c \in Cells PROVE buf[c] = frame
  OBVIOUS
<1>2. PICK j \in 1..4 : FillOrder[j] = c
  BY Orders
<1>3. buf[c] >= frame /\ buf[c] <= frame
  BY <1>1, <1>2 DEF NotAhead
<1>4. buf[c] \in Nat /\ frame \in Nat
  BY DEF TypeOK, Frames
<1> QED
  BY <1>3, <1>4

(* What the entries of the queue and of the threads' hands are after a     *)
(* step: one of those before, or the frame that BufferCB just put.         *)
LEMMA QueueStep ==
  ASSUME TypeOK, Buffer, [Next]_vars
  PROVE  /\ \A i \in 1..Len(queue') :
              \/ \E k \in 1..Len(queue) : queue'[i] = queue[k]
              \/ queue'[i] = frame /\ \A c \in Cells : buf[c] = frame
         /\ \A s \in Pushes :
              \/ hand'[s] = hand[s]
              \/ Len(queue) > 0 /\ hand'[s] = queue[1]
<1> USE DEF uiVars, cbVars, encVars, sndVars
<1>0. /\ queue \in Seq(Frames) /\ frame \in Frames /\ Len(queue) \in Nat
      /\ hand \in [Pushes -> Frames]
  BY LenProperties DEF TypeOK
<1>1. CASE DropOldest
  <2>1. queue # <<>> /\ queue' = Tail(queue) /\ UNCHANGED sndVars
    BY <1>1 DEF DropOldest
  <2>2. /\ Len(queue) \in Nat \ {0} /\ Len(queue') = Len(queue) - 1
        /\ \A i \in 1..Len(queue') : queue'[i] = queue[i + 1]
    BY <1>0, <2>1, Taken
  <2>3. \A i \in 1..Len(queue') : i + 1 \in 1..Len(queue)
    BY ONLY <2>2
  <2> QED
    BY <2>1, <2>2, <2>3
<1>2. CASE PutFrame
  <2>1. cb = "put" /\ queue' = Append(queue, frame) /\ UNCHANGED sndVars
    BY <1>2 DEF PutFrame
  <2>2. /\ Len(queue') = Len(queue) + 1
        /\ \A i \in 1..Len(queue') : queue'[i] = IF i <= Len(queue) THEN queue[i] ELSE frame
    BY <1>0, <2>1, Appended
  <2>3. \A c \in Cells : buf[c] = frame
    BY <2>1, WhenPut DEF Buffer
  <2>4. \A i \in 1..Len(queue') : i \in 1..Len(queue) \/ ~(i <= Len(queue))
    BY ONLY <1>0, <2>2
  <2> QED
    BY <2>1, <2>2, <2>3, <2>4
<1>3. ASSUME NEW s \in Pushes, GetFrame(s)
      PROVE  /\ \A i \in 1..Len(queue') : \E k \in 1..Len(queue) : queue'[i] = queue[k]
             /\ \A t \in Pushes : \/ hand'[t] = hand[t]
                                  \/ Len(queue) > 0 /\ hand'[t] = queue[1]
  <2>1. /\ queue # <<>> /\ queue' = Tail(queue)
        /\ hand' = [hand EXCEPT ![s] = Head(queue)]
    BY <1>3 DEF GetFrame
  <2>2. /\ Len(queue) \in Nat \ {0} /\ Len(queue') = Len(queue) - 1 /\ Head(queue) = queue[1]
        /\ \A i \in 1..Len(queue') : queue'[i] = queue[i + 1]
    BY <1>0, <2>1, Taken
  <2>3. /\ \A i \in 1..Len(queue') : i + 1 \in 1..Len(queue)
        /\ Len(queue) > 0
    BY ONLY <2>2
  <2>4. \A t \in Pushes : hand'[t] = hand[t] \/ hand'[t] = queue[1]
    BY <1>0, <2>1, <2>2
  <2> QED
    BY <2>2, <2>3, <2>4
<1>4. CASE UNCHANGED <<queue, hand>>
  BY <1>4
<1> QED
  BY <1>1, <1>2, <1>3, <1>4 DEF Next, vars, StartCapture, StopCapture,
     StopReturns, NewEncoder, InitEncode, CreateThread, StopPush, BufferCB, Convert, CountQueue,
     CallEncode, CopyCell, EncodeUnprepared, Encoded, Sent

LEMMA BufferStep == TypeOK /\ TypeOK' /\ Buffer /\ [Next]_vars => Buffer'
<1> SUFFICES ASSUME TypeOK, TypeOK', Buffer, [Next]_vars PROVE Buffer'
  OBVIOUS
<1>0. NotAhead /\ Covers /\ QueuedConverted
  BY DEF Buffer
<1>1. /\ buf \in [Cells -> Nat] /\ frame \in Nat /\ Len(queue) \in Nat
      /\ hand \in [Pushes -> Nat]
      /\ \A i \in 1..Len(queue) : queue[i] \in Nat
  <2>1. queue \in Seq(Frames)
    BY DEF TypeOK
  <2>2. Len(queue) \in Nat /\ \A i \in 1..Len(queue) : queue[i] \in Frames
    BY <2>1, LenProperties, ElementOfSeq
  <2> QED
    BY <2>2 DEF TypeOK, Frames
<1>2. /\ buf' \in [Cells -> Nat] /\ frame' \in Nat /\ hand' \in [Pushes -> Nat]
  BY DEF TypeOK, Frames
<1>3. frame' >= frame /\ \A c \in Cells : buf'[c] = buf[c] \/ buf'[c] = frame
  <2> USE <1>1 DEF uiVars, cbVars, encVars, sndVars
  <2>1. CASE BufferCB
    BY <2>1 DEF BufferCB
  <2>2. CASE Convert
    BY <2>2 DEF Convert
  <2>3. CASE UNCHANGED <<buf, frame>>
    BY <2>3
  <2> QED
    BY <2>1, <2>2, <2>3 DEF Next, vars, StartCapture, StopCapture,
       StopReturns, NewEncoder, InitEncode, CreateThread, StopPush, CountQueue, DropOldest,
       PutFrame, GetFrame, CallEncode, CopyCell, EncodeUnprepared, Encoded, Sent
<1>4. \A c \in Cells : buf'[c] >= buf[c]
  BY <1>0, BufferMonotone
<1>5. Converted'
  BY ConvertedStep
<1>6. /\ \A i \in 1..Len(queue') :
           \/ \E k \in 1..Len(queue) : queue'[i] = queue[k]
           \/ queue'[i] = frame /\ \A c \in Cells : buf[c] = frame
      /\ \A s \in Pushes : hand'[s] = hand[s] \/ (Len(queue) > 0 /\ hand'[s] = queue[1])
  BY QueueStep
<1>7. NotAhead'
  <2>1. ASSUME NEW c \in Cells PROVE buf'[c] <= frame'
    <3>1. buf[c] <= frame
      BY <1>0 DEF NotAhead
    <3>2. buf[c] \in Nat /\ frame \in Nat /\ frame' \in Nat
      BY <1>1, <1>2
    <3>3. frame' >= frame /\ (buf'[c] = buf[c] \/ buf'[c] = frame)
      BY <1>3
    <3> QED
      BY ONLY <3>1, <3>2, <3>3
  <2>2. \A k \in 1..Len(queue) : queue[k] <= frame'
    <3>1. \A k \in 1..Len(queue) : queue[k] <= frame
      BY <1>0 DEF NotAhead
    <3> QED
      BY ONLY <1>1, <1>2, <1>3, <3>1
  <2>3. \A i \in 1..Len(queue') : queue'[i] <= frame'
    BY ONLY <1>1, <1>2, <1>3, <1>6, <2>2
  <2>4. \A s \in Pushes : hand'[s] <= frame'
    <3>1. \A s \in Pushes : hand[s] <= frame
      BY <1>0 DEF NotAhead
    <3>2. Len(queue) > 0 => queue[1] <= frame'
      BY ONLY <1>1, <2>2
    <3> QED
      BY ONLY <1>1, <1>2, <1>3, <1>6, <3>1, <3>2
  <2> QED
    BY <2>1, <2>3, <2>4 DEF NotAhead
<1>8. Covers'
  <2> SUFFICES ASSUME NEW s \in Pushes, NEW c \in Cells PROVE buf'[c] >= hand'[s]
    BY DEF Covers
  <2>1. CASE hand'[s] = hand[s]
    BY <1>0, <1>1, <1>2, <1>4, <2>1 DEF Covers
  <2>2. CASE Len(queue) > 0 /\ hand'[s] = queue[1]
    <3>1. 1 \in 1..Len(queue)
      BY <1>1, <2>2
    <3>2. buf[c] >= queue[1]
      BY <1>0, <3>1 DEF QueuedConverted
    <3> QED
      BY <1>1, <1>2, <1>4, <2>2, <3>1, <3>2
  <2> QED
    BY <1>6, <2>1, <2>2
<1>9. QueuedConverted'
  <2> SUFFICES ASSUME NEW i \in 1..Len(queue'), NEW c \in Cells PROVE buf'[c] >= queue'[i]
    BY DEF QueuedConverted
  <2>1. CASE \E k \in 1..Len(queue) : queue'[i] = queue[k]
    BY <1>0, <1>1, <1>2, <1>4, <2>1 DEF QueuedConverted
  <2>2. CASE queue'[i] = frame /\ \A d \in Cells : buf[d] = frame
    BY <1>1, <1>2, <1>4, <2>2
  <2> QED
    BY <1>6, <2>1, <2>2
<1> QED
  BY <1>5, <1>7, <1>8, <1>9 DEF Buffer

-----------------------------------------------------------------------------
(* A thread's own cells are copied from a buffer that covers its entry;    *)
(* what another thread copies into the same encoder comes from that buffer *)
(* too.                                                                    *)
LEMMA StaleStep ==
  TypeOK /\ Prepared /\ Covers /\ NeverStale /\ [Next]_vars => NeverStale'
<1> SUFFICES ASSUME TypeOK, Prepared, Covers, NeverStale, [Next]_vars,
                    NEW s \in senders', snd'[s] \in {"encode", "send"},
                    NEW i \in 1..copied'[s]
             PROVE  yuv'[using'[s]][CopyOrder[i]] >= hand'[s]
  BY DEF NeverStale
<1> USE DEF uiVars, cbVars, encVars, sndVars
<1>0. /\ s \in Pushes /\ Len(CopyOrder) = 4
      /\ buf \in [Cells -> Nat] /\ hand \in [Pushes -> Nat]
      /\ yuv \in [Pushes -> [Cells -> Nat]]
      /\ snd \in [Pushes -> {"none", "get", "got", "encode", "send", "crashed"}]
      /\ copied \in [Pushes -> 0..4] /\ using \in [Pushes -> 0..MaxPushes]
  <2>1. Len(CopyOrder) = 4
    BY Orders
  <2> QED
    BY <2>1 DEF TypeOK, Frames, senders
<1>1. ASSUME snd[s] \in {"encode", "send"}, UNCHANGED <<yuv, hand, using, copied>>
      PROVE  yuv'[using'[s]][CopyOrder[i]] >= hand'[s]
  BY <1>0, <1>1 DEF NeverStale, senders
<1>2. ASSUME NEW t \in Pushes, GetFrame(t) PROVE yuv'[using'[s]][CopyOrder[i]] >= hand'[s]
  <2>1. s # t
    BY <1>0, <1>2 DEF GetFrame
  <2>2. snd[s] = snd'[s] /\ hand'[s] = hand[s] /\ UNCHANGED <<yuv, using, copied>>
    BY <1>0, <1>2, <2>1 DEF GetFrame
  <2> QED
    BY <1>0, <2>2 DEF NeverStale, senders
<1>3. ASSUME NEW t \in Pushes, CallEncode(t) PROVE yuv'[using'[s]][CopyOrder[i]] >= hand'[s]
  <2>1. s # t
    <3>1. copied'[t] = 0
      BY <1>0, <1>3 DEF CallEncode
    <3> QED
      BY <3>1
  <2>2. /\ snd[s] = snd'[s] /\ using'[s] = using[s] /\ copied'[s] = copied[s]
        /\ UNCHANGED <<yuv, hand>>
    BY <1>0, <1>3, <2>1 DEF CallEncode
  <2> QED
    BY <1>0, <2>2 DEF NeverStale, senders
<1>4. ASSUME NEW t \in Pushes, CopyCell(t) PROVE yuv'[using'[s]][CopyOrder[i]] >= hand'[s]
  <2> DEFINE c == CopyOrder[copied[t] + 1]
  <2>1. /\ snd[s] \in {"encode", "send"} /\ UNCHANGED <<snd, hand, using>>
        /\ yuv' = [yuv EXCEPT ![using[t]] = [@ EXCEPT ![c] = buf[c]]]
        /\ copied' = [copied EXCEPT ![t] = @ + 1] /\ snd[t] = "encode"
        /\ copied[t] < Len(CopyOrder)
    BY <1>4 DEF CopyCell
  <2>2. using[s] \in Pushes
    BY <1>0, <2>1, MaxPushesAssumption DEF Prepared, Pushes
  <2>3. copied[s] \in 0..4 /\ copied[t] \in 0..3
    BY <1>0, <2>1
  <2>4. i \in 1..4 /\ (i \in 1..copied[s] \/ (s = t /\ i = copied[t] + 1))
    BY <1>0, <2>1, <2>3
  <2>5. CopyOrder[i] \in Cells
    BY <2>4, Orders
  <2> HIDE DEF c
  <2>6. CASE using[t] = using[s] /\ CopyOrder[i] = c
    <3>1. yuv'[using'[s]][CopyOrder[i]] = buf[c]
      BY <1>0, <2>1, <2>2, <2>5, <2>6
    <3> QED
      BY <1>0, <2>1, <2>5, <2>6, <3>1 DEF Covers
  <2>7. CASE ~(using[t] = using[s] /\ CopyOrder[i] = c)
    <3>1. yuv'[using'[s]][CopyOrder[i]] = yuv[using[s]][CopyOrder[i]]
      BY <1>0, <2>1, <2>2, <2>5, <2>7
    <3>2. i \in 1..copied[s]
      BY <2>4, <2>7 DEF c
    <3> QED
      BY <1>0, <2>1, <3>1, <3>2 DEF NeverStale, senders
  <2> QED
    BY <2>6, <2>7
<1>5. ASSUME NEW t \in Pushes, Encoded(t) PROVE yuv'[using'[s]][CopyOrder[i]] >= hand'[s]
  <2>1. snd[s] \in {"encode", "send"}
    BY <1>0, <1>5 DEF Encoded
  <2> QED
    BY <1>1, <1>5, <2>1 DEF Encoded
<1>6. ASSUME NEW t \in Pushes, Sent(t) PROVE yuv'[using'[s]][CopyOrder[i]] >= hand'[s]
  <2>1. snd[s] \in {"encode", "send"}
    BY <1>0, <1>6 DEF Sent
  <2> QED
    BY <1>1, <1>6, <2>1 DEF Sent
<1>9. ASSUME NEW t \in Pushes, EncodeUnprepared(t) PROVE yuv'[using'[s]][CopyOrder[i]] >= hand'[s]
  <2>1. snd[s] \in {"encode", "send"}
    BY <1>0, <1>9 DEF EncodeUnprepared
  <2> QED
    BY <1>1, <1>9, <2>1 DEF EncodeUnprepared
<1>7. CASE CreateThread
  <2>1. snd[s] \in {"encode", "send"} /\ UNCHANGED <<yuv, hand, using, copied>>
    BY <1>0, <1>7 DEF CreateThread
  <2> QED
    BY <1>1, <2>1
<1>8. CASE UNCHANGED sndVars
  BY <1>1, <1>8
<1> QED
  BY <1>2, <1>3, <1>4, <1>5, <1>6, <1>7, <1>8, <1>9 DEF Next, vars, StartCapture, StopCapture,
     StopReturns, NewEncoder, InitEncode, StopPush, BufferCB, Convert, CountQueue, DropOldest,
     PutFrame

-----------------------------------------------------------------------------
LEMMA InvStep == IInv /\ [Next]_vars => IInv'
<1> SUFFICES ASSUME IInv, [Next]_vars PROVE IInv'
  OBVIOUS
<1>1. TypeOK'
  BY TypeStep DEF IInv, Control
<1>2. Control'
  BY ControlStep DEF IInv
<1>3. Buffer'
  BY <1>1, BufferStep DEF IInv
<1>4. NeverStale'
  BY StaleStep DEF IInv, Control, Buffer
<1> QED
  BY <1>1, <1>2, <1>3, <1>4 DEF IInv

LEMMA Invariance == Spec => []IInv
  BY InitCorrect, InvStep, PTL DEF Spec

(* BufferCB can only wait for an entry when a sender took the one it had   *)
(* seen.                                                                   *)
THEOREM StuckNeedsSenderCorrect == Spec => []StuckNeedsSender
<1>1. IInv => StuckNeedsSender
  BY DEF IInv, Control, DropsForSender, StuckNeedsSender, CaptureStuck
<1> QED
  BY <1>1, Invariance, PTL

(* Entries on the queue are wholly converted. *)
THEOREM QueuedConvertedCorrect == Spec => []QueuedConverted
<1>1. IInv => QueuedConverted
  BY DEF IInv, Buffer
<1> QED
  BY <1>1, Invariance, PTL

(* Nothing the encoder copies is older than the frame it was called for.   *)
THEOREM NeverStaleCorrect == Spec => []NeverStale
<1>1. IInv => NeverStale
  BY DEF IInv
<1> QED
  BY <1>1, Invariance, PTL

(* InitEncode is through with the encoder of the first push before a       *)
(* thread calls it, and the thread survives unless it failed.              *)
THEOREM FirstPushPreparedCorrect == Spec => []FirstPushPrepared
<1>1. IInv => FirstPushPrepared
  <2> SUFFICES ASSUME TypeOK, Prepared, m_pEncoder <= 1, NEW s \in senders
               PROVE  /\ snd[s] = "encode"  => using[s] \in ready \cup failed
                      /\ snd[s] = "crashed" => using[s] \in failed
    BY DEF IInv, Control, FirstPushPrepared
  <2>1. s \in Pushes /\ snd[s] # "none" /\ m_pEncoder \in Nat
    BY MaxPushesAssumption DEF senders, TypeOK
  <2>2. s <= m_pEncoder /\ s \in ready \cup failed
    BY <2>1 DEF Prepared
  <2>3. ASSUME snd[s] = "encode" PROVE using[s] \in ready \cup failed
    <3>1. using[s] \in 1..m_pEncoder
      BY <2>1, <2>3 DEF Prepared
    <3>2. s = 1 /\ using[s] = 1
      BY <2>1, <2>2, <3>1 DEF Pushes
    <3> QED
      BY <2>2, <3>2
  <2>4. ASSUME snd[s] = "crashed" PROVE using[s] \in failed
    BY <2>1, <2>4 DEF Prepared
  <2> QED
    BY <2>3, <2>4
<1> QED
  BY <1>1, Invariance, PTL

(* No step of anybody lets a stuck BufferCB go. *)
THEOREM StuckForGoodCorrect == Spec => StuckForGood
<1>1. ASSUME CaptureStuck, [Next]_vars PROVE CaptureStuck'
  BY <1>1 DEF CaptureStuck, Next, vars, uiVars, cbVars, encVars, sndVars, StartCapture,
     StopCapture, StopReturns, NewEncoder, InitEncode, CreateThread, StopPush, BufferCB, Convert,
     CountQueue, DropOldest, PutFrame, GetFrame, CallEncode, CopyCell, EncodeUnprepared, Encoded, Sent
<1>2. [Next]_vars => [CaptureStuck => CaptureStuck']_vars
  BY <1>1
<1> QED
  BY <1>2, PTL DEF Spec, StuckForGood

(* With YUY2 the backlog does not grow beyond what it was, or one.         *)
THEOREM BacklogBoundedCorrect == Spec => BacklogBounded
<1>1. ASSUME IInv, [Next]_vars, nColorFormat = "YUY2"
      PROVE  Backlog' <= Backlog \/ Backlog' = 1
  <2> USE DEF uiVars, cbVars, encVars, sndVars
  <2>0. queue \in Seq(Frames) /\ frame \in Frames /\ Len(queue) \in Nat
    BY <1>1, LenProperties DEF IInv, TypeOK
  <2>1. CASE CountQueue
    <3>1. CASE queue = <<>>
      <4>1. Len(queue') = 0 /\ cb' = "put"
        BY <1>1, <2>1, <3>1, EmptySeq DEF CountQueue
      <4> QED
        BY <4>1 DEF Backlog
    <3>2. CASE queue # <<>>
      BY <1>1, <2>0, <2>1, <3>2 DEF CountQueue, Backlog
    <3> QED
      BY <3>1, <3>2
  <2>2. CASE DropOldest
    <3>1. Len(queue') = Len(queue) - 1 /\ cb = "drop" /\ cb' = "put"
      BY <2>0, <2>2, Taken DEF DropOldest
    <3> QED
      BY <2>0, <3>1 DEF Backlog
  <2>3. CASE PutFrame
    <3>1. Len(queue') = Len(queue) + 1 /\ cb = "put" /\ cb' = "idle"
      BY <2>0, <2>3, Appended DEF PutFrame
    <3> QED
      BY <2>0, <3>1 DEF Backlog
  <2>4. ASSUME NEW s \in Pushes, GetFrame(s) PROVE Backlog' <= Backlog \/ Backlog' = 1
    <3>1. Len(queue') = Len(queue) - 1 /\ cb' = cb
      BY <2>0, <2>4, Taken DEF GetFrame
    <3> QED
      BY <2>0, <3>1 DEF Backlog
  <2>5. CASE queue' = queue /\ (cb' = cb \/ cb' \in {"idle", "convert"})
    BY <2>0, <2>5 DEF Backlog
  <2> QED
    BY <1>1, <2>1, <2>2, <2>3, <2>4, <2>5 DEF Next, vars, StartCapture, StopCapture,
       StopReturns, NewEncoder, InitEncode, CreateThread, StopPush, BufferCB, Convert,
       CallEncode, CopyCell, EncodeUnprepared, Encoded, Sent
<1>2. IInv /\ [Next]_vars => [nColorFormat = "YUY2" => Backlog' <= Backlog \/ Backlog' = 1]_vars
  BY <1>1
<1> QED
  BY <1>2, Invariance, PTL DEF Spec, BacklogBounded

=============================================================================
