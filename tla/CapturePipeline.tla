--------------------------- MODULE CapturePipeline ---------------------------
(***************************************************************************)
(* The video path from the camera to the RTP sender.  Three kinds of       *)
(* threads share one YUV buffer, one frame queue and the encoder pointer:  *)
(*                                                                         *)
(*  - the dialog's thread (the Capture and Push buttons);                  *)
(*  - the DirectShow streaming thread, which calls BufferCB frame by frame *)
(*    (src/SampleGrabberCB.cpp);                                           *)
(*  - one SendDataThread per call of StartRTPSender (jrtp/rtp_sender.cpp); *)
(*    none of them ever ends.                                              *)
(*                                                                         *)
(* The queue is the FIFO that FrameQueue implements; nobody aborts it.     *)
(* Every entry of it points to the same buffer, m_tVidParam.pYUVBuf, so an *)
(* entry is only the number of the frame it was put for.  The buffer has   *)
(* one cell per plane and band of rows: the conversion fills it band by    *)
(* band, the encoder copies it plane by plane, neither holds a lock.       *)
(***************************************************************************)
EXTENDS Naturals, Sequences, FiniteSets

CONSTANTS
  MaxFrames,    \* bound on the number of frames the camera delivers
  MaxPushes     \* bound on the number of calls of StartRTPSender

ASSUME MaxFramesAssumption == MaxFrames \in Nat
ASSUME MaxPushesAssumption == MaxPushes \in Nat

VARIABLES
  m_bIsVideoOpen,
  m_bIsPush,
  running,        \* the filter graph runs
  ui,             \* where the dialog's thread is
  nColorFormat,   \* m_tVidParam.nColorFormat
  cb,             \* where BufferCB is
  frame,          \* number of the latest frame BufferCB was called with
  filled,         \* the number of cells converted so far
  buf,            \* pYUVBuf: for each cell the frame it shows
  queue,          \* m_stVideoQueue
  m_pEncoder,     \* the encoder in use: the number of the push it was made for
  ready,          \* the encoders whose InitEncode succeeded
  failed,         \* and those whose InitEncode did not
  yuv,            \* pFrameYUV of each encoder
  snd,            \* where each SendDataThread is
  hand,           \* frameBuf: the entry the thread has taken
  using,          \* the encoder it has called
  copied          \* the number of cells Encode has copied

uiVars  == <<m_bIsVideoOpen, m_bIsPush, running, ui, nColorFormat>>
cbVars  == <<cb, frame, filled, buf>>
encVars == <<m_pEncoder, ready, failed>>
sndVars == <<yuv, snd, hand, using, copied>>
vars    == <<uiVars, cbVars, queue, encVars, sndVars>>

Pushes == 1..MaxPushes
Cells  == {"Y", "UV"} \X {"top", "bottom"}

\* Mutant: the last plane is given the address of another one.
FillOverlap == <<<<"Y", "top">>, <<"UV", "top">>, <<"Y", "bottom">>, <<"Y", "bottom">>>>

\* libyuv converts row by row, Encode copies plane by plane.
FillOrder == <<<<"Y", "top">>, <<"UV", "top">>, <<"Y", "bottom">>, <<"UV", "bottom">>>>
CopyOrder == <<<<"Y", "top">>, <<"Y", "bottom">>, <<"UV", "top">>, <<"UV", "bottom">>>>

senders == {s \in Pushes : snd[s] # "none"}

-----------------------------------------------------------------------------
(* After the dialog's Init button. *)
Init ==
  /\ m_bIsVideoOpen = FALSE /\ m_bIsPush = FALSE
  /\ running = FALSE
  /\ ui = "idle"
  /\ nColorFormat \in {"YUY2", "RGB24"}
  /\ cb = "idle" /\ frame = 0 /\ filled = 0
  /\ buf = [c \in Cells |-> 0]
  /\ queue = <<>>
  /\ m_pEncoder = 0 /\ ready = {} /\ failed = {}
  /\ yuv = [e \in Pushes |-> [c \in Cells |-> 0]]
  /\ snd = [s \in Pushes |-> "none"]
  /\ hand = [s \in Pushes |-> 0]
  /\ using = [s \in Pushes |-> 0]
  /\ copied = [s \in Pushes |-> 0]

-----------------------------------------------------------------------------
(* The dialog's thread. *)

(* The Capture button opens the capture.  StartCapture takes the format of *)
(* the selected resolution and runs the graph, unless a step of it fails:  *)
(* the dialog does not look at what it returns.                            *)
StartCapture(fmt) ==
  /\ ui = "idle"
  /\ ~m_bIsVideoOpen
  /\ m_bIsVideoOpen' = TRUE
  /\ nColorFormat' = fmt
  /\ running' \in BOOLEAN
  /\ UNCHANGED <<m_bIsPush, ui, cbVars, queue, encVars, sndVars>>

(* The Capture button closes it.  IMediaControl::Stop returns only when    *)
(* the streaming thread has left the callback.                             *)
StopCapture ==
  /\ ui = "idle"
  /\ m_bIsVideoOpen
  /\ running' = FALSE
  /\ ui' = "stopping"
  /\ UNCHANGED <<m_bIsVideoOpen, m_bIsPush, nColorFormat, cbVars, queue, encVars, sndVars>>

StopReturns ==
  /\ ui = "stopping"
  /\ cb = "idle"
  /\ ui' = "idle"
  /\ m_bIsVideoOpen' = FALSE
  /\ UNCHANGED <<m_bIsPush, running, nColorFormat, cbVars, queue, encVars, sndVars>>

\* Mutant: the thread is created before InitEncode.
NewEncoderRunning ==
  /\ ui = "idle"
  /\ m_bIsVideoOpen
  /\ ~m_bIsPush
  /\ m_pEncoder < MaxPushes
  /\ m_pEncoder' = m_pEncoder + 1
  /\ snd' = [snd EXCEPT ![m_pEncoder + 1] = "get"]
  /\ ui' = "encoder"
  /\ UNCHANGED <<m_bIsVideoOpen, m_bIsPush, running, nColorFormat, cbVars, queue, ready,
                 failed, yuv, hand, using, copied>>

(* The Push button, pressed to start: StartRTPSender makes an encoder...   *)
NewEncoder ==
  /\ ui = "idle"
  /\ m_bIsVideoOpen
  /\ ~m_bIsPush
  /\ m_pEncoder < MaxPushes
  /\ m_pEncoder' = m_pEncoder + 1
  /\ ui' = "encoder"
  /\ UNCHANGED <<m_bIsVideoOpen, m_bIsPush, running, nColorFormat, cbVars, queue, ready, failed, sndVars>>

(* ... initialises it: a codec that cannot be opened leaves it without     *)
(* pFrameYUV, and nobody looks at what InitEncode returned ...             *)
InitEncode ==
  /\ ui = "encoder"
  /\ \/ ready' = ready \cup {m_pEncoder} /\ UNCHANGED failed
     \/ failed' = failed \cup {m_pEncoder} /\ UNCHANGED ready
  /\ ui' = "thread"
  /\ UNCHANGED <<m_bIsVideoOpen, m_bIsPush, running, nColorFormat, cbVars, queue, m_pEncoder, sndVars>>

(* ... and creates one more SendDataThread. *)
CreateThread ==
  /\ ui = "thread"
  /\ snd' = [snd EXCEPT ![m_pEncoder] = "get"]
  /\ m_bIsPush' = TRUE
  /\ ui' = "idle"
  /\ UNCHANGED <<m_bIsVideoOpen, running, nColorFormat, cbVars, queue, encVars, yuv, hand, using, copied>>

(* The Push button, pressed to stop, only changes its label: the thread    *)
(* stays.                                                                  *)
StopPush ==
  /\ ui = "idle"
  /\ m_bIsVideoOpen
  /\ m_bIsPush
  /\ m_bIsPush' = FALSE
  /\ UNCHANGED <<m_bIsVideoOpen, running, ui, nColorFormat, cbVars, queue, encVars, sndVars>>

-----------------------------------------------------------------------------
(* The streaming thread: BufferCB for a video frame. *)

BufferCB ==
  /\ running
  /\ cb = "idle"
  /\ frame < MaxFrames
  /\ frame' = frame + 1
  /\ filled' = 0
  /\ cb' = "convert"
  /\ UNCHANGED <<uiVars, buf, queue, encVars, sndVars>>

(* YUY2ToI420 or RGB24ToI420 writes the next cell. *)
Convert ==
  /\ cb = "convert"
  /\ filled < Len(FillOrder)
  /\ buf' = [buf EXCEPT ![FillOrder[filled + 1]] = frame]
  /\ filled' = filled + 1
  /\ UNCHANGED <<uiVars, cb, frame, queue, encVars, sndVars>>

\* Mutants: "> 0" read as ">= 0" or "> 1".
CountAny ==
  /\ cb = "convert"
  /\ filled = Len(FillOrder)
  /\ cb' = IF nColorFormat = "YUY2" THEN "drop" ELSE "put"
  /\ UNCHANGED <<uiVars, frame, filled, buf, queue, encVars, sndVars>>

CountTwo ==
  /\ cb = "convert"
  /\ filled = Len(FillOrder)
  /\ cb' = IF nColorFormat = "YUY2" /\ Len(queue) > 1 THEN "drop" ELSE "put"
  /\ UNCHANGED <<uiVars, frame, filled, buf, queue, encVars, sndVars>>

(* With YUY2 the queue is looked at before the frame is put. *)
CountQueue ==
  /\ cb = "convert"
  /\ filled = Len(FillOrder)
  /\ cb' = IF nColorFormat = "YUY2" /\ queue # <<>> THEN "drop" ELSE "put"
  /\ UNCHANGED <<uiVars, frame, filled, buf, queue, encVars, sndVars>>

\* Mutant: block = 0.
DropNonBlocking ==
  /\ cb = "drop"
  /\ queue' = IF queue = <<>> THEN <<>> ELSE Tail(queue)
  /\ cb' = "put"
  /\ UNCHANGED <<uiVars, frame, filled, buf, encVars, sndVars>>

(* frame_queue_get(m_pVQueue, &tmpBuf, 1) returns when there is an entry.  *)
DropOldest ==
  /\ cb = "drop"
  /\ queue # <<>>
  /\ queue' = Tail(queue)
  /\ cb' = "put"
  /\ UNCHANGED <<uiVars, frame, filled, buf, encVars, sndVars>>

\* Mutant: the put waits until the queue is empty.
PutWaitsForRoom ==
  /\ cb = "put"
  /\ queue = <<>>
  /\ queue' = Append(queue, frame)
  /\ cb' = "idle"
  /\ UNCHANGED <<uiVars, frame, filled, buf, encVars, sndVars>>

PutFrame ==
  /\ cb = "put"
  /\ queue' = Append(queue, frame)
  /\ cb' = "idle"
  /\ UNCHANGED <<uiVars, frame, filled, buf, encVars, sndVars>>

-----------------------------------------------------------------------------
(* SendDataThread. *)

(* The blocking frame_queue_get returns an entry. *)
GetFrame(s) ==
  /\ snd[s] = "get"
  /\ queue # <<>>
  /\ queue' = Tail(queue)
  /\ hand' = [hand EXCEPT ![s] = Head(queue)]
  /\ snd' = [snd EXCEPT ![s] = "got"]
  /\ UNCHANGED <<uiVars, cbVars, encVars, yuv, using, copied>>

(* Encode is called on the encoder the sender object holds at that time. *)
CallEncode(s) ==
  /\ snd[s] = "got"
  /\ using' = [using EXCEPT ![s] = m_pEncoder]
  /\ copied' = [copied EXCEPT ![s] = 0]
  /\ snd' = [snd EXCEPT ![s] = "encode"]
  /\ UNCHANGED <<uiVars, cbVars, queue, encVars, yuv, hand>>

(* Encode copies the next cell of the buffer into pFrameYUV. *)
CopyCell(s) ==
  /\ snd[s] = "encode" /\ using[s] \in ready
  /\ copied[s] < Len(CopyOrder)
  /\ LET c == CopyOrder[copied[s] + 1]
     IN  yuv' = [yuv EXCEPT ![using[s]] = [@ EXCEPT ![c] = buf[c]]]
  /\ copied' = [copied EXCEPT ![s] = @ + 1]
  /\ UNCHANGED <<uiVars, cbVars, queue, encVars, snd, hand, using>>

(* The pFrameYUV of an encoder that is not prepared is whatever the memory *)
(* held: to copy into it ends the program, or hits other memory.           *)
EncodeUnprepared(s) ==
  /\ snd[s] = "encode" /\ using[s] \notin ready
  /\ \E next \in {"send", "get", "crashed"} : snd' = [snd EXCEPT ![s] = next]
  /\ UNCHANGED <<uiVars, cbVars, queue, encVars, yuv, hand, using, copied>>

(* The picture is encoded; if that gave a packet, SendH264Nalu sends it.   *)
Encoded(s) ==
  /\ snd[s] = "encode"
  /\ copied[s] = Len(CopyOrder)
  /\ \E next \in {"send", "get"} : snd' = [snd EXCEPT ![s] = next]
  /\ UNCHANGED <<uiVars, cbVars, queue, encVars, yuv, hand, using, copied>>

Sent(s) ==
  /\ snd[s] = "send"
  /\ snd' = [snd EXCEPT ![s] = "get"]
  /\ UNCHANGED <<uiVars, cbVars, queue, encVars, yuv, hand, using, copied>>

-----------------------------------------------------------------------------
StartRTPSender == NewEncoder \/ InitEncode \/ CreateThread
Callback       == Convert \/ CountQueue \/ DropOldest \/ PutFrame
SendDataThread(s) ==
  GetFrame(s) \/ CallEncode(s) \/ CopyCell(s) \/ EncodeUnprepared(s) \/ Encoded(s) \/ Sent(s)

\* An access violation in one thread ends the program, with all its threads.
Crashed == \E s \in Pushes : snd[s] = "crashed"

Next ==
  /\ ~Crashed
  /\ \/ \E fmt \in {"YUY2", "RGB24"} : StartCapture(fmt)
     \/ StopCapture \/ StopReturns
     \/ NewEncoder \/ InitEncode \/ CreateThread \/ StopPush
     \/ BufferCB \/ Convert \/ CountQueue \/ DropOldest \/ PutFrame
     \/ \E s \in Pushes :
          \/ GetFrame(s) \/ CallEncode(s) \/ CopyCell(s)
          \/ EncodeUnprepared(s) \/ Encoded(s) \/ Sent(s)

Spec == Init /\ [][Next]_vars

(* A thread that can go on does: a callback and a sender that are not      *)
(* blocked, and the dialog's thread inside a handler.  Nobody has to press *)
(* a button and the camera need not deliver a frame.                       *)
Fairness ==
  /\ WF_vars(~Crashed /\ Callback)
  /\ WF_vars(~Crashed /\ StopReturns)
  /\ WF_vars(~Crashed /\ (InitEncode \/ CreateThread))
  /\ \A s \in Pushes : WF_vars(~Crashed /\ SendDataThread(s))

FairSpec == Spec /\ Fairness

-----------------------------------------------------------------------------
Frames == 0..MaxFrames

TypeOK ==
  /\ m_bIsVideoOpen \in BOOLEAN /\ m_bIsPush \in BOOLEAN /\ running \in BOOLEAN
  /\ ui \in {"idle", "stopping", "encoder", "thread"}
  /\ nColorFormat \in {"YUY2", "RGB24"}
  /\ cb \in {"idle", "convert", "drop", "put"}
  /\ frame \in Frames
  /\ filled \in 0..Len(FillOrder)
  /\ buf \in [Cells -> Frames]
  /\ queue \in Seq(Frames)
  /\ m_pEncoder \in 0..MaxPushes
  /\ ready \subseteq Pushes /\ failed \subseteq Pushes
  /\ yuv \in [Pushes -> [Cells -> Frames]]
  /\ snd \in [Pushes -> {"none", "get", "got", "encode", "send", "crashed"}]
  /\ hand \in [Pushes -> Frames]
  /\ using \in [Pushes -> 0..MaxPushes]
  /\ copied \in [Pushes -> 0..Len(CopyOrder)]

(* BufferCB waits in its own frame_queue_get for an entry that only itself *)
(* could put.                                                              *)
CaptureStuck == cb = "drop" /\ queue = <<>>

(* Only a sender that takes the last entry between frame_queue_count and   *)
(* the blocking frame_queue_get can leave BufferCB waiting: without one,   *)
(* and with RGB24, capturing never blocks.                                 *)
StuckNeedsSender == CaptureStuck => nColorFormat = "YUY2" /\ senders # {}

(* Once BufferCB waits for an entry it waits for ever: no later step of    *)
(* the dialog, of a sender or of the graph lets it go.                     *)
StuckForGood == [][CaptureStuck => CaptureStuck']_vars

(* The frames that wait for a sender, with the one BufferCB is about to    *)
(* put: with YUY2 they never become more, except the first; a backlog that *)
(* an earlier RGB24 capture left does not grow.                            *)
Backlog == Len(queue) + IF cb = "put" THEN 1 ELSE 0

BacklogBounded == [][nColorFormat = "YUY2" => Backlog' <= Backlog \/ Backlog' = 1]_vars

(* The cells Encode has copied show the frame its thread took from the     *)
(* queue or a later one, never an earlier one, although the buffer is      *)
(* rewritten while it is queued and copied, and although several threads   *)
(* may copy into the same encoder.                                         *)
NeverStale ==
  \A s \in senders : snd[s] \in {"encode", "send"} =>
    \A i \in 1..copied[s] : yuv[using[s]][CopyOrder[i]] >= hand[s]

(* An entry on the queue was put for a frame that is wholly in the buffer, *)
(* or whose cells were since overwritten by later ones.                    *)
QueuedConverted ==
  \A i \in 1..Len(queue) : \A c \in Cells : buf[c] >= queue[i]

(* As long as Push was pressed once, InitEncode is through with an encoder *)
(* before any thread calls it, and what brings the program down in Encode  *)
(* is an InitEncode that failed: its result is ignored and the thread is   *)
(* created all the same.                                                   *)
FirstPushPrepared ==
  m_pEncoder <= 1 => \A s \in senders :
    /\ snd[s] = "encode"  => using[s] \in ready \cup failed
    /\ snd[s] = "crashed" => using[s] \in failed

-----------------------------------------------------------------------------
(* The Capture button comes back from StopCapture, unless BufferCB is      *)
(* stuck: then the dialog hangs with it.  (Or the program ended.)          *)
StopComesBack == (ui = "stopping") ~> (ui = "idle" \/ CaptureStuck \/ Crashed)
=============================================================================
