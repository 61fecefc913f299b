------------------------------ MODULE Mp4Record ------------------------------
(***************************************************************************)
(* Recording to a file (src/Mp4Record.cpp): one RecordVideoThread per call *)
(* of StartRecord, none of which ever ends, and the dialog's thread, which *)
(* calls InitRecord with StartRecord to begin a file and StopRecord to end *)
(* it.  A recording thread takes m_mutex and keeps it while it waits for a *)
(* frame, encodes it and writes it.                                        *)
(*                                                                         *)
(* The queue is the FIFO that FrameQueue implements; the capture callback  *)
(* puts frames into it and, like a sender that is running, takes entries   *)
(* out as well.  StopRecord closes and frees what a thread that tested     *)
(* m_bStart before may still write to: that is undefined, and the model    *)
(* follows the outcome in which the process survives, counting the writes. *)
(***************************************************************************)
EXTENDS Naturals, Sequences, FiniteSets

CONSTANTS
  MaxFrames,    \* bound on the number of frames that are queued
  MaxRecords    \* bound on the number of calls of StartRecord

ASSUME MaxFramesAssumption == MaxFrames \in Nat
ASSUME MaxRecordsAssumption == MaxRecords \in Nat

VARIABLES
  m_bStart,
  m_mutex,      \* the thread that holds it, or Free
  dialog,       \* where the dialog's thread is
  thread,       \* where each RecordVideoThread is
  hand,         \* buf: the frame the thread has taken, or 0
  queue,        \* m_stVQueue
  frame,        \* number of the latest frame put
  records,      \* number of calls of StartRecord so far
  file,         \* pFormatCtx: the frames written to the file
  ended,        \* the file has its trailer, or there is none
  late          \* the frames written since the trailer

vars == <<m_bStart, m_mutex, dialog, thread, hand, queue, frame, records, file, ended, late>>

Threads == 1..MaxRecords
Free    == 0

-----------------------------------------------------------------------------
Init ==
  /\ m_bStart = FALSE
  /\ m_mutex = Free
  /\ dialog = "idle"
  /\ thread = [t \in Threads |-> "none"]
  /\ hand = [t \in Threads |-> 0]
  /\ queue = <<>> /\ frame = 0
  /\ records = 0
  /\ file = <<>> /\ ended = TRUE /\ late = 0

(* The capture callback puts a frame. *)
Put ==
  /\ frame < MaxFrames
  /\ frame' = frame + 1
  /\ queue' = Append(queue, frame + 1)
  /\ UNCHANGED <<m_bStart, m_mutex, dialog, thread, hand, records, file, ended, late>>

(* The callback or a SendDataThread takes the oldest entry. *)
TakenByOther ==
  /\ queue # <<>>
  /\ queue' = Tail(queue)
  /\ UNCHANGED <<m_bStart, m_mutex, dialog, thread, hand, frame, records, file, ended, late>>

-----------------------------------------------------------------------------
(* The dialog's thread. *)

(* InitRecord makes the new file and writes its header... *)
InitRecord ==
  /\ dialog = "idle"
  /\ ended
  /\ ~m_bStart
  /\ records < MaxRecords
  /\ file' = <<>> /\ ended' = FALSE /\ late' = 0
  /\ dialog' = "starting"
  /\ UNCHANGED <<m_bStart, m_mutex, thread, hand, queue, frame, records>>

(* ... and StartRecord lets all threads run and adds one.                  *)
StartRecord ==
  /\ dialog = "starting"
  /\ m_bStart' = TRUE
  /\ records' = records + 1
  /\ thread' = [thread EXCEPT ![records + 1] = "test"]
  /\ dialog' = "idle"
  /\ UNCHANGED <<m_mutex, hand, queue, frame, file, ended, late>>

\* Mutant: the threads are not told.
StopRecordUntold ==
  /\ dialog = "idle"
  /\ m_bStart
  /\ dialog' = "stopping"
  /\ UNCHANGED <<m_bStart, m_mutex, thread, hand, queue, frame, records, file, ended, late>>

(* StopRecord tells the threads...                                         *)
StopRecord ==
  /\ dialog = "idle"
  /\ m_bStart
  /\ m_bStart' = FALSE
  /\ dialog' = "stopping"
  /\ UNCHANGED <<m_mutex, thread, hand, queue, frame, records, file, ended, late>>

\* Mutant: the trailer is written without the mutex.
TrailerUnlocked ==
  /\ dialog = "stopping"
  /\ ended' = TRUE /\ late' = 0
  /\ dialog' = "idle"
  /\ UNCHANGED <<m_bStart, m_mutex, thread, hand, queue, frame, records, file>>

(* ... waits for the mutex, writes the trailer, unlocks and closes.        *)
Trailer ==
  /\ dialog = "stopping"
  /\ m_mutex = Free
  /\ ended' = TRUE /\ late' = 0
  /\ dialog' = "idle"
  /\ UNCHANGED <<m_bStart, m_mutex, thread, hand, queue, frame, records, file>>

-----------------------------------------------------------------------------
(* RecordVideoThread. *)

Test(t) ==
  /\ thread[t] = "test"
  /\ m_bStart
  /\ thread' = [thread EXCEPT ![t] = "lock"]
  /\ UNCHANGED <<m_bStart, m_mutex, dialog, hand, queue, frame, records, file, ended, late>>

\* Mutant: the mutex is not waited for.
LockIgnored(t) ==
  /\ thread[t] = "lock"
  /\ m_mutex' = t
  /\ thread' = [thread EXCEPT ![t] = "get"]
  /\ UNCHANGED <<m_bStart, dialog, hand, queue, frame, records, file, ended, late>>

Lock(t) ==
  /\ thread[t] = "lock"
  /\ m_mutex = Free
  /\ m_mutex' = t
  /\ thread' = [thread EXCEPT ![t] = "get"]
  /\ UNCHANGED <<m_bStart, dialog, hand, queue, frame, records, file, ended, late>>

(* The blocking frame_queue_get returns an entry. *)
GetFrame(t) ==
  /\ thread[t] = "get"
  /\ queue # <<>>
  /\ hand' = [hand EXCEPT ![t] = Head(queue)]
  /\ queue' = Tail(queue)
  /\ thread' = [thread EXCEPT ![t] = "write"]
  /\ UNCHANGED <<m_bStart, m_mutex, dialog, frame, records, file, ended, late>>

\* Mutant: the mutex is released only where a packet was written.
WriteForgetsUnlock(t) ==
  /\ thread[t] = "write"
  /\ \/ /\ file' = Append(file, hand[t])
        /\ late' = IF ended THEN late + 1 ELSE late
        /\ m_mutex' = Free
     \/ UNCHANGED <<file, late, m_mutex>>
  /\ hand' = [hand EXCEPT ![t] = 0]
  /\ thread' = [thread EXCEPT ![t] = "test"]
  /\ UNCHANGED <<m_bStart, dialog, queue, frame, records, ended>>

(* The frame is encoded, written if that gave a packet, and the mutex is   *)
(* released.                                                               *)
Write(t) ==
  /\ thread[t] = "write"
  /\ \/ /\ file' = Append(file, hand[t])
        /\ late' = IF ended THEN late + 1 ELSE late
     \/ UNCHANGED <<file, late>>
  /\ hand' = [hand EXCEPT ![t] = 0]
  /\ m_mutex' = Free
  /\ thread' = [thread EXCEPT ![t] = "test"]
  /\ UNCHANGED <<m_bStart, dialog, queue, frame, records, ended>>

RecordVideoThread(t) == Test(t) \/ Lock(t) \/ GetFrame(t) \/ Write(t)

Next ==
  \/ Put \/ TakenByOther
  \/ InitRecord \/ StartRecord \/ StopRecord \/ Trailer
  \/ \E t \in Threads : Test(t) \/ Lock(t) \/ GetFrame(t) \/ Write(t)

(* A thread that is not blocked goes on, and so does StopRecord once the   *)
(* mutex stays free.  Nobody has to record and no frame has to come.       *)
Spec == Init /\ [][Next]_vars

Fairness ==
  /\ WF_vars(Trailer)
  /\ \A t \in Threads : WF_vars(RecordVideoThread(t))

FairSpec == Spec /\ Fairness

-----------------------------------------------------------------------------
(* The threads that have tested m_bStart and do not have a frame yet. *)
Inside == {t \in Threads : thread[t] \in {"lock", "get"}}

(* The frames of a file are in the order in which they were captured,      *)
(* however many threads write it: the mutex is held from taking a frame to *)
(* writing it.                                                             *)
FileInOrder == \A i, j \in 1..Len(file) : i < j => file[i] < file[j]

(* The trailer never comes between taking a frame and writing it: what was *)
(* taken before it is in the file.                                         *)
TrailerBetweenFrames == [][~ended /\ ended' => \A t \in Threads : hand[t] = 0]_vars

(* What is written to a file behind its trailer is bounded: one frame for  *)
(* each thread that had tested m_bStart before.                            *)
LateBounded ==
  ended => late + Cardinality({t \in Threads : thread[t] \notin {"none", "test"}}) <= records

(* StopRecord waits for at most one frame per thread that has tested       *)
(* m_bStart: with that many in the queue, and nobody else taking them, it  *)
(* returns.                                                                *)
StopReturns ==
  (dialog = "stopping" /\ Len(queue) >= Cardinality(Inside))
    ~> (dialog = "idle" \/ Len(queue) < Cardinality(Inside))
=============================================================================
