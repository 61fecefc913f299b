---------------------------- MODULE FrameChannel ----------------------------
(***************************************************************************)
(* What the frame queue of src/framequeue.cpp promises to its callers: a   *)
(* FIFO of frames that is open or aborted.  Frames are numbered in the     *)
(* order in which frame_queue_put is called with them; every offered frame *)
(* is queued, handed to exactly one caller of frame_queue_get, or freed.   *)
(* Threads, the mutex, the condition variable and the list are in          *)
(* FrameQueue, which implements this specification.                        *)
(***************************************************************************)
EXTENDS Naturals, Sequences

CONSTANT MaxFrames    \* bound on the number of frames offered

VARIABLES chan,       \* the queued frames, oldest first
          aborted,    \* abort_request
          offered,    \* number of frames given to frame_queue_put so far
          delivered,  \* frames returned by frame_queue_get
          freed       \* frames freed by the queue

vars == <<chan, aborted, offered, delivered, freed>>

Frame == 1..MaxFrames

Elements(s) == {s[i] : i \in 1..Len(s)}

-----------------------------------------------------------------------------
(* frame_queue_init leaves the queue empty and aborted. *)
Init ==
  /\ chan = <<>>
  /\ aborted = TRUE
  /\ offered = 0
  /\ delivered = {}
  /\ freed = {}

(* A put on an open queue appends the frame. *)
Accept ==
  /\ ~aborted
  /\ offered < MaxFrames
  /\ offered' = offered + 1
  /\ chan' = Append(chan, offered + 1)
  /\ UNCHANGED <<aborted, delivered, freed>>

(* A put that fails (the queue is aborted, or memory is short) frees it. *)
Reject ==
  /\ offered < MaxFrames
  /\ offered' = offered + 1
  /\ freed' = freed \cup {offered + 1}
  /\ UNCHANGED <<chan, aborted, delivered>>

(* A get on an open queue hands out the oldest frame. *)
Receive ==
  /\ ~aborted
  /\ chan # <<>>
  /\ delivered' = delivered \cup {Head(chan)}
  /\ chan' = Tail(chan)
  /\ UNCHANGED <<aborted, offered, freed>>

(* A flush frees everything that is queued, in one step. *)
Flush ==
  /\ freed' = freed \cup Elements(chan)
  /\ chan' = <<>>
  /\ UNCHANGED <<aborted, offered, delivered>>

SetAborted(a) ==
  /\ aborted' = a
  /\ UNCHANGED <<chan, offered, delivered, freed>>

Next ==
  \/ Accept
  \/ Reject
  \/ Receive
  \/ Flush
  \/ \E a \in BOOLEAN : SetAborted(a)

Spec == Init /\ [][Next]_vars

-----------------------------------------------------------------------------
TypeOK ==
  /\ chan \in Seq(Frame)
  /\ aborted \in BOOLEAN
  /\ offered \in 0..MaxFrames
  /\ delivered \subseteq Frame
  /\ freed \subseteq Frame

(* No offered frame is lost, and none is handed out twice, freed twice, or  *)
(* both handed out and freed (the ownership rule of frame_queue_put, _get   *)
(* and _flush).                                                             *)
Conservation ==
  /\ 1..offered = Elements(chan) \cup delivered \cup freed
  /\ Elements(chan) \cap delivered = {}
  /\ Elements(chan) \cap freed = {}
  /\ delivered \cap freed = {}

(* Frames leave in the order in which they were put: whatever is queued is  *)
(* younger than whatever was handed out, and the queue itself is in order.  *)
InOrder ==
  /\ \A i, j \in 1..Len(chan) : i < j => chan[i] < chan[j]
  /\ \A d \in delivered, i \in 1..Len(chan) : d < chan[i]
=============================================================================
