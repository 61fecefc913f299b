---------------------------- MODULE RtpReceiver ----------------------------
(***************************************************************************)
(* CH264DecodeRtp::DecodeFrames and the receiving half of H264Frame: RTP   *)
(* packets become pictures again.  The receiver looks at no sequence       *)
(* number: whatever arrives is added to the picture under assembly until a *)
(* packet with the marker arrives.  DecodeFrames takes any packet: those   *)
(* of the sender of H264Packets, and those of other senders, which may     *)
(* aggregate NAL units (STAP-A), be empty or of a type that the code does  *)
(* not know, or end within their own headers: the length of their data is  *)
(* computed in 32 bits without a sign, and wraps.                          *)
(***************************************************************************)
EXTENDS H264Packets

CONSTANTS
  Inputs,        \* the packets that may arrive
  MaxFrameSize,  \* MAX_FRAME_SIZE
  KeyWindow,     \* the bytes Is_H264KeyFrame looks at: 1024
  FURange,       \* the values of m_currentFU: 2^16
  LenRange       \* the values of dataLen: 2^32

ASSUME MaxFrameSizeAssumption == MaxFrameSize \in Nat
ASSUME KeyWindowAssumption == KeyWindow \in Nat
ASSUME FURangeAssumption == FURange \in Nat /\ FURange > 1
ASSUME LenRangeAssumption == LenRange \in Nat /\ LenRange > 2 * MaxFrameSize

\* Besides H264Packets!Packet: two NAL units in one packet, nothing (or a
\* STAP too short for one), or something else.  A truncated STAP says it is
\* longer than it is.
Stap(u, v, truncated, marker) ==
  [kind |-> "stap", units |-> <<u, v>>, truncated |-> truncated, marker |-> marker]
EmptyPayload(marker) == [kind |-> "empty", marker |-> marker]
Unknown(marker)      == [kind |-> "unknown", marker |-> marker]

\* Whether data brings the header byte of its NAL unit; the bytes after the
\* packet's own headers.  A fragment with a payload of one byte, and a unit of
\* a STAP that says its length is 0, have one byte less than none; the bits of
\* that fragment's second header are what lies behind the packet.
HasHeader(p) == p.kind = "single" \/ p.start
Bytes(p)     == IF HasHeader(p) THEN p.last - p.first ELSE p.last - p.first + 1

\* dataLen, which AddDataToEncodedFrame is called with.
DataLen(p) == Bytes(p) % LenRange

\* What arrives is shorter than the buffer: a datagram has at most 64 KB, the
\* buffer 768 KB.
DataPacket(p) ==
  /\ p.kind \in {"single", "fu"} /\ {p.start, p.end, p.marker} \subseteq BOOLEAN
  /\ p.type \in NALType
  /\ Bytes(p) \in -1..(MaxFrameSize - 5)

ASSUME InputsAssumption ==
  \A p \in Inputs :
    /\ p.kind \in {"single", "fu", "stap", "empty", "unknown"}
    /\ p.kind \in {"single", "fu"} => DataPacket(p)
    /\ p.kind = "single" => Bytes(p) >= 0
    /\ p.kind = "stap" => \A i \in 1..2 : DataPacket(p.units[i]) /\ p.units[i].kind = "single"

VARIABLES
  m_fullFrame,         \* the H264Frame under assembly
  m_bHaveGetKeyFrame,
  dst,                 \* dst: the NAL units the call gave for the decoder
  overran              \* the data whose copy left the buffer, and ended the program

vars == <<m_fullFrame, m_bHaveGetKeyFrame, dst, overran>>

-----------------------------------------------------------------------------
Frame(nals, len, fu) == [m_NALs |-> nals, m_encodedFrameLen |-> len, m_currentFU |-> fu]

Counting(frame, fu) == Frame(frame.m_NALs, frame.m_encodedFrameLen, fu)

(* BeginNewFrame *)
Emptied == Frame(<<>>, 0, 0)

(* AddDataToEncodedFrame.  A header byte starts a new NAL unit behind a    *)
(* start code of four bytes; data without one goes to the last NAL unit.   *)
(* What does not fit is left out, as far as the sum in 32 bits tells.      *)
NALU(p, offset) == [type |-> p.type, offset |-> offset, pieces |-> <<p>>]

More(nal, p) == [type |-> nal.type, offset |-> nal.offset, pieces |-> Append(nal.pieces, p)]

headerLen(p) == IF HasHeader(p) THEN 5 ELSE 0

End(frame, p) == frame.m_encodedFrameLen + headerLen(p) + DataLen(p)

\* Mutant: no room is kept for the start code and the header byte.
RoomTight(frame, p) == (frame.m_encodedFrameLen + DataLen(p)) % LenRange <= MaxFrameSize

Room(frame, p) == End(frame, p) % LenRange <= MaxFrameSize

(* The memcpy of data for which the sum wrapped goes on for 4 GB.          *)
Spills(frame, p) == Room(frame, p) /\ End(frame, p) > MaxFrameSize

\* Mutant: the header byte is not counted.
AddHeadedUncounted(frame, p) ==
  IF ~Room(frame, p) THEN frame
  ELSE Frame(Append(frame.m_NALs, NALU(p, frame.m_encodedFrameLen + 4)),
             End(frame, p) - 1, frame.m_currentFU)

AddHeaded(frame, p) ==
  IF ~Room(frame, p) THEN frame
  ELSE Frame(Append(frame.m_NALs, NALU(p, frame.m_encodedFrameLen + 4)),
             End(frame, p), frame.m_currentFU)

AddMore(frame, p) ==
  IF ~Room(frame, p) THEN frame
  ELSE Frame([frame.m_NALs EXCEPT ![Len(frame.m_NALs)] = More(@, p)],
             End(frame, p), frame.m_currentFU)

(* DeencapsulateFU, where it returns true.  A first fragment that arrives  *)
(* while another NAL unit is open is left out.                             *)
\* Mutant: it is appended to the open NAL unit.
OpenFUAppends(frame, p) ==
  IF frame.m_currentFU > 0
  THEN AddMore(Counting(frame, 1), p)
  ELSE AddHeaded(Counting(frame, 1), p)

OpenFU(frame, p) ==
  IF frame.m_currentFU > 0
  THEN Counting(frame, 1)
  ELSE AddHeaded(Counting(frame, 1), p)

DeencapsulateFU(frame, p) ==
  CASE p.start -> OpenFU(frame, p)
    [] ~p.start /\ ~p.end -> AddMore(Counting(frame, (frame.m_currentFU + 1) % FURange), p)
    [] ~p.start /\ p.end  -> AddMore(Counting(frame, 0), p)

(* SetFromRTPFrame: whether it takes the packet, and what it then makes of *)
(* the picture under assembly.                                             *)
\* Mutant: a fragment is taken whether its NAL unit was begun or not.
TakesAnyFU(frame, p) ==
  \/ p.kind \in {"empty", "single", "fu"}
  \/ p.kind = "stap" /\ ~p.truncated

Takes(frame, p) ==
  \/ p.kind \in {"empty", "single"}
  \/ p.kind = "stap" /\ ~p.truncated
  \/ p.kind = "fu" /\ ~(p.start /\ p.end) /\ (p.start \/ frame.m_currentFU > 0)

\* The data of the packet, if any, that AddDataToEncodedFrame copies out of
\* the buffer.
Spilled(frame, p) ==
  CASE p.kind = "single" -> {d \in {p} : Spills(frame, d)}
    [] p.kind = "fu"     -> {d \in {p} : /\ ~(p.start /\ p.end)
                                         /\ p.start <=> frame.m_currentFU = 0
                                         /\ Spills(frame, d)}
    [] p.kind = "stap" /\ Spills(frame, p.units[1])  -> {p.units[1]}
    [] p.kind = "stap" /\ ~Spills(frame, p.units[1]) ->
         {d \in {p.units[2]} : Spills(AddHeaded(frame, p.units[1]), d)}
    [] p.kind \in {"empty", "unknown"} -> {}

SetFromRTPFrame(frame, p) ==
  CASE p.kind = "empty"  -> frame
    [] p.kind = "single" -> AddHeaded(frame, p)
    [] p.kind = "stap"   -> AddHeaded(AddHeaded(frame, p.units[1]), p.units[2])
    [] p.kind = "fu"     -> DeencapsulateFU(frame, p)

(* Is_H264KeyFrame: a sequence parameter set starts within the first bytes *)
(* of the picture.                                                         *)
\* Mutant: an IDR picture is a key frame also without parameter set.
KeyFrameIDR(frame) == \E i \in 1..Len(frame.m_NALs) : frame.m_NALs[i].type \in {"SPS", "IDR"}

KeyFrame(frame) ==
  LET size == IF frame.m_encodedFrameLen > KeyWindow THEN KeyWindow
              ELSE frame.m_encodedFrameLen
  IN  \E i \in 1..Len(frame.m_NALs) :
        /\ frame.m_NALs[i].type = "SPS"
        /\ frame.m_NALs[i].offset - 4 < size - 3

-----------------------------------------------------------------------------
Init ==
  /\ m_fullFrame = Emptied
  /\ m_bHaveGetKeyFrame = FALSE
  /\ dst = <<>>
  /\ overran = {}

(* DecodeFrames, by what it returns, if it does.                           *)
Returns(p) == overran = {} /\ Spilled(m_fullFrame, p) = {}

Overrun(p) ==
  /\ overran = {}
  /\ Spilled(m_fullFrame, p) # {}
  /\ overran' = Spilled(m_fullFrame, p)
  /\ UNCHANGED <<m_fullFrame, m_bHaveGetKeyFrame, dst>>

(* SetFromRTPFrame refuses the packet: what was assembled so far is thrown *)
(* away with it.                                                           *)
\* Mutant: what was assembled is kept.
RefuseKeeps(p) ==
  /\ Returns(p) /\ ~Takes(m_fullFrame, p)
  /\ dst' = <<>>
  /\ UNCHANGED <<m_fullFrame, m_bHaveGetKeyFrame, overran>>

Refuse(p) ==
  /\ Returns(p) /\ ~Takes(m_fullFrame, p)
  /\ m_fullFrame' = Emptied
  /\ dst' = <<>>
  /\ UNCHANGED <<m_bHaveGetKeyFrame, overran>>

(* The picture is not complete. *)
Collect(p) ==
  /\ Returns(p) /\ Takes(m_fullFrame, p)
  /\ ~p.marker
  /\ m_fullFrame' = SetFromRTPFrame(m_fullFrame, p)
  /\ dst' = <<>>
  /\ UNCHANGED <<m_bHaveGetKeyFrame, overran>>

(* The marker ends a picture that is empty, or one before which no key     *)
(* frame has come: it is dropped.                                          *)
Drop(p) ==
  /\ Returns(p) /\ Takes(m_fullFrame, p)
  /\ p.marker
  /\ LET frame == SetFromRTPFrame(m_fullFrame, p)
     IN  \/ frame.m_encodedFrameLen = 0
         \/ ~KeyFrame(frame) /\ ~m_bHaveGetKeyFrame
  /\ m_fullFrame' = Emptied
  /\ dst' = <<>>
  /\ UNCHANGED <<m_bHaveGetKeyFrame, overran>>

(* The marker ends a picture: it is copied out for the decoder. *)
Deliver(p) ==
  /\ Returns(p) /\ Takes(m_fullFrame, p)
  /\ p.marker
  /\ LET frame == SetFromRTPFrame(m_fullFrame, p)
     IN  /\ frame.m_encodedFrameLen # 0
         /\ KeyFrame(frame) \/ m_bHaveGetKeyFrame
         /\ dst' = frame.m_NALs
  /\ m_bHaveGetKeyFrame' = TRUE
  /\ m_fullFrame' = Emptied
  /\ UNCHANGED overran

DecodeFrames(p) == Refuse(p) \/ Collect(p) \/ Drop(p) \/ Deliver(p) \/ Overrun(p)

Next ==
  \E p \in Inputs : Refuse(p) \/ Collect(p) \/ Drop(p) \/ Deliver(p) \/ Overrun(p)

Spec == Init /\ [][Next]_vars

-----------------------------------------------------------------------------
NALs == m_fullFrame.m_NALs

Data == {p \in Inputs : p.kind \in {"single", "fu"}}
        \cup UNION {{p.units[i] : i \in 1..2} : p \in {q \in Inputs : q.kind = "stap"}}

NALUType  == [type : NALType, offset : Nat, pieces : Seq(Data)]
FrameType == [m_NALs : Seq(NALUType), m_encodedFrameLen : Nat, m_currentFU : 0..(FURange - 1)]

TypeOK ==
  /\ m_fullFrame \in FrameType
  /\ m_bHaveGetKeyFrame \in BOOLEAN
  /\ dst \in Seq(NALUType)
  /\ overran \subseteq Data

\* The bytes of NAL unit n in the buffer after its start code.
NALBytes(n) ==
  LET add[i \in 0..Len(n.pieces)] ==
        IF i = 0 THEN 1 ELSE add[i - 1] + DataLen(n.pieces[i])
  IN  add[Len(n.pieces)]

(* A fragment without header bytes always has a NAL unit to go to: data is *)
(* never added to m_NALs[-1], whatever packets were lost, reordered or     *)
(* refused before.                                                         *)
OpenHasNAL == m_fullFrame.m_currentFU > 0 => NALs # <<>>

(* What is copied into the buffer never exceeds it, although a picture may *)
(* be longer than the buffer and markers may be lost, but for data whose   *)
(* length wrapped: only a packet that ends within its own headers gets     *)
(* past the test for the room, and none of it is ever counted.             *)
BufferFits ==
  /\ m_fullFrame.m_encodedFrameLen <= MaxFrameSize
  /\ \A p \in overran : Bytes(p) < 0

(* The NAL units tile the buffer: each starts four bytes after the end of  *)
(* the one before, and the last ends where the buffer's contents end.      *)
Tiled ==
  /\ \A i \in 1..Len(NALs) :
       NALs[i].offset + NALBytes(NALs[i]) =
         IF i = Len(NALs) THEN m_fullFrame.m_encodedFrameLen ELSE NALs[i + 1].offset - 4
  /\ IF NALs = <<>> THEN m_fullFrame.m_encodedFrameLen = 0 ELSE NALs[1].offset = 4

(* Every NAL unit in the buffer begins with data that had a header byte,   *)
(* and nothing with a header byte is inside one.                           *)
Headed ==
  \A i \in 1..Len(NALs) :
    /\ NALs[i].pieces # <<>>
    /\ \A j \in 1..Len(NALs[i].pieces) : j = 1 <=> HasHeader(NALs[i].pieces[j])
=============================================================================
