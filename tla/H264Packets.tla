---------------------------- MODULE H264Packets ----------------------------
(***************************************************************************)
(* The packets of an H.264 stream as jrtp/h264frame.cpp makes and reads    *)
(* them.  A picture is a sequence of NAL units, a NAL unit a record with   *)
(* its type and its length in bytes, header byte included.  The bytes      *)
(* themselves are abstracted to their place: a piece is a range of bytes   *)
(* of one NAL unit of one picture.                                         *)
(***************************************************************************)
EXTENDS Integers, Sequences

CONSTANTS
  MaxPayload,   \* m_maxPayloadSize
  Pictures,     \* the pictures the encoder may give: sequences of NAL units
  MaxPictures   \* bound on the number of pictures sent

NALType == {"SPS", "IDR", "slice"}

\* An FU packet spends two bytes on its headers; with less than three it
\* would carry nothing.
ASSUME MaxPayloadAssumption == MaxPayload \in Nat /\ MaxPayload > 2
ASSUME MaxPicturesAssumption == MaxPictures \in Nat

\* The encoder gives at least one NAL unit, and each has its header byte.
ASSUME PicturesAssumption ==
  \A pic \in Pictures :
    /\ pic \in Seq([type : NALType, len : Nat \ {0}])
    /\ pic # <<>>

-----------------------------------------------------------------------------
(* A packet: the RTP marker and the kind of payload.  "single" is a NAL    *)
(* unit of its own, "fu" a fragment of one (start and end are the S and E  *)
(* bits).  The bytes first..last of NAL unit nal of picture pic; the first *)
(* byte of a fragmented NAL unit travels in the FU headers.                *)
Packet(kind, pic, nal, type, first, last, start, end, marker) ==
  [kind |-> kind, pic |-> pic, nal |-> nal, type |-> type, first |-> first,
   last |-> last, start |-> start, end |-> end, marker |-> marker]

\* The bytes on the wire after the RTP header.
PayloadSize(p) ==
  CASE p.kind = "single"          -> p.last - p.first + 1
    [] p.kind = "fu" /\ p.start   -> (p.last - p.first) + 2
    [] p.kind = "fu" /\ ~p.start  -> (p.last - p.first + 1) + 2
=============================================================================
