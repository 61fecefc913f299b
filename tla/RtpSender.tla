----------------------------- MODULE RtpSender -----------------------------
(***************************************************************************)
(* RTPSender::SendH264Nalu, CH264EncodeRtp::EncodeFrames and the sending   *)
(* half of H264Frame: pictures become RTP packets.  A SendDataThread calls *)
(* SendH264Nalu with one picture after the other; the call loops over      *)
(* EncodeFrames and SendPacket until a packet had the marker.              *)
(*                                                                         *)
(* All threads of a sender use one H264Frame, m_encapsulation, without a   *)
(* lock.  A call of EncodeFrames is one step here; the data races inside   *)
(* of two overlapping calls are not modelled, so what is shown for more    *)
(* than one thread is what goes wrong or right even without them.          *)
(***************************************************************************)
EXTENDS H264Packets, FiniteSets

CONSTANT Threads      \* the SendDataThreads

VARIABLES
  called,             \* history: how many pictures SendH264Nalu was called with
  picture,            \* history: picture number -> its NAL units
  callers,            \* history: the threads that called it
  job,                \* the picture (h264buf) each thread's call is about, or 0
  pc,                 \* where each thread is
  inHand,             \* byDest: the packet each thread is about to send
  m_picture,          \* the picture that is in m_encodedFrame, m_NALs
  m_currentNAL,
  m_currentNALFURemainingLen,
  last,               \* history: the packet sent last
  sent                \* history: the packets sent

encapsulation == <<m_picture, m_currentNAL, m_currentNALFURemainingLen>>
vars == <<called, picture, callers, job, pc, inHand, encapsulation, last, sent>>

NoPacket == Packet("none", 0, 0, "slice", 0, 0, FALSE, FALSE, FALSE)

m_NALs == IF m_picture = 0 THEN <<>> ELSE picture[m_picture]

\* Mutant: the last NAL unit is not counted.
HasRTPFramesShort == m_currentNAL < Len(m_NALs)

HasRTPFrames == m_currentNAL <= Len(m_NALs)

-----------------------------------------------------------------------------
Init ==
  /\ called = 0
  /\ picture = <<>>
  /\ callers = {}
  /\ job = [t \in Threads |-> 0]
  /\ pc = [t \in Threads |-> "idle"]
  /\ inHand = [t \in Threads |-> NoPacket]
  /\ m_picture = 0 /\ m_currentNAL = 1 /\ m_currentNALFURemainingLen = 0
  /\ last = NoPacket
  /\ sent = {}

(* SendDataThread has encoded a picture and calls SendH264Nalu. *)
SendH264Nalu(t, pic) ==
  /\ pc[t] = "idle"
  /\ called < MaxPictures
  /\ called' = called + 1
  /\ picture' = Append(picture, pic)
  /\ callers' = callers \cup {t}
  /\ job' = [job EXCEPT ![t] = called + 1]
  /\ pc' = [pc EXCEPT ![t] = "encode"]
  /\ UNCHANGED <<inHand, encapsulation, last, sent>>

-----------------------------------------------------------------------------
(* GetRTPFrame on NAL unit i of picture f with r bytes of it left to       *)
(* fragment (0 when it was not begun).                                     *)
SingleNAL(f, i) ==
  LET nal == picture[f][i]
  IN  Packet("single", f, i, nal.type, 1, nal.len, FALSE, FALSE, i = Len(picture[f]))

\* EncapsulateFU: what is left of the NAL unit before this fragment, and how
\* much of it the fragment takes.
Remaining(f, i, r) == IF r = 0 THEN picture[f][i].len - 1 ELSE r

\* Mutant: one header byte forgotten.
FULenOneHeader(f, i, r) == IF Remaining(f, i, r) + 2 <= MaxPayload
                           THEN Remaining(f, i, r) ELSE MaxPayload - 1

FULen(f, i, r)     == IF Remaining(f, i, r) + 2 <= MaxPayload
                      THEN Remaining(f, i, r) ELSE MaxPayload - 2

\* Mutant: the end bit as if there were one header byte.
FragmentEndEarly(f, i, r) ==
  LET nal   == picture[f][i]
      after == nal.len - Remaining(f, i, r)
      end   == Remaining(f, i, r) + 1 <= MaxPayload
  IN  Packet("fu", f, i, nal.type, IF r = 0 THEN 1 ELSE after + 1,
             after + FULen(f, i, r), r = 0, end, end /\ i = Len(picture[f]))

FragmentOf(f, i, r) ==
  LET nal   == picture[f][i]
      after == nal.len - Remaining(f, i, r)
      end   == Remaining(f, i, r) + 2 <= MaxPayload
  IN  Packet("fu", f, i, nal.type, IF r = 0 THEN 1 ELSE after + 1,
             after + FULen(f, i, r), r = 0, end, end /\ i = Len(picture[f]))

(* EncodeFrames: when nothing is left of the picture in m_encapsulation,   *)
(* the caller's takes its place; then the next packet is made.             *)
EncodeFrames(t) ==
  /\ pc[t] = "encode"
  /\ LET f == IF HasRTPFrames THEN m_picture ELSE job[t]
         i == IF HasRTPFrames THEN m_currentNAL ELSE 1
         r == IF HasRTPFrames THEN m_currentNALFURemainingLen ELSE 0
     IN  /\ m_picture' = f
         /\ IF picture[f][i].len > MaxPayload
            THEN /\ inHand' = [inHand EXCEPT ![t] = FragmentOf(f, i, r)]
                 /\ m_currentNALFURemainingLen' = Remaining(f, i, r) - FULen(f, i, r)
                 /\ m_currentNAL' = IF Remaining(f, i, r) = FULen(f, i, r) THEN i + 1 ELSE i
            ELSE /\ inHand' = [inHand EXCEPT ![t] = SingleNAL(f, i)]
                 /\ m_currentNALFURemainingLen' = 0
                 /\ m_currentNAL' = i + 1
  /\ pc' = [pc EXCEPT ![t] = "send"]
  /\ UNCHANGED <<called, picture, callers, job, last, sent>>

\* Mutant: the call ends with the first packet.
SendPacketOnce(t) ==
  /\ pc[t] = "send"
  /\ last' = inHand[t]
  /\ sent' = sent \cup {inHand[t]}
  /\ inHand' = [inHand EXCEPT ![t] = NoPacket]
  /\ pc' = [pc EXCEPT ![t] = "idle"]
  /\ job' = [job EXCEPT ![t] = 0]
  /\ UNCHANGED <<called, picture, callers, encapsulation>>

(* SendPacket; the marker ends the call. *)
SendPacket(t) ==
  /\ pc[t] = "send"
  /\ last' = inHand[t]
  /\ sent' = sent \cup {inHand[t]}
  /\ inHand' = [inHand EXCEPT ![t] = NoPacket]
  /\ IF inHand[t].marker
     THEN /\ pc' = [pc EXCEPT ![t] = "idle"]
          /\ job' = [job EXCEPT ![t] = 0]
     ELSE /\ pc' = [pc EXCEPT ![t] = "encode"]
          /\ UNCHANGED job
  /\ UNCHANGED <<called, picture, callers, encapsulation>>

-----------------------------------------------------------------------------
Next ==
  \E t \in Threads :
    \/ \E pic \in Pictures : SendH264Nalu(t, pic)
    \/ EncodeFrames(t)
    \/ SendPacket(t)

Spec == Init /\ [][Next]_vars

(* A thread inside SendH264Nalu runs on: nothing in the loop blocks. *)
Fairness == \A t \in Threads : WF_vars(EncodeFrames(t) \/ SendPacket(t))

FairSpec == Spec /\ Fairness

-----------------------------------------------------------------------------
PacketType ==
  [kind : {"none", "single", "fu"}, pic : 0..MaxPictures, nal : Nat, type : NALType,
   first : Nat, last : Nat, start : BOOLEAN, end : BOOLEAN, marker : BOOLEAN]

TypeOK ==
  /\ called \in 0..MaxPictures
  /\ picture \in Seq(Pictures) /\ Len(picture) = called
  /\ callers \subseteq Threads
  /\ job \in [Threads -> 0..called]
  /\ pc \in [Threads -> {"idle", "encode", "send"}]
  /\ inHand \in [Threads -> PacketType]
  /\ m_picture \in 0..called
  /\ m_currentNAL \in Nat \ {0}
  /\ m_currentNALFURemainingLen \in Nat
  /\ last \in PacketType
  /\ sent \subseteq PacketType

Sending == {t \in Threads : pc[t] = "send"}
Made    == sent \cup {inHand[t] : t \in Sending}

(* A packet never exceeds the size the sender asked for (1200 of its 1212  *)
(* bytes) and is never without data, so that every fragment helps on.      *)
PacketsFit ==
  \A p \in Made : /\ PayloadSize(p) \in 1..MaxPayload
                  /\ p.first <= p.last /\ p.last <= picture[p.pic][p.nal].len

(* What DeencapsulateFU says must not happen does not: no fragment has     *)
(* both the start and the end bit; a NAL unit that would fit one fragment  *)
(* is not fragmented.  The bits are where the NAL unit begins and ends,    *)
(* and the marker is on the packet with the last byte of the picture.      *)
HeaderBits ==
  \A p \in Made :
    LET units == picture[p.pic]
    IN  /\ p.kind = "fu" =>
             /\ ~(p.start /\ p.end)
             /\ p.start <=> p.first = 1
             /\ p.end <=> p.last = units[p.nal].len
        /\ p.marker <=> p.nal = Len(units) /\ p.last = units[p.nal].len

(* Packet q carries on where packet p of the same picture stopped: in the *)
(* same NAL unit or at the next one.                                       *)
Continues(p, q) ==
  /\ ~p.marker
  /\ q.pic = p.pic
  /\ IF p.last = picture[p.pic][p.nal].len
     THEN q.nal = p.nal + 1 /\ q.first = 1
     ELSE q.nal = p.nal /\ q.first = p.last + 1

Begins(p) == p.nal = 1 /\ p.first = 1

(* With one push the packets on the wire are those of the pictures, byte *)
(* for byte, without a gap or an overlap, every picture once and in turn.  *)
OneThread == Cardinality(callers) <= 1

Contiguous ==
  OneThread => \A t \in Sending :
    \/ Continues(last, inHand[t])
    \/ /\ last = NoPacket \/ last.marker
       /\ Begins(inHand[t])
       /\ inHand[t].pic = last.pic + 1

(* Several threads share m_encapsulation: a call may send packets of       *)
(* another call's picture, and then its own picture again or not at all.   *)
(* Still what was sent of a picture when no call is under way is all of    *)
(* it: the packets of an abandoned picture do not stay behind.             *)
WholePictures ==
  (\A t \in Threads : pc[t] = "idle") =>
    /\ ~HasRTPFrames
    /\ \A p \in sent :
         /\ \E q \in sent : q.pic = p.pic /\ Begins(q)
         /\ p.marker \/ \E q \in sent : Continues(p, q)

(* Every call of SendH264Nalu returns: the loop reaches a marker. *)
CallReturns == \A t \in Threads : (pc[t] # "idle") ~> (pc[t] = "idle")
=============================================================================
