----------------------------- MODULE RtpStream -----------------------------
(***************************************************************************)
(* One sender, the network and one receiver: RtpSender with one            *)
(* SendDataThread, RtpLink, and RtpReceiver, whose RecvDataThread takes    *)
(* one packet after the other from the source and hands it to              *)
(* DecodeFrames.  The receiver knows of a packet what is in it; which      *)
(* packets came before it on the wire is known to the properties only.     *)
(***************************************************************************)
EXTENDS H264Packets

CONSTANTS
  Threads, MaxFrameSize, KeyWindow, FURange, SeqRange, Bases, ProbationCount,
  MaxProbation, MaxSent, MaxLost, MaxRepeated, Windows, LenRange

VARIABLES
  called, picture, callers, job, pc, inHand, m_picture, m_currentNAL,
  m_currentNALFURemainingLen, last, sent,
  base, window, count, net, lost, repeated, validated, probation, prevseqnr,
  exthighseqnr, numcycles, packetlist, taken, first,
  m_fullFrame, m_bHaveGetKeyFrame, dst, overran,
  wire,               \* history: number -> the packet with that number
  since,              \* history: the numbers taken since the last marker
  shown               \* history: the pictures that were shown whole

Sender   == INSTANCE RtpSender
Link     == INSTANCE RtpLink
Receiver == INSTANCE RtpReceiver WITH Inputs <- {}

senderVars   == <<called, picture, callers, job, pc, inHand, m_picture, m_currentNAL,
                  m_currentNALFURemainingLen, last, sent>>
linkVars     == <<base, window, count, net, lost, repeated, validated, probation, prevseqnr,
                  exthighseqnr, numcycles, packetlist, taken, first>>
receiverVars == <<m_fullFrame, m_bHaveGetKeyFrame, dst, overran>>
vars == <<senderVars, linkVars, receiverVars, wire, since, shown>>

ASSUME OneThreadAssumption == \E t \in Threads : Threads = {t}
ASSUME SeqRangeAssumption == SeqRange \in Nat /\ SeqRange > 2
ASSUME BasesAssumption == Bases \subseteq 0..(SeqRange - 1)
ASSUME ProbationAssumption ==
  ProbationCount \in Nat \ {0} /\ MaxProbation \in Nat \ {0}
ASSUME BufferAssumption ==
  /\ MaxFrameSize \in Nat /\ KeyWindow \in Nat /\ FURange \in Nat /\ FURange > 1
  /\ LenRange \in Nat /\ LenRange > 2 * MaxFrameSize
ASSUME NetworkAssumption ==
  {MaxSent, MaxLost, MaxRepeated} \cup Windows \subseteq Nat

-----------------------------------------------------------------------------
Init ==
  /\ Sender!Init /\ Link!Init /\ Receiver!Init
  /\ wire = <<>> /\ since = <<>> /\ shown = {}

(* RTPSender: the encoder has a picture; the next packet of it is made. *)
Encode(t) ==
  /\ \/ \E pic \in Pictures : Sender!SendH264Nalu(t, pic)
     \/ Sender!EncodeFrames(t)
  /\ UNCHANGED <<linkVars, receiverVars, wire, since, shown>>

(* RTPSender: SendPacket puts it on the wire. *)
Transmit(t) ==
  /\ Sender!SendPacket(t)
  /\ Link!Send
  /\ wire' = Append(wire, inHand[t])
  /\ UNCHANGED <<receiverVars, since, shown>>

(* The network, and Poll at the receiver. *)
Lose(n) ==
  /\ Link!Lose(n)
  /\ UNCHANGED <<senderVars, receiverVars, wire, since, shown>>

Poll(n) ==
  /\ Link!ProcessRTPPacket(n)
  /\ UNCHANGED <<senderVars, receiverVars, wire, since, shown>>

-----------------------------------------------------------------------------
\* What a buffer of NAL units has of the pictures: the bytes that follow one
\* another in the picture's own NAL unit.
Continued(p, q) == /\ q.pic = p.pic /\ q.nal = p.nal
                   /\ q.first = p.last + 1

Intact(n) == \A j \in 1..(Len(n.pieces) - 1) : Continued(n.pieces[j], n.pieces[j + 1])

IsPicture(nals, f) ==
  /\ Len(nals) = Len(picture[f])
  /\ \A i \in 1..Len(nals) :
       LET n == nals[i]
       IN  /\ Intact(n)
           /\ n.pieces[1].pic = f /\ n.pieces[1].nal = i
           /\ n.pieces[1].first = 1
           /\ n.pieces[Len(n.pieces)].last = picture[f][i].len

(* RecvDataThread: the next packet goes to DecodeFrames, and what that     *)
(* gives to the decoder and to the screen.                                 *)
RecvDataThread ==
  /\ Link!GetNextPacket
  /\ LET n == Head(packetlist).number
     IN  /\ Receiver!DecodeFrames(wire[n])
         /\ since' = IF wire[n].marker THEN <<>> ELSE Append(since, n)
         /\ shown' = shown \cup {f \in {wire[n].pic} : IsPicture(dst', f)}
  /\ UNCHANGED <<senderVars, wire>>

Next ==
  \/ \E t \in Threads : Encode(t) \/ Transmit(t)
  \/ \E n \in net : Lose(n) \/ Poll(n)
  \/ RecvDataThread

Spec == Init /\ [][Next]_vars

(* The threads run on.  That packets arrive is no promise of the code: the *)
(* bound on the losses says how far the network keeps it.                  *)
Fairness ==
  /\ \A t \in Threads : WF_vars(Encode(t) \/ Transmit(t))
  /\ WF_vars(\E n \in net : Poll(n))
  /\ WF_vars(RecvDataThread)

FairSpec == Spec /\ Fairness

-----------------------------------------------------------------------------
\* Number i: the bytes that the first i NAL units of a picture take in the
\* receiver's buffer, each with a start code of four bytes.
Ahead(units) ==
  LET ahead[i \in 0..Len(units)] == IF i = 0 THEN 0 ELSE ahead[i - 1] + 4 + units[i].len
  IN  ahead

\* A picture that has room in the buffer, and whose fragments m_currentFU can
\* count.
Fits(units) ==
  /\ Ahead(units)[Len(units)] <= MaxFrameSize
  /\ \A i \in 1..Len(units) : units[i].len - 1 <= FURange * (MaxPayload - 2)

\* A picture in which Is_H264KeyFrame finds the parameter set.
KeyPicture(units) ==
  \E i \in 1..Len(units) : units[i].type = "SPS" /\ Ahead(units)[i - 1] + 3 < KeyWindow

\* The packets taken since the last marker and n are all packets of one
\* picture, each once and in turn.
WholeTaken(n) ==
  LET run == Append(since, n)
  IN  /\ \A i \in 1..(Len(run) - 1) : run[i + 1] = run[i] + 1
      /\ Sender!Begins(wire[run[1]])
      /\ wire[n].marker
      /\ wire[run[1]].pic = wire[n].pic

(* Whatever was lost, repeated or reordered before: when all packets of a  *)
(* picture that has room in the buffer come in turn after a marker, the    *)
(* decoder gets that picture, byte for byte, as soon as a key frame came   *)
(* or with it.  Nothing of what was left of earlier pictures spoils it.    *)
IntactDelivered ==
  [][\A n \in 1..count :
       /\ RecvDataThread /\ taken' = n /\ WholeTaken(n)
       /\ Fits(picture[wire[n].pic])
       /\ m_bHaveGetKeyFrame \/ KeyPicture(picture[wire[n].pic])
       => IsPicture(dst', wire[n].pic)]_vars

(* What comments of DeencapsulateFU say ("Received an intermediate FU      *)
(* without getting the first - dropping!"): a fragment that continues a    *)
(* NAL unit is kept only when the first fragment of that NAL unit was.     *)
FirstKept ==
  \A nals \in {m_fullFrame.m_NALs, dst} : \A i \in 1..Len(nals) :
    LET pieces == nals[i].pieces
    IN  \A j \in 1..Len(pieces) :
          pieces[j].pic = pieces[1].pic /\ pieces[j].nal = pieces[1].nal

(* On a network that only loses packets they are taken in the order in     *)
(* which they were sent, also those that came before the source was valid, *)
(* but for a wrap of the sequence numbers before it was, and unless half   *)
(* the sequence numbers were lost.                                         *)
InOrderOut ==
  [][/\ taken' # taken
     /\ Link!OnlyLoses /\ Link!FewLost /\ ~Link!WrapsOnProbation
     => taken' > taken]_vars

(* On a network that does nothing wrong every picture from the first one   *)
(* with a parameter set on is shown whole, once the source is no more on   *)
(* probation; also those that were sent before it was.  (When they all     *)
(* have room in the receiver's buffer.)                                    *)
AllShown ==
  \A f \in 1..MaxPictures :
    /\ validated /\ ~Link!WrapsOnProbation /\ Link!OnlyLoses
    /\ f <= called
    /\ \A g \in 1..f : Fits(picture[g])
    /\ \E g \in 1..f : KeyPicture(picture[g])
    ~> f \in shown \/ lost > 0 \/ repeated > 0
=============================================================================
