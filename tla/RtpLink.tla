------------------------------ MODULE RtpLink ------------------------------
(***************************************************************************)
(* What lies between RTPSession::SendPacket and RTPSession::GetNextPacket: *)
(* the sequence numbers of RTPPacketBuilder, the network, and jrtplib's    *)
(* record of the source at the receiver (RTPSourceStats::ProcessPacket,    *)
(* RTPInternalSourceData::ProcessRTPPacket, RTPSourceData::GetNextPacket). *)
(* A source is on probation until ProbationCount packets in a row followed *)
(* one another; its packets are kept meanwhile, in a list sorted by        *)
(* extended sequence number.                                               *)
(*                                                                         *)
(* Packets are numbered 1, 2, ... in the order in which they were sent; on *)
(* the wire a packet has its 16-bit sequence number only.  The network is  *)
(* UDP: it may lose, repeat and reorder.  A packet is handled by Poll one  *)
(* at a time; ProcessPolledData loops over what has arrived.               *)
(***************************************************************************)
EXTENDS Integers, Sequences, SequencesExt

CONSTANTS
  SeqRange,         \* the sequence numbers: 2^16
  Bases,            \* the first sequence number is random: a set to choose from
  ProbationCount,   \* RTP_PROBATIONCOUNT: 2
  MaxProbation,     \* RTPINTERNALSOURCEDATA_MAXPROBATIONPACKETS: 32
  MaxSent,          \* bound on the packets sent
  MaxLost,          \* bound on the packets the network loses
  MaxRepeated,      \* bound on the packets it repeats
  Windows           \* how far a packet may overtake another: a set to choose from

VARIABLES
  base,           \* the sender's first sequence number
  count,          \* packets sent
  net,            \* numbers of the packets under way
  window,         \* how far a packet may overtake another; 0: not at all
  lost, repeated, \* how many the network lost, repeated
  validated,      \* and sentdata, which is set together with it
  probation, prevseqnr,
  exthighseqnr, numcycles,
  packetlist,     \* the packets stored: extended sequence number, number
  taken,          \* history: the number of the packet taken last
  first           \* history: the packet that ended probation

network == <<base, window, count, net, lost, repeated>>
stats   == <<validated, probation, prevseqnr, exthighseqnr, numcycles>>
vars    == <<network, stats, packetlist, taken, first>>

\* BuildPacket gives the packet the sequence number seqnr++.
SeqNr(n) == (base + n - 1) % SeqRange

-----------------------------------------------------------------------------
Init ==
  /\ base \in Bases /\ window \in Windows
  /\ count = 0 /\ net = {} /\ lost = 0 /\ repeated = 0
  /\ validated = FALSE /\ probation = 0 /\ prevseqnr = 0
  /\ exthighseqnr = 0 /\ numcycles = 0
  /\ packetlist = <<>>
  /\ taken = 0 /\ first = 0

(* RTPSession::SendPacket *)
Send ==
  /\ count < MaxSent
  /\ count' = count + 1
  /\ net' = net \cup {count + 1}
  /\ UNCHANGED <<base, window, lost, repeated, stats, packetlist, taken, first>>

(* The network drops a packet. *)
Lose(n) ==
  /\ n \in net
  /\ lost < MaxLost
  /\ net' = net \ {n}
  /\ lost' = lost + 1
  /\ UNCHANGED <<base, window, count, repeated, stats, packetlist, taken, first>>

(* A packet arrives; it may do so again. *)
Arrives(n) ==
  /\ n \in net
  /\ \A m \in net : n <= m + window
  /\ \/ net' = net \ {n} /\ UNCHANGED repeated
     \/ repeated < MaxRepeated /\ repeated' = repeated + 1 /\ UNCHANGED net
  /\ UNCHANGED <<base, window, count, lost>>

-----------------------------------------------------------------------------
(* The sorted insertion.  It looks from the end of the list for a packet   *)
(* whose number is not higher; one with the same number means that the     *)
(* packet is a repetition and is dropped.                                  *)
Entry(ext, n) == [ext |-> ext, number |-> n]

Place(list, ext) == Max({0} \cup {k \in 1..Len(list) : list[k].ext <= ext})

Insert(list, e) ==
  LET k == Place(list, e.ext)
  IN  IF k > 0 /\ list[k].ext = e.ext THEN list ELSE InsertAt(list, k + 1, e)

\* On probation the packet with the lowest number makes room.
Trim(list) == IF Len(list) = MaxProbation THEN Tail(list) ELSE list

Follows(n)       == probation > 0 /\ SeqNr(n) = (prevseqnr + 1) % SeqRange
EndsProbation(n) == Follows(n) /\ probation = 1

\* Mutant: the packet is not stored (ProbationDiscard).
OnProbationDiscard(n) ==
  /\ ~validated
  /\ ~EndsProbation(n)
  /\ probation' = IF Follows(n) THEN probation - 1 ELSE ProbationCount
  /\ prevseqnr' = SeqNr(n)
  /\ UNCHANGED <<validated, exthighseqnr, numcycles, packetlist, first>>

(* The source is on probation and stays so. *)
OnProbation(n) ==
  /\ ~validated
  /\ ~EndsProbation(n)
  /\ probation' = IF Follows(n) THEN probation - 1 ELSE ProbationCount
  /\ prevseqnr' = SeqNr(n)
  /\ packetlist' = Insert(Trim(packetlist), Entry(SeqNr(n), n))
  /\ UNCHANGED <<validated, exthighseqnr, numcycles, first>>

\* ACCEPTPACKETCODE: when the first number is 0, one cycle is behind it.
\* Mutant: 0 is not told from the other numbers.
FirstExtPlain(seq) == seq
FirstExt(seq) == IF seq = 0 THEN SeqRange ELSE seq

(* The packet that ends probation. *)
AcceptFirst(n) ==
  /\ ~validated
  /\ EndsProbation(n)
  /\ validated' = TRUE
  /\ probation' = 0
  /\ prevseqnr' = SeqNr(n)
  /\ exthighseqnr' = FirstExt(SeqNr(n))
  /\ numcycles' = FirstExt(SeqNr(n)) - SeqNr(n)
  /\ packetlist' = Insert(packetlist, Entry(exthighseqnr', n))
  /\ first' = n

maxseq16 == exthighseqnr % SeqRange

\* A lower number is of the next cycle when it is nearer that way round.
Wrapped(n) ==
  /\ SeqNr(n) < maxseq16
  /\ (SeqNr(n) - maxseq16) % SeqRange < maxseq16 - SeqNr(n)

(* A packet of a source that is valid. *)
AcceptNext(n) ==
  /\ validated
  /\ numcycles' = IF Wrapped(n) THEN numcycles + SeqRange ELSE numcycles
  /\ exthighseqnr' = IF SeqNr(n) >= maxseq16 \/ Wrapped(n)
                     THEN numcycles' + SeqNr(n) ELSE exthighseqnr
  /\ packetlist' = Insert(packetlist, Entry(numcycles' + SeqNr(n), n))
  /\ UNCHANGED <<validated, probation, prevseqnr, first>>

ProcessRTPPacket(n) ==
  /\ Arrives(n)
  /\ OnProbation(n) \/ AcceptFirst(n) \/ AcceptNext(n)
  /\ UNCHANGED taken

(* GotoFirstSourceWithData and GetNextPacket. *)
GetNextPacket ==
  /\ validated
  /\ packetlist # <<>>
  /\ taken' = Head(packetlist).number
  /\ packetlist' = Tail(packetlist)
  /\ UNCHANGED <<network, stats, first>>

Next ==
  \/ Send
  \/ \E n \in net : Lose(n) \/ ProcessRTPPacket(n)
  \/ GetNextPacket

Spec == Init /\ [][Next]_vars

-----------------------------------------------------------------------------
TypeOK ==
  /\ base \in Bases /\ window \in Windows
  /\ count \in Nat /\ net \subseteq 1..count
  /\ lost \in Nat /\ repeated \in Nat
  /\ validated \in BOOLEAN
  /\ probation \in 0..ProbationCount
  /\ prevseqnr \in 0..(SeqRange - 1)
  /\ exthighseqnr \in Nat
  /\ numcycles \in Nat /\ numcycles % SeqRange = 0
  /\ packetlist \in Seq([ext : Nat, number : 1..count])
  /\ ~validated => Len(packetlist) <= MaxProbation
  /\ taken \in 0..count /\ first \in 0..count

(* On a network that only loses packets they are taken in the order in     *)
(* which they were sent, also those that came before the source was valid, *)
(* with two exceptions.  A gap of half the sequence numbers looks like a   *)
(* packet that is late.  And packets stored during probation have no       *)
(* cycle: when the numbers wrap then, those from after the wrap are put in *)
(* front.  A wrap with the very packet that ends probation is allowed for. *)
OnlyLoses == window = 0 /\ repeated = 0

FewLost == 2 * (lost + 1) < SeqRange

WrapsOnProbation == base + first - 1 > SeqRange
=============================================================================
