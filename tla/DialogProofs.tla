---------------------------- MODULE DialogProofs ----------------------------
(***************************************************************************)
(* Proofs about what the dialog starts.  The Pull button: about            *)
(* RtpReceiver, that the picture under assembly is well formed, whatever   *)
(* packets arrive in whatever order; about Playback, which calls it, what  *)
(* the thread uses, what the decoder is given and what the window shows.   *)
(* The Init and Capture buttons, at the end: about CaptureSetup, which     *)
(* resolutions are offered and which is started.                           *)
(***************************************************************************)
EXTENDS Playback, CaptureSetup, TLAPS, SequenceTheorems, WellFoundedInduction

(* What every value of m_fullFrame is like between two calls.  Every NAL   *)
(* unit begins with data that had a header byte, and has none inside;      *)
(* Full is the part that does not depend on m_currentFU.                   *)
HeadedNAL(n) ==
  /\ n.pieces # <<>>
  /\ \A j \in 1..Len(n.pieces) : j = 1 <=> HasHeader(n.pieces[j])

Full(frame) ==
  /\ frame \in FrameType
  /\ frame.m_encodedFrameLen <= MaxFrameSize
  /\ frame.m_NALs = <<>> => frame.m_encodedFrameLen = 0
  /\ \A i \in 1..Len(frame.m_NALs) : HeadedNAL(frame.m_NALs[i])

Good(frame) == Full(frame) /\ (frame.m_currentFU > 0 => frame.m_NALs # <<>>)

IInv ==
  /\ Good(m_fullFrame)
  /\ m_bHaveGetKeyFrame \in BOOLEAN
  /\ dst \in Seq(NALUType)
  /\ overran \subseteq Data /\ \A p \in overran : Bytes(p) < 0

-----------------------------------------------------------------------------
(* A NAL unit that begins with a packet, and one that a packet continues.  *)
LEMMA NALUHeaded ==
  ASSUME NEW p \in Data, DataPacket(p), HasHeader(p), NEW offset \in Nat
  PROVE  NALU(p, offset) \in NALUType /\ HeadedNAL(NALU(p, offset))
<1>1. <<p>> \in Seq(Data) /\ <<p>> # <<>> /\ Len(<<p>>) = 1 /\ <<p>>[1] = p
  OBVIOUS
<1>2. NALU(p, offset).pieces = <<p>> /\ NALU(p, offset) \in NALUType
  BY <1>1 DEF NALU, NALUType, DataPacket
<1> QED
  BY <1>1, <1>2 DEF HeadedNAL

LEMMA MoreHeaded ==
  ASSUME NEW n \in NALUType, NEW p \in Data, HeadedNAL(n), ~HasHeader(p)
  PROVE  More(n, p) \in NALUType /\ HeadedNAL(More(n, p))
<1> DEFINE pieces == n.pieces
           more   == Append(pieces, p)
<1>1. pieces \in Seq(Data) /\ pieces # <<>> /\ Len(pieces) \in Nat \ {0}
  BY DEF HeadedNAL, NALUType
<1>2. /\ more \in Seq(Data) /\ more # <<>> /\ Len(more) = Len(pieces) + 1
      /\ \A j \in 1..Len(pieces) : more[j] = pieces[j]
      /\ more[Len(pieces) + 1] = p
  BY <1>1, AppendProperties
<1>3. More(n, p).pieces = more /\ More(n, p) \in NALUType
  BY <1>2 DEF More, NALUType
<1>4. ASSUME NEW j \in 1..Len(more) PROVE j = 1 <=> HasHeader(more[j])
  <2> HIDE DEF pieces, more
  <2>1. CASE j \in 1..Len(pieces)
    BY <1>2, <2>1 DEF HeadedNAL, pieces
  <2>2. CASE j = Len(pieces) + 1
    BY <1>1, <1>2, <2>2
  <2> QED
    BY <1>1, <1>2, <2>1, <2>2
<1> HIDE DEF pieces, more
<1> QED
  BY <1>2, <1>3, <1>4 DEF HeadedNAL

(* The two ways the NAL units of a picture change.                         *)
LEMMA AppendHeaded ==
  ASSUME NEW nals \in Seq(NALUType), NEW n \in NALUType, HeadedNAL(n),
         \A i \in 1..Len(nals) : HeadedNAL(nals[i])
  PROVE  /\ Append(nals, n) \in Seq(NALUType) /\ Append(nals, n) # <<>>
         /\ \A i \in 1..Len(Append(nals, n)) : HeadedNAL(Append(nals, n)[i])
<1> DEFINE new == Append(nals, n)
<1>1. /\ new \in Seq(NALUType) /\ new # <<>> /\ Len(new) = Len(nals) + 1
      /\ \A i \in 1..Len(nals) : new[i] = nals[i]
      /\ new[Len(nals) + 1] = n
  BY AppendProperties
<1>2. Len(nals) \in Nat
  OBVIOUS
<1>3. ASSUME NEW i \in 1..Len(new) PROVE HeadedNAL(new[i])
  <2> HIDE DEF new
  <2> QED
    BY <1>1, <1>2
<1> QED
  BY <1>1, <1>3

LEMMA ExceptHeaded ==
  ASSUME NEW nals \in Seq(NALUType), NEW n \in NALUType, HeadedNAL(n), nals # <<>>,
         \A i \in 1..Len(nals) : HeadedNAL(nals[i])
  PROVE  LET new == [nals EXCEPT ![Len(nals)] = n]
         IN  /\ new \in Seq(NALUType) /\ new # <<>>
             /\ \A i \in 1..Len(new) : HeadedNAL(new[i])
<1> DEFINE new == [nals EXCEPT ![Len(nals)] = n]
<1>1. Len(nals) \in Nat \ {0} /\ Len(nals) \in 1..Len(nals)
  OBVIOUS
<1>2. new \in Seq(NALUType) /\ Len(new) = Len(nals)
  BY <1>1, ExceptSeq
<1>3. \A i \in 1..Len(nals) : new[i] = IF i = Len(nals) THEN n ELSE nals[i]
  BY <1>1, ExceptSeq
<1> HIDE DEF new
<1>4. new # <<>> /\ \A i \in 1..Len(new) : HeadedNAL(new[i])
  BY <1>1, <1>2, <1>3
<1> QED
  BY <1>2, <1>4 DEF new
-----------------------------------------------------------------------------
(* Sums in 32 bits: of two numbers of which neither is longer than the     *)
(* buffer, and of one such number with -1.                                 *)
LEMMA Remainder ==
  ASSUME NEW S \in Nat \ {0}, NEW q \in Int, NEW r \in 0..(S - 1)
  PROVE  (S * q + r) % S = r
<1> DEFINE x == S * q + r
           k == x \div S
           m == x % S
<1>1. x \in Int /\ S * q \in Int
  OBVIOUS
<1> HIDE DEF x
<1>2. x = S * k + m /\ k \in Int /\ m \in 0..(S - 1)
  BY <1>1
<1> HIDE DEF k, m
<1>3. CASE q > k
  <2>1. S * (q - k) >= S /\ S * (q - k) = S * q - S * k
    BY <1>2, <1>3
  <2> QED
    BY <1>1, <1>2, <2>1 DEF x
<1>4. CASE q < k
  <2>1. S * (k - q) >= S /\ S * (k - q) = S * k - S * q
    BY <1>2, <1>4
  <2> QED
    BY <1>1, <1>2, <2>1 DEF x
<1>5. CASE q = k
  BY <1>1, <1>2, <1>5 DEF m, x
<1> QED
  BY <1>2, <1>3, <1>4, <1>5 DEF m, x

LEMMA Sums ==
  ASSUME NEW S \in Nat, NEW max \in Nat, max >= 4, S > 2 * max
  PROVE  /\ \A n \in 0..(2 * max) : n % S = n
         /\ (-1) % S = S - 1
         /\ \A n \in 0..max : (n + 5 + (S - 1)) % S = n + 4
<1>1. S \in Nat \ {0}
  OBVIOUS
<1>2. ASSUME NEW n \in 0..(2 * max) PROVE n % S = n
  <2>1. n \in 0..(S - 1) /\ S * 0 + n = n
    OBVIOUS
  <2>2. (S * 0 + n) % S = n
    BY ONLY <1>1, <2>1, Remainder
  <2> QED
    BY ONLY <2>1, <2>2, Zenon
<1>3. (-1) % S = S - 1
  <2>1. S - 1 \in 0..(S - 1) /\ S * (-1) + (S - 1) = -1 /\ -1 \in Int
    OBVIOUS
  <2>2. (S * (-1) + (S - 1)) % S = S - 1
    BY ONLY <1>1, <2>1, Remainder
  <2> QED
    BY ONLY <2>1, <2>2, Zenon
<1>4. ASSUME NEW n \in 0..max PROVE (n + 5 + (S - 1)) % S = n + 4
  <2>1. n + 4 \in 0..(S - 1) /\ S * 1 + (n + 4) = n + 5 + (S - 1)
    OBVIOUS
  <2>2. (S * 1 + (n + 4)) % S = n + 4
    BY ONLY <1>1, <2>1, Remainder
  <2> QED
    BY ONLY <2>1, <2>2, Zenon
<1> QED
  BY <1>2, <1>3, <1>4

(* What the test for the room lets through: data whose length did not wrap *)
(* only if it fits; and the first data of a picture always.                *)
LEMMA RoomFor ==
  ASSUME NEW frame, NEW p, Full(frame), DataPacket(p)
  PROVE  /\ DataLen(p) \in Nat
         /\ Spills(frame, p) => Bytes(p) < 0
         /\ Room(frame, p) /\ ~Spills(frame, p) => End(frame, p) <= MaxFrameSize
         /\ HasHeader(p) /\ frame.m_NALs = <<>> => Room(frame, p)
<1> DEFINE len == frame.m_encodedFrameLen
           b   == Bytes(p)
           max == MaxFrameSize
           S   == LenRange
<1>1. /\ len \in Nat /\ len <= max /\ max \in Nat /\ S \in Nat /\ S > 2 * max
      /\ b \in -1..(max - 5)
      /\ frame.m_NALs = <<>> => len = 0
  BY MaxFrameSizeAssumption, LenRangeAssumption DEF Full, FrameType, DataPacket
<1>2. DataLen(p) = b % S /\ End(frame, p) = len + headerLen(p) + DataLen(p)
  BY DEF DataLen, End
<1>3. headerLen(p) = IF HasHeader(p) THEN 5 ELSE 0
  BY DEF headerLen
<1> HIDE DEF len, b
<1>4. max >= 4
  BY <1>1
<1>5. /\ \A n \in 0..(2 * max) : n % S = n
      /\ (-1) % S = S - 1
      /\ \A n \in 0..max : (n + 5 + (S - 1)) % S = n + 4
  BY <1>1, <1>4, Sums
<1>6. CASE b >= 0
  <2>1. b % S = b
    <3>1. b \in 0..(2 * max)
      BY <1>1, <1>6
    <3> QED
      BY <1>5, <3>1
  <2>2. len + headerLen(p) + b \in 0..(2 * max)
    BY <1>1, <1>3, <1>6
  <2>3. End(frame, p) % S = End(frame, p) /\ End(frame, p) \in 0..(2 * max)
    BY <1>2, <1>5, <2>1, <2>2
  <2>4. Room(frame, p) <=> End(frame, p) <= max
    BY <2>3 DEF Room
  <2>5. ~Spills(frame, p)
    BY <1>1, <2>3, <2>4 DEF Spills
  <2>6. HasHeader(p) /\ frame.m_NALs = <<>> => End(frame, p) <= max
    BY <1>1, <1>2, <1>3, <1>6, <2>1
  <2> QED
    BY <1>1, <1>2, <1>6, <2>1, <2>4, <2>5, <2>6
<1>7. CASE b < 0
  <2>1. b = -1 /\ b % S = S - 1
    <3>1. b = -1
      BY <1>1, <1>7
    <3> QED
      BY <1>5, <3>1
  <2>2. DataLen(p) \in Nat /\ End(frame, p) \in Nat
    BY <1>1, <1>2, <1>3, <2>1
  <2>3. Room(frame, p) /\ ~Spills(frame, p) => End(frame, p) <= max
    BY <1>1, <2>2 DEF Spills
  <2>4. HasHeader(p) /\ frame.m_NALs = <<>> => Room(frame, p)
    <3> SUFFICES ASSUME HasHeader(p), frame.m_NALs = <<>> PROVE Room(frame, p)
      OBVIOUS
    <3>1. len = 0 /\ End(frame, p) = 0 + 5 + (S - 1)
      BY <1>1, <1>2, <1>3, <2>1
    <3>2. End(frame, p) % S = 0 + 4
      BY <1>1, <1>5, <3>1
    <3> QED
      BY <1>1, <1>4, <3>2 DEF Room
  <2> QED
    BY <1>7, <2>2, <2>3, <2>4 DEF b
<1> QED
  BY <1>1, <1>6, <1>7

(* AddDataToEncodedFrame, with a header byte and without.                  *)
LEMMA AddHeadedFull ==
  ASSUME NEW frame, NEW p \in Data, Full(frame), DataPacket(p), HasHeader(p),
         ~Spills(frame, p)
  PROVE  /\ Full(AddHeaded(frame, p))
         /\ AddHeaded(frame, p).m_NALs # <<>>
         /\ AddHeaded(frame, p).m_currentFU = frame.m_currentFU
<1> DEFINE len  == frame.m_encodedFrameLen
           nals == frame.m_NALs
           new  == NALU(p, len + 4)
           more == Append(nals, new)
<1>1. /\ nals \in Seq(NALUType) /\ len \in Nat /\ frame.m_currentFU \in 0..(FURange - 1)
      /\ End(frame, p) \in Nat /\ MaxFrameSize \in Nat
  BY MaxFrameSizeAssumption, RoomFor DEF Full, FrameType, End, headerLen
<1>2. CASE ~Room(frame, p)
  <2>1. AddHeaded(frame, p) = frame
    BY <1>2 DEF AddHeaded
  <2>2. nals # <<>>
    BY <1>2, RoomFor
  <2> QED
    BY <2>1, <2>2
<1>3. CASE Room(frame, p)
  <2>1. AddHeaded(frame, p) = Frame(more, End(frame, p), frame.m_currentFU)
    BY <1>3 DEF AddHeaded
  <2>2. new \in NALUType /\ HeadedNAL(new)
    BY <1>1, NALUHeaded
  <2>3. \A i \in 1..Len(nals) : HeadedNAL(nals[i])
    BY DEF Full
  <2>4. /\ more \in Seq(NALUType) /\ more # <<>>
        /\ \A i \in 1..Len(more) : HeadedNAL(more[i])
    <3> HIDE DEF nals, new
    <3> QED
      BY <1>1, <2>2, <2>3, AppendHeaded
  <2> HIDE DEF more, nals, len
  <2>5. End(frame, p) \in Nat /\ End(frame, p) <= MaxFrameSize
    BY <1>1, <1>3, RoomFor
  <2> QED
    BY <1>1, <2>1, <2>4, <2>5 DEF Full, Frame, FrameType
<1> QED
  BY <1>2, <1>3

LEMMA AddMoreFull ==
  ASSUME NEW frame, NEW p \in Data, Full(frame), DataPacket(p), ~HasHeader(p),
         frame.m_NALs # <<>>, ~Spills(frame, p)
  PROVE  Full(AddMore(frame, p)) /\ AddMore(frame, p).m_NALs # <<>>
<1> DEFINE len  == frame.m_encodedFrameLen
           nals == frame.m_NALs
           n    == More(nals[Len(nals)], p)
           more == [nals EXCEPT ![Len(nals)] = n]
<1>1. /\ nals \in Seq(NALUType) /\ len \in Nat /\ frame.m_currentFU \in 0..(FURange - 1)
      /\ End(frame, p) \in Nat /\ MaxFrameSize \in Nat
  BY MaxFrameSizeAssumption, RoomFor DEF Full, FrameType, End, headerLen
<1>2. CASE ~Room(frame, p)
  BY <1>2 DEF AddMore
<1>3. CASE Room(frame, p)
  <2>1. AddMore(frame, p) = Frame(more, End(frame, p), frame.m_currentFU)
    BY <1>3 DEF AddMore
  <2>2. \A i \in 1..Len(nals) : HeadedNAL(nals[i])
    BY DEF Full
  <2>3. nals # <<>> /\ Len(nals) \in 1..Len(nals) /\ nals[Len(nals)] \in NALUType
    <3> HIDE DEF nals
    <3>1. nals # <<>>
      BY DEF nals
    <3> QED
      BY <1>1, <3>1
  <2>4. n \in NALUType /\ HeadedNAL(n)
    <3> HIDE DEF nals
    <3> QED
      BY <2>2, <2>3, MoreHeaded
  <2>5. /\ more \in Seq(NALUType) /\ more # <<>>
        /\ \A i \in 1..Len(more) : HeadedNAL(more[i])
    <3> HIDE DEF nals, n
    <3> QED
      BY <1>1, <2>2, <2>3, <2>4, ExceptHeaded
  <2> HIDE DEF more, nals, len
  <2>6. End(frame, p) \in Nat /\ End(frame, p) <= MaxFrameSize
    BY <1>1, <1>3, RoomFor
  <2> QED
    BY <1>1, <2>1, <2>5, <2>6 DEF Full, Frame, FrameType
<1> QED
  BY <1>2, <1>3
-----------------------------------------------------------------------------
LEMMA EmptiedGood == Good(Emptied)
<1>1. 0 \in 0..(FURange - 1) /\ 0 <= MaxFrameSize
  BY FURangeAssumption, MaxFrameSizeAssumption
<1>2. <<>> \in Seq(NALUType) /\ Len(<<>>) = 0
  OBVIOUS
<1> QED
  BY <1>1, <1>2 DEF Good, Full, Emptied, Frame, FrameType

LEMMA CountingFull ==
  ASSUME NEW frame, Full(frame), NEW fu \in 0..(FURange - 1)
  PROVE  /\ Full(Counting(frame, fu))
         /\ Counting(frame, fu).m_NALs = frame.m_NALs
         /\ Counting(frame, fu).m_currentFU = fu
         /\ Counting(frame, fu).m_encodedFrameLen = frame.m_encodedFrameLen
BY DEF Full, Counting, Frame, FrameType

LEMMA CountingSpills ==
  ASSUME NEW frame, NEW fu, NEW p
  PROVE  Spills(Counting(frame, fu), p) <=> Spills(frame, p)
BY DEF Spills, Room, End, Counting, Frame

(* The data of a packet that arrives.                                      *)
LEMMA ArrivingData ==
  ASSUME NEW p \in Inputs
  PROVE  /\ p.kind \in {"single", "fu"} => p \in Data /\ DataPacket(p)
         /\ p.kind = "stap" =>
              \A i \in 1..2 : /\ p.units[i] \in Data /\ DataPacket(p.units[i])
                              /\ HasHeader(p.units[i])
BY InputsAssumption DEF Data, HasHeader

LEMMA OpenFUGood ==
  ASSUME NEW frame, Good(frame), NEW p \in Data, DataPacket(p), HasHeader(p),
         frame.m_currentFU = 0 => ~Spills(frame, p)
  PROVE  Good(OpenFU(frame, p))
<1> DEFINE one == Counting(frame, 1)
<1>1. Full(one) /\ one.m_NALs = frame.m_NALs /\ one.m_currentFU = 1
  BY CountingFull, FURangeAssumption DEF Good
<1>2. CASE frame.m_currentFU > 0
  <2>1. OpenFU(frame, p) = one
    BY <1>2 DEF OpenFU
  <2> QED
    BY <1>1, <1>2, <2>1 DEF Good
<1>3. CASE ~(frame.m_currentFU > 0)
  <2>1. OpenFU(frame, p) = AddHeaded(one, p) /\ ~Spills(one, p)
    <3>1. frame.m_currentFU = 0
      BY <1>3, FURangeAssumption DEF Good, Full, FrameType
    <3> QED
      BY <1>3, <3>1, CountingSpills DEF OpenFU
  <2> HIDE DEF one
  <2> QED
    BY <1>1, <2>1, AddHeadedFull DEF Good
<1> QED
  BY <1>2, <1>3

LEMMA ContinueGood ==
  ASSUME NEW frame, Good(frame), frame.m_currentFU > 0,
         NEW p \in Data, DataPacket(p), ~HasHeader(p), ~Spills(frame, p),
         NEW fu \in 0..(FURange - 1)
  PROVE  Good(AddMore(Counting(frame, fu), p))
<1> DEFINE next == Counting(frame, fu)
<1>1. Full(next) /\ next.m_NALs # <<>> /\ ~Spills(next, p)
  BY CountingFull, CountingSpills DEF Good
<1> HIDE DEF next
<1>2. Full(AddMore(next, p)) /\ AddMore(next, p).m_NALs # <<>>
  BY <1>1, AddMoreFull
<1> QED
  BY <1>2 DEF Good, next

(* When nothing spills, each call of AddDataToEncodedFrame returns.        *)
LEMMA SpilledNothing ==
  ASSUME NEW frame, NEW p, Spilled(frame, p) = {}
  PROVE  /\ p.kind = "single" => ~Spills(frame, p)
         /\ p.kind = "stap" => /\ ~Spills(frame, p.units[1])
                               /\ ~Spills(AddHeaded(frame, p.units[1]), p.units[2])
         /\ p.kind = "fu" /\ ~(p.start /\ p.end) /\ (p.start <=> frame.m_currentFU = 0) =>
              ~Spills(frame, p)
<1>1. CASE p.kind = "single"
  BY <1>1 DEF Spilled
<1>2. CASE p.kind = "stap"
  BY <1>2 DEF Spilled
<1>3. CASE p.kind = "fu"
  BY <1>3 DEF Spilled
<1> QED
  BY <1>1, <1>2, <1>3

(* And what spills is data whose length wrapped.                           *)
LEMMA SpilledWrapped ==
  ASSUME NEW frame, Full(frame), NEW p \in Inputs
  PROVE  Spilled(frame, p) \subseteq Data /\ \A d \in Spilled(frame, p) : Bytes(d) < 0
<1> SUFFICES ASSUME NEW d \in Spilled(frame, p) PROVE d \in Data /\ Bytes(d) < 0
  OBVIOUS
<1>1. CASE p.kind \in {"single", "fu"}
  <2>1. d = p /\ Spills(frame, p)
    BY <1>1 DEF Spilled
  <2> QED
    BY <1>1, <2>1, ArrivingData, RoomFor
<1>2. CASE p.kind = "stap"
  <2>1. \A i \in 1..2 : /\ p.units[i] \in Data /\ DataPacket(p.units[i])
                        /\ HasHeader(p.units[i])
    BY <1>2, ArrivingData
  <2>2. CASE Spills(frame, p.units[1])
    <3>1. d = p.units[1]
      BY <1>2, <2>2 DEF Spilled
    <3> QED
      BY <2>1, <2>2, <3>1, RoomFor
  <2>3. CASE ~Spills(frame, p.units[1])
    <3> DEFINE once == AddHeaded(frame, p.units[1])
    <3>1. d = p.units[2] /\ Spills(once, d)
      BY <1>2, <2>3 DEF Spilled
    <3>2. Full(once)
      BY <2>1, <2>3, AddHeadedFull
    <3> HIDE DEF once
    <3> QED
      BY <2>1, <3>1, <3>2, RoomFor
  <2> QED
    BY <2>2, <2>3
<1>3. CASE p.kind \in {"empty", "unknown"}
  BY <1>3 DEF Spilled
<1> QED
  BY <1>1, <1>2, <1>3, InputsAssumption

(* SetFromRTPFrame keeps a good picture good, whatever packet it takes.    *)
LEMMA SetFromRTPFrameGood ==
  ASSUME NEW frame, Good(frame), NEW p \in Inputs, Takes(frame, p), Spilled(frame, p) = {}
  PROVE  Good(SetFromRTPFrame(frame, p))
<1>1. CASE p.kind = "empty"
  BY <1>1 DEF SetFromRTPFrame
<1>2. CASE p.kind = "single"
  <2>1. p \in Data /\ DataPacket(p) /\ HasHeader(p) /\ ~Spills(frame, p)
    BY <1>2, ArrivingData, SpilledNothing DEF HasHeader
  <2> QED
    BY <1>2, <2>1, AddHeadedFull DEF SetFromRTPFrame, Good
<1>3. CASE p.kind = "stap"
  <2> DEFINE once  == AddHeaded(frame, p.units[1])
             twice == AddHeaded(once, p.units[2])
  <2>1. \A i \in 1..2 : /\ p.units[i] \in Data /\ DataPacket(p.units[i])
                        /\ HasHeader(p.units[i])
    BY <1>3, ArrivingData
  <2>0. ~Spills(frame, p.units[1]) /\ ~Spills(once, p.units[2])
    BY <1>3, SpilledNothing
  <2>2. Full(once)
    BY <2>0, <2>1, AddHeadedFull DEF Good
  <2>3. Full(twice) /\ twice.m_NALs # <<>>
    <3> HIDE DEF once
    <3> QED
      BY <2>0, <2>1, <2>2, AddHeadedFull
  <2>4. SetFromRTPFrame(frame, p) = twice
    BY <1>3 DEF SetFromRTPFrame
  <2> QED
    BY <2>3, <2>4 DEF Good
<1>4. CASE p.kind = "fu"
  <2>1. p \in Data /\ DataPacket(p) /\ p.start \in BOOLEAN /\ p.end \in BOOLEAN
    BY <1>4, ArrivingData DEF DataPacket
  <2>0. /\ p.start /\ frame.m_currentFU = 0 => ~Spills(frame, p)
        /\ ~p.start => ~Spills(frame, p)
    BY <1>4, SpilledNothing DEF Takes
  <2>2. SetFromRTPFrame(frame, p) = DeencapsulateFU(frame, p)
    BY <1>4 DEF SetFromRTPFrame
  <2>3. CASE p.start
    <3>1. DeencapsulateFU(frame, p) = OpenFU(frame, p)
      BY <2>3 DEF DeencapsulateFU
    <3>2. HasHeader(p)
      BY <2>3 DEF HasHeader
    <3> QED
      BY <2>0, <2>1, <2>2, <2>3, <3>1, <3>2, OpenFUGood
  <2>4. CASE ~p.start
    <3>1. ~HasHeader(p) /\ frame.m_currentFU > 0
      BY <1>4, <2>4 DEF HasHeader, Takes
    <3>2. CASE p.end
      <4>1. DeencapsulateFU(frame, p) = AddMore(Counting(frame, 0), p)
        BY <2>4, <3>2 DEF DeencapsulateFU
      <4>2. 0 \in 0..(FURange - 1)
        BY FURangeAssumption
      <4> QED
        BY <2>0, <2>1, <2>2, <2>4, <3>1, <4>1, <4>2, ContinueGood
    <3>3. CASE ~p.end
      <4> DEFINE fu == (frame.m_currentFU + 1) % FURange
      <4>1. DeencapsulateFU(frame, p) = AddMore(Counting(frame, fu), p)
        BY <2>4, <3>3 DEF DeencapsulateFU
      <4>2. fu \in 0..(FURange - 1)
        BY FURangeAssumption DEF Good, Full, FrameType
      <4> HIDE DEF fu
      <4> QED
        BY <2>0, <2>1, <2>2, <2>4, <3>1, <4>1, <4>2, ContinueGood
    <3> QED
      BY <3>2, <3>3
  <2> QED
    BY <2>3, <2>4
<1> QED
  BY <1>1, <1>2, <1>3, <1>4 DEF Takes

-----------------------------------------------------------------------------
(* The invariant is inductive: one step per outcome of DecodeFrames.       *)
LEMMA InitInv == Init => IInv
<1>1. <<>> \in Seq(NALUType)
  OBVIOUS
<1> QED
  BY <1>1, EmptiedGood DEF Init, IInv

LEMMA NextInv == IInv /\ [Next]_vars => IInv'
<1> SUFFICES ASSUME IInv, [Next]_vars PROVE IInv'
  OBVIOUS
<1>0. <<>> \in Seq(NALUType)
  OBVIOUS
<1>1. ASSUME NEW p \in Inputs, Refuse(p) PROVE IInv'
  BY <1>0, <1>1, EmptiedGood DEF IInv, Refuse, Returns
<1>2. ASSUME NEW p \in Inputs, Collect(p) PROVE IInv'
  BY <1>0, <1>2, SetFromRTPFrameGood DEF IInv, Collect, Returns
<1>3. ASSUME NEW p \in Inputs, Drop(p) PROVE IInv'
  BY <1>0, <1>3, EmptiedGood DEF IInv, Drop, Returns
<1>4. ASSUME NEW p \in Inputs, Deliver(p) PROVE IInv'
  <2>1. Good(SetFromRTPFrame(m_fullFrame, p))
    BY <1>4, SetFromRTPFrameGood DEF IInv, Deliver, Returns
  <2>2. SetFromRTPFrame(m_fullFrame, p).m_NALs \in Seq(NALUType)
    BY <2>1 DEF Good, Full, FrameType
  <2> QED
    BY <1>4, <2>2, EmptiedGood DEF IInv, Deliver
<1>5. ASSUME NEW p \in Inputs, Overrun(p) PROVE IInv'
  <2>1. /\ overran' = Spilled(m_fullFrame, p)
        /\ UNCHANGED <<m_fullFrame, m_bHaveGetKeyFrame, dst>>
    BY <1>5 DEF Overrun
  <2>2. overran' \subseteq Data /\ \A d \in overran' : Bytes(d) < 0
    BY <2>1, SpilledWrapped DEF IInv, Good
  <2> QED
    BY <2>1, <2>2 DEF IInv
<1>6. CASE UNCHANGED vars
  BY <1>6 DEF IInv, vars
<1> QED
  BY <1>1, <1>2, <1>3, <1>4, <1>5, <1>6 DEF Next

LEMMA Invariant == Spec => []IInv
BY InitInv, NextInv, PTL DEF Spec

(* Type correctness: the fields of the picture under assembly and the NAL  *)
(* units given to the decoder, m_currentFU within its width.               *)
THEOREM TypeCorrect == Spec => []TypeOK
<1>1. IInv => TypeOK
  BY DEF IInv, Good, Full, TypeOK
<1> QED
  BY <1>1, Invariant, PTL

(* AddDataToEncodedFrame never writes past the end of the buffer, but for  *)
(* data that ends within its packet's headers, for every buffer of which   *)
(* two fit into the range of dataLen.                                      *)
THEOREM BufferFitsCorrect == Spec => []BufferFits
<1>1. IInv => BufferFits
  BY DEF IInv, Good, Full, BufferFits
<1> QED
  BY <1>1, Invariant, PTL

(* SetFromRTPFrame never adds the data of a fragment to a NAL unit that    *)
(* does not exist.                                                         *)
THEOREM OpenHasNALCorrect == Spec => []OpenHasNAL
<1>1. IInv => OpenHasNAL
  BY DEF IInv, Good, OpenHasNAL, NALs
<1> QED
  BY <1>1, Invariant, PTL

(* Every NAL unit under assembly begins with data that had a header byte   *)
(* and has no other one inside, whatever packets arrived.                  *)
THEOREM HeadedCorrect == Spec => []Headed
<1>1. IInv => Headed
  BY DEF IInv, Good, Full, HeadedNAL, Headed, NALs
<1> QED
  BY <1>1, Invariant, PTL

-----------------------------------------------------------------------------
(* The bytes of a NAL unit are added up piece by piece.                    *)

(* Induction over the natural numbers, for a set.                          *)
LEMMA SetInduction ==
  ASSUME NEW T, 0 \in T, \A n \in Nat : n \in T => n + 1 \in T
  PROVE  Nat \subseteq T
<1> DEFINE R == OpToRel(<, Nat)
<1>1. IsWellFoundedOn(R, Nat)
  BY NatLessThanWellFounded
<1>2. \A x, y \in Nat : x < y => <<x, y>> \in R
  BY DEF OpToRel
<1> HIDE DEF R
<1> SUFFICES ASSUME Nat \ T # {} PROVE FALSE
  OBVIOUS
<1>3. PICK x \in Nat \ T : \A y \in Nat \ T : ~(<<y, x>> \in R)
  BY <1>1, WFMin
<1>4. x - 1 \in Nat /\ x - 1 < x /\ x = x - 1 + 1
  BY <1>3
<1> QED
  BY <1>2, <1>3, <1>4

Adds(f, pieces, m) ==
  f[0] = 1 /\ \A i \in 1..m : f[i] = f[i - 1] + DataLen(pieces[i])

LEMMA DataTyped == \A p \in Data : DataPacket(p) /\ DataLen(p) \in Nat
<1> SUFFICES ASSUME NEW p \in Data PROVE DataPacket(p) /\ DataLen(p) \in Nat
  OBVIOUS
<1>1. DataPacket(p)
  BY InputsAssumption DEF Data
<1>2. Bytes(p) \in Int /\ LenRange \in Nat \ {0}
  BY <1>1, MaxFrameSizeAssumption, LenRangeAssumption DEF DataPacket
<1> QED
  BY <1>1, <1>2 DEF DataLen

LEMMA AddsExists ==
  ASSUME NEW pieces \in Seq(Data)
  PROVE  \E f \in [0..Len(pieces) -> Nat] : Adds(f, pieces, Len(pieces))
<1> USE DEF Adds
<1> DEFINE Upto(m) == \E f \in [0..m -> Nat] : Adds(f, pieces, m)
           T == {m \in Nat : m <= Len(pieces) => Upto(m)}
<1>1. Len(pieces) \in Nat /\ \A i \in 1..Len(pieces) : DataLen(pieces[i]) \in Nat
  BY DataTyped, ElementOfSeq, LenProperties
<1>2. 0 \in T
  <2> DEFINE f == [i \in 0..0 |-> 1]
  <2>1. f \in [0..0 -> Nat] /\ f[0] = 1
    OBVIOUS
  <2>2. \A i : i \notin 1..0
    OBVIOUS
  <2> HIDE DEF f
  <2> QED
    BY <2>1, <2>2
<1>3. ASSUME NEW m \in Nat, m \in T PROVE m + 1 \in T
  <2> SUFFICES ASSUME m + 1 <= Len(pieces) PROVE Upto(m + 1)
    <3> HIDE DEF Upto
    <3> QED
      OBVIOUS
  <2>1. m <= Len(pieces) /\ m + 1 \in 1..Len(pieces)
    BY <1>1
  <2>2. PICK f \in [0..m -> Nat] : Adds(f, pieces, m)
    BY <1>3, <2>1
  <2> DEFINE g == [i \in 0..(m + 1) |-> IF i = m + 1 THEN f[m] + DataLen(pieces[m + 1]) ELSE f[i]]
  <2>3. f[m] + DataLen(pieces[m + 1]) \in Nat
    BY <1>1, <2>1, <2>2
  <2>4. g \in [0..(m + 1) -> Nat]
    BY <2>2, <2>3
  <2>5. g[0] = 1
    BY <2>2
  <2>6. ASSUME NEW i \in 1..(m + 1) PROVE g[i] = g[i - 1] + DataLen(pieces[i])
    <3>1. CASE i = m + 1
      <4>1. m + 1 \in 0..(m + 1) /\ m \in 0..(m + 1) /\ m # m + 1 /\ i - 1 = m
        BY <3>1
      <4> QED
        BY <3>1, <4>1
    <3>2. CASE i # m + 1
      <4>1. i \in 1..m /\ i \in 0..(m + 1) /\ i - 1 \in 0..(m + 1) /\ i - 1 # m + 1
        BY <3>2
      <4> QED
        BY <2>2, <3>2, <4>1
    <3> QED
      BY <3>1, <3>2
  <2> QED
    BY <2>4, <2>5, <2>6
<1>4. Len(pieces) \in T
  <2> HIDE DEF T
  <2> QED
    BY <1>1, <1>2, <1>3, SetInduction
<1> QED
  BY <1>1, <1>4

LEMMA AddsOnce ==
  ASSUME NEW m \in Nat, NEW pieces, NEW f, NEW g,
         Adds(f, pieces, m), Adds(g, pieces, m)
  PROVE  f[m] = g[m]
<1> USE DEF Adds
<1> DEFINE T == {k \in Nat : k <= m => f[k] = g[k]}
<1>1. 0 \in T
  OBVIOUS
<1>2. ASSUME NEW k \in Nat, k \in T PROVE k + 1 \in T
  <2> SUFFICES ASSUME k + 1 <= m PROVE f[k + 1] = g[k + 1]
    OBVIOUS
  <2>1. k + 1 \in 1..m /\ (k + 1) - 1 = k /\ k <= m
    OBVIOUS
  <2> QED
    BY <1>2, <2>1
<1>3. m \in T
  <2> HIDE DEF T
  <2> QED
    BY <1>1, <1>2, SetInduction
<1> QED
  BY <1>3

LEMMA BytesAdded ==
  ASSUME NEW n, n.pieces \in Seq(Data)
  PROVE  \E f \in [0..Len(n.pieces) -> Nat] :
           Adds(f, n.pieces, Len(n.pieces)) /\ NALBytes(n) = f[Len(n.pieces)]
<1> DEFINE Counted(f) == f = [i \in 0..Len(n.pieces) |->
                                IF i = 0 THEN 1 ELSE f[i - 1] + DataLen(n.pieces[i])]
           add[i \in 0..Len(n.pieces)] ==
             IF i = 0 THEN 1 ELSE add[i - 1] + DataLen(n.pieces[i])
<1>1. NALBytes(n) = add[Len(n.pieces)]
  BY DEF NALBytes
<1>2. Len(n.pieces) \in Nat
  BY LenProperties
<1>3. PICK f \in [0..Len(n.pieces) -> Nat] : Adds(f, n.pieces, Len(n.pieces))
  BY AddsExists
<1>4. Counted(f)
  <2>1. ASSUME NEW i \in 0..Len(n.pieces)
        PROVE  f[i] = IF i = 0 THEN 1 ELSE f[i - 1] + DataLen(n.pieces[i])
    <3>1. CASE i = 0
      BY <1>3, <3>1 DEF Adds
    <3>2. CASE i # 0
      <4>1. i \in 1..Len(n.pieces)
        BY <1>2, <3>2
      <4> QED
        BY <1>3, <3>2, <4>1 DEF Adds
    <3> QED
      BY <3>1, <3>2
  <2> QED
    BY <1>3, <2>1
<1>5. add = CHOOSE h : Counted(h)
  BY DEF add
<1>6. Counted(add)
  <2> HIDE DEF add, Counted
  <2> QED
    BY <1>4, <1>5
<1> HIDE DEF add
<1>7. Adds(add, n.pieces, Len(n.pieces))
  <2> DEFINE L == Len(n.pieces)
             F == [i \in 0..L |-> IF i = 0 THEN 1 ELSE add[i - 1] + DataLen(n.pieces[i])]
  <2>1. F[0] = 1 /\ \A i \in 1..L : F[i] = add[i - 1] + DataLen(n.pieces[i])
    <3>1. 0 \in 0..L /\ \A i \in 1..L : i \in 0..L /\ i # 0
      BY <1>2
    <3> QED
      BY <3>1
  <2>2. add = F
    BY <1>6
  <2> HIDE DEF F
  <2> QED
    BY <2>1, <2>2 DEF Adds
<1>8. f[Len(n.pieces)] = add[Len(n.pieces)]
  BY <1>2, <1>3, <1>7, AddsOnce
<1> QED
  BY <1>1, <1>3, <1>8

LEMMA BytesOfFirst ==
  ASSUME NEW p \in Data, NEW offset
  PROVE  NALBytes(NALU(p, offset)) = DataLen(p) + 1
<1> DEFINE n == NALU(p, offset)
<1>1. n.pieces = <<p>> /\ <<p>> \in Seq(Data) /\ Len(<<p>>) = 1 /\ <<p>>[1] = p
  BY DEF NALU
<1> HIDE DEF n
<1>2. PICK f \in [0..1 -> Nat] : Adds(f, <<p>>, 1) /\ NALBytes(n) = f[1]
  BY <1>1, BytesAdded
<1>3. 1 \in 1..1 /\ 1 - 1 = 0
  OBVIOUS
<1>4. f[0] = 1 /\ f[1] = f[1 - 1] + DataLen(<<p>>[1])
  BY <1>1, <1>2, <1>3 DEF Adds
<1>5. NALBytes(n) = 1 + DataLen(p) /\ DataLen(p) \in Nat
  BY <1>1, <1>2, <1>3, <1>4, DataTyped
<1> QED
  BY <1>5 DEF n

LEMMA BytesOfMore ==
  ASSUME NEW n \in NALUType, NEW p \in Data
  PROVE  /\ NALBytes(n) \in Nat
         /\ NALBytes(More(n, p)) = NALBytes(n) + DataLen(p)
<1> DEFINE pieces == n.pieces
           more   == Append(pieces, p)
           next   == More(n, p)
<1>1. pieces \in Seq(Data) /\ Len(pieces) \in Nat
  BY DEF NALUType
<1>2. /\ more \in Seq(Data) /\ Len(more) = Len(pieces) + 1
      /\ \A j \in 1..Len(pieces) : more[j] = pieces[j]
      /\ more[Len(pieces) + 1] = p
  BY <1>1, AppendProperties
<1>3. next.pieces = more
  BY DEF More
<1> HIDE DEF next, more
<1>4. PICK f \in [0..Len(pieces) -> Nat] : Adds(f, pieces, Len(pieces)) /\ NALBytes(n) = f[Len(pieces)]
  BY <1>1, BytesAdded
<1>5. PICK g \in [0..Len(more) -> Nat] : Adds(g, more, Len(more)) /\ NALBytes(next) = g[Len(more)]
  BY <1>2, <1>3, BytesAdded
<1> HIDE DEF pieces
<1>6. ASSUME NEW i \in 1..Len(pieces) PROVE g[i] = g[i - 1] + DataLen(pieces[i])
  <2>1. i \in 1..Len(more) /\ more[i] = pieces[i]
    BY <1>1, <1>2
  <2> QED
    BY <1>5, <2>1 DEF Adds
<1>7. Adds(g, pieces, Len(pieces))
  BY <1>5, <1>6 DEF Adds
<1>8. f[Len(pieces)] = g[Len(pieces)]
  BY <1>1, <1>4, <1>7, AddsOnce
<1>9. g[Len(more)] = g[Len(pieces)] + DataLen(p)
  <2>1. Len(more) \in 1..Len(more) /\ Len(more) - 1 = Len(pieces)
    BY <1>1, <1>2
  <2> QED
    BY <1>2, <1>5, <2>1 DEF Adds
<1>10. f[Len(pieces)] \in Nat
  BY <1>1, <1>4
<1> QED
  BY <1>4, <1>5, <1>8, <1>9, <1>10 DEF next

(* The NAL units of a picture tile the buffer, and go on doing so.         *)
Tiling(frame) ==
  LET nals == frame.m_NALs
  IN  /\ \A i \in 1..Len(nals) :
           nals[i].offset + NALBytes(nals[i]) =
             IF i = Len(nals) THEN frame.m_encodedFrameLen ELSE nals[i + 1].offset - 4
      /\ IF nals = <<>> THEN frame.m_encodedFrameLen = 0 ELSE nals[1].offset = 4

LEMMA StartCodeAndHeader == \A x, y \in Nat : (x + 4) + (y + 1) = x + 5 + y
OBVIOUS

LEMMA AddHeadedTiles ==
  ASSUME NEW frame, NEW p \in Data, HasHeader(p), Full(frame), Tiling(frame)
  PROVE  Tiling(AddHeaded(frame, p))
<1> DEFINE len  == frame.m_encodedFrameLen
           nals == frame.m_NALs
           new  == NALU(p, len + 4)
           more == Append(nals, new)
           end  == End(frame, p)
<1>1. nals \in Seq(NALUType) /\ Len(nals) \in Nat /\ len \in Nat /\ DataLen(p) \in Nat
  BY DataTyped, LenProperties DEF Full, FrameType
<1>2. CASE ~Room(frame, p)
  <2>1. AddHeaded(frame, p) = frame
    BY <1>2 DEF AddHeaded
  <2> QED
    BY <2>1
<1>3. CASE Room(frame, p)
  <2>1. /\ AddHeaded(frame, p).m_NALs = more
        /\ AddHeaded(frame, p).m_encodedFrameLen = end
    BY <1>3 DEF AddHeaded, Frame
  <2>2. new.offset = len + 4 /\ NALBytes(new) = DataLen(p) + 1
    BY BytesOfFirst DEF NALU
  <2> HIDE DEF new
  <2>3. /\ Len(more) = Len(nals) + 1 /\ more # <<>>
        /\ more[Len(nals) + 1] = new
        /\ \A i \in 1..Len(nals) : more[i] = nals[i]
    BY <1>1
  <2>4. nals = <<>> <=> Len(nals) = 0
    BY <1>1, EmptySeq
  <2> HIDE DEF more, end
  <2>5. ASSUME NEW i \in 1..Len(more)
        PROVE  more[i].offset + NALBytes(more[i]) =
                 IF i = Len(more) THEN end ELSE more[i + 1].offset - 4
    <3>1. CASE i = Len(nals) + 1
      <4>1. more[i] = new /\ i = Len(more)
        BY <2>3, <3>1
      <4>2. (len + 4) + (DataLen(p) + 1) = end
        <5>1. end = len + 5 + DataLen(p)
          BY DEF end, End, headerLen
        <5>2. len \in Nat /\ DataLen(p) \in Nat
          BY <1>1
        <5> QED
          BY ONLY <5>1, <5>2, StartCodeAndHeader, Zenon
      <4> QED
        BY <2>2, <4>1, <4>2
    <3>2. CASE i = Len(nals)
      <4>1. i \in 1..Len(nals) /\ i # Len(more) /\ more[i] = nals[i] /\ more[i + 1] = new
        BY <1>1, <2>3, <3>2
      <4>2. nals[i].offset + NALBytes(nals[i]) = len
        BY <3>2, <4>1 DEF Tiling
      <4>3. len = (len + 4) - 4
        BY <1>1
      <4> QED
        BY <2>2, <4>1, <4>2, <4>3
    <3>3. CASE i < Len(nals)
      <4>1. /\ i \in 1..Len(nals) /\ i + 1 \in 1..Len(nals)
            /\ i # Len(more) /\ i # Len(nals)
        BY <1>1, <2>3, <3>3
      <4>2. nals[i].offset + NALBytes(nals[i]) = nals[i + 1].offset - 4
        BY <4>1 DEF Tiling
      <4> QED
        BY <2>3, <4>1, <4>2
    <3> QED
      BY <1>1, <2>3, <3>1, <3>2, <3>3
  <2>6. more[1].offset = 4
    <3>1. CASE nals = <<>>
      <4>1. len = 0 /\ more[1] = new
        BY <2>3, <2>4, <3>1 DEF Tiling
      <4> QED
        BY <2>2, <4>1
    <3>2. CASE nals # <<>>
      <4>1. 1 \in 1..Len(nals)
        BY <1>1, <2>4, <3>2
      <4> QED
        BY <2>3, <3>2, <4>1 DEF Tiling
    <3> QED
      BY <3>1, <3>2
  <2> QED
    BY <2>1, <2>3, <2>5, <2>6 DEF Tiling
<1> QED
  BY <1>2, <1>3

LEMMA AddMoreTiles ==
  ASSUME NEW frame, NEW p \in Data, ~HasHeader(p), Full(frame), Tiling(frame),
         frame.m_NALs # <<>>
  PROVE  Tiling(AddMore(frame, p))
<1> DEFINE len  == frame.m_encodedFrameLen
           nals == frame.m_NALs
           n    == nals[Len(nals)]
           next == More(n, p)
           more == [nals EXCEPT ![Len(nals)] = next]
           end  == End(frame, p)
<1>1. /\ nals \in Seq(NALUType) /\ Len(nals) \in Nat \ {0} /\ nals # <<>>
      /\ Len(nals) \in 1..Len(nals) /\ len \in Nat /\ DataLen(p) \in Nat
  <2>1. nals \in Seq(NALUType) /\ nals # <<>> /\ len \in Nat /\ DataLen(p) \in Nat
    BY DataTyped DEF Full, FrameType
  <2> QED
    BY <2>1, EmptySeq, LenProperties
<1>2. CASE ~Room(frame, p)
  <2>1. AddMore(frame, p) = frame
    BY <1>2 DEF AddMore
  <2> QED
    BY <2>1
<1>3. CASE Room(frame, p)
  <2>1. /\ AddMore(frame, p).m_NALs = more
        /\ AddMore(frame, p).m_encodedFrameLen = end
    BY <1>3 DEF AddMore, Frame
  <2>2. n \in NALUType
    BY <1>1, ElementOfSeq
  <2> HIDE DEF n
  <2>3. /\ next.offset = n.offset /\ NALBytes(next) = NALBytes(n) + DataLen(p)
        /\ n.offset \in Nat /\ NALBytes(n) \in Nat
    BY <2>2, BytesOfMore DEF More, NALUType
  <2> HIDE DEF next
  <2>4. /\ Len(more) = Len(nals) /\ more # <<>>
        /\ \A i \in 1..Len(nals) : more[i] = IF i = Len(nals) THEN next ELSE nals[i]
    <3>1. more \in [1..Len(nals) -> {nals[i] : i \in 1..Len(nals)} \cup {next}]
      BY <1>1, LenProperties
    <3>2. Len(more) = Len(nals)
      BY <1>1, LenProperties
    <3> QED
      BY <1>1, <3>1, <3>2, EmptySeq
  <2> HIDE DEF more, end
  <2>5. \A i \in 1..Len(nals) : more[i].offset = nals[i].offset
    BY <2>3, <2>4 DEF n
  <2>6. ASSUME NEW i \in 1..Len(more)
        PROVE  more[i].offset + NALBytes(more[i]) =
                 IF i = Len(more) THEN end ELSE more[i + 1].offset - 4
    <3>1. CASE i = Len(nals)
      <4>1. n.offset + NALBytes(n) = len
        BY <1>1 DEF Tiling, n
      <4>2. more[i] = next
        BY <1>1, <2>4, <3>1
      <4> QED
        BY <1>1, <2>3, <2>4, <3>1, <4>1, <4>2 DEF end, End, headerLen
    <3>2. CASE i < Len(nals)
      <4>1. /\ i \in 1..Len(nals) /\ i + 1 \in 1..Len(nals)
            /\ i # Len(more) /\ i # Len(nals)
        BY <1>1, <2>4, <3>2
      <4>2. nals[i].offset + NALBytes(nals[i]) = nals[i + 1].offset - 4
        BY <4>1 DEF Tiling
      <4>3. more[i] = nals[i] /\ more[i + 1].offset = nals[i + 1].offset
        BY <2>4, <2>5, <4>1
      <4> QED
        BY <4>1, <4>2, <4>3
    <3> QED
      BY <1>1, <2>4, <3>1, <3>2
  <2>7. more[1].offset = 4
    <3>1. 1 \in 1..Len(nals)
      BY <1>1
    <3> QED
      BY <1>1, <2>5, <3>1 DEF Tiling
  <2> QED
    BY <2>1, <2>4, <2>6, <2>7 DEF Tiling
<1> QED
  BY <1>2, <1>3

LEMMA CountingTiles ==
  ASSUME NEW frame, Tiling(frame), NEW fu
  PROVE  Tiling(Counting(frame, fu))
BY DEF Tiling, Counting, Frame

(* SetFromRTPFrame keeps the tiling, whatever packet it takes.             *)
LEMMA SetFromRTPFrameTiles ==
  ASSUME NEW frame, Good(frame), Tiling(frame), NEW p \in Inputs, Takes(frame, p),
         Spilled(frame, p) = {}
  PROVE  Tiling(SetFromRTPFrame(frame, p))
<1>1. CASE p.kind = "empty"
  BY <1>1 DEF SetFromRTPFrame
<1>2. CASE p.kind = "single"
  <2>1. p \in Data /\ HasHeader(p)
    BY <1>2, ArrivingData DEF HasHeader
  <2> QED
    BY <1>2, <2>1, AddHeadedTiles DEF SetFromRTPFrame, Good
<1>3. CASE p.kind = "stap"
  <2> DEFINE once  == AddHeaded(frame, p.units[1])
             twice == AddHeaded(once, p.units[2])
  <2>1. \A i \in 1..2 : /\ p.units[i] \in Data /\ DataPacket(p.units[i])
                        /\ HasHeader(p.units[i])
    BY <1>3, ArrivingData
  <2>2. Full(once) /\ Tiling(once)
    BY <1>3, <2>1, SpilledNothing, AddHeadedFull, AddHeadedTiles DEF Good
  <2>3. Tiling(twice)
    <3> HIDE DEF once
    <3> QED
      BY <2>1, <2>2, AddHeadedTiles
  <2>4. SetFromRTPFrame(frame, p) = twice
    BY <1>3 DEF SetFromRTPFrame
  <2> QED
    BY <2>3, <2>4
<1>4. CASE p.kind = "fu"
  <2>1. p \in Data /\ DataPacket(p) /\ p.start \in BOOLEAN /\ p.end \in BOOLEAN
    BY <1>4, ArrivingData DEF DataPacket
  <2>2. SetFromRTPFrame(frame, p) = DeencapsulateFU(frame, p)
    BY <1>4 DEF SetFromRTPFrame
  <2>3. ASSUME NEW fu \in 0..(FURange - 1)
        PROVE  /\ Full(Counting(frame, fu)) /\ Tiling(Counting(frame, fu))
               /\ Counting(frame, fu).m_NALs = frame.m_NALs
    BY CountingFull, CountingTiles DEF Good
  <2>4. CASE p.start
    <3>1. DeencapsulateFU(frame, p) = OpenFU(frame, p) /\ 1 \in 0..(FURange - 1)
      BY <2>4, FURangeAssumption DEF DeencapsulateFU
    <3>2. Full(Counting(frame, 1)) /\ Tiling(Counting(frame, 1))
      BY <2>3, <3>1
    <3>3. Tiling(AddHeaded(Counting(frame, 1), p))
      <4>1. HasHeader(p)
        BY <2>4 DEF HasHeader
      <4> QED
        BY <2>1, <3>2, <4>1, AddHeadedTiles
    <3> QED
      BY <2>2, <3>1, <3>2, <3>3 DEF OpenFU
  <2>5. CASE ~p.start
    <3>1. frame.m_NALs # <<>>
      BY <1>4, <2>5 DEF Takes, Good
    <3>2. ASSUME NEW fu \in 0..(FURange - 1) PROVE Tiling(AddMore(Counting(frame, fu), p))
      <4>1. /\ Full(Counting(frame, fu)) /\ Tiling(Counting(frame, fu))
            /\ Counting(frame, fu).m_NALs # <<>> /\ ~HasHeader(p)
        BY <1>4, <2>3, <2>5, <3>1 DEF HasHeader
      <4> QED
        BY <2>1, <4>1, AddMoreTiles
    <3>3. (frame.m_currentFU + 1) % FURange \in 0..(FURange - 1) /\ 0 \in 0..(FURange - 1)
      BY FURangeAssumption DEF Good, Full, FrameType
    <3>4. \E fu \in 0..(FURange - 1) : DeencapsulateFU(frame, p) = AddMore(Counting(frame, fu), p)
      BY <2>1, <2>5, <3>3 DEF DeencapsulateFU
    <3> QED
      BY <2>2, <3>2, <3>4
  <2> QED
    BY <2>4, <2>5
<1> QED
  BY <1>1, <1>2, <1>3, <1>4 DEF Takes

LEMMA TilingNext == IInv /\ Tiling(m_fullFrame) /\ [Next]_vars => Tiling(m_fullFrame)'
<1> SUFFICES ASSUME IInv, Tiling(m_fullFrame), [Next]_vars PROVE Tiling(m_fullFrame')
  BY DEF Tiling, NALBytes
<1>1. Tiling(Emptied)
  BY DEF Tiling, Emptied, Frame
<1>2. ASSUME NEW p \in Inputs, Refuse(p) \/ Drop(p) \/ Deliver(p)
      PROVE  Tiling(m_fullFrame')
  BY <1>1, <1>2 DEF Refuse, Drop, Deliver
<1>3. ASSUME NEW p \in Inputs, Collect(p) PROVE Tiling(m_fullFrame')
  BY <1>3, SetFromRTPFrameTiles DEF IInv, Collect, Returns
<1>4. ASSUME (\E p \in Inputs : Overrun(p)) \/ UNCHANGED vars PROVE Tiling(m_fullFrame')
  BY <1>4 DEF Overrun, vars
<1> QED
  BY <1>2, <1>3, <1>4 DEF Next

(* Each NAL unit starts four bytes after the end of the one before, and    *)
(* the last ends where the contents of the buffer end, whatever packets    *)
(* arrived and whatever did not fit.                                       *)
THEOREM TiledCorrect == Spec => []Tiled
<1>1. Init => Tiling(m_fullFrame)
  BY DEF Init, Tiling, Emptied, Frame
<1>2. Tiling(m_fullFrame) => Tiled
  BY DEF Tiling, Tiled, NALs
<1> QED
  BY <1>1, <1>2, Invariant, TilingNext, PTL DEF Spec

-----------------------------------------------------------------------------
(* Playback uses RtpReceiver as it is: each of its steps is a DecodeFrames *)
(* or leaves the receiver alone, so all of the above holds of it.          *)
LEMMA Receives == [PlaybackNext]_playingVars => [Next]_vars
<1> SUFFICES ASSUME [PlaybackNext]_playingVars PROVE [Next]_vars
  OBVIOUS
<1>1. ASSUME NEW p \in Inputs, TakePacket(p) PROVE Next
  BY <1>1 DEF TakePacket, DecodeFrames, Next
<1>2. CASE \/ ButtonPull \/ ButtonStop \/ CreateSession \/ NewDecoder
           \/ InitDecode \/ NewBuffer \/ CreateThread
  BY <1>2 DEF ButtonPull, ButtonStop, CreateSession, NewDecoder, InitDecode, NewBuffer, CreateThread
<1>3. CASE RecvDataThread
  BY <1>3 DEF RecvDataThread, DecodeNothing, Decode, DecodeUnprepared, CopyPicture, Draw,
              DrawMisses, DrawUnprepared
<1>4. CASE UNCHANGED playingVars
  BY <1>4 DEF playingVars
<1> QED
  BY <1>1, <1>2, <1>3, <1>4 DEF PlaybackNext

THEOREM PlaybackReceives == PlaybackSpec => Spec
<1>1. PlaybackInit => Init
  BY DEF PlaybackInit
<1> QED
  BY <1>1, Receives, PTL DEF PlaybackSpec, Spec

-----------------------------------------------------------------------------
(* Until the second press: how far the dialog has come, and what is there  *)
(* then.  The thread is created last.                                      *)
Making ==
  /\ pulls \in Nat /\ threads \in Nat
  /\ threads = 0 => recv = "poll" /\ dst = <<>> /\ ~m_bHaveGetKeyFrame
  /\ pulls = 0 => ui = "idle" /\ threads = 0
  /\ pulls = 1 =>
       /\ m_pDDraw = 1 /\ m_pDDraw \in surfaces \cup blank
       /\ ui \in {"init", "buffer", "thread"} => m_pDecoder = 1
       /\ ui \in {"buffer", "thread"} => m_pDecoder \in opened \cup failed
       /\ ui = "thread" => m_pYUVBuf = 1
       /\ ui # "idle" => threads = 0
       /\ threads > 0 =>
            m_pDecoder = 1 /\ m_pYUVBuf = 1 /\ m_pDecoder \in opened \cup failed
       /\ recv = "crashed" => m_pDDraw \in blank \/ m_pDecoder \in failed \/ overran # {}

(* What the gate lets through has a parameter set, or the decoder has had  *)
(* one: the one that opened the gate.                                      *)
Knowing ==
  /\ m_bHaveGetKeyFrame \in BOOLEAN
  /\ dst # <<>> => m_bHaveGetKeyFrame
  /\ pulls <= 1 /\ m_pDecoder \in opened /\ m_bHaveGetKeyFrame /\ recv # "crashed" =>
       m_pDecoder \in knows \/ (recv = "decode" /\ BringsSet(dst))

(* The buffer holds what the decoder put out last, and so does the window  *)
(* when it has been drawn.                                                 *)
Showing ==
  /\ MaxPulls \in Nat /\ pulls <= MaxPulls
  /\ yuv = [n \in 1..MaxPulls |-> yuv[n]]
  /\ pulls <= 1 =>
       /\ \A n \in 1..MaxPulls : n = 1 => yuv[n] = decoded
       /\ recv = "copy" => target = 1
       /\ recv = "poll" /\ ~missed => screen = decoded

PInv == Making /\ Knowing /\ Showing

LEMMA PlayInit == PlaybackInit => PInv
<1> SUFFICES ASSUME PlaybackInit PROVE PInv
  OBVIOUS
<1>1. Making
  BY DEF PlaybackInit, Init, Making
<1>2. Knowing
  BY DEF PlaybackInit, Init, Knowing
<1>3. Showing
  BY MaxPullsAssumption DEF PlaybackInit, Showing
<1> QED
  BY <1>1, <1>2, <1>3 DEF PInv

(* DecodeFrames opens the gate only for a picture with a parameter set.    *)
LEMMA GateOpens ==
  ASSUME NEW p \in Inputs, DecodeFrames(p), m_bHaveGetKeyFrame \in BOOLEAN,
         dst # <<>> => m_bHaveGetKeyFrame
  PROVE  /\ m_bHaveGetKeyFrame' \in BOOLEAN
         /\ dst' # <<>> => m_bHaveGetKeyFrame'
         /\ m_bHaveGetKeyFrame' => m_bHaveGetKeyFrame \/ BringsSet(dst')
<1>1. CASE Refuse(p) \/ Collect(p) \/ Drop(p) \/ Overrun(p)
  BY <1>1 DEF Refuse, Collect, Drop, Overrun
<1>2. CASE Deliver(p)
  <2> DEFINE frame == SetFromRTPFrame(m_fullFrame, p)
  <2>1. /\ KeyFrame(frame) \/ m_bHaveGetKeyFrame
        /\ dst' = frame.m_NALs
        /\ m_bHaveGetKeyFrame' = TRUE
    BY <1>2 DEF Deliver
  <2> HIDE DEF frame
  <2>2. KeyFrame(frame) => BringsSet(dst')
    BY <2>1 DEF KeyFrame, BringsSet
  <2> QED
    BY <2>1, <2>2
<1> QED
  BY <1>1, <1>2 DEF DecodeFrames

LEMMA DialogStep ==
  ASSUME PInv,
         \/ ButtonPull \/ ButtonStop \/ CreateSession \/ NewDecoder
         \/ InitDecode \/ NewBuffer \/ CreateThread
  PROVE  PInv'
<1>1. CASE ButtonPull
  BY <1>1 DEF ButtonPull, InitDirectDraw, PInv, Making, Knowing, Showing, vars, threadVars, BringsSet
<1>2. CASE ButtonStop
  BY <1>2 DEF ButtonStop, PInv, Making, Knowing, Showing, vars, madeVars, threadVars, BringsSet
<1>3. CASE CreateSession
  BY <1>3 DEF CreateSession, PInv, Making, Knowing, Showing, vars, madeVars, threadVars, BringsSet
<1>4. CASE NewDecoder
  BY <1>4 DEF NewDecoder, PInv, Making, Knowing, Showing, vars, threadVars, BringsSet
<1>5. CASE InitDecode
  BY <1>5 DEF InitDecode, PInv, Making, Knowing, Showing, vars, threadVars, BringsSet
<1>6. CASE NewBuffer
  BY <1>6 DEF NewBuffer, PInv, Making, Knowing, Showing, vars, threadVars, BringsSet
<1>7. CASE CreateThread
  BY <1>7 DEF CreateThread, PInv, Making, Knowing, Showing, vars, madeVars, threadVars, BringsSet
<1> QED
  BY <1>1, <1>2, <1>3, <1>4, <1>5, <1>6, <1>7

LEMMA PacketStep ==
  ASSUME PInv, NEW p \in Inputs, TakePacket(p)
  PROVE  PInv'
<1>1. /\ m_bHaveGetKeyFrame' \in BOOLEAN
      /\ dst' # <<>> => m_bHaveGetKeyFrame'
      /\ m_bHaveGetKeyFrame' => m_bHaveGetKeyFrame \/ BringsSet(dst')
  BY GateOpens DEF PInv, Knowing, TakePacket
<1>2. Making'
  BY DEF TakePacket, PInv, Making, dialogVars, madeVars
<1>3. Knowing'
  BY <1>1 DEF TakePacket, PInv, Making, Knowing, dialogVars, madeVars, BringsSet
<1>4. Showing'
  BY DEF TakePacket, PInv, Showing, dialogVars, madeVars
<1> QED
  BY <1>2, <1>3, <1>4 DEF PInv

LEMMA ThreadStep ==
  ASSUME PInv, RecvDataThread
  PROVE  PInv'
<1>1. CASE DecodeNothing
  BY <1>1 DEF DecodeNothing, PInv, Making, Knowing, Showing, vars, dialogVars, madeVars, BringsSet
<1>2. CASE Decode
  BY <1>2 DEF Decode, PInv, Making, Knowing, Showing, vars, dialogVars, madeVars, BringsSet
<1>3. CASE DecodeUnprepared
  BY <1>3 DEF DecodeUnprepared, PInv, Making, Knowing, Showing, vars, dialogVars, madeVars, BringsSet
<1>4. CASE CopyPicture
  BY <1>4 DEF CopyPicture, PInv, Making, Knowing, Showing, vars, dialogVars, madeVars, BringsSet
<1>5. CASE Draw
  BY <1>5 DEF Draw, PInv, Making, Knowing, Showing, vars, dialogVars, madeVars, BringsSet
<1>6. CASE DrawMisses
  BY <1>6 DEF DrawMisses, PInv, Making, Knowing, Showing, vars, dialogVars, madeVars, BringsSet
<1>7. CASE DrawUnprepared
  BY <1>7 DEF DrawUnprepared, PInv, Making, Knowing, Showing, vars, dialogVars, madeVars, BringsSet
<1> QED
  BY <1>1, <1>2, <1>3, <1>4, <1>5, <1>6, <1>7 DEF RecvDataThread

LEMMA PlayStep == PInv /\ [PlaybackNext]_playingVars => PInv'
<1> SUFFICES ASSUME PInv, [PlaybackNext]_playingVars PROVE PInv'
  OBVIOUS
<1>1. CASE UNCHANGED playingVars
  BY <1>1 DEF playingVars, PInv, Making, Knowing, Showing, vars, dialogVars, madeVars, threadVars, BringsSet
<1> QED
  BY <1>1, DialogStep, PacketStep, ThreadStep DEF PlaybackNext

LEMMA Played == PlaybackSpec => []PInv
BY PlayInit, PlayStep, PTL DEF PlaybackSpec

(* Until the receiver is started again, the thread finds surface, decoder  *)
(* and buffer of one press, all through with their preparation, and only a *)
(* preparation that failed or a packet that overran brings it down.        *)
THEOREM PreparedUntilRestartCorrect == PlaybackSpec => []PreparedUntilRestart
<1>1. PInv => PreparedUntilRestart
  BY DEF PInv, Making, PreparedUntilRestart, FirstSession
<1> QED
  BY <1>1, Played, PTL

(* The decoder has a parameter set whenever it is given a picture.         *)
THEOREM DecoderHasSetCorrect == PlaybackSpec => []DecoderHasSet
<1>1. PInv => DecoderHasSet
  BY DEF PInv, Knowing, DecoderHasSet, FirstSession
<1> QED
  BY <1>1, Played, PTL

(* Between two packets the window shows what was decoded last, unless its  *)
(* drawing was missed.                                                     *)
THEOREM ShowsLastDecodedCorrect == PlaybackSpec => []ShowsLastDecoded
<1>1. PInv => ShowsLastDecoded
  BY DEF PInv, Showing, ShowsLastDecoded, FirstSession
<1> QED
  BY <1>1, Played, PTL
-----------------------------------------------------------------------------
(* CaptureSetup, for every camera.                                         *)

(* A set of positive numbers that is not empty has a least one.            *)
LEMMA MinExists ==
  ASSUME NEW I, I \subseteq Nat, I # {}
  PROVE  Min(I) \in I /\ \A y \in I : Min(I) <= y
<1> DEFINE R == OpToRel(<, Nat)
<1>1. IsWellFoundedOn(R, Nat)
  BY NatLessThanWellFounded
<1>2. \A x, y \in Nat : x < y => <<x, y>> \in R
  BY DEF OpToRel
<1> HIDE DEF R
<1>3. PICK x \in I : \A y \in I : ~(<<y, x>> \in R)
  BY <1>1, WFMin
<1>4. ASSUME NEW y \in I PROVE x <= y
  <2>1. x \in Nat /\ y \in Nat /\ ~(y < x)
    BY <1>2, <1>3
  <2> QED
    BY <2>1
<1> QED
  BY <1>3, <1>4 DEF Min

(* The list after the first m formats: its entries are listed formats with *)
(* their resolution, every listed resolution is in it, none is twice, and  *)
(* an entry is the first format of its resolution.                         *)
EntryOf(m) == [res : [w : Nat \ {0}, h : Nat \ {0}], nResolutionIndex : 1..m]

FirstOf(res, i) ==
  /\ formats[i].listed /\ formats[i].res = res
  /\ \A j \in 1..(i - 1) : formats[j].listed => formats[j].res # res

Offered(list, m) ==
  /\ list \in Seq(EntryOf(m))
  /\ \A n \in 1..Len(list) : FirstOf(list[n].res, list[n].nResolutionIndex)
  /\ \A i \in 1..m : formats[i].listed =>
       \E n \in 1..Len(list) : list[n].res = formats[i].res
  /\ \A n, k \in 1..Len(list) : list[n].res = list[k].res => n = k

LEMMA OfferedEmpty == Offered(<<>>, 0)
<1>1. <<>> \in Seq(EntryOf(0)) /\ Len(<<>>) = 0
  OBVIOUS
<1>2. \A i : i \notin 1..0
  OBVIOUS
<1> QED
  BY <1>1, <1>2 DEF Offered

LEMMA OfferedNext ==
  ASSUME formats \in Cameras,
         NEW list, NEW m \in Nat, m + 1 <= Len(formats), Offered(list, m)
  PROVE  Offered(Offer(list, m + 1), m + 1)
<1> DEFINE f    == formats[m + 1]
           e    == [res |-> f.res, nResolutionIndex |-> m + 1]
           more == Append(list, e)
<1>1. /\ formats \in Seq([res : [w : Nat \ {0}, h : Nat \ {0}], listed : BOOLEAN])
      /\ Len(formats) \in Nat /\ m + 1 \in 1..Len(formats)
  BY CamerasAssumption, LenProperties
<1>2. f.res \in [w : Nat \ {0}, h : Nat \ {0}] /\ f.listed \in BOOLEAN
  <2>1. f \in [res : [w : Nat \ {0}, h : Nat \ {0}], listed : BOOLEAN]
    BY <1>1, ElementOfSeq
  <2> HIDE DEF f
  <2> QED
    BY <2>1
<1>3. /\ list \in Seq(EntryOf(m)) /\ Len(list) \in Nat
      /\ \A i \in 1..m : formats[i].listed =>
           \E n \in 1..Len(list) : list[n].res = formats[i].res
  BY LenProperties DEF Offered
<1>4. list \in Seq(EntryOf(m + 1))
  <2>1. EntryOf(m) \subseteq EntryOf(m + 1)
    BY DEF EntryOf
  <2> QED
    BY <1>3, <2>1, SeqMonotonic
<1>5. CASE f.listed /\ \A n \in 1..Len(list) : list[n].res # f.res
  <2>1. Offer(list, m + 1) = more
    BY <1>5 DEF Offer
  <2>2. e \in EntryOf(m + 1)
    BY <1>2 DEF EntryOf
  <2>3. /\ more \in Seq(EntryOf(m + 1)) /\ Len(more) = Len(list) + 1
        /\ \A n \in 1..Len(list) : more[n] = list[n]
        /\ more[Len(list) + 1] = e
    BY <1>4, <2>2, AppendProperties
  <2> HIDE DEF more
  <2>4. ASSUME NEW n \in 1..Len(more)
        PROVE  FirstOf(more[n].res, more[n].nResolutionIndex)
    <3>1. CASE n \in 1..Len(list)
      BY <2>3, <3>1 DEF Offered
    <3>2. CASE n = Len(list) + 1
      <4>1. more[n].nResolutionIndex = m + 1 /\ more[n].res = f.res
        BY <2>3, <3>2
      <4>2. \A j \in 1..((m + 1) - 1) : formats[j].listed => formats[j].res # f.res
        <5>1. (m + 1) - 1 = m
          OBVIOUS
        <5>2. \A j \in 1..m : formats[j].listed => formats[j].res # f.res
          BY <1>3, <1>5
        <5> QED
          BY <5>1, <5>2
      <4>3. FirstOf(f.res, m + 1)
        BY <1>5, <4>2 DEF FirstOf
      <4> QED
        BY <4>1, <4>3
    <3> QED
      BY <1>3, <2>3, <3>1, <3>2
  <2>5. ASSUME NEW i \in 1..(m + 1), formats[i].listed
        PROVE  \E n \in 1..Len(more) : more[n].res = formats[i].res
    <3>1. CASE i = m + 1
      <4>1. Len(list) + 1 \in 1..Len(more) /\ more[Len(list) + 1].res = f.res
        BY <1>3, <2>3
      <4> QED
        BY <3>1, <4>1
    <3>2. CASE i # m + 1
      <4>1. PICK n \in 1..Len(list) : list[n].res = formats[i].res
        <5>1. i \in 1..m
          BY <3>2
        <5> QED
          BY <1>3, <2>5, <5>1
      <4>2. n \in 1..Len(more) /\ more[n] = list[n]
        BY <1>3, <2>3
      <4> QED
        BY <4>1, <4>2
    <3> QED
      BY <3>1, <3>2
  <2>6. ASSUME NEW n \in 1..Len(more), NEW k \in 1..Len(more), more[n].res = more[k].res
        PROVE  n = k
    <3>1. \A l \in 1..Len(list) : more[l].res = list[l].res /\ list[l].res # f.res
      BY <1>5, <2>3
    <3>2. more[Len(list) + 1].res = f.res
      BY <2>3
    <3>3. CASE n \in 1..Len(list) /\ k \in 1..Len(list)
      BY <2>6, <3>1, <3>3 DEF Offered
    <3>4. CASE ~(n \in 1..Len(list) /\ k \in 1..Len(list))
      BY <1>3, <2>3, <2>6, <3>1, <3>2, <3>4
    <3> QED
      BY <3>3, <3>4
  <2>7. Offered(more, m + 1)
    BY <2>3, <2>4, <2>5, <2>6 DEF Offered
  <2> QED
    BY <2>1, <2>7
<1>6. CASE ~(f.listed /\ \A n \in 1..Len(list) : list[n].res # f.res)
  <2>1. Offer(list, m + 1) = list
    BY <1>6 DEF Offer
  <2>2. ASSUME NEW i \in 1..(m + 1), formats[i].listed
        PROVE  \E n \in 1..Len(list) : list[n].res = formats[i].res
    <3>1. CASE i = m + 1
      BY <1>6, <2>2, <3>1
    <3>2. CASE i # m + 1
      <4>1. i \in 1..m
        BY <3>2
      <4> QED
        BY <1>3, <2>2, <4>1
    <3> QED
      BY <3>1, <3>2
  <2> QED
    BY <1>4, <2>1, <2>2 DEF Offered
<1> QED
  BY <1>5, <1>6

(* GetVideoResolution offers every listed resolution once, with the first  *)
(* format that has it.                                                     *)
Grown(f, m) == f = [i \in 0..m |-> IF i = 0 THEN <<>> ELSE Offer(f[i - 1], i)]

LEMMA GrownExists ==
  ASSUME NEW L \in Nat
  PROVE  \E f : Grown(f, L)
<1> DEFINE T == {m \in Nat : \E f : Grown(f, m)}
<1>1. 0 \in T
  <2> DEFINE f == [i \in 0..0 |-> <<>>]
  <2>1. Grown(f, 0)
    BY DEF Grown
  <2> HIDE DEF f
  <2> QED
    BY <2>1
<1>2. ASSUME NEW m \in Nat, m \in T PROVE m + 1 \in T
  <2>1. PICK f : Grown(f, m)
    BY <1>2
  <2> DEFINE g == [i \in 0..(m + 1) |-> IF i = m + 1 THEN Offer(f[m], m + 1) ELSE f[i]]
  <2>2. /\ DOMAIN f = 0..m
        /\ \A i \in 0..m : f[i] = IF i = 0 THEN <<>> ELSE Offer(f[i - 1], i)
    <3> DEFINE F == [i \in 0..m |-> IF i = 0 THEN <<>> ELSE Offer(f[i - 1], i)]
    <3>1. f = F
      BY <2>1 DEF Grown
    <3>2. /\ DOMAIN F = 0..m
          /\ \A i \in 0..m : F[i] = IF i = 0 THEN <<>> ELSE Offer(f[i - 1], i)
      OBVIOUS
    <3> HIDE DEF F
    <3> QED
      BY <3>1, <3>2
  <2>3. ASSUME NEW i \in 0..(m + 1)
        PROVE  g[i] = IF i = 0 THEN <<>> ELSE Offer(g[i - 1], i)
    <3>1. CASE i = m + 1
      <4>1. i # 0 /\ i - 1 = m /\ m \in 0..(m + 1) /\ m # m + 1
        BY <3>1
      <4>2. g[i] = Offer(f[m], m + 1) /\ g[i - 1] = f[m]
        BY <3>1, <4>1
      <4> HIDE DEF g
      <4> QED
        BY <3>1, <4>1, <4>2
    <3>2. CASE i # m + 1
      <4>1. i \in 0..m /\ g[i] = f[i]
        BY <3>2
      <4>2. i # 0 => g[i - 1] = f[i - 1]
        <5> SUFFICES ASSUME i # 0 PROVE g[i - 1] = f[i - 1]
          OBVIOUS
        <5>1. i - 1 \in 0..(m + 1) /\ i - 1 # m + 1
          BY <4>1
        <5> QED
          BY <5>1
      <4> HIDE DEF g
      <4> QED
        BY <2>2, <4>1, <4>2
    <3> QED
      BY <3>1, <3>2
  <2>4. Grown(g, m + 1)
    <3>1. g = [i \in 0..(m + 1) |-> g[i]]
      OBVIOUS
    <3> HIDE DEF g
    <3> QED
      BY <2>3, <3>1 DEF Grown
  <2> HIDE DEF g
  <2> QED
    BY <2>4
<1> HIDE DEF T
<1>3. L \in T
  BY <1>1, <1>2, SetInduction
<1> QED
  BY <1>3 DEF T

LEMMA ListComplete ==
  ASSUME formats \in Cameras
  PROVE  Offered(GetVideoResolution, Len(formats))
<1> DEFINE L == Len(formats)
           offered[i \in 0..Len(formats)] ==
             IF i = 0 THEN <<>> ELSE Offer(offered[i - 1], i)
<1>1. L \in Nat
  BY CamerasAssumption, LenProperties
<1>2. GetVideoResolution = offered[Len(formats)]
  BY DEF GetVideoResolution
<1>3. offered = CHOOSE f : Grown(f, Len(formats))
  BY DEF offered, Grown
<1> HIDE DEF offered
<1>4. Grown(offered, Len(formats))
  BY <1>1, <1>3, GrownExists
<1>5. offered[0] = <<>> /\ \A i \in 1..L : offered[i] = Offer(offered[i - 1], i)
  <2> DEFINE F == [i \in 0..L |-> IF i = 0 THEN <<>> ELSE Offer(offered[i - 1], i)]
  <2>1. offered = F
    BY <1>4 DEF Grown
  <2>2. 0 \in 0..L /\ \A i \in 1..L : i \in 0..L /\ i # 0
    BY <1>1
  <2>3. F[0] = <<>> /\ \A i \in 1..L : F[i] = Offer(offered[i - 1], i)
    BY <2>2
  <2> HIDE DEF F
  <2> QED
    BY <2>1, <2>3
<1> DEFINE T == {m \in Nat : m <= L => Offered(offered[m], m)}
<1>6. 0 \in T
  BY <1>5, OfferedEmpty
<1>7. ASSUME NEW m \in Nat, m \in T PROVE m + 1 \in T
  <2> SUFFICES ASSUME m + 1 <= L PROVE Offered(offered[m + 1], m + 1)
    OBVIOUS
  <2>1. m <= L /\ m + 1 \in 1..L /\ (m + 1) - 1 = m
    BY <1>1
  <2>2. offered[m + 1] = Offer(offered[m], m + 1)
    BY <1>5, <2>1
  <2> QED
    BY <1>7, <2>1, <2>2, OfferedNext
<1>8. L \in T
  <2> HIDE DEF T
  <2> QED
    BY <1>1, <1>6, <1>7, SetInduction
<1> QED
  BY <1>2, <1>8

(* The list is empty or complete, an open capture has a graph, and what    *)
(* runs was started with the sizes of the selection and a listed format of *)
(* its height.                                                             *)
SetupInv ==
  /\ formats \in Cameras
  /\ devices \in BOOLEAN /\ m_bInit \in BOOLEAN /\ m_bIsVideoOpen \in BOOLEAN
  /\ running \in BOOLEAN /\ crashed \in BOOLEAN
  /\ capture \in {"none", "partial", "built"}
  /\ m_arrCamResolutionArr = <<>> \/ Offered(m_arrCamResolutionArr, Len(formats))
  /\ capture = "none" => m_arrCamResolutionArr = <<>>
  /\ nSel \in 0..Len(m_arrCamResolutionArr)
  /\ size \in Resolution /\ m_tVidParam \in Resolution
  /\ format \in 0..Len(formats)
  /\ m_bIsVideoOpen => m_bInit /\ capture # "none"
  /\ running =>
       /\ m_bIsVideoOpen /\ m_tVidParam = size
       /\ format > 0 /\ SameHeight(format)

LEMMA OfferedTypes ==
  ASSUME NEW list, NEW m \in Nat, list = <<>> \/ Offered(list, m)
  PROVE  /\ Len(list) \in Nat
         /\ list \in Seq([res : Resolution, nResolutionIndex : 1..m])
         /\ \A n \in 1..Len(list) :
              /\ list[n].res \in Resolution /\ list[n].nResolutionIndex \in 1..m
              /\ FirstOf(list[n].res, list[n].nResolutionIndex)
<1> DEFINE T == [res : Resolution, nResolutionIndex : 1..m]
<1>1. EntryOf(m) \subseteq T
  BY DEF EntryOf, Resolution
<1>2. CASE list = <<>>
  BY <1>2
<1>3. CASE Offered(list, m)
  <2>1. list \in Seq(EntryOf(m))
    BY <1>3 DEF Offered
  <2>2. list \in Seq(T) /\ Len(list) \in Nat
    BY <1>1, <2>1, SeqMonotonic, LenProperties
  <2>3. \A n \in 1..Len(list) : list[n] \in T
    BY <2>2, ElementOfSeq
  <2> QED
    BY <1>3, <2>2, <2>3 DEF Offered
<1> QED
  BY <1>2, <1>3

(* The search finds an entry of the selected height: the selected one is   *)
(* one.                                                                    *)
LEMMA HeightFound ==
  ASSUME SetupInv, Len(formats) \in Nat, nSel > 0
  PROVE  LET sel == m_arrCamResolutionArr[nSel].res
             i   == FindResolution(sel)
         IN  /\ sel \in Resolution /\ i \in 1..Len(formats)
             /\ formats[i].listed /\ formats[i].res.h = sel.h
<1> DEFINE list == m_arrCamResolutionArr
           sel  == list[nSel].res
           I    == {n \in 1..Len(list) : list[n].res.h = sel.h}
           k    == Min(I)
<1>1. /\ Len(list) \in Nat /\ nSel \in 1..Len(list)
      /\ \A n \in 1..Len(list) :
           /\ list[n].res \in Resolution /\ list[n].nResolutionIndex \in 1..Len(formats)
           /\ FirstOf(list[n].res, list[n].nResolutionIndex)
  <2>1. list = <<>> \/ Offered(list, Len(formats))
    BY DEF SetupInv
  <2>2. nSel \in 0..Len(list)
    BY DEF SetupInv
  <2> HIDE DEF list
  <2>3. /\ Len(list) \in Nat
        /\ \A n \in 1..Len(list) :
             /\ list[n].res \in Resolution /\ list[n].nResolutionIndex \in 1..Len(formats)
             /\ FirstOf(list[n].res, list[n].nResolutionIndex)
    BY <2>1, OfferedTypes
  <2> QED
    BY <2>2, <2>3
<1>2. I \subseteq Nat /\ I # {}
  BY <1>1
<1>3. k \in I
  <2> HIDE DEF I
  <2> QED
    BY <1>2, MinExists
<1>4. k \in 1..Len(list) /\ k # 0 /\ list[k].res.h = sel.h
  <2> HIDE DEF k, list, sel
  <2>1. k \in 1..Len(list) /\ list[k].res.h = sel.h
    BY <1>3, Zenon
  <2> QED
    BY <1>1, <2>1
<1>5. FindResolution(sel) = list[k].nResolutionIndex
  BY <1>2, <1>4 DEF FindResolution, SelectInSeq
<1> HIDE DEF k, I
<1>6. FirstOf(list[k].res, list[k].nResolutionIndex) /\ list[k].nResolutionIndex \in 1..Len(formats)
  BY <1>1, <1>4
<1> QED
  BY <1>1, <1>4, <1>5, <1>6 DEF FirstOf

LEMMA SetupInitInv == SetupInit => SetupInv
<1> SUFFICES ASSUME SetupInit PROVE SetupInv
  OBVIOUS
<1>1. Len(formats) \in Nat
  BY CamerasAssumption, LenProperties DEF SetupInit
<1>2. Len(<<>>) = 0 /\ Unset \in Resolution
  BY DEF Unset, Resolution
<1>3. 0 \in 0..Len(m_arrCamResolutionArr) /\ 0 \in 0..Len(formats)
  BY <1>1, <1>2 DEF SetupInit
<1> QED
  BY <1>2, <1>3 DEF SetupInit, SetupInv

LEMMA SetupNextInv ==
  ASSUME SetupInv, [SetupNext]_setupVars
  PROVE  SetupInv'
<1> USE DEF setup, started
<1>0. formats \in Cameras /\ Len(formats) \in Nat
  BY CamerasAssumption, LenProperties DEF SetupInv
<1>1. ASSUME UNCHANGED <<formats, m_arrCamResolutionArr, size, format, m_tVidParam>>,
             UNCHANGED <<m_bInit, capture, m_bIsVideoOpen, running>>,
             devices' \in BOOLEAN, crashed' \in BOOLEAN,
             nSel' \in 0..Len(m_arrCamResolutionArr)
      PROVE  SetupInv'
  BY <1>1 DEF SetupInv, Offered, FirstOf, EntryOf, SameHeight
<1>2. CASE GetDevices
  BY <1>1, <1>2 DEF GetDevices, SetupInv
<1>3. CASE ButtonInit
  <2>1. ~m_bInit /\ ~m_bIsVideoOpen /\ ~running
    BY <1>3 DEF ButtonInit, SetupInv
  <2>2. /\ m_arrCamResolutionArr' = <<>> \/ Offered(m_arrCamResolutionArr', Len(formats))
        /\ capture' = "none" => m_arrCamResolutionArr' = <<>>
        /\ capture' \in {"none", "partial", "built"}
    BY <1>0, <1>3, ListComplete DEF ButtonInit, InitCapture
  <2>3. nSel' \in 0..Len(m_arrCamResolutionArr')
    <3>1. Len(m_arrCamResolutionArr') \in Nat
      BY <1>0, <2>2, OfferedTypes
    <3>2. m_arrCamResolutionArr' # <<>> => Len(m_arrCamResolutionArr') # 0
      BY <1>0, <2>2, OfferedTypes, EmptySeq
    <3> QED
      BY <1>3, <3>1, <3>2 DEF ButtonInit
  <2>4. /\ UNCHANGED <<formats, devices, m_bIsVideoOpen, size, format, m_tVidParam, running, crashed>>
        /\ m_bInit' = TRUE
    BY <1>3 DEF ButtonInit
  <2>5. m_arrCamResolutionArr' = <<>> \/ Offered(m_arrCamResolutionArr, Len(formats))'
    BY <2>2, <2>4 DEF Offered, FirstOf, EntryOf
  <2> QED
    BY <2>1, <2>2, <2>3, <2>4, <2>5 DEF SetupInv
<1>4. CASE InitCrashes
  BY <1>1, <1>4 DEF InitCrashes, SetupInv
<1>5. ASSUME NEW n \in 1..Len(m_arrCamResolutionArr), Select(n) PROVE SetupInv'
  <2>1. n \in 0..Len(m_arrCamResolutionArr)
    BY <1>0, OfferedTypes DEF SetupInv
  <2> QED
    BY <1>1, <1>5, <2>1 DEF Select, SetupInv
<1>6. CASE StartCapture
  <2>1. /\ nSel > 0 /\ m_bInit /\ ~running /\ m_bIsVideoOpen' = TRUE
        /\ size' = m_arrCamResolutionArr[nSel].res
        /\ format' = FindResolution(m_arrCamResolutionArr[nSel].res)
        /\ \/ m_tVidParam' = m_tVidParam /\ running' = running
           \/ m_tVidParam' = size' /\ running' \in BOOLEAN
        /\ UNCHANGED <<formats, devices, m_bInit, capture, m_arrCamResolutionArr, nSel, crashed>>
    BY <1>6 DEF StartCapture, SetupInv
  <2>2. /\ size' \in Resolution /\ format' \in 1..Len(formats)
        /\ formats[format'].listed /\ formats[format'].res.h = size'.h
    BY <1>0, <2>1, HeightFound
  <2>3. capture # "none"
    BY <2>1, EmptySeq DEF SetupInv
  <2>4. SameHeight(format)'
    BY <2>1, <2>2 DEF SameHeight
  <2>5. /\ m_tVidParam' \in Resolution /\ running' \in BOOLEAN
        /\ running' => m_tVidParam' = size'
    BY <2>1, <2>2 DEF SetupInv
  <2>6. format' \in 0..Len(formats) /\ format' > 0
    BY <1>0, <2>2
  <2>7. m_arrCamResolutionArr' = <<>> \/ Offered(m_arrCamResolutionArr, Len(formats))'
    BY <2>1 DEF SetupInv, Offered, FirstOf, EntryOf
  <2> QED
    BY <2>1, <2>2, <2>3, <2>4, <2>5, <2>6, <2>7 DEF SetupInv
<1>7. CASE StartCrashes
  BY <1>1, <1>7 DEF StartCrashes, SetupInv
<1>8. CASE StopCapture
  BY <1>8 DEF StopCapture, SetupInv, Offered, FirstOf, EntryOf
<1>9. CASE UNCHANGED setupVars
  BY <1>1, <1>9 DEF setupVars, SetupInv
<1> QED
  BY <1>2, <1>3, <1>4, <1>5, <1>6, <1>7, <1>8, <1>9 DEF SetupNext

LEMMA SetupInvariance == SetupSpec => []SetupInv
BY SetupInitInv, SetupNextInv, PTL DEF SetupSpec

(* Type correctness of the setup: also the indices of the list and the     *)
(* selection stay within it.                                               *)
THEOREM SetupTypeCorrect == SetupSpec => []SetupTypeOK
<1>1. SetupInv => SetupTypeOK
  <2> SUFFICES ASSUME SetupInv PROVE SetupTypeOK
    OBVIOUS
  <2>1. Len(formats) \in Nat
    BY CamerasAssumption, LenProperties DEF SetupInv
  <2>2. m_arrCamResolutionArr \in Seq([res : Resolution, nResolutionIndex : 1..Len(formats)])
    BY <2>1, OfferedTypes DEF SetupInv
  <2> QED
    BY <2>2 DEF SetupInv, SetupTypeOK
<1> QED
  BY <1>1, SetupInvariance, PTL

(* For every camera, however its formats repeat resolutions or share       *)
(* heights: a capture that is open has a graph, and what runs is what was  *)
(* selected as far as the search sees it.                                  *)
THEOREM StartedAsSelectedCorrect == SetupSpec => []StartedAsSelected
<1>1. SetupInv => StartedAsSelected
  <2> SUFFICES ASSUME SetupInv PROVE StartedAsSelected
    OBVIOUS
  <2>1. running => format \in 1..Len(formats)
    BY CamerasAssumption, LenProperties DEF SetupInv
  <2> QED
    BY <2>1 DEF SetupInv, StartedAsSelected
<1> QED
  BY <1>1, SetupInvariance, PTL

(* The dialog offers every resolution of the camera that the program can   *)
(* use exactly once, with the first format that has it, or nothing.        *)
ListInOrder == m_arrCamResolutionArr = <<>> \/ Offered(m_arrCamResolutionArr, Len(formats))

THEOREM ListInOrderCorrect == SetupSpec => []ListInOrder
<1>1. SetupInv => ListInOrder
  BY DEF SetupInv, ListInOrder
<1> QED
  BY <1>1, SetupInvariance, PTL
=============================================================================
