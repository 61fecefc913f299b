--------------------------- MODULE RtpSenderProofs ---------------------------
(***************************************************************************)
(* Proofs about RtpSender: every packet is one the receiver can take, for  *)
(* every size of packets, every picture, and any number of threads that    *)
(* share the packetizer.                                                   *)
(***************************************************************************)
EXTENDS RtpSender, TLAPS, SequenceTheorems, FiniteSetTheorems

(* What is known of a packet made from the NAL units of a picture.         *)
GoodPacket(p, units) ==
  /\ p.nal \in 1..Len(units)
  /\ PayloadSize(p) \in 1..MaxPayload
  /\ p.first <= p.last /\ p.last <= units[p.nal].len
  /\ p.kind = "fu" =>
       /\ ~(p.start /\ p.end)
       /\ p.start <=> p.first = 1
       /\ p.end <=> p.last = units[p.nal].len
  /\ p.marker <=> p.nal = Len(units) /\ p.last = units[p.nal].len
  /\ p.kind \in {"single", "fu"} /\ p.type = units[p.nal].type
  /\ p.kind = "single" => p.first = 1 /\ p.last = units[p.nal].len
  /\ p.kind = "fu" /\ ~p.end => PayloadSize(p) = MaxPayload

(* While a NAL unit is being fragmented, there is one, it is too long for  *)
(* a packet, and at least its header byte and one more are sent.           *)
Fragmenting ==
  m_currentNALFURemainingLen > 0 =>
    /\ HasRTPFrames
    /\ m_NALs[m_currentNAL].len > MaxPayload
    /\ m_currentNALFURemainingLen < m_NALs[m_currentNAL].len - 1

IInv ==
  /\ TypeOK
  /\ Fragmenting
  /\ \A t \in Threads : pc[t] # "idle" => job[t] \in 1..called
  /\ \A p \in Made : p.pic \in 1..called /\ GoodPacket(p, picture[p.pic])

NALUnit == [type : NALType, len : Nat \ {0}]

-----------------------------------------------------------------------------
LEMMA PictureFacts ==
  ASSUME TypeOK, NEW f \in 1..called
  PROVE  picture[f] \in Seq(NALUnit) /\ Len(picture[f]) \in Nat \ {0}
<1>1. picture[f] \in Pictures
  BY DEF TypeOK
<1>2. picture[f] \in Seq(NALUnit) /\ picture[f] # <<>>
  BY <1>1, PicturesAssumption DEF NALUnit
<1> QED
  BY <1>2, EmptySeq, LenProperties

LEMMA UnitFacts ==
  ASSUME TypeOK, NEW f \in 1..called, NEW i \in 1..Len(picture[f])
  PROVE  /\ picture[f][i].type \in NALType
         /\ picture[f][i].len \in Nat \ {0}
<1>1. picture[f][i] \in NALUnit
  BY PictureFacts
<1> QED
  BY <1>1 DEF NALUnit

(* The two kinds of packets GetRTPFrame makes.                             *)
LEMMA SingleNALGood ==
  ASSUME TypeOK, NEW f \in 1..called, NEW i \in 1..Len(picture[f]),
         picture[f][i].len <= MaxPayload
  PROVE  /\ SingleNAL(f, i) \in PacketType /\ SingleNAL(f, i).pic = f
         /\ GoodPacket(SingleNAL(f, i), picture[f])
<1> DEFINE units == picture[f]
           p     == SingleNAL(f, i)
<1>1. /\ units \in Seq(NALUnit) /\ Len(units) \in Nat
      /\ units[i].len \in Nat \ {0} /\ units[i].type \in NALType
      /\ MaxPayload \in Nat /\ i \in Nat /\ f \in 0..MaxPictures
  <2>1. called \in 0..MaxPictures
    BY DEF TypeOK
  <2> QED
    BY <2>1, PictureFacts, UnitFacts, MaxPayloadAssumption, MaxPicturesAssumption
<1>2. p = [kind |-> "single", pic |-> f, nal |-> i, type |-> units[i].type,
           first |-> 1, last |-> units[i].len, start |-> FALSE, end |-> FALSE,
           marker |-> (i = Len(units))]
  BY DEF SingleNAL, Packet
<1> HIDE DEF p, units
<1>3. p \in PacketType /\ p.pic = f
  BY <1>1, <1>2 DEF PacketType
<1>4. PayloadSize(p) = units[i].len
  BY <1>1, <1>2 DEF PayloadSize
<1>5. units[i].len <= MaxPayload /\ i \in 1..Len(units)
  BY DEF units
<1>6. /\ p.kind = "single" /\ p.nal = i /\ p.first = 1
      /\ p.last = units[i].len /\ p.marker = (i = Len(units))
      /\ p.type = units[i].type
  BY <1>2
<1>7. PayloadSize(p) \in 1..MaxPayload /\ p.first <= p.last
  BY <1>1, <1>4, <1>5, <1>6
<1>8. p.marker <=> p.nal = Len(units) /\ p.last = units[p.nal].len
  BY <1>6, Zenon
<1>9. GoodPacket(p, units)
  BY <1>1, <1>5, <1>6, <1>7, <1>8 DEF GoodPacket
<1> QED
  BY <1>3, <1>9 DEF p, units

LEMMA FragmentGood ==
  ASSUME TypeOK, NEW f \in 1..called, NEW i \in 1..Len(picture[f]), NEW r \in Nat,
         picture[f][i].len > MaxPayload, r < picture[f][i].len - 1
  PROVE  /\ FragmentOf(f, i, r) \in PacketType /\ FragmentOf(f, i, r).pic = f
         /\ GoodPacket(FragmentOf(f, i, r), picture[f])
         /\ Remaining(f, i, r) - FULen(f, i, r) \in Nat
         /\ Remaining(f, i, r) - FULen(f, i, r) < picture[f][i].len - 1
<1> DEFINE units == picture[f]
           len   == units[i].len
           rem   == Remaining(f, i, r)
           fu    == FULen(f, i, r)
           p     == FragmentOf(f, i, r)
<1>1. /\ units \in Seq(NALUnit) /\ Len(units) \in Nat
      /\ len \in Nat \ {0} /\ units[i].type \in NALType
      /\ MaxPayload \in Nat /\ MaxPayload > 2 /\ i \in Nat /\ f \in 0..MaxPictures
  <2>1. called \in 0..MaxPictures
    BY DEF TypeOK
  <2> QED
    BY <2>1, PictureFacts, UnitFacts, MaxPayloadAssumption, MaxPicturesAssumption
<1>2. rem = IF r = 0 THEN len - 1 ELSE r
  BY DEF Remaining
<1>3. fu = IF rem + 2 <= MaxPayload THEN rem ELSE MaxPayload - 2
  BY DEF FULen
<1>4. p = [kind |-> "fu", pic |-> f, nal |-> i, type |-> units[i].type,
           first |-> IF r = 0 THEN 1 ELSE len - rem + 1, last |-> len - rem + fu,
           start |-> (r = 0), end |-> (rem + 2 <= MaxPayload),
           marker |-> (rem + 2 <= MaxPayload /\ i = Len(units))]
  BY DEF FragmentOf, Packet
<1>5. len > MaxPayload /\ r < len - 1 /\ i \in 1..Len(units)
  OBVIOUS
<1> HIDE DEF units, len, rem, fu, p
<1>6. /\ rem \in 1..(len - 1) /\ (r = 0 <=> rem = len - 1)
      /\ fu \in 1..rem /\ fu <= MaxPayload - 2
      /\ (rem + 2 <= MaxPayload) <=> fu = rem
      /\ rem + 2 <= MaxPayload => r # 0
  BY <1>1, <1>2, <1>3, <1>5
<1>7. /\ p.kind = "fu" /\ p.pic = f /\ p.nal = i /\ p.type = units[i].type
      /\ p.first = (IF r = 0 THEN 1 ELSE len - rem + 1) /\ p.last = len - rem + fu
      /\ p.start = (r = 0) /\ p.end = (rem + 2 <= MaxPayload)
      /\ p.marker = (rem + 2 <= MaxPayload /\ i = Len(units))
  BY <1>4
<1>8. PayloadSize(p) = fu + 2
  <2>1. CASE r = 0
    <3>1. PayloadSize(p) = (p.last - p.first) + 2
      BY <1>7, <2>1 DEF PayloadSize
    <3> QED
      BY <1>1, <1>6, <1>7, <2>1, <3>1
  <2>2. CASE r # 0
    <3>1. PayloadSize(p) = (p.last - p.first + 1) + 2
      BY <1>7, <2>2 DEF PayloadSize
    <3> QED
      BY <1>1, <1>6, <1>7, <2>2, <3>1
  <2> QED
    BY <2>1, <2>2
<1>9. p \in PacketType
  <2>1. /\ (IF r = 0 THEN 1 ELSE len - rem + 1) \in Nat /\ len - rem + fu \in Nat
        /\ (r = 0) \in BOOLEAN /\ (rem + 2 <= MaxPayload) \in BOOLEAN
        /\ (rem + 2 <= MaxPayload /\ i = Len(units)) \in BOOLEAN
    BY <1>1, <1>6
  <2> QED
    BY <1>1, <1>4, <2>1 DEF PacketType
<1>10. GoodPacket(p, units)
  <2>1. PayloadSize(p) \in 1..MaxPayload
    BY <1>1, <1>6, <1>8
  <2>2. p.first <= p.last /\ p.last <= len /\ (r = 0 <=> p.first = 1)
    <3>1. CASE r = 0
      <4>1. p.first = 1 /\ p.last = len - rem + fu
        BY <1>7, <3>1
      <4> QED
        BY <1>1, <1>6, <3>1, <4>1
    <3>2. CASE r # 0
      <4>1. p.first = len - rem + 1 /\ p.last = len - rem + fu
        BY <1>7, <3>2
      <4> QED
        BY <1>1, <1>6, <3>2, <4>1
    <3> QED
      BY <3>1, <3>2
  <2>3. p.last = len <=> fu = rem
    <3>1. p.last = len - rem + fu
      BY <1>7
    <3> QED
      BY <1>1, <1>6, <3>1
  <2>4. (p.start <=> r = 0) /\ (p.end <=> rem + 2 <= MaxPayload)
        /\ (p.marker <=> rem + 2 <= MaxPayload /\ i = Len(units))
    BY <1>7, Zenon
  <2>5. /\ ~(p.start /\ p.end) /\ (p.start <=> p.first = 1)
        /\ (p.end <=> p.last = len)
    BY <1>6, <2>2, <2>3, <2>4, Zenon
  <2>6. p.marker <=> p.nal = Len(units) /\ p.last = len
    BY <1>6, <1>7, <2>3, <2>4, Zenon
  <2>7. ~p.end => PayloadSize(p) = MaxPayload
    <3>1. fu # rem => fu = MaxPayload - 2
      BY <1>3, <1>6
    <3> QED
      BY <1>1, <1>6, <1>8, <2>4, <3>1
  <2> QED
    BY <1>5, <1>7, <2>1, <2>2, <2>5, <2>6, <2>7 DEF GoodPacket, len
<1>11. rem - fu \in Nat /\ rem - fu < len - 1
  BY <1>1, <1>6
<1> QED
  BY <1>7, <1>9, <1>10, <1>11 DEF units, len, rem, fu, p
-----------------------------------------------------------------------------
LEMMA InitIInv == Init => IInv
<1> SUFFICES ASSUME Init PROVE IInv
  OBVIOUS
<1>1. NoPacket \in PacketType
  BY MaxPicturesAssumption DEF NoPacket, Packet, PacketType, NALType
<1>2. TypeOK
  BY <1>1, MaxPicturesAssumption DEF Init, TypeOK
<1>3. Fragmenting
  BY DEF Init, Fragmenting
<1>4. Made = {}
  BY DEF Init, Made, Sending
<1> QED
  BY <1>2, <1>3, <1>4 DEF Init, IInv

(* The encoder gives a thread a new picture: the old ones stay.            *)
LEMMA CallKeeps ==
  ASSUME IInv, NEW t \in Threads, NEW pic \in Pictures, SendH264Nalu(t, pic)
  PROVE  IInv'
<1> USE DEF SendH264Nalu
<1>1. TypeOK /\ picture \in Seq(Pictures) /\ Len(picture) = called /\ called \in Nat
  BY MaxPicturesAssumption DEF IInv, TypeOK
<1>2. /\ picture' \in Seq(Pictures) /\ Len(picture') = called + 1
      /\ \A f \in 1..called : picture'[f] = picture[f]
  BY <1>1, AppendProperties
<1>3. TypeOK'
  <2>1. called' \in 0..MaxPictures /\ Len(picture') = called' /\ picture' \in Seq(Pictures)
    BY <1>1, <1>2, MaxPicturesAssumption
  <2>2. job' \in [Threads -> 0..called'] /\ m_picture' \in 0..called'
    BY <1>1 DEF TypeOK, encapsulation
  <2>3. pc' \in [Threads -> {"idle", "encode", "send"}] /\ callers' \subseteq Threads
    BY <1>1 DEF TypeOK
  <2>4. inHand' \in [Threads -> PacketType] /\ last' \in PacketType /\ sent' \subseteq PacketType
    BY <1>1 DEF TypeOK
  <2>5. m_currentNAL' \in Nat \ {0} /\ m_currentNALFURemainingLen' \in Nat
    BY <1>1 DEF TypeOK, encapsulation
  <2> QED
    BY <2>1, <2>2, <2>3, <2>4, <2>5 DEF TypeOK, PacketType
<1>4. Fragmenting'
  <2>1. UNCHANGED <<m_picture, m_currentNAL, m_currentNALFURemainingLen>>
    BY DEF encapsulation
  <2>2. m_NALs' = m_NALs
    BY <1>1, <1>2, <2>1 DEF m_NALs, TypeOK
  <2> QED
    BY <2>1, <2>2 DEF IInv, Fragmenting, HasRTPFrames
<1>5. \A u \in Threads : pc'[u] # "idle" => job'[u] \in 1..called'
  BY <1>1 DEF IInv, TypeOK
<1>6. \A p \in Made' : p.pic \in 1..called' /\ GoodPacket(p, picture'[p.pic])
  <2>1. Made' = Made
    BY <1>1 DEF Made, Sending, TypeOK
  <2> QED
    BY <1>1, <1>2, <2>1 DEF IInv
<1> QED
  BY <1>3, <1>4, <1>5, <1>6 DEF IInv, GoodPacket

(* EncodeFrames takes the next bytes of what is left, or the first of the  *)
(* caller's picture.                                                       *)
NextPicture(t) == IF HasRTPFrames THEN m_picture ELSE job[t]
NextNAL        == IF HasRTPFrames THEN m_currentNAL ELSE 1
NextRest       == IF HasRTPFrames THEN m_currentNALFURemainingLen ELSE 0

LEMMA EncodeMakes ==
  ASSUME IInv, NEW t \in Threads, EncodeFrames(t)
  PROVE  LET f   == NextPicture(t)
             i   == NextNAL
             r   == NextRest
             len == picture[f][i].len
         IN  /\ m_picture' = f
             /\ inHand' = [inHand EXCEPT ![t] = IF len > MaxPayload THEN FragmentOf(f, i, r)
                                                                    ELSE SingleNAL(f, i)]
             /\ m_currentNALFURemainingLen' = IF len > MaxPayload
                                              THEN Remaining(f, i, r) - FULen(f, i, r) ELSE 0
             /\ m_currentNAL' = IF len > MaxPayload /\ Remaining(f, i, r) # FULen(f, i, r)
                                THEN i ELSE i + 1
             /\ pc[t] = "encode" /\ pc' = [pc EXCEPT ![t] = "send"]
             /\ UNCHANGED <<called, picture, callers, job, last, sent>>
             /\ f \in 1..called /\ i \in 1..Len(picture[f]) /\ r \in Nat
             /\ len > MaxPayload => r < len - 1
<1> USE DEF NextPicture, NextNAL, NextRest
<1> DEFINE f   == NextPicture(t)
           i   == NextNAL
           r   == NextRest
           len == picture[f][i].len
<1>1. TypeOK
  BY DEF IInv
<1>2. /\ m_picture' = f
      /\ inHand' = [inHand EXCEPT ![t] = IF len > MaxPayload THEN FragmentOf(f, i, r)
                                                             ELSE SingleNAL(f, i)]
      /\ m_currentNALFURemainingLen' = IF len > MaxPayload
                                       THEN Remaining(f, i, r) - FULen(f, i, r) ELSE 0
      /\ m_currentNAL' = IF len > MaxPayload /\ Remaining(f, i, r) # FULen(f, i, r)
                         THEN i ELSE i + 1
      /\ pc[t] = "encode" /\ pc' = [pc EXCEPT ![t] = "send"]
      /\ UNCHANGED <<called, picture, callers, job, last, sent>>
  BY DEF EncodeFrames
<1>3. f \in 1..called /\ i \in 1..Len(picture[f]) /\ r \in Nat
      /\ (len > MaxPayload => r < len - 1)
  <2>1. CASE HasRTPFrames
    <3>1. m_picture # 0
      BY <1>1, <2>1 DEF HasRTPFrames, m_NALs, TypeOK
    <3>2. f = m_picture /\ i = m_currentNAL /\ r = m_currentNALFURemainingLen
          /\ m_NALs = picture[m_picture]
      BY <2>1, <3>1 DEF m_NALs
    <3>3. f \in 1..called
      BY <1>1, <3>1, <3>2, MaxPicturesAssumption DEF TypeOK
    <3>4. Len(picture[f]) \in Nat
      BY <1>1, <3>3, PictureFacts
    <3>5. i \in 1..Len(picture[f]) /\ r \in Nat
      BY <1>1, <2>1, <3>2, <3>4 DEF HasRTPFrames, TypeOK
    <3>6. r > 0 => r < len - 1
      BY <3>2 DEF IInv, Fragmenting
    <3>7. len > MaxPayload /\ r = 0 => r < len - 1
      <4>1. len \in Nat
        BY ONLY <1>1, <3>3, <3>5, UnitFacts
      <4> QED
        BY <4>1, MaxPayloadAssumption
    <3> HIDE DEF f, i, r, len
    <3> QED
      BY <3>3, <3>5, <3>6, <3>7
  <2>2. CASE ~HasRTPFrames
    <3>1. f = job[t] /\ i = 1 /\ r = 0
      BY <2>2
    <3>2. f \in 1..called
      BY <1>2, <3>1 DEF IInv
    <3>3. Len(picture[f]) \in Nat \ {0} /\ picture[f] \in Seq(NALUnit)
      BY <1>1, <3>2, PictureFacts
    <3>4. i \in 1..Len(picture[f])
      BY <3>1, <3>3
    <3>5. len \in Nat
      BY ONLY <1>1, <3>2, <3>4, UnitFacts
    <3> HIDE DEF f, i, r, len
    <3> QED
      BY <3>1, <3>2, <3>4, <3>5, MaxPayloadAssumption
  <2> QED
    BY <2>1, <2>2
<1> QED
  BY <1>2, <1>3

(* EncodeFrames makes one good packet.                                     *)
LEMMA EncodeKeeps ==
  ASSUME IInv, NEW t \in Threads, EncodeFrames(t)
  PROVE  IInv'
<1> DEFINE f   == NextPicture(t)
           i   == NextNAL
           r   == NextRest
           len == picture[f][i].len
           p   == inHand'[t]
<1>1. TypeOK
  BY DEF IInv
<1>2. /\ m_picture' = f
      /\ inHand' = [inHand EXCEPT ![t] = IF len > MaxPayload THEN FragmentOf(f, i, r)
                                                             ELSE SingleNAL(f, i)]
      /\ m_currentNALFURemainingLen' = IF len > MaxPayload
                                       THEN Remaining(f, i, r) - FULen(f, i, r) ELSE 0
      /\ m_currentNAL' = IF len > MaxPayload /\ Remaining(f, i, r) # FULen(f, i, r)
                         THEN i ELSE i + 1
      /\ pc[t] = "encode" /\ pc' = [pc EXCEPT ![t] = "send"]
      /\ UNCHANGED <<called, picture, callers, job, last, sent>>
  BY EncodeMakes
<1>3. f \in 1..called /\ i \in 1..Len(picture[f]) /\ r \in Nat
      /\ (len > MaxPayload => r < len - 1)
  BY EncodeMakes
<1>4. /\ p \in PacketType /\ p.pic = f /\ GoodPacket(p, picture[f])
      /\ m_currentNALFURemainingLen' \in Nat
      /\ m_currentNALFURemainingLen' > 0 => 
           /\ len > MaxPayload /\ m_currentNALFURemainingLen' < len - 1
           /\ m_currentNAL' = i
  <2>0. p = IF len > MaxPayload THEN FragmentOf(f, i, r) ELSE SingleNAL(f, i)
    BY <1>1, <1>2 DEF TypeOK
  <2> HIDE DEF f, i, r, p
  <2>1. CASE len > MaxPayload
    <3>1. /\ FragmentOf(f, i, r) \in PacketType /\ FragmentOf(f, i, r).pic = f
          /\ GoodPacket(FragmentOf(f, i, r), picture[f])
          /\ Remaining(f, i, r) - FULen(f, i, r) \in Nat
          /\ Remaining(f, i, r) - FULen(f, i, r) < len - 1
      BY <1>1, <1>3, <2>1, FragmentGood
    <3>2. p = FragmentOf(f, i, r)
          /\ m_currentNALFURemainingLen' = Remaining(f, i, r) - FULen(f, i, r)
          /\ m_currentNAL' = IF Remaining(f, i, r) # FULen(f, i, r) THEN i ELSE i + 1
      BY <1>2, <2>0, <2>1
    <3>3. Remaining(f, i, r) = FULen(f, i, r) => m_currentNALFURemainingLen' = 0
      <4>1. FULen(f, i, r) \in Int
        <5>1. Remaining(f, i, r) \in Int
          <6>1. len \in Int
            BY ONLY <1>1, <1>3, UnitFacts
          <6> QED
            BY <1>3, <6>1 DEF Remaining
        <5> QED
          BY <5>1, MaxPayloadAssumption DEF FULen
      <4> QED
        BY <3>2, <4>1
    <3> QED
      BY <2>1, <3>1, <3>2, <3>3
  <2>2. CASE ~(len > MaxPayload)
    <3>1. len <= MaxPayload
      <4>1. len \in Nat
        BY ONLY <1>1, <1>3, UnitFacts
      <4> QED
        BY <2>2, <4>1, MaxPayloadAssumption
    <3>2. /\ SingleNAL(f, i) \in PacketType /\ SingleNAL(f, i).pic = f
          /\ GoodPacket(SingleNAL(f, i), picture[f])
      BY <1>1, <1>3, <3>1, SingleNALGood
    <3> QED
      BY <1>2, <2>0, <2>2, <3>2
  <2> QED
    BY <2>1, <2>2
<1> HIDE DEF f, r, p
<1>5. TypeOK'
  <2>1. inHand' \in [Threads -> PacketType]
    BY <1>1, <1>2, <1>4 DEF TypeOK, p
  <2>2. m_currentNAL' \in Nat \ {0} /\ m_picture' \in 0..called
    <3> HIDE DEF i
    <3>1. i \in Nat /\ i > 0
      BY <1>1, <1>3, PictureFacts
    <3>2. m_currentNAL' = i \/ m_currentNAL' = i + 1
      BY <1>2
    <3> QED
      BY <1>1, <1>2, <1>3, <3>1, <3>2 DEF TypeOK
  <2>3. pc' \in [Threads -> {"idle", "encode", "send"}]
    BY <1>1, <1>2 DEF TypeOK
  <2> QED
    BY ONLY <1>1, <1>2, <1>4, <2>1, <2>2, <2>3 DEF TypeOK, PacketType
<1>6. Fragmenting'
  <2> SUFFICES ASSUME m_currentNALFURemainingLen' > 0
               PROVE  /\ HasRTPFrames'
                      /\ m_NALs'[m_currentNAL'].len > MaxPayload
                      /\ m_currentNALFURemainingLen' < m_NALs'[m_currentNAL'].len - 1
    BY DEF Fragmenting
  <2>1. m_NALs' = picture[f]
    BY <1>2, <1>3 DEF m_NALs
  <2>2. m_currentNAL' = i /\ i <= Len(picture[f])
    BY <1>3, <1>4
  <2> QED
    BY <1>4, <2>1, <2>2 DEF HasRTPFrames
<1>7. \A u \in Threads : pc'[u] # "idle" => job'[u] \in 1..called'
  BY <1>1, <1>2 DEF IInv, TypeOK
<1>8. \A q \in Made' : q.pic \in 1..called' /\ GoodPacket(q, picture'[q.pic])
  <2>1. \A q \in Made' : q \in Made \/ q = p
    BY <1>1, <1>2 DEF Made, Sending, TypeOK, p
  <2> QED
    BY <1>2, <1>3, <1>4, <2>1 DEF IInv
<1> QED
  BY <1>5, <1>6, <1>7, <1>8 DEF IInv, GoodPacket

(* SendPacket only moves the packet at hand to those that were sent.       *)
LEMMA SendKeeps ==
  ASSUME IInv, NEW t \in Threads, SendPacket(t)
  PROVE  IInv'
<1> USE DEF SendPacket
<1>1. TypeOK
  BY DEF IInv
<1>2. NoPacket \in PacketType
  BY MaxPicturesAssumption DEF NoPacket, Packet, PacketType, NALType
<1>3. TypeOK'
  <2>1. pc' \in [Threads -> {"idle", "encode", "send"}] /\ job' \in [Threads -> 0..called]
    <3>1. 0 \in 0..called
      BY <1>1, MaxPicturesAssumption DEF TypeOK
    <3>2. pc' = [pc EXCEPT ![t] = "idle"] \/ pc' = [pc EXCEPT ![t] = "encode"]
      OBVIOUS
    <3>3. job' = [job EXCEPT ![t] = 0] \/ job' = job
      OBVIOUS
    <3>4. pc' \in [Threads -> {"idle", "encode", "send"}]
      BY ONLY <1>1, <3>2 DEF TypeOK
    <3>5. job' \in [Threads -> 0..called]
      BY ONLY <1>1, <3>1, <3>3 DEF TypeOK
    <3> QED
      BY <3>4, <3>5
  <2>2. inHand' \in [Threads -> PacketType] /\ last' \in PacketType /\ sent' \subseteq PacketType
    BY <1>1, <1>2 DEF TypeOK
  <2>3. UNCHANGED <<called, picture, callers, encapsulation>>
    OBVIOUS
  <2> QED
    BY ONLY <1>1, <2>1, <2>2, <2>3 DEF TypeOK, PacketType, encapsulation
<1>4. Fragmenting'
  BY DEF IInv, Fragmenting, HasRTPFrames, m_NALs, encapsulation
<1>5. \A u \in Threads : pc'[u] # "idle" => job'[u] \in 1..called'
  BY <1>1 DEF IInv, TypeOK
<1>6. \A q \in Made' : q.pic \in 1..called' /\ GoodPacket(q, picture'[q.pic])
  <2>1. \A q \in Made' : q \in Made
    BY <1>1 DEF Made, Sending, TypeOK
  <2> QED
    BY <2>1 DEF IInv
<1> QED
  BY <1>3, <1>4, <1>5, <1>6 DEF IInv, GoodPacket

LEMMA StepKeeps == IInv /\ [Next]_vars => IInv'
<1> SUFFICES ASSUME IInv, [Next]_vars PROVE IInv'
  OBVIOUS
<1>1. CASE UNCHANGED vars
  BY <1>1 DEF vars, encapsulation, IInv, TypeOK, Fragmenting, HasRTPFrames, m_NALs,
              Made, Sending, GoodPacket, PacketType
<1>2. ASSUME NEW t \in Threads, NEW pic \in Pictures, SendH264Nalu(t, pic) PROVE IInv'
  BY <1>2, CallKeeps
<1>3. ASSUME NEW t \in Threads, EncodeFrames(t) PROVE IInv'
  BY <1>3, EncodeKeeps
<1>4. ASSUME NEW t \in Threads, SendPacket(t) PROVE IInv'
  BY <1>4, SendKeeps
<1> QED
  BY <1>1, <1>2, <1>3, <1>4 DEF Next

LEMMA Invariance == Spec => []IInv
<1> QED
  BY InitIInv, StepKeeps, PTL DEF Spec

-----------------------------------------------------------------------------
(* The packetizer's variables keep their types, however many threads call *)
(* SendH264Nalu.                                                           *)
THEOREM TypeCorrect == Spec => []TypeOK
<1>1. IInv => TypeOK
  BY DEF IInv
<1> QED
  BY <1>1, Invariance, PTL

(* EncapsulateFU and GetRTPFrame never make a packet that is empty, longer *)
(* than m_maxPayloadSize, or that reads behind the end of its NAL unit,    *)
(* whatever the sizes, and also when threads share the packetizer.         *)
THEOREM PacketsFitCorrect == Spec => []PacketsFit
<1>1. IInv => PacketsFit
  BY DEF IInv, PacketsFit, GoodPacket
<1> QED
  BY <1>1, Invariance, PTL

(* The start and end bits and the marker tell the truth in every packet:   *)
(* no packet is one of those DeencapsulateFU takes for an error.           *)
THEOREM HeaderBitsCorrect == Spec => []HeaderBits
<1>1. IInv => HeaderBits
  BY DEF IInv, HeaderBits, GoodPacket
<1> QED
  BY <1>1, Invariance, PTL

-----------------------------------------------------------------------------
(* With one thread: where the packetizer is, told from the packet that was *)
(* made last.                                                              *)
After(p) ==
  /\ m_picture = p.pic
  /\ LET len == picture[p.pic][p.nal].len
     IN  IF p.last = len THEN m_currentNAL = p.nal + 1 /\ m_currentNALFURemainingLen = 0
         ELSE m_currentNAL = p.nal /\ m_currentNALFURemainingLen = len - p.last

Done(n) == ~HasRTPFrames /\ (last = NoPacket \/ last.marker) /\ last.pic = n

Midway == After(last) /\ last.pic = called /\ ~last.marker

Follows(p) ==
  \/ Continues(last, p)
  \/ (last = NoPacket \/ last.marker) /\ Begins(p) /\ p.pic = last.pic + 1

InTurn ==
  /\ \A t \in Threads : pc[t] # "idle" => job[t] = called
  /\ (\A t \in Threads : pc[t] = "idle") => Done(called)
  /\ \A t \in Threads : pc[t] = "encode" => Done(called - 1) \/ Midway
  /\ \A t \in Sending : After(inHand[t]) /\ inHand[t].pic = called /\ Follows(inHand[t])

Turns ==
  /\ IInv
  /\ IsFiniteSet(callers)
  /\ \A t \in Threads : pc[t] # "idle" => t \in callers
  /\ last = NoPacket \/ last \in sent
  /\ OneThread => InTurn

LEMMA AtMostOne ==
  ASSUME NEW S, IsFiniteSet(S), Cardinality(S) <= 1, NEW x \in S, NEW y \in S
  PROVE  x = y
<1>1. Cardinality(S) \in Nat /\ Cardinality(S) # 0
  BY FS_CardinalityType, FS_EmptySet
<1>2. Cardinality(S) = 1
  BY <1>1
<1> QED
  BY <1>2, FS_Singleton

LEMMA CallersStay ==
  ASSUME IsFiniteSet(callers), NEW t, callers' = callers \cup {t}
  PROVE  IsFiniteSet(callers') /\ (OneThread' => OneThread)
<1>1. IsFiniteSet(callers')
  BY FS_AddElement
<1>2. Cardinality(callers) <= Cardinality(callers')
  BY <1>1, FS_Subset
<1>3. Cardinality(callers) \in Nat /\ Cardinality(callers') \in Nat
  BY <1>1, FS_CardinalityType
<1> QED
  BY <1>1, <1>2, <1>3 DEF OneThread

(* Where the next packet begins and what it leaves. *)
LEMMA FragmentPlace ==
  ASSUME TypeOK, NEW f \in 1..called, NEW i \in 1..Len(picture[f]), NEW r \in Nat,
         picture[f][i].len > MaxPayload, r < picture[f][i].len - 1
  PROVE  LET len  == picture[f][i].len
             rest == Remaining(f, i, r) - FULen(f, i, r)
             p    == FragmentOf(f, i, r)
         IN  /\ p.pic = f /\ p.nal = i
             /\ p.first = IF r = 0 THEN 1 ELSE len - r + 1
             /\ rest \in Nat /\ p.last = len - rest
             /\ rest = 0 <=> Remaining(f, i, r) = FULen(f, i, r)
<1> DEFINE len == picture[f][i].len
           rem == Remaining(f, i, r)
           fu  == FULen(f, i, r)
           p   == FragmentOf(f, i, r)
<1>1. len \in Nat
  BY ONLY TypeOK, f \in 1..called, i \in 1..Len(picture[f]), UnitFacts
<1>2. rem = IF r = 0 THEN len - 1 ELSE r
  BY DEF Remaining
<1>3. fu = IF rem + 2 <= MaxPayload THEN rem ELSE MaxPayload - 2
  BY DEF FULen
<1>4. /\ p.pic = f /\ p.nal = i
      /\ p.first = IF r = 0 THEN 1 ELSE len - rem + 1
      /\ p.last = len - rem + fu
  BY DEF FragmentOf, Packet
<1>5. rem - fu \in Nat
  BY FragmentGood
<1>6. rem \in Int /\ fu \in Int
  BY <1>1, <1>2, <1>3, MaxPayloadAssumption
<1> HIDE DEF len, rem, fu, p
<1>7. /\ p.first = (IF r = 0 THEN 1 ELSE len - r + 1)
      /\ p.last = len - (rem - fu)
      /\ rem - fu = 0 <=> rem = fu
  BY <1>1, <1>2, <1>4, <1>6
<1> QED
  BY <1>4, <1>5, <1>7 DEF len, rem, fu, p

LEMMA InitTurns == Init => Turns
<1> SUFFICES ASSUME Init PROVE Turns
  OBVIOUS
<1>1. IInv
  BY InitIInv
<1>2. IsFiniteSet(callers)
  BY FS_EmptySet DEF Init
<1>3. Done(called)
  <2>1. NoPacket.pic = 0
    BY DEF NoPacket, Packet
  <2> QED
    BY <2>1 DEF Init, Done, HasRTPFrames, m_NALs
<1>4. InTurn
  BY <1>3 DEF Init, InTurn, Sending
<1> QED
  BY <1>1, <1>2, <1>4 DEF Init, Turns

LEMMA CallTurns ==
  ASSUME Turns, NEW t \in Threads, NEW pic \in Pictures, SendH264Nalu(t, pic)
  PROVE  Turns'
<1>1. /\ IInv' /\ TypeOK /\ called \in Nat /\ m_picture \in 0..called
      /\ picture \in Seq(Pictures) /\ Len(picture) = called
  BY CallKeeps, MaxPicturesAssumption DEF Turns, IInv, TypeOK
<1>2. /\ pc[t] = "idle" /\ pc' = [pc EXCEPT ![t] = "encode"]
      /\ job' = [job EXCEPT ![t] = called + 1]
      /\ called' = called + 1 /\ picture' = Append(picture, pic)
      /\ callers' = callers \cup {t}
      /\ UNCHANGED <<inHand, m_picture, m_currentNAL, m_currentNALFURemainingLen, last, sent>>
  BY DEF SendH264Nalu, encapsulation
<1>3. pc \in [Threads -> {"idle", "encode", "send"}] /\ job \in [Threads -> 0..called]
  BY <1>1 DEF TypeOK
<1>4. IsFiniteSet(callers') /\ (OneThread' => OneThread)
  BY <1>2, CallersStay DEF Turns
<1>5. \A u \in Threads : pc'[u] # "idle" => u \in callers'
  BY <1>2, <1>3 DEF Turns
<1>6. ASSUME OneThread'
      PROVE  InTurn'
  <2>1. \A u \in Threads : pc'[u] # "idle" => u = t
    <3> SUFFICES ASSUME NEW u \in Threads, pc'[u] # "idle" PROVE u = t
      OBVIOUS
    <3>1. u \in callers' /\ t \in callers'
      BY <1>2, <1>5
    <3> QED
      BY <1>4, <1>6, <3>1, AtMostOne DEF OneThread
  <2>2. \A u \in Threads : pc[u] = "idle"
    BY <1>2, <1>3, <2>1
  <2>3. Done(called)
    BY <1>4, <1>6, <2>2 DEF Turns, InTurn
  <2>4. m_NALs' = m_NALs
    <3>1. m_picture # 0 => picture'[m_picture] = picture[m_picture]
      BY <1>1, <1>2, AppendProperties
    <3> QED
      BY <1>2, <3>1 DEF m_NALs
  <2>5. Done(called - 1)'
    BY <1>1, <1>2, <2>3, <2>4 DEF Done, HasRTPFrames
  <2>6. pc'[t] = "encode" /\ job'[t] = called'
    BY <1>2, <1>3
  <2> QED
    BY <2>1, <2>5, <2>6 DEF InTurn, Sending
<1> QED
  BY <1>1, <1>2, <1>4, <1>5, <1>6 DEF Turns

(* Whatever thread makes a step in turn, the others are idle. *)
LEMMA Alone ==
  ASSUME Turns, OneThread, NEW t \in Threads, pc[t] # "idle"
  PROVE  \A u \in Threads : u # t => pc[u] = "idle"
BY AtMostOne DEF Turns, OneThread

(* What is made: bytes from where the packetizer was to where it is now. *)
LEMMA EncodeMoves ==
  ASSUME IInv, NEW t \in Threads, EncodeFrames(t)
  PROVE  LET len == picture[NextPicture(t)][NextNAL].len
         IN  /\ inHand'[t].pic = NextPicture(t) /\ inHand'[t].nal = NextNAL
             /\ NextRest = 0 => inHand'[t].first = 1
             /\ NextRest > 0 /\ len > MaxPayload => inHand'[t].first = len - NextRest + 1
             /\ After(inHand[t])'
<1> DEFINE f    == NextPicture(t)
           i    == NextNAL
           r    == NextRest
           len  == picture[f][i].len
           rest == m_currentNALFURemainingLen'
           p    == inHand'[t]
<1>1. TypeOK
  BY DEF IInv
<1>2. /\ m_picture' = f
      /\ inHand' = [inHand EXCEPT ![t] = IF len > MaxPayload THEN FragmentOf(f, i, r)
                                                             ELSE SingleNAL(f, i)]
      /\ rest = IF len > MaxPayload THEN Remaining(f, i, r) - FULen(f, i, r) ELSE 0
      /\ m_currentNAL' = IF len > MaxPayload /\ Remaining(f, i, r) # FULen(f, i, r)
                         THEN i ELSE i + 1
      /\ pc[t] = "encode" /\ pc' = [pc EXCEPT ![t] = "send"]
      /\ UNCHANGED <<called, picture, callers, job, last, sent>>
      /\ f \in 1..called /\ i \in 1..Len(picture[f]) /\ r \in Nat
      /\ len > MaxPayload => r < len - 1
  BY EncodeMakes
<1>3. /\ pc \in [Threads -> {"idle", "encode", "send"}]
      /\ inHand \in [Threads -> PacketType] /\ called \in Nat
  BY <1>1, MaxPicturesAssumption DEF TypeOK
<1>4. p = IF len > MaxPayload THEN FragmentOf(f, i, r) ELSE SingleNAL(f, i)
  BY <1>2, <1>3
<1>5. len \in Nat /\ len > 0
  BY ONLY <1>1, <1>2, UnitFacts
<1> HIDE DEF f, i, r, p
<1>6. /\ p.pic = f /\ p.nal = i /\ rest \in Nat /\ p.last = len - rest
      /\ r = 0 => p.first = 1
      /\ r > 0 /\ len > MaxPayload => p.first = len - r + 1
      /\ m_currentNAL' = IF rest = 0 THEN i + 1 ELSE i
  <2>1. CASE len > MaxPayload
    <3>1. /\ p = FragmentOf(f, i, r) /\ rest = Remaining(f, i, r) - FULen(f, i, r)
          /\ m_currentNAL' = IF Remaining(f, i, r) # FULen(f, i, r) THEN i ELSE i + 1
      BY <1>2, <1>4, <2>1
    <3> HIDE DEF rest
    <3>2. /\ p.pic = f /\ p.nal = i
          /\ p.first = IF r = 0 THEN 1 ELSE len - r + 1
          /\ rest \in Nat /\ p.last = len - rest
          /\ rest = 0 <=> Remaining(f, i, r) = FULen(f, i, r)
      BY <1>1, <1>2, <2>1, <3>1, FragmentPlace
    <3> QED
      BY <1>2, <3>1, <3>2
  <2>2. CASE ~(len > MaxPayload)
    <3>1. p = SingleNAL(f, i) /\ rest = 0 /\ m_currentNAL' = i + 1
      BY <1>2, <1>4, <2>2
    <3>2. p.pic = f /\ p.nal = i /\ p.first = 1 /\ p.last = len
      BY <3>1 DEF SingleNAL, Packet
    <3> QED
      BY <1>5, <2>2, <3>1, <3>2
  <2> QED
    BY <2>1, <2>2
<1>7. After(inHand[t])'
  <2>1. /\ inHand'[t].pic = f /\ inHand'[t].last = len - rest
        /\ picture'[inHand'[t].pic][inHand'[t].nal].len = len
    BY <1>2, <1>6 DEF p
  <2>2. /\ (len - rest = len) <=> rest = 0
        /\ len - (len - rest) = rest
        /\ m_currentNAL' = IF rest = 0 THEN inHand'[t].nal + 1 ELSE inHand'[t].nal
    BY <1>5, <1>6 DEF p
  <2> HIDE DEF len
  <2> QED
    BY <1>2, <2>1, <2>2 DEF After
<1> QED
  BY <1>6, <1>7 DEF f, i, r, p

(* Behind a packet without the marker something is left of the picture. *)
LEMMA LeftOver ==
  ASSUME IInv, NEW p \in Made, After(p), ~p.marker
  PROVE  /\ HasRTPFrames
         /\ m_NALs = picture[p.pic] /\ p.nal \in 1..Len(m_NALs)
         /\ p.last \in Nat /\ m_NALs[p.nal].len \in Nat /\ p.last <= m_NALs[p.nal].len
<1> DEFINE units == picture[p.pic]
           len   == units[p.nal].len
<1>1. TypeOK /\ p.pic \in 1..called /\ GoodPacket(p, units) /\ p \in PacketType
  BY DEF IInv, TypeOK, Made, Sending
<1>2. /\ p.nal \in 1..Len(units) /\ p.last \in Nat /\ p.last <= len
      /\ ~(p.nal = Len(units) /\ p.last = len)
  BY <1>1 DEF GoodPacket, PacketType
<1>3. Len(units) \in Nat /\ len \in Nat /\ called \in Nat
  <2>1. called \in Nat
    BY <1>1, MaxPicturesAssumption DEF TypeOK
  <2> QED
    BY ONLY <1>1, <1>2, <2>1, PictureFacts, UnitFacts
<1>4. /\ m_picture = p.pic /\ m_NALs = units
      /\ IF p.last = len THEN m_currentNAL = p.nal + 1 /\ m_currentNALFURemainingLen = 0
         ELSE m_currentNAL = p.nal /\ m_currentNALFURemainingLen = len - p.last
  BY <1>1, <1>3 DEF After, m_NALs
<1> HIDE DEF units, len
<1>5. HasRTPFrames
  BY <1>2, <1>3, <1>4 DEF HasRTPFrames
<1> QED
  BY <1>2, <1>3, <1>4, <1>5 DEF units, len

(* A packet that was the last one made is followed by the next bytes. *)
LEMMA CarriesOn ==
  ASSUME IInv, NEW t \in Threads, EncodeFrames(t),
         NEW p \in Made, After(p), ~p.marker
  PROVE  HasRTPFrames /\ Continues(p, inHand'[t])
<1> DEFINE units == picture[p.pic]
           len   == units[p.nal].len
           q     == inHand'[t]
<1>1. /\ HasRTPFrames /\ m_NALs = units /\ p.nal \in 1..Len(units)
      /\ p.last \in Nat /\ len \in Nat /\ p.last <= len
  BY LeftOver
<1>2. /\ m_picture = p.pic
      /\ IF p.last = len THEN m_currentNAL = p.nal + 1 /\ m_currentNALFURemainingLen = 0
         ELSE m_currentNAL = p.nal /\ m_currentNALFURemainingLen = len - p.last
  BY DEF After
<1> HIDE DEF units, len
<1>3. /\ NextPicture(t) = p.pic /\ NextNAL = m_currentNAL
      /\ NextRest = m_currentNALFURemainingLen
  BY <1>1, <1>2 DEF NextPicture, NextNAL, NextRest
<1>4. /\ q.pic = p.pic /\ q.nal = m_currentNAL
      /\ m_currentNALFURemainingLen = 0 => q.first = 1
      /\ m_currentNALFURemainingLen > 0 /\ units[m_currentNAL].len > MaxPayload
           => q.first = units[m_currentNAL].len - m_currentNALFURemainingLen + 1
  BY <1>3, EncodeMoves DEF units
<1> HIDE DEF q
<1>5. CASE p.last = len
  BY <1>1, <1>2, <1>4, <1>5 DEF Continues, units, len, q
<1>6. CASE p.last # len
  <2>1. m_currentNAL = p.nal /\ m_currentNALFURemainingLen = len - p.last
        /\ m_currentNALFURemainingLen > 0
    BY <1>1, <1>2, <1>6
  <2>2. units[m_currentNAL].len = len /\ len > MaxPayload
    BY <1>1, <2>1 DEF IInv, Fragmenting, len
  <2>3. q.first = p.last + 1
    BY <1>1, <1>4, <2>1, <2>2
  <2> QED
    BY <1>1, <1>4, <1>6, <2>1, <2>3 DEF Continues, units, len, q
<1> QED
  BY <1>5, <1>6

LEMMA EncodeTurns ==
  ASSUME Turns, NEW t \in Threads, EncodeFrames(t)
  PROVE  Turns'
<1> DEFINE f == NextPicture(t)
           p == inHand'[t]
<1>1. TypeOK /\ IInv /\ IInv'
  BY EncodeKeeps DEF Turns, IInv
<1>2. /\ pc[t] = "encode" /\ pc' = [pc EXCEPT ![t] = "send"] /\ f \in 1..called
      /\ UNCHANGED <<called, picture, callers, job, last, sent>>
  BY <1>1, EncodeMakes
<1>3. pc \in [Threads -> {"idle", "encode", "send"}] /\ called \in Nat
  BY <1>1, MaxPicturesAssumption DEF TypeOK
<1>4. /\ p.pic = f /\ p.nal = NextNAL
      /\ NextRest = 0 => p.first = 1
      /\ After(inHand[t])'
  BY <1>1, EncodeMoves
<1> HIDE DEF f, p
<1>5. ASSUME OneThread'
      PROVE  InTurn'
  <2>1. OneThread /\ InTurn
    BY <1>2, <1>5 DEF Turns, OneThread
  <2>2. \A u \in Threads : u # t => pc'[u] = "idle"
    BY <1>2, <1>3, <2>1, Alone
  <2>3. job[t] = called /\ (Done(called - 1) \/ Midway)
    BY <1>2, <2>1 DEF InTurn
  <2>4. f = called /\ Follows(p)
    <3>1. CASE Done(called - 1)
      <4>1. f = called /\ NextNAL = 1 /\ NextRest = 0
        BY <2>3, <3>1 DEF Done, f, NextPicture, NextNAL, NextRest
      <4> QED
        BY <1>3, <1>4, <3>1, <4>1 DEF Done, Follows, Begins
    <3>2. CASE Midway
      <4>1. last \in Made /\ last.pic = called /\ ~last.marker /\ After(last)
        <5>1. called # 0 /\ NoPacket.pic = 0
          BY <1>2, <1>3 DEF NoPacket, Packet
        <5> QED
          BY <3>2, <5>1 DEF Midway, Turns, Made
      <4>2. Continues(last, p)
        BY <1>1, <4>1, CarriesOn DEF p
      <4> QED
        BY <1>4, <4>1, <4>2 DEF Follows, Continues
    <3> QED
      BY <2>3, <3>1, <3>2
  <2>5. Follows(inHand[t])'
    BY <1>2, <2>4 DEF Follows, Continues, Begins, p
  <2>6. pc'[t] = "send" /\ job' = job /\ called' = called
    BY <1>2, <1>3
  <2> QED
    BY <1>4, <2>2, <2>3, <2>4, <2>5, <2>6 DEF InTurn, Sending, p
<1>6. IsFiniteSet(callers') /\ (last' = NoPacket \/ last' \in sent')
  BY <1>2 DEF Turns
<1>7. \A u \in Threads : pc'[u] # "idle" => u \in callers'
  BY <1>2, <1>3 DEF Turns
<1> QED
  BY <1>1, <1>5, <1>6, <1>7 DEF Turns

LEMMA SendTurns ==
  ASSUME Turns, NEW t \in Threads, SendPacket(t)
  PROVE  Turns'
<1> DEFINE p == inHand[t]
<1>1. TypeOK /\ IInv /\ IInv'
  BY SendKeeps DEF Turns, IInv
<1>2. /\ pc[t] = "send" /\ last' = p /\ sent' = sent \cup {p}
      /\ inHand' = [inHand EXCEPT ![t] = NoPacket]
      /\ IF p.marker THEN pc' = [pc EXCEPT ![t] = "idle"] /\ job' = [job EXCEPT ![t] = 0]
                     ELSE pc' = [pc EXCEPT ![t] = "encode"] /\ job' = job
      /\ UNCHANGED <<called, picture, callers, m_picture, m_currentNAL, m_currentNALFURemainingLen>>
  BY DEF SendPacket, encapsulation
<1>3. /\ pc \in [Threads -> {"idle", "encode", "send"}]
      /\ job \in [Threads -> 0..called] /\ called \in Nat
  BY <1>1, MaxPicturesAssumption DEF TypeOK
<1>4. p \in Made /\ p.pic \in 1..called /\ GoodPacket(p, picture[p.pic])
  <2>1. p \in Made
    BY <1>2 DEF Made, Sending
  <2> QED
    BY <1>1, <2>1 DEF IInv
<1> HIDE DEF p
<1>5. ASSUME OneThread'
      PROVE  InTurn'
  <2>1. OneThread /\ InTurn
    BY <1>2, <1>5 DEF Turns, OneThread
  <2>2. \A u \in Threads : u # t => pc'[u] = "idle"
    <3>1. \A u \in Threads : u # t => pc[u] = "idle"
      BY <1>2, <2>1, Alone
    <3> QED
      BY <1>2, <1>3, <3>1
  <2>3. After(p) /\ p.pic = called /\ job[t] = called
    BY <1>2, <2>1 DEF InTurn, Sending, p
  <2>4. After(last)'
    BY <1>2, <2>3 DEF After
  <2>5. CASE p.marker
    <3>1. pc'[t] = "idle"
      BY <1>2, <1>3, <2>5
    <3>2. ~HasRTPFrames
      <4>1. p.nal = Len(picture[called]) /\ p.last = picture[called][p.nal].len
        BY <1>4, <2>3, <2>5 DEF GoodPacket
      <4>2. m_picture = called /\ m_currentNAL = Len(picture[called]) + 1
        BY <2>3, <4>1 DEF After
      <4>3. m_NALs = picture[called]
        BY <1>4, <2>3, <4>2 DEF m_NALs
      <4>4. Len(picture[called]) \in Nat
        BY ONLY <1>1, <1>4, <2>3, PictureFacts
      <4> QED
        BY <4>2, <4>3, <4>4 DEF HasRTPFrames
    <3>3. Done(called)'
      BY <1>2, <2>3, <2>5, <3>2 DEF Done, HasRTPFrames, m_NALs
    <3> QED
      BY <2>2, <3>1, <3>3 DEF InTurn, Sending
  <2>6. CASE ~p.marker
    <3>1. pc'[t] = "encode" /\ job' = job /\ called' = called
      BY <1>2, <1>3, <2>6
    <3>2. Midway'
      BY <1>2, <2>3, <2>4, <2>6 DEF Midway, After
    <3> QED
      BY <2>2, <2>3, <3>1, <3>2 DEF InTurn, Sending
  <2> QED
    BY <2>5, <2>6
<1>6. IsFiniteSet(callers') /\ (last' = NoPacket \/ last' \in sent')
  BY <1>2 DEF Turns
<1>7. \A u \in Threads : pc'[u] # "idle" => u \in callers'
  BY <1>2, <1>3 DEF Turns
<1> QED
  BY <1>1, <1>5, <1>6, <1>7 DEF Turns

LEMMA StepTurns == Turns /\ [Next]_vars => Turns'
<1> SUFFICES ASSUME Turns, [Next]_vars PROVE Turns'
  OBVIOUS
<1>1. CASE UNCHANGED vars
  <2>1. IInv'
    BY StepKeeps DEF Turns
  <2>2. InTurn => InTurn'
    BY <1>1 DEF vars, encapsulation, InTurn, Done, Midway, Follows, Continues, Begins, After,
                HasRTPFrames, m_NALs, Sending
  <2> QED
    BY <1>1, <2>1, <2>2 DEF vars, Turns, OneThread
<1> QED
  BY <1>1, CallTurns, EncodeTurns, SendTurns DEF Next

(* With one thread the packets are the pictures, byte for byte and in turn. *)
THEOREM ContiguousCorrect == Spec => []Contiguous
<1>1. Turns => Contiguous
  BY DEF Turns, InTurn, Follows, Contiguous
<1> QED
  BY <1>1, InitTurns, StepTurns, PTL DEF Spec

-----------------------------------------------------------------------------
(* With several threads: each picture of which a packet was made has been  *)
(* begun, and each packet that is not the end of its picture is followed,  *)
(* or was made last.  While something is left of a picture, some thread    *)
(* has a packet without the marker, and goes on.                           *)
Begun(n) == \E q \in Made : q.pic = n /\ Begins(q)

GoesOn(t) == pc[t] = "encode" \/ (pc[t] = "send" /\ ~inHand[t].marker)

Wholes ==
  /\ IInv
  /\ HasRTPFrames => Begun(m_picture) /\ \E t \in Threads : GoesOn(t)
  /\ \A p \in Made :
       /\ Begun(p.pic)
       /\ p.marker \/ After(p) \/ \E q \in Made : Continues(p, q)

LEMMA InitWholes == Init => Wholes
BY InitIInv DEF Init, Wholes, HasRTPFrames, m_NALs, Made, Sending

LEMMA CallWholes ==
  ASSUME Wholes, NEW t \in Threads, NEW pic \in Pictures, SendH264Nalu(t, pic)
  PROVE  Wholes'
<1>1. /\ IInv' /\ TypeOK /\ called \in Nat /\ m_picture \in 0..called
      /\ picture \in Seq(Pictures) /\ Len(picture) = called
  BY CallKeeps, MaxPicturesAssumption DEF Wholes, IInv, TypeOK
<1>2. /\ pc[t] = "idle" /\ pc' = [pc EXCEPT ![t] = "encode"]
      /\ picture' = Append(picture, pic)
      /\ UNCHANGED <<inHand, m_picture, m_currentNAL, m_currentNALFURemainingLen, last, sent>>
  BY DEF SendH264Nalu, encapsulation
<1>3. pc \in [Threads -> {"idle", "encode", "send"}]
  BY <1>1 DEF TypeOK
<1>4. Made' = Made
  BY <1>2, <1>3 DEF Made, Sending
<1>5. \A f \in 1..called : picture'[f] = picture[f]
  BY <1>1, <1>2, AppendProperties
<1>6. m_NALs' = m_NALs
  BY <1>1, <1>2, <1>5 DEF m_NALs
<1>7. HasRTPFrames' => Begun(m_picture)' /\ \E u \in Threads : GoesOn(u)'
  <2>1. GoesOn(t)'
    BY <1>2, <1>3 DEF GoesOn
  <2> QED
    BY <1>2, <1>4, <1>6, <2>1 DEF Wholes, HasRTPFrames, Begun, Begins
<1>8. ASSUME NEW p \in Made'
      PROVE  /\ Begun(p.pic)'
             /\ p.marker \/ After(p)' \/ \E q \in Made' : Continues(p, q)'
  <2>1. p \in Made /\ picture'[p.pic] = picture[p.pic]
    BY <1>4, <1>5 DEF Wholes, IInv
  <2>2. Begun(p.pic)'
    BY <1>4, <2>1 DEF Wholes, Begun, Begins
  <2>3. After(p) => After(p)'
    BY <1>2, <2>1 DEF After
  <2>4. \A q \in Made : Continues(p, q) => Continues(p, q)'
    BY <2>1 DEF Continues
  <2> QED
    BY <1>4, <2>1, <2>2, <2>3, <2>4 DEF Wholes
<1> QED
  BY <1>1, <1>7, <1>8 DEF Wholes

LEMMA EncodeWholes ==
  ASSUME Wholes, NEW t \in Threads, EncodeFrames(t)
  PROVE  Wholes'
<1> DEFINE p == inHand'[t]
<1>1. TypeOK /\ IInv /\ IInv'
  BY EncodeKeeps DEF Wholes, IInv
<1>2. /\ pc[t] = "encode" /\ pc' = [pc EXCEPT ![t] = "send"]
      /\ inHand' = [inHand EXCEPT ![t] = p]
      /\ m_picture' = NextPicture(t)
      /\ UNCHANGED <<called, picture, callers, job, last, sent>>
  BY <1>1, EncodeMakes DEF TypeOK
<1>3. pc \in [Threads -> {"idle", "encode", "send"}] /\ inHand \in [Threads -> PacketType]
  BY <1>1 DEF TypeOK
<1>4. /\ p.pic = m_picture' /\ p.nal = NextNAL
      /\ NextRest = 0 => p.first = 1
      /\ After(inHand[t])'
  BY <1>1, <1>2, EncodeMoves
<1>5. Made' = Made \cup {p} /\ pc'[t] = "send"
  BY <1>2, <1>3 DEF Made, Sending
<1>6. Begun(m_picture)'
  <2>1. CASE HasRTPFrames
    <3>1. PICK q \in Made : q.pic = m_picture /\ Begins(q)
      BY <2>1 DEF Wholes, Begun
    <3>2. m_picture' = m_picture
      BY <1>2, <2>1 DEF NextPicture
    <3> QED
      BY <1>5, <3>1, <3>2 DEF Begun, Begins
  <2>2. CASE ~HasRTPFrames
    <3>1. Begins(p)
      BY <1>4, <2>2 DEF NextNAL, NextRest, Begins
    <3> QED
      BY <1>4, <1>5, <3>1 DEF Begun, Begins
  <2> QED
    BY <2>1, <2>2
<1>7. HasRTPFrames' => GoesOn(t)'
  <2> SUFFICES ASSUME p.marker PROVE ~HasRTPFrames'
    BY <1>5 DEF GoesOn
  <2>1. p \in Made' /\ p.pic \in 1..called /\ GoodPacket(p, picture[p.pic])
    BY <1>1, <1>2, <1>5 DEF IInv, GoodPacket
  <2>2. p.nal = Len(picture[p.pic]) /\ p.last = picture[p.pic][p.nal].len
    BY <2>1 DEF GoodPacket
  <2>3. m_currentNAL' = Len(picture[p.pic]) + 1
    BY <1>2, <1>4, <2>2 DEF After, p
  <2>4. m_NALs' = picture[p.pic]
    BY <1>2, <1>4, <2>1 DEF m_NALs
  <2>5. Len(picture[p.pic]) \in Nat
    BY ONLY <1>1, <2>1, PictureFacts
  <2> QED
    BY <2>3, <2>4, <2>5 DEF HasRTPFrames
<1>8. ASSUME NEW q \in Made'
      PROVE  /\ Begun(q.pic)'
             /\ q.marker \/ After(q)' \/ \E x \in Made' : Continues(q, x)'
  <2>1. CASE q = p
    BY <1>4, <1>6, <2>1 DEF p
  <2>2. CASE q \in Made
    <3>1. Begun(q.pic)'
      BY <1>5, <2>2 DEF Wholes, Begun, Begins
    <3>2. CASE ~q.marker /\ After(q)
      <4>1. Continues(q, p)
        BY <1>1, <2>2, <3>2, CarriesOn
      <4> QED
        BY <1>2, <1>5, <3>1, <4>1 DEF Continues
    <3>3. CASE \E x \in Made : Continues(q, x)
      BY <1>2, <1>5, <3>1, <3>3 DEF Continues
    <3> QED
      BY <2>2, <3>1, <3>2, <3>3 DEF Wholes
  <2> QED
    BY <1>5, <2>1, <2>2
<1> QED
  BY <1>1, <1>6, <1>7, <1>8 DEF Wholes

LEMMA SendWholes ==
  ASSUME Wholes, NEW t \in Threads, SendPacket(t)
  PROVE  Wholes'
<1>1. TypeOK /\ IInv'
  BY SendKeeps DEF Wholes, IInv
<1>2. /\ pc[t] = "send" /\ sent' = sent \cup {inHand[t]}
      /\ inHand' = [inHand EXCEPT ![t] = NoPacket]
      /\ inHand[t].marker => pc' = [pc EXCEPT ![t] = "idle"]
      /\ ~inHand[t].marker => pc' = [pc EXCEPT ![t] = "encode"]
      /\ UNCHANGED <<picture, m_picture, m_currentNAL, m_currentNALFURemainingLen>>
  BY DEF SendPacket, encapsulation
<1>3. pc \in [Threads -> {"idle", "encode", "send"}] /\ inHand \in [Threads -> PacketType]
  BY <1>1 DEF TypeOK
<1>4. Made' = Made
  BY <1>2, <1>3 DEF Made, Sending
<1>5. \A u \in Threads : GoesOn(u) => GoesOn(u)'
  BY <1>2, <1>3 DEF GoesOn
<1>6. HasRTPFrames' => Begun(m_picture)' /\ \E u \in Threads : GoesOn(u)'
  BY <1>2, <1>4, <1>5 DEF Wholes, HasRTPFrames, m_NALs, Begun, Begins
<1>7. \A p \in Made' :
        /\ Begun(p.pic)'
        /\ p.marker \/ After(p)' \/ \E q \in Made' : Continues(p, q)'
  BY <1>2, <1>4 DEF Wholes, Begun, Begins, After, Continues
<1> QED
  BY <1>1, <1>6, <1>7 DEF Wholes

LEMMA StepWholes == Wholes /\ [Next]_vars => Wholes'
<1> SUFFICES ASSUME Wholes, [Next]_vars PROVE Wholes'
  OBVIOUS
<1>1. CASE UNCHANGED vars
  <2>1. IInv'
    BY StepKeeps DEF Wholes
  <2> QED
    BY <1>1, <2>1 DEF vars, encapsulation, Wholes, HasRTPFrames, m_NALs, Made, Sending,
                      Begun, Begins, GoesOn, After, Continues
<1> QED
  BY <1>1, CallWholes, EncodeWholes, SendWholes DEF Next

(* Also when threads mix their packets, no picture is left half sent.      *)
THEOREM WholePicturesCorrect == Spec => []WholePictures
<1>1. Wholes => WholePictures
  <2> SUFFICES ASSUME Wholes, \A t \in Threads : pc[t] = "idle"
               PROVE  /\ ~HasRTPFrames
                      /\ \A p \in sent :
                           /\ \E q \in sent : q.pic = p.pic /\ Begins(q)
                           /\ p.marker \/ \E q \in sent : Continues(p, q)
    BY DEF WholePictures
  <2>1. Made = sent
    BY DEF Made, Sending
  <2>2. ~HasRTPFrames
    BY DEF Wholes, GoesOn
  <2>3. ASSUME NEW p \in sent, After(p), ~p.marker PROVE HasRTPFrames
    BY <2>1, <2>3, LeftOver DEF Wholes
  <2> QED
    BY <2>1, <2>2, <2>3 DEF Wholes, Begun
<1> QED
  BY <1>1, InitWholes, StepWholes, PTL DEF Spec
=============================================================================
