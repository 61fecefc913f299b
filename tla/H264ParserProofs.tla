-------------------------- MODULE H264ParserProofs --------------------------
(***************************************************************************)
(* Proofs about H264Parser, for every picture, every size of the array and *)
(* every parameter set.  GetNalSize finds the NAL units of the picture,    *)
(* each one, in their order.  H264_Decode_SPS reads the size that was      *)
(* written, and no other one from a set whose end is missing.              *)
(***************************************************************************)
EXTENDS H264Parser, Integers, SequenceTheorems, FiniteSetTheorems, WellFoundedInduction, TLAPS

-----------------------------------------------------------------------------
(* GetNalSize: the inductive invariant.                                    *)

Nalus == [pdata : Nat, len : Nat]

Typed ==
  /\ src \in Seq(Nat)
  /\ lpData \in 1..(Len(src) + 1)
  /\ nal = 0 \/ nal \in Starts
  /\ i \in 1..(Len(src) + 1)
  /\ pnal \in Seq(Nalus)
  /\ Len(pnal) <= MaxNal

Entered(s) == \E k \in 1..Len(pnal) : pnal[k].pdata = s

(* What was passed has been entered. *)
Passed == nal = 0 => \A s \in Starts : s - 3 < lpData => Entered(s)

(* The unit being measured is the next one, and has not ended before i.    *)
Measuring ==
  nal # 0 =>
    /\ lpData < nal /\ nal <= i
    /\ Len(pnal) < MaxNal
    /\ \A e \in nal..(i - 1) : ~Ends(e)
    /\ \A s \in Starts : s < nal => Entered(s)

(* The units entered lie one behind the other, before lpData. *)
Ordered ==
  /\ \A k \in 1..Len(pnal) : IsUnit(pnal[k]) /\ pnal[k].pdata + pnal[k].len <= lpData
  /\ \A j, k \in 1..Len(pnal) : j < k => pnal[j].pdata + pnal[j].len < pnal[k].pdata

(* Between two neighbours in the array there is no other unit. *)
NoneBetween ==
  \A k \in 1..(Len(pnal) - 1) :
    \A s \in Starts : ~(pnal[k].pdata < s /\ s < pnal[k + 1].pdata)

IInv == Typed /\ Passed /\ Measuring /\ Ordered /\ NoneBetween

-----------------------------------------------------------------------------
(* What isNalHead and isNalTail say about the bytes at p.                  *)

LEMMA ZerosThree ==
  ASSUME NEW p \in Nat
  PROVE  /\ Zeros(p, 2) <=> src[p] = 0 /\ src[p + 1] = 0
         /\ Zeros(p, 3) <=> src[p] = 0 /\ src[p + 1] = 0 /\ src[p + 2] = 0
<1>1. p..(p + 2 - 1) = {p, p + 1} /\ p..(p + 3 - 1) = {p, p + 1, p + 2}
  OBVIOUS
<1> QED
  BY <1>1 DEF Zeros

(* A start code that begins at p leads to a start; none begins at p before *)
(* that one.                                                               *)
LEMMA Heads ==
  ASSUME src \in Seq(Nat), NEW p \in 1..(Len(src) + 1)
  PROVE  /\ isNalHead(p) # 0 =>
              /\ p + isNalHead(p) \in Starts
              /\ isNalHead(p) \in {3, 4}
              /\ \A s \in Starts : s < p + isNalHead(p) => s - 3 < p
         /\ isNalHead(p) = 0 => \A s \in Starts : s - 3 # p
<1>0. Len(src) \in Nat /\ p \in Nat
  BY LenProperties
<1>1. CASE LongHead(p)
  <2>1. /\ isNalHead(p) = 4 /\ p + 4 <= Len(src) + 1
        /\ src[p] = 0 /\ src[p + 1] = 0 /\ src[p + 2] = 0 /\ src[p + 3] = 1
    BY <1>0, <1>1, ZerosThree DEF isNalHead, LongHead, Left
  <2>2. p + 4 \in Starts
    BY <1>0, <2>1 DEF Starts
  <2>3. ASSUME NEW s \in Starts, s < p + 4 PROVE s - 3 < p
    <3>1. s \in Nat /\ s >= 4 /\ src[s - 1] = 1
      BY <1>0 DEF Starts
    <3>2. s # p + 3
      BY <1>0, <2>1, <3>1
    <3> QED
      BY <1>0, <2>3, <3>1, <3>2
  <2> QED
    BY <2>1, <2>2, <2>3
<1>2. CASE ~LongHead(p) /\ ShortHead(p)
  <2>1. /\ isNalHead(p) = 3 /\ p + 3 <= Len(src) + 1
        /\ src[p] = 0 /\ src[p + 1] = 0 /\ src[p + 2] = 1
    BY <1>0, <1>2, ZerosThree DEF isNalHead, ShortHead, Left
  <2>2. p + 3 \in Starts
    BY <1>0, <2>1 DEF Starts
  <2>3. ASSUME NEW s \in Starts, s < p + 3 PROVE s - 3 < p
    BY <1>0, <2>3 DEF Starts
  <2> QED
    BY <2>1, <2>2, <2>3
<1>3. CASE ~LongHead(p) /\ ~ShortHead(p)
  <2>1. isNalHead(p) = 0
    BY <1>3 DEF isNalHead
  <2>2. ASSUME NEW s \in Starts, s - 3 = p PROVE ShortHead(p)
    <3>1. s \in Nat /\ s <= Len(src) + 1 /\ s = p + 3
      BY <1>0, <2>2 DEF Starts
    <3>2. src[p] = 0 /\ src[p + 1] = 0 /\ src[p + 2] = 1
      BY <1>0, <3>1 DEF Starts
    <3> QED
      <4>1. Zeros(p, 2)
        BY <1>0, <3>2, ZerosThree
      <4>2. Left(p) >= 3
        BY <1>0, <3>1 DEF Left
      <4> QED
        BY <3>2, <4>1, <4>2 DEF ShortHead
  <2> QED
    BY <1>3, <2>1, <2>2
<1> QED
  BY <1>1, <1>2, <1>3

(* A tail is what Ends says, apart from the end of the picture. *)
LEMMA Tails ==
  ASSUME src \in Seq(Nat), NEW p \in 1..Len(src)
  PROVE  isNalTail(p) <=> Ends(p)
<1>0. Len(src) \in Nat /\ p \in Nat /\ p # Len(src) + 1
  BY LenProperties
<1> DEFINE a == src[p] = 0
           b == src[p + 1] = 0
           c == src[p + 2] = 0
           d == src[p + 2] = 1
           x == src[p + 3] = 1
<1>1. /\ LongHead(p) <=> p + 3 <= Len(src) /\ a /\ b /\ c /\ x
      /\ ShortHead(p) <=> p + 2 <= Len(src) /\ a /\ b /\ d
      /\ (Left(p) >= 3 /\ Zeros(p, 3)) <=> p + 2 <= Len(src) /\ a /\ b /\ c
  BY <1>0, ZerosThree DEF LongHead, ShortHead, Left
<1>2. Ends(p) <=> p + 2 <= Len(src) /\ a /\ b /\ (c \/ d)
  BY <1>0, ZerosThree DEF Ends
<1>3. isNalTail(p) <=> LongHead(p) \/ ShortHead(p) \/ (Left(p) >= 3 /\ Zeros(p, 3))
  BY DEF isNalTail, isNalHead
<1>4. p + 3 <= Len(src) => p + 2 <= Len(src)
  BY <1>0
<1> HIDE DEF a, b, c, d, x
<1> QED
  BY <1>1, <1>2, <1>3, <1>4

(* A start behind another begins with a start code that lies wholly behind *)
(* it, and so where a unit ends.                                           *)
LEMMA NextStart ==
  ASSUME src \in Seq(Nat), NEW r \in Starts, NEW s \in Starts, r < s
  PROVE  r <= s - 3 /\ Ends(s - 3)
<1>1. /\ Len(src) \in Nat /\ r \in Nat /\ s \in Nat /\ s >= 4 /\ r >= 4 /\ s <= Len(src) + 1
      /\ src[s - 3] = 0 /\ src[s - 2] = 0 /\ src[s - 1] = 1 /\ src[r - 1] = 1
  BY LenProperties DEF Starts
<1>2. r - 1 # s - 3 /\ r - 1 # s - 2
  BY <1>1
<1>3. r <= s - 3
  BY <1>1, <1>2
<1>4. s - 3 \in Nat /\ s - 3 + 1 = s - 2 /\ s - 3 + 2 = s - 1
  BY <1>1
<1>5. Zeros(s - 3, 2)
  BY <1>1, <1>4, ZerosThree
<1>6. Ends(s - 3)
  <2>1. s - 3 + 2 <= Len(src)
    BY <1>1, <1>4
  <2>2. src[s - 3 + 2] \in {0, 1}
    BY <1>1, <1>4
  <2> QED
    BY <1>5, <2>1, <2>2 DEF Ends
<1> QED
  BY <1>3, <1>6

-----------------------------------------------------------------------------
(* The invariant holds at first, and every step keeps it.                  *)
LEMMA InitCorrect == src \in Seq(Nat) /\ Start => IInv
<1> SUFFICES ASSUME src \in Seq(Nat), Start PROVE IInv
  OBVIOUS
<1>1. src \in Seq(Nat) /\ Len(src) \in Nat
  BY LenProperties
<1>2. lpData = 1 /\ nal = 0 /\ i = 1 /\ pnal = <<>> /\ Len(pnal) = 0
  BY DEF Start
<1>3. Typed
  BY <1>1, <1>2, MaxNalAssumption, EmptySeq DEF Typed
<1>4. Passed
  BY <1>1, <1>2 DEF Passed, Starts
<1> QED
  BY <1>1, <1>2, <1>3, <1>4 DEF IInv, Measuring, Ordered, NoneBetween

(* The definitions over src are not disturbed: src never changes.          *)
LEMMA SkipStep == IInv /\ SkipByte => IInv'
<1> SUFFICES ASSUME IInv, SkipByte PROVE IInv'
  OBVIOUS
<1>1. /\ nal = 0 /\ lpData <= Len(src) /\ isNalHead(lpData) = 0
      /\ lpData' = lpData + 1 /\ UNCHANGED <<src, nal, i, pnal>>
  BY DEF SkipByte, Searching
<1>2. Typed /\ Passed /\ Ordered /\ NoneBetween
  BY DEF IInv
<1>3. src \in Seq(Nat) /\ Len(src) \in Nat /\ lpData \in 1..(Len(src) + 1) /\ lpData \in Nat
  BY <1>2, LenProperties DEF Typed
<1>4. Starts' = Starts /\ \A u : IsUnit(u)' <=> IsUnit(u)
  BY <1>1 DEF Starts, IsUnit, Ends, Zeros
<1>5. Typed'
  BY <1>1, <1>2, <1>3, <1>4 DEF Typed
<1>6. Passed'
  <2> SUFFICES ASSUME NEW s \in Starts, s - 3 < lpData + 1 PROVE Entered(s)
    BY <1>1, <1>4 DEF Passed, Entered
  <2>1. s - 3 # lpData
    BY <1>1, <1>3, Heads
  <2>2. s \in Nat
    BY <1>3 DEF Starts
  <2>3. s - 3 < lpData
    BY <1>3, <2>1, <2>2
  <2> QED
    BY <1>1, <1>2, <2>3 DEF Passed
<1>7. Ordered'
  <2>1. ASSUME NEW k \in 1..Len(pnal)
        PROVE  IsUnit(pnal[k]) /\ pnal[k].pdata + pnal[k].len <= lpData + 1
    <3>1. IsUnit(pnal[k]) /\ pnal[k].pdata + pnal[k].len <= lpData
      BY <1>2 DEF Ordered
    <3>2. pnal[k].pdata + pnal[k].len \in Nat
      <4>1. pnal \in Seq(Nalus)
        BY <1>2 DEF Typed
      <4>2. pnal[k] \in Nalus
        BY <4>1, ElementOfSeq
      <4> QED
        BY <4>2 DEF Nalus
    <3> QED
      BY <1>3, <3>1, <3>2
  <2>2. \A k \in 1..Len(pnal) : IsUnit(pnal[k])'
    BY <1>1, <1>4, <2>1
  <2> QED
    BY <1>1, <1>2, <2>1, <2>2 DEF Ordered
<1>8. NoneBetween'
  BY <1>1, <1>2, <1>4 DEF NoneBetween
<1>9. Measuring'
  BY <1>1 DEF Measuring
<1> QED
  BY <1>5, <1>6, <1>7, <1>8, <1>9 DEF IInv

LEMMA HeadStep == IInv /\ HeadFound => IInv'
<1> SUFFICES ASSUME IInv, HeadFound PROVE IInv'
  OBVIOUS
<1> DEFINE n == lpData + isNalHead(lpData)
<1>1. /\ nal = 0 /\ lpData <= Len(src) /\ Len(pnal) < MaxNal /\ isNalHead(lpData) # 0
      /\ nal' = n /\ i' = n /\ UNCHANGED <<src, lpData, pnal>>
  BY DEF HeadFound, Searching
<1>2. Typed /\ Passed /\ Ordered /\ NoneBetween
  BY DEF IInv
<1>3. src \in Seq(Nat) /\ Len(src) \in Nat /\ lpData \in 1..(Len(src) + 1) /\ lpData \in Nat
  BY <1>2, LenProperties DEF Typed
<1>4. Starts' = Starts /\ \A u : IsUnit(u)' <=> IsUnit(u)
  BY <1>1 DEF Starts, IsUnit, Ends, Zeros
<1>5. n \in Starts /\ isNalHead(lpData) \in {3, 4} /\ \A s \in Starts : s < n => s - 3 < lpData
  BY <1>1, <1>3, Heads
<1>a. lpData < n
  BY <1>3, <1>5
<1>b. n \in 4..(Len(src) + 1)
  BY <1>5 DEF Starts
<1>6. n \in Nat /\ n # 0 /\ lpData < n /\ n \in 1..(Len(src) + 1)
  BY ONLY <1>3, <1>a, <1>b
<1> HIDE DEF n
<1>7. Typed'
  BY <1>1, <1>2, <1>4, <1>5, <1>6 DEF Typed
<1>8. Passed'
  BY <1>1, <1>6 DEF Passed
<1>9. Ordered'
  BY <1>1, <1>2, <1>4 DEF Ordered
<1>10. NoneBetween'
  BY <1>1, <1>2, <1>4 DEF NoneBetween
<1>11. Measuring'
  <2>1. \A s \in Starts : s < n => Entered(s)
    BY <1>1, <1>2, <1>5 DEF Passed
  <2>2. n..(n - 1) = {}
    BY <1>6
  <2> QED
    BY <1>1, <1>4, <1>6, <2>1, <2>2 DEF Measuring, Entered
<1> QED
  BY <1>7, <1>8, <1>9, <1>10, <1>11 DEF IInv

LEMMA MeasureStep == IInv /\ Measure => IInv'
<1> SUFFICES ASSUME IInv, Measure PROVE IInv'
  OBVIOUS
<1>1. /\ nal # 0 /\ i <= Len(src) /\ ~isNalTail(i)
      /\ i' = i + 1 /\ UNCHANGED <<src, lpData, nal, pnal>>
  BY DEF Measure
<1>2. Typed /\ Passed /\ Measuring /\ Ordered /\ NoneBetween
  BY DEF IInv
<1>3. /\ src \in Seq(Nat) /\ Len(src) \in Nat /\ i \in 1..Len(src) /\ i \in Nat
      /\ nal \in Nat
  BY <1>1, <1>2, LenProperties DEF Typed, Starts
<1>4. Starts' = Starts /\ (\A u : IsUnit(u)' <=> IsUnit(u)) /\ (\A e : Ends(e)' <=> Ends(e))
  BY <1>1 DEF Starts, IsUnit, Ends, Zeros
<1>5. ~Ends(i)
  BY <1>1, <1>3, Tails
<1>6. Typed'
  BY <1>1, <1>2, <1>3, <1>4 DEF Typed
<1>7. Passed' /\ Ordered' /\ NoneBetween'
  BY <1>1, <1>2, <1>4 DEF Passed, Entered, Ordered, NoneBetween
<1>8. Measuring'
  <2>1. \A e \in nal..i : ~Ends(e)
    BY <1>1, <1>2, <1>3, <1>5 DEF Measuring
  <2>2. nal <= i + 1 /\ i + 1 - 1 = i
    BY <1>1, <1>2, <1>3 DEF Measuring
  <2>3. ASSUME NEW e \in nal'..(i' - 1) PROVE ~Ends(e)'
    <3>1. nal'..(i' - 1) = nal..i
      <4>1. nal' = nal /\ i' = i + 1 /\ i \in Nat
        BY <1>1, <1>3
      <4>2. i' - 1 = i
        BY ONLY <4>1
      <4> QED
        BY ONLY <4>1, <4>2
    <3>2. ~Ends(e)
      BY <2>1, <3>1
    <3> QED
      BY <1>4, <3>2
  <2>4. lpData' < nal' /\ nal' <= i' /\ Len(pnal') < MaxNal
    BY <1>1, <1>2, <2>2 DEF Measuring
  <2>5. \A s \in Starts' : s < nal' => Entered(s)'
    BY <1>1, <1>2, <1>4 DEF Measuring, Entered
  <2> QED
    BY <2>3, <2>4, <2>5 DEF Measuring
<1> QED
  BY <1>6, <1>7, <1>8 DEF IInv

(* The unit that ends is the one with the first start that was not entered *)
(* yet; the starts behind it begin behind its end.                         *)
LEMMA AddStep == IInv /\ AddUnit => IInv'
<1> SUFFICES ASSUME IInv, AddUnit PROVE IInv'
  OBVIOUS
<1> DEFINE u == Unit(nal, i)
           n == Len(pnal)
<1>1. /\ nal # 0 /\ (i > Len(src) \/ isNalTail(i))
      /\ pnal' = Append(pnal, u) /\ lpData' = i /\ nal' = 0 /\ UNCHANGED <<src, i>>
  BY DEF AddUnit
<1>2. Typed /\ Passed /\ Measuring /\ Ordered /\ NoneBetween
  BY DEF IInv
<1>3. /\ src \in Seq(Nat) /\ Len(src) \in Nat /\ i \in 1..(Len(src) + 1) /\ i \in Nat
      /\ nal \in Starts /\ nal \in Nat /\ lpData \in Nat /\ lpData < nal /\ nal <= i
      /\ pnal \in Seq(Nalus) /\ n \in Nat /\ n < MaxNal
  BY <1>1, <1>2, LenProperties DEF Typed, Starts, Measuring
<1>4. Starts' = Starts /\ \A v : IsUnit(v)' <=> IsUnit(v)
  BY <1>1 DEF Starts, IsUnit, Ends, Zeros
<1>5. u \in Nalus /\ u.pdata = nal /\ u.pdata + u.len = i
  BY <1>3 DEF Unit, Nalus
<1>6. IsUnit(u)
  <2>1. Ends(i)
    <3>1. CASE i = Len(src) + 1
      BY <3>1 DEF Ends
    <3>2. CASE i # Len(src) + 1
      BY <1>1, <1>3, <3>2, Tails
    <3> QED
      BY <3>1, <3>2
  <2>2. \A e \in nal..(i - 1) : ~Ends(e)
    BY <1>1, <1>2 DEF Measuring
  <2> HIDE DEF u
  <2> QED
    BY <1>3, <1>5, <2>1, <2>2 DEF IsUnit
<1> HIDE DEF u
<1>7. /\ pnal' \in Seq(Nalus) /\ Len(pnal') = n + 1 /\ pnal'[n + 1] = u
      /\ \A k \in 1..n : pnal'[k] = pnal[k]
  BY <1>1, <1>3, <1>5, AppendProperties
<1> HIDE DEF n
<1>8. \A k \in 1..Len(pnal') : k \in 1..n \/ k = n + 1
  BY ONLY <1>3, <1>7
<1>9. \A k \in 1..n : /\ pnal[k].pdata \in Nat /\ pnal[k].len \in Nat
                      /\ IsUnit(pnal[k]) /\ pnal[k].pdata + pnal[k].len <= lpData
  <2> SUFFICES ASSUME NEW k \in 1..n
               PROVE  /\ pnal[k].pdata \in Nat /\ pnal[k].len \in Nat
                      /\ IsUnit(pnal[k]) /\ pnal[k].pdata + pnal[k].len <= lpData
    OBVIOUS
  <2>1. pnal[k] \in Nalus
    BY <1>3, ElementOfSeq DEF n
  <2>2. IsUnit(pnal[k]) /\ pnal[k].pdata + pnal[k].len <= lpData
    BY <1>2 DEF Ordered, n
  <2> QED
    BY <2>1, <2>2 DEF Nalus
<1>10. \A s \in Starts : Entered(s)' <=> Entered(s) \/ s = nal
  <2>1. ASSUME NEW s \in Starts, Entered(s) PROVE Entered(s)'
    <3>1. PICK k \in 1..n : pnal[k].pdata = s
      BY <2>1 DEF Entered, n
    <3>2. k \in 1..Len(pnal') /\ pnal'[k].pdata = s
      BY <1>3, <1>7, <3>1
    <3> QED
      BY <3>2 DEF Entered
  <2>2. n + 1 \in 1..Len(pnal') /\ pnal'[n + 1].pdata = nal
    BY <1>3, <1>5, <1>7
  <2>3. ASSUME NEW s \in Starts, Entered(s)' PROVE Entered(s) \/ s = nal
    <3>1. PICK k \in 1..Len(pnal') : pnal'[k].pdata = s
      BY <2>3 DEF Entered
    <3> QED
      BY <1>5, <1>7, <1>8, <3>1 DEF Entered, n
  <2>4. ASSUME NEW s \in Starts, s = nal PROVE Entered(s)'
    BY <2>2, <2>4 DEF Entered
  <2> QED
    BY <2>1, <2>3, <2>4
<1>11. Typed'
  BY <1>1, <1>2, <1>3, <1>4, <1>7, MaxNalAssumption DEF Typed
<1>12. Passed'
  <2> SUFFICES ASSUME NEW s \in Starts, s - 3 < i PROVE Entered(s) \/ s = nal
    BY <1>1, <1>4, <1>10 DEF Passed
  <2>1. CASE s < nal
    BY <1>1, <1>2, <2>1 DEF Measuring
  <2>2. CASE nal < s
    <3>1. nal <= s - 3 /\ Ends(s - 3)
      BY <1>3, <2>2, NextStart
    <3>2. s - 3 \in nal..(i - 1)
      BY <1>3, <3>1 DEF Starts
    <3> QED
      BY <1>1, <1>2, <3>1, <3>2 DEF Measuring
  <2>3. s \in Nat
    BY <1>3 DEF Starts
  <2> QED
    BY <1>3, <2>1, <2>2, <2>3
<1>13. Ordered'
  <2>1. ASSUME NEW k \in 1..Len(pnal')
        PROVE  IsUnit(pnal'[k]) /\ pnal'[k].pdata + pnal'[k].len <= i
    <3>1. CASE k \in 1..n
      <4>1. pnal'[k] = pnal[k]
        BY <1>7, <3>1
      <4>2. IsUnit(pnal[k]) /\ pnal[k].pdata + pnal[k].len <= lpData
        BY <1>9, <3>1
      <4>3. pnal[k].pdata + pnal[k].len \in Nat
        BY <1>9, <3>1
      <4> QED
        BY <1>3, <4>1, <4>2, <4>3
    <3>2. CASE k = n + 1
      BY <1>3, <1>5, <1>6, <1>7, <3>2
    <3> QED
      BY <1>8, <3>1, <3>2
  <2>2. ASSUME NEW j \in 1..Len(pnal'), NEW k \in 1..Len(pnal'), j < k
        PROVE  pnal'[j].pdata + pnal'[j].len < pnal'[k].pdata
    <3>1. j \in 1..n
      BY <1>3, <1>7, <2>2
    <3>2. CASE k \in 1..n
      BY <1>2, <1>7, <2>2, <3>1, <3>2 DEF Ordered, n
    <3>3. CASE k = n + 1
      <4>1. pnal'[j] = pnal[j] /\ pnal'[k].pdata = nal
        BY <1>5, <1>7, <3>1, <3>3
      <4>2. pnal[j].pdata + pnal[j].len \in Nat /\ pnal[j].pdata + pnal[j].len <= lpData
        BY <1>9, <3>1
      <4> QED
        BY <1>3, <4>1, <4>2
    <3> QED
      BY <1>8, <3>2, <3>3
  <2>3. \A k \in 1..Len(pnal') : IsUnit(pnal[k])'
    BY <1>4, <2>1
  <2> QED
    BY <1>1, <2>1, <2>2, <2>3 DEF Ordered
<1>14. NoneBetween'
  <2> SUFFICES ASSUME NEW k \in 1..(Len(pnal') - 1), NEW s \in Starts,
                      pnal'[k].pdata < s, s < pnal'[k + 1].pdata
               PROVE  FALSE
    BY <1>4 DEF NoneBetween
  <2>1. k \in 1..n
    BY <1>3, <1>7
  <2>2. CASE k < n
    <3>1. k \in 1..(n - 1) /\ k + 1 \in 1..n
      BY <1>3, <2>1, <2>2
    <3> QED
      BY <1>2, <1>7, <2>1, <3>1 DEF NoneBetween, n
  <2>3. CASE k = n
    <3>1. s < nal
      BY <1>5, <1>7, <2>3
    <3>2. PICK j \in 1..n : pnal[j].pdata = s
      BY <1>1, <1>2, <3>1 DEF Measuring, Entered, n
    <3>3. pnal[k].pdata < pnal[j].pdata
      BY <1>7, <2>1, <3>2
    <3>4. CASE j < k
      <4>1. pnal[j].pdata + pnal[j].len < pnal[k].pdata
        BY <1>2, <2>1, <3>4 DEF Ordered, n
      <4> QED
        BY <1>9, <2>1, <3>3, <4>1
    <3>5. CASE j = k
      BY <1>9, <3>3, <3>5
    <3> QED
      BY <1>3, <2>3, <3>4, <3>5
  <2> QED
    BY <1>3, <2>1, <2>2, <2>3
<1>15. Measuring'
  BY <1>1 DEF Measuring
<1> QED
  BY <1>11, <1>12, <1>13, <1>14, <1>15 DEF IInv

-----------------------------------------------------------------------------
(* Every step of the two functions.                                        *)
LEMMA NalInvariance == ParserSpec => []IInv
<1>1. IInv /\ [Next]_vars => IInv'
  <2> SUFFICES ASSUME IInv, UNCHANGED vars PROVE IInv'
    BY SkipStep, HeadStep, MeasureStep, AddStep DEF Next
  <2>1. UNCHANGED <<src, lpData, nal, i, pnal>>
    BY DEF vars
  <2>2. Typed' = Typed
    BY <2>1 DEF Typed, Starts
  <2>3. Passed' = Passed
    BY <2>1 DEF Passed, Entered, Starts
  <2>4. Measuring' = Measuring
    BY <2>1 DEF Measuring, Entered, Starts, Ends, Zeros
  <2>5. Ordered' = Ordered
    BY <2>1 DEF Ordered, IsUnit, Starts, Ends, Zeros
  <2>6. NoneBetween' = NoneBetween
    BY <2>1 DEF NoneBetween, Starts
  <2> QED
    BY <2>2, <2>3, <2>4, <2>5, <2>6 DEF IInv
<1>2. ParserInit => IInv
  <2> SUFFICES ASSUME ParserInit PROVE IInv
    OBVIOUS
  <2>1. CASE Init
    BY <2>1, PicturesAssumption, InitCorrect DEF Init
  <2>2. CASE src = <<>> /\ Start
    BY <2>2, InitCorrect
  <2> QED
    BY <2>1, <2>2 DEF ParserInit
<1>3. [ParserNext]_parserVars => [Next]_vars
  BY DEF ParserNext, parserVars, Next
<1> QED
  BY <1>1, <1>2, <1>3, PTL DEF ParserSpec

(* GetNalSize enters units of the picture only, in their order, and leaves *)
(* out none between two it enters.                                         *)
THEOREM UnitsInOrderCorrect == ParserSpec => []UnitsInOrder
<1>1. IInv => UnitsInOrder
  <2> SUFFICES ASSUME IInv PROVE UnitsInOrder
    OBVIOUS
  <2>1. Len(pnal) \in Nat
    BY LenProperties DEF IInv, Typed
  <2>2. ASSUME NEW k \in 1..(Len(pnal) - 1)
        PROVE  pnal[k].pdata + pnal[k].len < pnal[k + 1].pdata
    BY <2>1 DEF IInv, Ordered
  <2> QED
    BY <2>2 DEF IInv, Ordered, NoneBetween, UnitsInOrder
<1> QED
  BY <1>1, NalInvariance, PTL

(* When GetNalSize returns, a unit that is not in the array lies behind    *)
(* all that are, and the array is full.                                    *)
THEOREM AllUnitsCorrect == ParserSpec => []AllUnits
<1>1. IInv => AllUnits
  <2> SUFFICES ASSUME IInv, Returned, NEW s \in Starts, ~Entered(s)
               PROVE  Len(pnal) = MaxNal /\ \A k \in 1..Len(pnal) : pnal[k].pdata < s
    BY DEF AllUnits, Entered
  <2>1. /\ src \in Seq(Nat) /\ Len(src) \in Nat /\ Len(pnal) \in Nat /\ Len(pnal) <= MaxNal
        /\ pnal \in Seq(Nalus) /\ lpData \in Nat
    BY LenProperties DEF IInv, Typed
  <2>2. s \in Nat /\ s <= Len(src) + 1
    BY <2>1 DEF Starts
  <2>3. nal = 0 /\ s - 3 >= lpData
    BY <2>1, <2>2 DEF IInv, Passed, Returned
  <2>4. Len(pnal) = MaxNal
    BY <2>1, <2>2, <2>3, MaxNalAssumption DEF Returned, Searching
  <2>5. ASSUME NEW k \in 1..Len(pnal) PROVE pnal[k].pdata < s
    <3>1. pnal[k] \in Nalus
      BY <2>1, ElementOfSeq
    <3>2. pnal[k].pdata \in Nat /\ pnal[k].len \in Nat
      BY <3>1 DEF Nalus
    <3>3. pnal[k].pdata + pnal[k].len <= lpData
      BY DEF IInv, Ordered
    <3> QED
      BY <2>1, <2>2, <2>3, <3>2, <3>3
  <2> QED
    BY <2>4, <2>5
<1> QED
  BY <1>1, NalInvariance, PTL

-----------------------------------------------------------------------------
(* H264_Decode_SPS.  Induction over Nat, for a set.                        *)
LEMMA SetInduction ==
  ASSUME NEW T, 0 \in T, \A n \in Nat : n \in T => n + 1 \in T
  PROVE  Nat \subseteq T
<1> DEFINE R == OpToRel(<, Nat)
<1>1. IsWellFoundedOn(R, Nat)
  BY NatLessThanWellFounded
<1>2. \A x, y \in Nat : x < y => <<x, y>> \in R
  BY DEF OpToRel
<1> HIDE DEF R
<1> SUFFICES ASSUME Nat \ T # {} PROVE FALSE
  OBVIOUS
<1>3. PICK x \in Nat \ T : \A y \in Nat \ T : ~(<<y, x>> \in R)
  BY <1>1, WFMin
<1>4. x - 1 \in Nat /\ x - 1 < x /\ x = x - 1 + 1
  BY <1>3
<1> QED
  BY <1>2, <1>3, <1>4

-----------------------------------------------------------------------------
(* Powers of two: there are 2^k sets of numbers from 1 to k.               *)
LEMMA PowerCounts ==
  ASSUME NEW k \in Nat
  PROVE  IsFiniteSet(SUBSET (1..k)) /\ Cardinality(SUBSET (1..k)) = 2^k
<1>1. IsFiniteSet(1..k) /\ Cardinality(1..k) = k
  BY FS_Interval
<1> QED
  BY <1>1, FS_SUBSET

(* Half of the sets from 1 to k + 1 hold k + 1.                            *)
LEMMA PowerDoubles ==
  ASSUME NEW k \in Nat
  PROVE  2^(k + 1) = 2 * 2^k
<1> DEFINE S == SUBSET (1..k)
           Added(s) == s \cup {k + 1}
           T == {Added(s) : s \in S}
           f == [s \in S |-> Added(s)]
<1>1. k + 1 \in Nat /\ k + 1 \notin 1..k /\ 1..(k + 1) = (1..k) \cup {k + 1}
  OBVIOUS
<1>2. SUBSET (1..(k + 1)) = S \cup T
  <2>1. ASSUME NEW s \in SUBSET (1..(k + 1)), k + 1 \in s PROVE s \in T
    <3>1. s \ {k + 1} \in S /\ s = (s \ {k + 1}) \cup {k + 1}
      BY <1>1, <2>1
    <3> QED
      BY <3>1
  <2>2. ASSUME NEW s \in SUBSET (1..(k + 1)), k + 1 \notin s PROVE s \in S
    BY <1>1, <2>2
  <2>3. S \subseteq SUBSET (1..(k + 1)) /\ T \subseteq SUBSET (1..(k + 1))
    BY <1>1
  <2> QED
    BY <2>1, <2>2, <2>3
<1>3. S \cap T = {}
  BY <1>1
<1>4. f \in Bijection(S, T)
  <2>1. f \in [S -> T] /\ \A t \in T : \E s \in S : f[s] = t
    OBVIOUS
  <2>2. \A s, r \in S : f[s] = f[r] => s = r
    BY <1>1
  <2> QED
    BY <2>1, <2>2 DEF Bijection, Injection, Surjection, IsInjective
<1>5. IsFiniteSet(S) /\ Cardinality(S) = 2^k /\ Cardinality(SUBSET (1..(k + 1))) = 2^(k + 1)
  BY <1>1, PowerCounts
<1>6. IsFiniteSet(T) /\ Cardinality(T) = Cardinality(S)
  BY <1>4, <1>5, FS_Bijection DEF ExistsBijection
<1> HIDE DEF S, T
<1>7. Cardinality(S \cup T) = Cardinality(S) + Cardinality(T) - Cardinality(S \cap T)
  BY <1>5, <1>6, FS_Union
<1>8. Cardinality(S) \in Nat /\ Cardinality(S \cap T) = 0
  BY <1>3, <1>5, FS_EmptySet, FS_CardinalityType
<1> DEFINE c == Cardinality(S)
           p == 2^k
           q == 2^(k + 1)
<1>9. c \in Nat /\ c = p /\ q = c + c - 0
  BY <1>2, <1>5, <1>6, <1>7, <1>8
<1>10. q = 2 * p
  <2> HIDE DEF c, p, q
  <2> QED
    BY <1>9
<1> QED
  BY <1>10 DEF p, q

LEMMA PowerOfZero == 2^0 = 1
OBVIOUS

LEMMA PowerTyped ==
  ASSUME NEW k \in Nat
  PROVE  2^k \in Nat /\ 2^k > k
<1> DEFINE T == {j \in Nat : 2^j \in Nat /\ 2^j > j}
<1>1. 0 \in T
  BY PowerOfZero
<1>2. ASSUME NEW j \in Nat, j \in T PROVE j + 1 \in T
  <2> DEFINE p == 2^j
             q == 2^(j + 1)
  <2>1. p \in Nat /\ p > j /\ q = 2 * p
    BY <1>2, PowerDoubles
  <2> HIDE DEF p, q
  <2>2. q \in Nat /\ q > j + 1
    BY <2>1
  <2> QED
    BY <2>2 DEF q
<1>3. Nat \subseteq T
  <2> HIDE DEF T
  <2> QED
    BY <1>1, <1>2, SetInduction
<1> QED
  BY <1>3

-----------------------------------------------------------------------------
(* Digits: a quotient by d is twice the one by 2 * d and a digit.          *)
LEMMA Quotient ==
  ASSUME NEW m \in Nat, NEW d \in Nat \ {0}
  PROVE  /\ m \div d \in Nat
         /\ (m \div d) * d <= m /\ m < (m \div d + 1) * d
OBVIOUS

(* The quotient is the only number with this property.                     *)
LEMMA QuotientUnique ==
  ASSUME NEW m \in Nat, NEW d \in Nat \ {0}, NEW q \in Nat,
         q * d <= m, m < (q + 1) * d
  PROVE  m \div d = q
OBVIOUS

(* The last binary digit of q.                                             *)
LEMMA LastDigit ==
  ASSUME NEW r \in Nat
  PROVE  r \div 2 \in Nat /\ r % 2 = r - 2 * (r \div 2) /\ r % 2 \in {0, 1}
<1>1. r \div 2 \in Nat
  OBVIOUS
<1>2. r % 2 = r - 2 * (r \div 2)
  OBVIOUS
<1>3. r % 2 \in Int /\ r % 2 >= 0 /\ r % 2 < 2
  OBVIOUS
<1>4. r % 2 = 0 \/ r % 2 = 1
  BY <1>3
<1> QED
  BY <1>1, <1>2, <1>4

(* To divide once by 2r is to divide by r and then by 2.                   *)
LEMMA NextDigit ==
  ASSUME NEW m \in Nat, NEW d \in Nat \ {0}
  PROVE  /\ (m \div d) % 2 = m \div d - 2 * (m \div (2 * d))
         /\ (m \div d) % 2 \in {0, 1}
<1> DEFINE r == m \div d
           h == r \div 2
<1>1. r \in Nat /\ r * d <= m /\ m < (r + 1) * d
  BY Quotient
<1> HIDE DEF r
<1>2. h \in Nat /\ r % 2 = r - 2 * h /\ r % 2 \in {0, 1}
  BY <1>1, LastDigit
<1> HIDE DEF h
<1>3. 2 * h <= r /\ r + 1 <= 2 * h + 2
  BY <1>1, <1>2
<1>4. (2 * h) * d <= r * d /\ (r + 1) * d <= (2 * h + 2) * d
  BY <1>1, <1>2, <1>3
<1>5. (2 * h) * d = h * (2 * d) /\ (2 * h + 2) * d = (h + 1) * (2 * d)
  BY <1>2
<1>6. /\ h * (2 * d) \in Nat /\ (h + 1) * (2 * d) \in Nat /\ r * d \in Nat
      /\ (r + 1) * d \in Nat /\ 2 * d \in Nat \ {0}
  BY <1>1, <1>2
<1>7. h * (2 * d) <= m /\ m < (h + 1) * (2 * d)
  BY <1>1, <1>4, <1>5, <1>6
<1>8. m \div (2 * d) = h
  BY <1>2, <1>6, <1>7, QuotientUnique
<1>9. r % 2 = r - 2 * (m \div (2 * d)) /\ r % 2 \in {0, 1}
  BY <1>2, <1>8
<1> QED
  BY <1>9 DEF r

-----------------------------------------------------------------------------
(* The Exp-Golomb code of n: how many zeros, and which digits.             *)
Exponent(n) == CHOOSE k \in 0..n : 2^k <= n + 1 /\ n + 1 < 2^(k + 1)

(* Every number lies between two powers of two.                            *)
LEMMA ExponentExists ==
  ASSUME NEW n \in Nat
  PROVE  /\ Exponent(n) \in 0..n
         /\ 2^Exponent(n) <= n + 1 /\ n + 1 < 2^(Exponent(n) + 1)
<1> DEFINE Fits(j, k) == 2^k <= j + 1 /\ j + 1 < 2^(k + 1)
           T == {j \in Nat : \E k \in 0..j : Fits(j, k)}
<1>1. 0 \in T
  <2>1. 2^(0 + 1) = 2 * 2^0
    BY PowerDoubles
  <2>2. Fits(0, 0)
    BY <2>1, PowerOfZero
  <2>3. 0 \in 0..0
    OBVIOUS
  <2> HIDE DEF Fits
  <2> QED
    BY <2>2, <2>3
<1>2. ASSUME NEW j \in Nat, j \in T PROVE j + 1 \in T
  <2>1. PICK k \in 0..j : Fits(j, k)
    BY <1>2
  <2> DEFINE p == 2^k
             q == 2^(k + 1)
             r == 2^(k + 1 + 1)
  <2>2. p \in Nat /\ q \in Nat /\ r \in Nat /\ q = 2 * p /\ r = 2 * q /\ q > 0
    BY PowerTyped, PowerDoubles
  <2>3. p <= j + 1 /\ j + 1 < q
    BY <2>1
  <2> HIDE DEF p, q, r
  <2>4. CASE j + 2 < q
    <3>1. p <= j + 1 + 1 /\ j + 1 + 1 < q
      BY <2>2, <2>3, <2>4
    <3> QED
      BY <3>1 DEF p, q
  <2>5. CASE ~(j + 2 < q)
    <3>1. q <= j + 1 + 1 /\ j + 1 + 1 < r
      BY <2>2, <2>3, <2>5
    <3>2. k + 1 \in 0..(j + 1)
      OBVIOUS
    <3> QED
      BY <3>1, <3>2 DEF q, r
  <2> QED
    BY <2>4, <2>5
<1>3. n \in T
  <2> HIDE DEF T
  <2> QED
    BY <1>1, <1>2, SetInduction
<1>4. \E k \in 0..n : Fits(n, k)
  BY <1>3
<1> QED
  BY <1>4 DEF Exponent

(* The first digit of m is 1.                                              *)
LEMMA LeadingDigit ==
  ASSUME NEW n \in Nat
  PROVE  (n + 1) \div 2^Exponent(n) = 1
<1> DEFINE k == Exponent(n)
           p == 2^k
<1>1. k \in Nat /\ p <= n + 1 /\ n + 1 < 2^(k + 1)
  BY ExponentExists
<1>2. 2^(k + 1) = 2 * p /\ p \in Nat \ {0}
  BY <1>1, PowerDoubles, PowerTyped
<1> HIDE DEF p
<1>3. 1 * p <= n + 1 /\ n + 1 < (1 + 1) * p
  BY <1>1, <1>2
<1>4. (n + 1) \div p = 1
  BY <1>2, <1>3, QuotientUnique
<1> QED
  BY <1>4 DEF p

(* Each digit is what a quotient has more than twice the one before.       *)
LEMMA Digit ==
  ASSUME NEW m \in Nat, NEW k \in Nat, NEW j \in 1..k
  PROVE  /\ m \div 2^(k - j) \in Nat
         /\ (m \div 2^(k - j)) % 2 = m \div 2^(k - j) - 2 * (m \div 2^(k - (j - 1)))
         /\ (m \div 2^(k - j)) % 2 \in {0, 1}
<1> DEFINE d == 2^(k - j)
<1>1. k - j \in Nat /\ k - (j - 1) = (k - j) + 1
  OBVIOUS
<1>2. d \in Nat \ {0} /\ 2^(k - (j - 1)) = 2 * d
  BY <1>1, PowerTyped, PowerDoubles
<1> HIDE DEF d
<1>3. m \div d \in Nat
  BY <1>2, Quotient
<1>4. (m \div d) % 2 = m \div d - 2 * (m \div (2 * d)) /\ (m \div d) % 2 \in {0, 1}
  BY <1>2, NextDigit
<1> QED
  BY <1>2, <1>3, <1>4 DEF d

(* A code: k zeros, a 1, and k digits.                                     *)
LEMMA CodeShape ==
  ASSUME NEW n \in Nat
  PROVE  /\ Sps!UeCode(n) \in Seq({0, 1})
         /\ Len(Sps!UeCode(n)) = 2 * Exponent(n) + 1
         /\ \A j \in 1..Exponent(n) : Sps!UeCode(n)[j] = 0
         /\ Sps!UeCode(n)[Exponent(n) + 1] = 1
         /\ \A j \in 1..Exponent(n) :
              Sps!UeCode(n)[Exponent(n) + 1 + j] = ((n + 1) \div 2^(Exponent(n) - j)) % 2
<1> DEFINE k == Exponent(n)
           m == n + 1
           Bit(j) == IF j <= k THEN 0 ELSE (m \div 2^(2 * k + 1 - j)) % 2
           code == [j \in 1..(2 * k + 1) |-> Bit(j)]
<1>1. k \in Nat
  BY ExponentExists
<1>2. Sps!UeCode(n) = code
  BY DEF Sps!UeCode, Exponent
<1>3. m \in Nat /\ m \div 2^k = 1
  BY LeadingDigit
<1> HIDE DEF k, m
<1>4. Bit(k + 1) = 1
  <2>1. 2 * k + 1 - (k + 1) = k /\ ~(k + 1 <= k)
    BY <1>1
  <2>2. 1 % 2 = 1
    OBVIOUS
  <2> QED
    BY <1>3, <2>1, <2>2
<1>5. ASSUME NEW j \in 1..k
      PROVE  /\ Bit(k + 1 + j) = (m \div 2^(k - j)) % 2
             /\ Bit(k + 1 + j) \in {0, 1}
  <2>1. 2 * k + 1 - (k + 1 + j) = k - j /\ ~(k + 1 + j <= k)
    BY <1>1
  <2> QED
    BY <1>1, <1>3, <2>1, Digit
<1>6. ASSUME NEW j \in 1..(2 * k + 1) PROVE Bit(j) \in {0, 1}
  <2>1. CASE j <= k
    BY <2>1
  <2>2. CASE j = k + 1
    BY <1>4, <2>2
  <2>3. CASE j > k + 1
    <3>1. PICK h \in 1..k : j = k + 1 + h
      <4>1. j - (k + 1) \in 1..k /\ j = k + 1 + (j - (k + 1))
        BY <1>1, <2>3
      <4> QED
        BY <4>1
    <3> QED
      BY <1>5, <3>1
  <2> QED
    BY <1>1, <2>1, <2>2, <2>3
<1>7. 2 * k + 1 \in Nat
  BY <1>1
<1>8. code \in Seq({0, 1}) /\ Len(code) = 2 * k + 1
  <2>1. code \in [1..(2 * k + 1) -> {0, 1}]
    BY <1>6
  <2> HIDE DEF code
  <2> QED
    BY <1>7, <2>1
<1>9. \A j \in 1..k : code[j] = 0
  BY <1>1
<1>10. code[k + 1] = 1 /\ \A j \in 1..k : code[k + 1 + j] = (m \div 2^(k - j)) % 2
  <2>1. k + 1 \in 1..(2 * k + 1) /\ \A j \in 1..k : k + 1 + j \in 1..(2 * k + 1)
    BY <1>1
  <2>2. \A j \in 1..(2 * k + 1) : code[j] = Bit(j)
    OBVIOUS
  <2> HIDE DEF code, Bit
  <2> QED
    BY <1>4, <1>5, <2>1, <2>2
<1> QED
  BY <1>2, <1>8, <1>9, <1>10 DEF k, m

-----------------------------------------------------------------------------
(* The number in the k digits behind the first one is m - 2^k: each digit  *)
(* that is read doubles the number so far.                                 *)
LEMMA InfoRead ==
  ASSUME shift = "old",
         NEW m \in Nat, NEW k \in Nat, m \div 2^k = 1,
         NEW p,
         \A j \in 1..k : data[p + j] = (m \div 2^(k - j)) % 2
  PROVE  Sps!Info(p, k) = m - 2^k
<1> DEFINE Summed(f) == [j \in 0..k |->
                          IF j = 0 THEN 0
                          ELSE Sps!Or(2 * f[j - 1], data[p + j] * Sps!SetBit(p + j - 1))]
           info == CHOOSE f : f = Summed(f)
           Sum(j) == m \div 2^(k - j) - 2^j
           sum == [j \in 0..k |-> Sum(j)]
<1>1. Sps!Info(p, k) = info[k]
  BY DEF Sps!Info
<1>2. Sum(0) = 0
  <2>1. k - 0 = k
    OBVIOUS
  <2> QED
    BY <2>1, PowerOfZero
<1>3. ASSUME NEW j \in 1..k, NEW x, x = Sum(j - 1)
      PROVE  Sps!Or(2 * x, data[p + j] * Sps!SetBit(p + j - 1)) = Sum(j)
  <2> DEFINE q == m \div 2^(k - j)
             h == m \div 2^(k - (j - 1))
             a == 2^(j - 1)
             b == 2^j
  <2>1. PICK e \in {0, 1} : e = q % 2 /\ e = q - 2 * h /\ q \in Nat
    BY Digit
  <2>2. h \in Nat /\ x \in Int /\ x = h - a /\ a \in Nat /\ b = 2 * a
    <3>1. j - 1 \in Nat /\ j = j - 1 + 1 /\ k - (j - 1) \in Nat
      OBVIOUS
    <3>2. a \in Nat /\ b = 2 * a
      BY <3>1, PowerTyped, PowerDoubles
    <3>3. 2^(k - (j - 1)) \in Nat \ {0}
      BY <3>1, PowerTyped
    <3>4. h \in Nat
      BY <3>3, Quotient
    <3> QED
      BY <1>3, <3>2, <3>4
  <2>3. Sps!SetBit(p + j - 1) = 1 /\ data[p + j] = e
    BY <2>1 DEF Sps!SetBit
  <2> HIDE DEF q, h, a, b
  <2>4. Sps!Or(2 * x, e * 1) = 2 * x + e
    <3>1. e * 1 = e /\ e # 2
      OBVIOUS
    <3> QED
      BY <3>1 DEF Sps!Or
  <2>5. 2 * x + e = q - b
    <3>1. q \in Nat /\ e = q - 2 * h
      BY <2>1
    <3> QED
      BY <2>2, <3>1
  <2> QED
    BY <2>3, <2>4, <2>5 DEF q, b
<1> HIDE DEF Sum
<1>4. sum = Summed(sum)
  <2>1. ASSUME NEW j \in 0..k PROVE sum[j] = Summed(sum)[j]
    <3>1. CASE j = 0
      BY <1>2, <3>1
    <3>2. CASE j # 0
      <4>1. j \in 1..k /\ j - 1 \in 0..k
        BY <3>2
      <4>2. sum[j - 1] = Sum(j - 1) /\ sum[j] = Sum(j)
        BY <4>1
      <4> QED
        BY <1>3, <3>2, <4>1, <4>2
    <3> QED
      BY <3>1, <3>2
  <2> QED
    BY <2>1
<1>5. info = Summed(info)
  <2> HIDE DEF Summed, sum
  <2> QED
    BY <1>4
<1> HIDE DEF info, sum
<1> DEFINE T == {j \in Nat : j \in 0..k => info[j] = Sum(j)}
<1>6. 0 \in T
  BY <1>2, <1>5
<1>7. ASSUME NEW j \in Nat, j \in T PROVE j + 1 \in T
  <2>1. CASE j + 1 \notin 0..k
    BY <2>1
  <2>2. CASE j + 1 \in 0..k
    <3>1. j \in 0..k /\ j + 1 \in 1..k /\ j + 1 # 0 /\ j + 1 - 1 = j
      BY <2>2
    <3>2. info[j] = Sum(j + 1 - 1)
      BY <1>7, <3>1
    <3>3. info[j + 1] = Sps!Or(2 * info[j], data[p + (j + 1)] * Sps!SetBit(p + (j + 1) - 1))
      BY <1>5, <2>2, <3>1
    <3>4. info[j + 1] = Sum(j + 1)
      BY <1>3, <3>1, <3>2, <3>3
    <3> QED
      BY <3>4
  <2> QED
    BY <2>1, <2>2
<1>8. k \in T
  <2> HIDE DEF T
  <2> QED
    BY <1>6, <1>7, SetInduction
<1>9. info[k] = Sum(k)
  BY <1>8
<1>10. Sum(k) = m - 2^k
  <2>1. k - k = 0 /\ m \div 1 = m
    OBVIOUS
  <2> QED
    BY <2>1, PowerOfZero DEF Sum
<1> QED
  BY <1>1, <1>9, <1>10

-----------------------------------------------------------------------------
(* Reading a code.  At(p, B) is the cursor with p bits of B bytes read.    *)
At(p, B) == Sps!Cursor(p \div 8, p % 8, B - p \div 8)

(* A position is a byte and a bit in it.                                   *)
LEMMA ByEight ==
  ASSUME NEW p \in Nat
  PROVE  p \div 8 \in Nat /\ p % 8 \in 0..7 /\ p % 8 = p - 8 * (p \div 8)
<1>1. p \div 8 \in Nat
  OBVIOUS
<1>2. p % 8 = p - 8 * (p \div 8)
  OBVIOUS
<1>3. p % 8 \in Int /\ p % 8 >= 0 /\ p % 8 < 8
  OBVIOUS
<1> QED
  BY <1>1, <1>2, <1>3

LEMMA EightTimes ==
  ASSUME NEW q \in Nat, NEW r \in 0..7, NEW p \in Nat, p = 8 * q + r
  PROVE  p \div 8 = q /\ p % 8 = r
<1>1. q * 8 <= p /\ p < (q + 1) * 8
  OBVIOUS
<1>2. p \div 8 = q
  BY <1>1, QuotientUnique
<1>3. p % 8 = p - 8 * q
  BY <1>2, ByEight
<1> QED
  BY <1>2, <1>3

(* Where At(p, B) stands, and where Moved leads from it.                   *)
LEMMA Cursors ==
  ASSUME NEW B \in Nat, NEW p \in Nat, p < 8 * B
  PROVE  /\ Sps!Position(At(p, B)) = p
         /\ Sps!Total(At(p, B)) = 8 * B
         /\ At(p, B).size \in Nat /\ At(p, B).size > 0
         /\ At(p, B).bit \in 0..7
         /\ \A n \in Nat : Sps!Moved(At(p, B), n) = At(n, B)
<1> DEFINE q == p \div 8
           r == p % 8
<1>1. q \in Nat /\ r \in 0..7 /\ r = p - 8 * q
  BY ByEight
<1>2. /\ At(p, B).byte = q /\ At(p, B).bit = r /\ At(p, B).size = B - q
  BY DEF At, Sps!Cursor
<1> HIDE DEF q, r
<1>3. q + (B - q) = B /\ 8 * q + r = p /\ B - q \in Nat /\ B - q > 0
  BY <1>1
<1>4. Sps!Position(At(p, B)) = p
  BY <1>2, <1>3 DEF Sps!Position
<1>5. Sps!Total(At(p, B)) = 8 * B
  BY <1>2, <1>3 DEF Sps!Total
<1>6. \A n \in Nat : Sps!Moved(At(p, B), n) = At(n, B)
  <2> SUFFICES ASSUME NEW n \in Nat PROVE Sps!Moved(At(p, B), n) = At(n, B)
    OBVIOUS
  <2>1. n \div 8 \in Nat
    BY ByEight
  <2>2. q + (B - q) - n \div 8 = B - n \div 8
    BY <1>1, <2>1
  <2> QED
    BY <1>2, <2>2 DEF Sps!Moved, At
<1> QED
  BY <1>1, <1>2, <1>3, <1>4, <1>5, <1>6

(* The code of n lies behind bit p, or its beginning, as far as the buffer *)
(* goes.                                                                   *)
CodeAt(code, p, B) == \A j \in 1..Len(code) : p + j <= 8 * B => data[p + j] = code[j]

(* The zeros in front of a code are counted, up to the end of the buffer.  *)
LEMMA ZerosRead ==
  ASSUME NEW n \in Nat, NEW B \in Nat, NEW p \in Nat, p < 8 * B,
         CodeAt(Sps!UeCode(n), p, B)
  PROVE  Sps!ZerosAt(At(p, B)) = IF p + Exponent(n) < 8 * B THEN Exponent(n) ELSE 8 * B - p
<1> DEFINE k == Exponent(n)
           N == 8 * B - p
           Z(z) == /\ \A j \in 0..(z - 1) : data[p + j + 1] = 0
                   /\ p + z = 8 * B \/ data[p + z + 1] = 1
           l == IF p + k < 8 * B THEN k ELSE N
<1>1. Sps!ZerosAt(At(p, B)) = CHOOSE z \in 0..N : Z(z)
  <2>1. Sps!Position(At(p, B)) = p /\ Sps!Total(At(p, B)) = 8 * B
    BY Cursors
  <2> QED
    BY <2>1 DEF Sps!ZerosAt
<1>2. k \in Nat /\ N \in Nat
  BY ExponentExists
<1>3. /\ \A j \in 0..(k - 1) : p + j + 1 <= 8 * B => data[p + j + 1] = 0
      /\ p + k + 1 <= 8 * B => data[p + k + 1] = 1
  <2>1. /\ Len(Sps!UeCode(n)) = 2 * k + 1
        /\ \A j \in 1..k : Sps!UeCode(n)[j] = 0
        /\ Sps!UeCode(n)[k + 1] = 1
    BY CodeShape
  <2>2. ASSUME NEW j \in 0..(k - 1), p + j + 1 <= 8 * B PROVE data[p + j + 1] = 0
    <3>1. j + 1 \in 1..k /\ j + 1 \in 1..(2 * k + 1) /\ p + (j + 1) = p + j + 1
      BY <1>2
    <3> QED
      BY <2>1, <2>2, <3>1 DEF CodeAt
  <2>3. ASSUME p + k + 1 <= 8 * B PROVE data[p + k + 1] = 1
    <3>1. k + 1 \in 1..(2 * k + 1) /\ p + (k + 1) = p + k + 1
      BY <1>2
    <3> QED
      BY <2>1, <2>3, <3>1 DEF CodeAt
  <2> QED
    BY <2>2, <2>3
<1> HIDE DEF k
<1>4. l \in 0..N /\ Z(l)
  <2>1. CASE p + k < 8 * B
    <3>1. l = k /\ k \in 0..N /\ p + k + 1 <= 8 * B
      BY <1>2, <2>1
    <3>2. \A j \in 0..(k - 1) : p + j + 1 <= 8 * B
      BY <1>2, <2>1
    <3> QED
      BY <1>3, <3>1, <3>2
  <2>2. CASE ~(p + k < 8 * B)
    <3>1. l = N /\ p + N = 8 * B
      BY <1>2, <2>2
    <3>2. \A j \in 0..(N - 1) : j \in 0..(k - 1) /\ p + j + 1 <= 8 * B
      BY <1>2, <2>2
    <3> QED
      BY <1>2, <1>3, <3>1, <3>2
  <2> QED
    BY <2>1, <2>2
<1>5. ASSUME NEW z \in 0..N, Z(z) PROVE z = l
  <2>1. CASE z < l
    <3>1. p + z # 8 * B /\ z \in 0..(k - 1) /\ p + z + 1 <= 8 * B
      BY <1>2, <2>1
    <3>2. data[p + z + 1] = 1 /\ data[p + z + 1] = 0
      BY <1>3, <1>5, <3>1
    <3> QED
      BY <3>2
  <2>2. CASE l < z
    <3>1. l = k /\ k \in 0..(z - 1) /\ p + k + 1 <= 8 * B
      BY <1>2, <2>2
    <3>2. data[p + k + 1] = 1 /\ data[p + k + 1] = 0
      BY <1>3, <1>5, <3>1
    <3> QED
      BY <3>2
  <2>3. l \in Int
    BY <1>2
  <2> QED
    BY <2>1, <2>2, <2>3
<1> HIDE DEF Z, N, l
<1>6. (CHOOSE z \in 0..N : Z(z)) = l
  BY <1>4, <1>5
<1> QED
  BY <1>1, <1>6 DEF l, k, N

(* get_ue_golomb and get_se_golomb read a code as the number it was        *)
(* written for, wherever in a byte it begins, if a bit is left behind it,  *)
(* and as 0 otherwise.                                                     *)
THEOREM CodeRead ==
  ASSUME shift = "old",
         NEW n \in Nat, NEW B \in Nat, NEW p \in Nat, p < 8 * B,
         CodeAt(Sps!UeCode(n), p, B)
  PROVE  LET e == p + Len(Sps!UeCode(n))
         IN  Sps!CodeNum(At(p, B)) =
               IF e < 8 * B THEN Sps!Reading(n, At(e, B))
               ELSE Sps!Reading(0, Sps!Exhausted(At(p, B)))
<1> DEFINE k == Exponent(n)
           z == Sps!ZerosAt(At(p, B))
           e == p + 2 * k + 1
<1>1. k \in Nat /\ Len(Sps!UeCode(n)) = 2 * k + 1 /\ p + (2 * k + 1) = e
  <2>1. k \in Nat /\ Len(Sps!UeCode(n)) = 2 * k + 1
    BY ExponentExists, CodeShape
  <2> HIDE DEF k
  <2> QED
    BY <2>1
<1>2. z = IF p + k < 8 * B THEN k ELSE 8 * B - p
  BY ZerosRead
<1>3. Sps!CodeNum(At(p, B)) =
        IF p + 2 * z + 1 < 8 * B
        THEN Sps!Reading(2^z - 1 + Sps!Info(p + z + 1, z), Sps!Moved(At(p, B), p + 2 * z + 1))
        ELSE Sps!Reading(0, Sps!Exhausted(At(p, B)))
  BY Cursors DEF Sps!CodeNum
<1>4. CASE e < 8 * B
  <2>1. z = k
    <3> HIDE DEF k, z
    <3> QED
      BY <1>1, <1>2, <1>4
  <2>2. Sps!Info(p + k + 1, k) = (n + 1) - 2^k
    <3>1. ASSUME NEW j \in 1..k PROVE data[p + k + 1 + j] = ((n + 1) \div 2^(k - j)) % 2
      <4>1. /\ k + 1 + j \in 1..(2 * k + 1) /\ p + (k + 1 + j) = p + k + 1 + j
            /\ p + (k + 1 + j) <= 8 * B
        <5> HIDE DEF k
        <5> QED
          BY <1>1, <1>4
      <4>2. data[p + (k + 1 + j)] = Sps!UeCode(n)[k + 1 + j]
        BY <1>1, <4>1 DEF CodeAt
      <4> QED
        BY <4>1, <4>2, CodeShape
    <3>2. (n + 1) \div 2^k = 1
      BY LeadingDigit
    <3> DEFINE m == n + 1
    <3>3. /\ m \in Nat /\ m \div 2^k = 1
          /\ \A j \in 1..k : data[p + k + 1 + j] = (m \div 2^(k - j)) % 2
      BY <3>1, <3>2
    <3> HIDE DEF k, m
    <3>4. Sps!Info(p + k + 1, k) = m - 2^k
      BY <1>1, <3>3, InfoRead
    <3> QED
      BY <3>4 DEF m
  <2>3. 2^k - 1 + ((n + 1) - 2^k) = n
    <3> DEFINE a == 2^k
    <3>1. a \in Nat
      BY <1>1, PowerTyped
    <3> HIDE DEF a
    <3>2. a - 1 + ((n + 1) - a) = n
      BY <3>1
    <3> QED
      BY <3>2 DEF a
  <2>4. e \in Nat /\ Sps!Moved(At(p, B), e) = At(e, B)
    <3>1. e \in Nat
      <4> HIDE DEF k
      <4> QED
        BY <1>1
    <3> QED
      BY <3>1, Cursors
  <2> HIDE DEF k, z
  <2> QED
    BY <1>1, <1>3, <1>4, <2>1, <2>2, <2>3, <2>4
<1>5. CASE ~(e < 8 * B)
  <2> HIDE DEF k, z
  <2>1. ~(p + 2 * z + 1 < 8 * B)
    BY <1>1, <1>2, <1>5
  <2> QED
    BY <1>1, <1>3, <1>5, <2>1
<1> QED
  BY <1>4, <1>5

-----------------------------------------------------------------------------
(* What a field is written as, and what the functions read.                *)
Delta == "delta_pic_order_always_zero_flag"

IsField(f) == f.kind \in {"u1", "ue", "se"} /\ f.value \in Sps!Values[f.kind]

(* A field of the syntax in a parameter set that the reader follows.       *)
Expected(f, name) ==
  /\ IsField(f) /\ f.kind = Sps!Kind(name)
  /\ name = Delta => f.value = 1

(* The values of a field, by the way it is written.                        *)
LEMMA FieldValues ==
  ASSUME NEW f, IsField(f)
  PROVE  /\ f.kind = "u1" => f.value \in {0, 1}
         /\ f.kind = "ue" => f.value \in Nat
         /\ f.kind = "se" => f.value \in Int
<1>1. f.kind = "u1" => f.value \in 0..1
  BY DEF IsField, Sps!Values
<1>2. f.kind = "ue" => f.value \in 0..(2 * (2^30 - 1))
  BY DEF IsField, Sps!Values
<1>3. f.kind = "se" => f.value \in -(2^30 - 1)..(2^30 - 1)
  BY DEF IsField, Sps!Values
<1> QED
  BY <1>1, <1>2, <1>3

(* The number whose code a field is.                                       *)
Number(f) == IF f.kind = "se" THEN IF f.value > 0 THEN 2 * f.value - 1 ELSE -2 * f.value
             ELSE f.value

LEMMA CodeNotEmpty ==
  ASSUME NEW n \in Nat
  PROVE  Len(Sps!UeCode(n)) > 0 /\ Sps!UeCode(n) \in Seq({0, 1})
<1> DEFINE k == Exponent(n)
<1>1. k \in Nat /\ Len(Sps!UeCode(n)) = 2 * k + 1 /\ Sps!UeCode(n) \in Seq({0, 1})
  BY CodeShape, ExponentExists
<1> HIDE DEF k
<1> QED
  BY <1>1

(* How a field is written: a bit or the code of a number.                  *)
LEMMA WrittenAs ==
  ASSUME NEW f, IsField(f)
  PROVE  /\ f.kind = "u1" => Sps!Written(f) = <<f.value>>
         /\ f.kind # "u1" => Number(f) \in Nat /\ Sps!Written(f) = Sps!UeCode(Number(f))
         /\ Sps!Written(f) \in Seq({0, 1})
         /\ Len(Sps!Written(f)) > 0
<1>1. CASE f.kind = "u1"
  <2>1. Sps!Written(f) = <<f.value>> /\ f.value \in {0, 1}
    BY <1>1, FieldValues DEF Sps!Written
  <2> QED
    BY <1>1, <2>1
<1>2. CASE f.kind = "ue"
  <2>1. Sps!Written(f) = Sps!UeCode(f.value) /\ f.value \in Nat /\ Number(f) = f.value
    BY <1>2, FieldValues DEF Sps!Written, Number
  <2>2. Len(Sps!UeCode(f.value)) > 0 /\ Sps!UeCode(f.value) \in Seq({0, 1})
    BY <2>1, CodeNotEmpty
  <2> QED
    BY <1>2, <2>1, <2>2
<1>3. CASE f.kind = "se"
  <2> DEFINE n == IF f.value > 0 THEN 2 * f.value - 1 ELSE -2 * f.value
  <2>1. Sps!Written(f) = Sps!UeCode(n) /\ Number(f) = n
    BY <1>3 DEF Sps!Written, Number
  <2>2. n \in Nat
    BY <1>3, FieldValues
  <2> HIDE DEF n
  <2>3. Len(Sps!UeCode(n)) > 0 /\ Sps!UeCode(n) \in Seq({0, 1})
    BY <2>2, CodeNotEmpty
  <2> QED
    BY <1>3, <2>1, <2>2, <2>3
<1> QED
  BY <1>1, <1>2, <1>3 DEF IsField

(* delta_pic_order_always_zero_flag = 1 looks like the code of 0.          *)
LEMMA OneIsCode == Len(Sps!UeCode(0)) = 1 /\ Sps!UeCode(0)[1] = 1
<1>1. Exponent(0) = 0
  BY ExponentExists
<1> DEFINE code == Sps!UeCode(0)
<1>2. Len(code) = 2 * Exponent(0) + 1 /\ code[Exponent(0) + 1] = 1
  BY CodeShape
<1> HIDE DEF code
<1>3. Len(code) = 1 /\ code[1] = 1
  BY <1>1, <1>2
<1> QED
  BY <1>3 DEF code

(* The end of the buffer has been reached.                                 *)
Behind(c) == c.size \in Int /\ c.size <= 0 /\ c.bit \in 0..7

(* At the end of the buffer nothing is left.                               *)
LEMMA ExhaustedBehind ==
  ASSUME NEW B \in Nat, NEW p \in Nat, p < 8 * B
  PROVE  Behind(Sps!Exhausted(At(p, B)))
BY Cursors DEF Behind, Sps!Exhausted, Sps!Cursor

(* A flag is read as it was written, except the last bit of the buffer.    *)
LEMMA BitRead ==
  ASSUME shift = "old", NEW B \in Nat, NEW p \in Nat, p < 8 * B,
         NEW b \in {0, 1}, data[p + 1] = b,
         NEW r \in Sps!get_bits1(At(p, B))
  PROVE  IF p + 1 < 8 * B THEN r = Sps!Reading(b, At(p + 1, B)) ELSE Behind(r.cursor)
<1> DEFINE c == At(p, B)
           q == p \div 8
           m == p % 8
           v == IF c.size > 0 THEN {data[Sps!Position(c) + 1] * Sps!SetBit(Sps!Position(c))}
                ELSE {0, Sps!SetBit(Sps!Position(c))}
<1>1. q \in Nat /\ m \in 0..7 /\ m = p - 8 * q
  BY ByEight
<1>2. c.byte = q /\ c.bit = m /\ c.size = B - q
  BY DEF At, Sps!Cursor
<1>3. Sps!SetBit(p) = 1 /\ b * 1 = b
  BY DEF Sps!SetBit
<1>4. Sps!Position(c) = p /\ c.size > 0 /\ c.size \in Nat
  BY Cursors
<1>v. v = {b} /\ r \in Sps!get_bits1(c)
  BY <1>3, <1>4
<1> HIDE DEF v
<1>5. CASE m < 7
  <2>1. r = Sps!Reading(b, Sps!Cursor(q, m + 1, B - q))
    <3>1. c.bit < 7 /\ c.size >= 0 /\ ~(c.size < 0) /\ ~(c.bit = 7)
      BY <1>1, <1>2, <1>4, <1>5
    <3>2. Sps!get_bits1(c) = {Sps!Reading(x, Sps!Cursor(c.byte, c.bit + 1, c.size)) : x \in v}
      BY <3>1 DEF Sps!get_bits1, v
    <3> HIDE DEF c
    <3> QED
      BY <1>v, <1>2, <3>2
  <2>2. (p + 1) \div 8 = q /\ (p + 1) % 8 = m + 1
    <3> HIDE DEF q, m
    <3>1. m + 1 \in 0..7 /\ p + 1 = 8 * q + (m + 1)
      BY <1>1, <1>5
    <3> QED
      BY <1>1, <3>1, EightTimes
  <2>3. p + 1 < 8 * B
    <3> HIDE DEF q, m
    <3> QED
      BY <1>1, <1>5
  <2> QED
    BY <2>1, <2>2, <2>3 DEF At
<1>6. CASE m = 7
  <2>1. r = IF c.size > 1 THEN Sps!Reading(b, Sps!Moved(c, p + 1))
            ELSE Sps!Reading(0, Sps!Cursor(c.byte + 1, 7, c.size - 1))
    <3>1. c.bit = 7 /\ c.size >= 0 /\ ~(c.size < 0) /\ ~(c.bit < 7)
      BY <1>2, <1>4, <1>6
    <3>2. Sps!get_bits1(c) =
            {IF c.size > 1 THEN Sps!Reading(x, Sps!Moved(c, Sps!Position(c) + 1))
             ELSE Sps!Reading(0, Sps!Cursor(c.byte + 1, 7, c.size - 1)) : x \in v}
      BY <3>1 DEF Sps!get_bits1, v
    <3> HIDE DEF c
    <3> QED
      BY <1>v, <1>4, <3>2
  <2>2. CASE c.size > 1
    <3>1. p + 1 < 8 * B
      <4>1. B - q > 1
        BY <1>2, <2>2
      <4> HIDE DEF q, m
      <4> QED
        BY <1>1, <1>6, <4>1
    <3>2. Sps!Moved(c, p + 1) = At(p + 1, B)
      BY Cursors
    <3> QED
      BY <2>1, <2>2, <3>1, <3>2
  <2>3. CASE ~(c.size > 1)
    <3>1. ~(p + 1 < 8 * B)
      <4>1. B - q <= 1
        BY <1>1, <1>2, <2>3
      <4> HIDE DEF q, m
      <4> QED
        BY <1>1, <1>6, <4>1
    <3>2. r.cursor = Sps!Cursor(c.byte + 1, 7, c.size - 1)
      BY <2>1, <2>3 DEF Sps!Reading
    <3>3. Behind(r.cursor)
      BY <1>4, <2>3, <3>2 DEF Behind, Sps!Cursor
    <3> QED
      BY <3>1, <3>3
  <2> QED
    BY <2>2, <2>3
<1> QED
  BY <1>1, <1>5, <1>6

(* No name is read in two ways.                                            *)
LEMMA KindsApart ==
  ASSUME NEW name
  PROVE  /\ name \in Sps!Bits1 => name \notin Sps!Signed /\ name # Delta
         /\ name \in Sps!Signed => name # Delta
BY DEF Sps!Bits1, Sps!Signed, Delta

(* A field read where it was written: the reader stands behind it with its *)
(* value, or the buffer has come to its end, and a number is 0.            *)
LEMMA FieldRead ==
  ASSUME shift = "old", NEW B \in Nat, NEW p \in Nat, p < 8 * B,
         cursor = At(p, B),
         NEW name, NEW f, Expected(f, name),
         CodeAt(Sps!Written(f), p, B),
         NEW r \in Sps!Readings(name)
  PROVE  LET e == p + Len(Sps!Written(f))
         IN  IF e < 8 * B
             THEN /\ r.cursor = At(e, B)
                  /\ name \notin Sps!Signed \cup {Delta} => r.value = f.value
             ELSE /\ Behind(r.cursor)
                  /\ name \notin Sps!Signed \cup Sps!Bits1 => r.value = 0
<1> DEFINE e == p + Len(Sps!Written(f))
           c == At(p, B)
<1>1. IsField(f) /\ f.kind = Sps!Kind(name)
  BY DEF Expected
<1>2. c.size > 0 /\ c.size \in Nat /\ ~(c.size <= 0) /\ ~(c.size < 0)
  BY Cursors
<1>3. Behind(Sps!Exhausted(c))
  BY ExhaustedBehind
<1> HIDE DEF c
<1>4. CASE name \in Sps!Bits1
  <2>1. f.kind = "u1" /\ name # Delta
    BY <1>1, <1>4, KindsApart DEF Sps!Kind, Delta
  <2>2. Sps!Written(f) = <<f.value>> /\ f.value \in {0, 1}
    BY <1>1, <2>1, WrittenAs, FieldValues
  <2>3. e = p + 1 /\ (p + 1 <= 8 * B => data[p + 1] = f.value)
    BY <2>2 DEF CodeAt
  <2>4. r \in Sps!get_bits1(At(p, B)) /\ p + 1 <= 8 * B
    BY <1>4, KindsApart DEF Sps!Readings
  <2>5. IF p + 1 < 8 * B THEN r = Sps!Reading(f.value, At(p + 1, B)) ELSE Behind(r.cursor)
    BY <2>2, <2>3, <2>4, BitRead
  <2> QED
    BY <1>4, <2>3, <2>5 DEF Sps!Reading
<1>5. CASE name = Delta
  <2>1. f.kind = "u1" /\ f.value = 1
    BY <1>1, <1>5, KindsApart DEF Sps!Kind, Expected, Delta
  <2>2. Sps!Written(f) = <<1>>
    BY <1>1, <2>1, WrittenAs
  <2>3. CodeAt(Sps!UeCode(0), p, B) /\ e = p + Len(Sps!UeCode(0))
    <3>1. Len(Sps!Written(f)) = 1 /\ Sps!Written(f)[1] = 1
      BY <2>2
    <3>2. p + 1 <= 8 * B => data[p + 1] = 1
      BY <3>1 DEF CodeAt
    <3>3. \A j \in 1..1 : j = 1
      OBVIOUS
    <3> QED
      BY <3>1, <3>2, <3>3, OneIsCode DEF CodeAt
  <2>4. r = Sps!CodeNum(c)
    <3>1. name \notin Sps!Bits1 /\ name \notin Sps!Signed
      BY <1>5 DEF Sps!Bits1, Sps!Signed, Delta
    <3> QED
      BY <1>2, <3>1 DEF Sps!Readings, Sps!get_ue_golomb, c
  <2>5. r = IF e < 8 * B THEN Sps!Reading(0, At(e, B)) ELSE Sps!Reading(0, Sps!Exhausted(c))
    BY <2>3, <2>4, CodeRead DEF c
  <2> QED
    BY <1>3, <1>5, <2>5 DEF Sps!Reading
<1>6. CASE name \in Sps!Signed
  <2>1. f.kind = "se"
    BY <1>1, <1>6 DEF Sps!Kind, Sps!Bits1, Sps!Signed
  <2>2. Number(f) \in Nat /\ Sps!Written(f) = Sps!UeCode(Number(f))
    BY <1>1, <2>1, WrittenAs
  <2>3. Sps!CodeNum(c) = IF e < 8 * B THEN Sps!Reading(Number(f), At(e, B))
                         ELSE Sps!Reading(0, Sps!Exhausted(c))
    BY <2>2, CodeRead DEF c
  <2>4. r \in Sps!get_se_golomb(c)
    BY <1>6 DEF Sps!Readings, Sps!Bits1, Sps!Signed, c
  <2>5. r.cursor = Sps!CodeNum(c).cursor
    <3>1. r = [Sps!CodeNum(c) EXCEPT !.value = (IF @ % 2 = 1 THEN 1 ELSE -1) * (@ \div 2)]
      BY <1>2, <2>4 DEF Sps!get_se_golomb
    <3> QED
      BY <2>3, <3>1 DEF Sps!Reading
  <2> QED
    BY <1>3, <1>6, <2>3, <2>5 DEF Sps!Reading
<1>7. CASE name \notin Sps!Bits1 /\ name # Delta /\ name \notin Sps!Signed
  <2>1. f.kind = "ue"
    BY <1>1, <1>7 DEF Sps!Kind, Delta
  <2>2. f.value \in Nat /\ Sps!Written(f) = Sps!UeCode(f.value)
    BY <1>1, <2>1, WrittenAs, FieldValues DEF Number
  <2>3. r = Sps!CodeNum(c)
    BY <1>2, <1>7 DEF Sps!Readings, Sps!get_ue_golomb, c
  <2>4. r = IF e < 8 * B THEN Sps!Reading(f.value, At(e, B)) ELSE Sps!Reading(0, Sps!Exhausted(c))
    BY <2>2, <2>3, CodeRead DEF c
  <2> QED
    BY <1>3, <2>4 DEF Sps!Reading
<1> QED
  BY <1>4, <1>5, <1>6, <1>7

(* Behind the end nothing is found any more.                               *)
LEMMA NothingRead ==
  ASSUME Behind(cursor), NEW name, NEW r \in Sps!Readings(name)
  PROVE  /\ Behind(r.cursor)
         /\ name \notin Sps!Signed \cup Sps!Bits1 => r.value = 0
<1> DEFINE c == cursor
<1>1. c.size \in Int /\ c.size <= 0 /\ c.bit \in 0..7
  BY DEF Behind
<1>2. CASE name \in Sps!Bits1
  <2>1. r \in Sps!get_bits1(c)
    BY <1>2, KindsApart DEF Sps!Readings
  <2>2. CASE c.size < 0
    <3>1. r = Sps!Reading(0, c)
      <4>1. ~(c.size >= 0)
        BY <1>1, <2>2
      <4> QED
        BY <2>1, <2>2, <4>1 DEF Sps!get_bits1
    <3> QED
      BY <1>1, <1>2, <3>1 DEF Sps!Reading, Behind
  <2>3. CASE c.size = 0 /\ c.bit < 7
    <3>1. r.cursor = Sps!Cursor(c.byte, c.bit + 1, c.size)
      <4>1. c.size >= 0 /\ ~(c.size < 0) /\ ~(c.bit = 7)
        BY <2>3
      <4> QED
        BY <2>1, <2>3, <4>1 DEF Sps!get_bits1, Sps!Reading
    <3> QED
      BY <1>1, <1>2, <2>3, <3>1 DEF Sps!Cursor, Behind
  <2>4. CASE c.size = 0 /\ c.bit = 7
    <3>1. r.cursor = Sps!Cursor(c.byte + 1, 7, c.size - 1)
      <4>1. c.size >= 0 /\ ~(c.size < 0) /\ ~(c.bit < 7) /\ ~(c.size > 1)
        BY <2>4
      <4> QED
        BY <2>1, <2>4, <4>1 DEF Sps!get_bits1, Sps!Reading
    <3> QED
      BY <1>1, <1>2, <2>4, <3>1 DEF Sps!Cursor, Behind
  <2> QED
    BY <1>1, <2>2, <2>3, <2>4
<1>3. CASE name \in Sps!Signed
  <2>1. r \in Sps!get_se_golomb(c)
    BY <1>3 DEF Sps!Readings, Sps!Bits1, Sps!Signed
  <2>2. CASE c.size < 0
    <3>1. r = Sps!Reading(0, c)
      <4>1. ~(c.size > 0) /\ ~(c.size = 0)
        BY <1>1, <2>2
      <4> QED
        BY <2>1, <2>2, <4>1 DEF Sps!get_se_golomb
    <3> QED
      BY <1>1, <1>3, <3>1 DEF Sps!Reading, Behind
  <2>3. CASE c.size = 0
    <3>1. r.cursor \in {c, Sps!Cursor(c.byte + 1, c.bit, -1)}
      <4>1. ~(c.size > 0) /\ ~(c.size < 0)
        BY <2>3
      <4> QED
        BY <2>1, <2>3, <4>1 DEF Sps!get_se_golomb, Sps!Reading
    <3> QED
      BY <1>1, <1>3, <3>1 DEF Sps!Cursor, Behind
  <2> QED
    BY <1>1, <2>2, <2>3
<1>4. CASE name \notin Sps!Bits1 \cup Sps!Signed
  <2>1. r = Sps!Reading(0, c)
    BY <1>1, <1>4 DEF Sps!Readings, Sps!get_ue_golomb
  <2> QED
    BY <1>1, <2>1 DEF Sps!Reading, Behind
<1> QED
  BY <1>2, <1>3, <1>4

-----------------------------------------------------------------------------
(* The codes one behind the other.  Parts(C, n) is the first n of them.    *)
Parts(C, n) == Sps!FlattenSeq([j \in 1..n |-> C[j]])

(* What FlattenSeq chooses: the sequences built up one by one.             *)
BuildsUp(f, C, n) == f = [j \in 1..n |-> IF j = 1 THEN C[j] ELSE f[j - 1] \o C[j]]

(* There is such a sequence.                                               *)
LEMMA BuildExists ==
  ASSUME NEW C, NEW n \in Nat
  PROVE  \E f : BuildsUp(f, C, n)
<1> DEFINE T == {k \in Nat : \E f : BuildsUp(f, C, k)}
<1>1. 0 \in T
  <2> DEFINE f == [j \in 1..0 |-> <<>>]
  <2>1. f = [j \in 1..0 |-> IF j = 1 THEN C[j] ELSE f[j - 1] \o C[j]]
    OBVIOUS
  <2>2. BuildsUp(f, C, 0)
    BY <2>1 DEF BuildsUp
  <2> QED
    BY <2>2
<1>2. ASSUME NEW k \in Nat, k \in T PROVE k + 1 \in T
  <2>1. PICK f : BuildsUp(f, C, k)
    BY <1>2
  <2> DEFINE g == [j \in 1..(k + 1) |->
                     IF j <= k THEN f[j] ELSE IF j = 1 THEN C[j] ELSE f[k] \o C[j]]
  <2>2. f = [j \in 1..k |-> IF j = 1 THEN C[j] ELSE f[j - 1] \o C[j]]
    BY <2>1 DEF BuildsUp
  <2>3. ASSUME NEW j \in 1..(k + 1) PROVE g[j] = IF j = 1 THEN C[j] ELSE g[j - 1] \o C[j]
    <3>1. CASE j <= k
      <4>1. j \in 1..k /\ (j # 1 => j - 1 \in 1..k /\ j - 1 \in 1..(k + 1) /\ j - 1 <= k)
        BY <3>1
      <4>2. f[j] = IF j = 1 THEN C[j] ELSE f[j - 1] \o C[j]
        BY <2>2, <4>1
      <4> QED
        BY <3>1, <4>1, <4>2
    <3>2. CASE j = k + 1 /\ j # 1
      <4>1. ~(j <= k) /\ j - 1 = k /\ k \in 1..(k + 1) /\ k <= k
        BY <3>2
      <4> QED
        BY <3>2, <4>1
    <3>3. CASE j = k + 1 /\ j = 1
      BY <3>3
    <3> QED
      BY <3>1, <3>2, <3>3
  <2>4. g = [j \in 1..(k + 1) |-> IF j = 1 THEN C[j] ELSE g[j - 1] \o C[j]]
    BY <2>3
  <2>5. BuildsUp(g, C, k + 1)
    BY <2>4 DEF BuildsUp
  <2> QED
    BY <2>5
<1>3. n \in T
  <2> HIDE DEF T
  <2> QED
    BY <1>1, <1>2, SetInduction
<1> QED
  BY <1>3

LEMMA BuildsStep ==
  ASSUME NEW C, NEW n \in Nat, NEW f, BuildsUp(f, C, n), NEW j \in 1..n
  PROVE  f[j] = IF j = 1 THEN C[j] ELSE f[j - 1] \o C[j]
BY DEF BuildsUp

(* Two of them agree as far as both go.                                    *)
LEMMA BuildsAgree ==
  ASSUME NEW C, NEW n \in Nat, NEW m \in Nat, n <= m,
         NEW f, BuildsUp(f, C, n), NEW g, BuildsUp(g, C, m)
  PROVE  \A j \in 1..n : f[j] = g[j]
<1> DEFINE T == {k \in Nat : k \in 1..n => f[k] = g[k]}
<1>1. 0 \in T
  OBVIOUS
<1>2. ASSUME NEW k \in Nat, k \in T PROVE k + 1 \in T
  <2>1. ASSUME k + 1 \in 1..n PROVE f[k + 1] = g[k + 1]
    <3>1. k + 1 \in 1..m /\ k + 1 - 1 = k /\ (k + 1 # 1 => k \in 1..n)
      BY <2>1
    <3>2. f[k + 1] = IF k + 1 = 1 THEN C[k + 1] ELSE f[k + 1 - 1] \o C[k + 1]
      BY <2>1, BuildsStep
    <3>3. g[k + 1] = IF k + 1 = 1 THEN C[k + 1] ELSE g[k + 1 - 1] \o C[k + 1]
      BY <3>1, BuildsStep
    <3> QED
      BY <1>2, <3>1, <3>2, <3>3
  <2> QED
    BY <2>1
<1>3. Nat \subseteq T
  <2> HIDE DEF T
  <2> QED
    BY <1>1, <1>2, SetInduction
<1> QED
  BY <1>3

(* It is what FlattenSeq returns.                                          *)
LEMMA PartsBuilt ==
  ASSUME NEW C, NEW n \in Nat \ {0}, NEW f, BuildsUp(f, C, n)
  PROVE  Parts(C, n) = f[n]
<1> DEFINE S == [j \in 1..n |-> C[j]]
           Grown(h) == [j \in 1..Len(S) |-> IF j = 1 THEN S[j] ELSE h[j - 1] \o S[j]]
           g == CHOOSE h : h = Grown(h)
<1>1. Len(S) = n
  OBVIOUS
<1>2. Parts(C, n) = g[n]
  BY <1>1 DEF Parts, Sps!FlattenSeq
<1>3. ASSUME NEW h PROVE h = Grown(h) <=> BuildsUp(h, C, n)
  <2>1. Grown(h) = [j \in 1..n |-> IF j = 1 THEN C[j] ELSE h[j - 1] \o C[j]]
    BY <1>1
  <2> QED
    BY <2>1 DEF BuildsUp
<1> HIDE DEF Grown
<1>4. g = Grown(g)
  BY <1>3
<1>5. BuildsUp(g, C, n)
  BY <1>3, <1>4
<1>6. n \in 1..n
  OBVIOUS
<1> HIDE DEF g
<1> QED
  BY <1>2, <1>5, <1>6, BuildsAgree

LEMMA PartsEmpty ==
  ASSUME NEW C
  PROVE  Parts(C, 0) = <<>>
<1>1. [j \in 1..0 |-> C[j]] = <<>>
  OBVIOUS
<1> QED
  BY <1>1 DEF Parts, Sps!FlattenSeq

(* One code more is put behind the others.                                 *)
LEMMA PartsGrow ==
  ASSUME NEW C, NEW n \in Nat
  PROVE  Parts(C, n + 1) = IF n = 0 THEN C[n + 1] ELSE Parts(C, n) \o C[n + 1]
<1>1. PICK f : BuildsUp(f, C, n + 1)
  BY BuildExists
<1>2. Parts(C, n + 1) = f[n + 1]
  BY <1>1, PartsBuilt
<1>3. f[n + 1] = IF n = 0 THEN C[n + 1] ELSE f[n] \o C[n + 1]
  <2>1. n + 1 \in 1..(n + 1) /\ n + 1 - 1 = n /\ (n + 1 = 1 <=> n = 0)
    OBVIOUS
  <2> QED
    BY <1>1, <2>1, BuildsStep
<1>4. ASSUME n # 0 PROVE f[n] = Parts(C, n)
  <2>1. n \in Nat \ {0} /\ n <= n + 1 /\ n \in 1..n
    BY <1>4
  <2>2. PICK g : BuildsUp(g, C, n)
    BY BuildExists
  <2>3. g[n] = f[n]
    BY <1>1, <2>1, <2>2, BuildsAgree
  <2> QED
    BY <2>1, <2>2, <2>3, PartsBuilt
<1> QED
  BY <1>2, <1>3, <1>4

(* For sequences of bits: Offset(C, n) bits lie in front of the next code. *)
Offset(C, n) == Len(Parts(C, n))

LEMMA PartsStep ==
  ASSUME NEW D, NEW C \in Seq(Seq(D)), NEW n \in Nat, n < Len(C), Parts(C, n) \in Seq(D)
  PROVE  /\ C[n + 1] \in Seq(D)
         /\ Parts(C, n + 1) = Parts(C, n) \o C[n + 1]
         /\ Parts(C, n + 1) \in Seq(D)
         /\ Offset(C, n + 1) = Offset(C, n) + Len(C[n + 1])
<1>1. n + 1 \in 1..Len(C) /\ C[n + 1] \in Seq(D)
  OBVIOUS
<1>2. Parts(C, n + 1) = IF n = 0 THEN C[n + 1] ELSE Parts(C, n) \o C[n + 1]
  BY PartsGrow
<1>3. ASSUME n = 0 PROVE C[n + 1] = Parts(C, n) \o C[n + 1]
  <2>1. Parts(C, n) = <<>>
    BY <1>3, PartsEmpty
  <2> QED
    BY <1>1, <2>1, ConcatEmptySeq
<1>4. Parts(C, n + 1) = Parts(C, n) \o C[n + 1]
  BY <1>2, <1>3
<1> DEFINE s == Parts(C, n)
           t == C[n + 1]
<1>5. s \in Seq(D) /\ t \in Seq(D) /\ Parts(C, n + 1) = s \o t
  BY <1>1, <1>4
<1> HIDE DEF s, t
<1>6. s \o t \in Seq(D) /\ Len(s \o t) = Len(s) + Len(t)
  BY <1>5, ConcatProperties
<1> QED
  BY <1>5, <1>6 DEF Offset, s, t

LEMMA PartsTyped ==
  ASSUME NEW D, NEW C \in Seq(Seq(D)), NEW n \in 0..Len(C)
  PROVE  Parts(C, n) \in Seq(D) /\ Offset(C, n) \in Nat
<1> DEFINE T == {k \in Nat : k <= Len(C) => Parts(C, k) \in Seq(D)}
<1>1. 0 \in T
  <2>1. Parts(C, 0) = <<>> /\ <<>> \in Seq(D)
    BY PartsEmpty
  <2> QED
    BY <2>1
<1>2. ASSUME NEW k \in Nat, k \in T PROVE k + 1 \in T
  <2>1. CASE k + 1 <= Len(C)
    <3>1. k < Len(C) /\ Parts(C, k) \in Seq(D)
      BY <1>2, <2>1
    <3>2. Parts(C, k + 1) \in Seq(D)
      BY <3>1, PartsStep
    <3> QED
      BY <3>2
  <2>2. CASE ~(k + 1 <= Len(C))
    BY <2>2
  <2> QED
    BY <2>1, <2>2
<1>3. n \in T
  <2>1. n \in Nat
    OBVIOUS
  <2> HIDE DEF T
  <2> QED
    BY <1>1, <1>2, <2>1, SetInduction
<1>4. Parts(C, n) \in Seq(D)
  BY <1>3
<1> QED
  BY <1>4, LenProperties DEF Offset

(* A code keeps its place when more are put behind it.                     *)
LEMMA PartsKept ==
  ASSUME NEW D, NEW C \in Seq(Seq(D)), NEW n \in 0..Len(C)
  PROVE  \A m \in n..Len(C) :
           /\ Offset(C, n) <= Offset(C, m)
           /\ \A j \in 1..Offset(C, n) : Parts(C, m)[j] = Parts(C, n)[j]
<1> DEFINE Still(m) == /\ Offset(C, n) <= Offset(C, m)
                      /\ \A j \in 1..Offset(C, n) : Parts(C, m)[j] = Parts(C, n)[j]
           T == {k \in Nat : n + k <= Len(C) => Still(n + k)}
<1>1. 0 \in T
  <2>1. Offset(C, n) \in Nat
    BY PartsTyped
  <2>2. Still(n)
    BY <2>1
  <2> HIDE DEF Still
  <2>3. n + 0 = n
    OBVIOUS
  <2> QED
    BY <2>2, <2>3
<1>2. ASSUME NEW k \in Nat, k \in T PROVE k + 1 \in T
  <2>1. ASSUME n + (k + 1) <= Len(C) PROVE Still(n + (k + 1))
    <3> DEFINE m == n + k
    <3>1. /\ m \in 0..Len(C) /\ m + 1 \in 0..Len(C) /\ m + 1 > 0
          /\ m + 1 - 1 = m /\ n + (k + 1) = m + 1
      BY <2>1
    <3>2. Still(m)
      <4> HIDE DEF Still
      <4> QED
        BY <1>2, <3>1
    <3> HIDE DEF m
    <3>3. Parts(C, m) \in Seq(D) /\ Offset(C, m) \in Nat /\ Offset(C, n) \in Nat
      BY <3>1, PartsTyped
    <3>4. /\ Parts(C, m + 1) = Parts(C, m) \o C[m + 1]
          /\ C[m + 1] \in Seq(D) /\ Len(C[m + 1]) \in Nat
          /\ Offset(C, m + 1) = Offset(C, m) + Len(C[m + 1])
      <4>1. m \in Nat /\ m < Len(C)
        BY <3>1
      <4>2. /\ Parts(C, m + 1) = Parts(C, m) \o C[m + 1] /\ C[m + 1] \in Seq(D)
            /\ Offset(C, m + 1) = Offset(C, m) + Len(C[m + 1])
        BY <3>3, <4>1, PartsStep
      <4> QED
        BY <4>2, LenProperties
    <3>5. \A j \in 1..Offset(C, m) : Parts(C, m + 1)[j] = Parts(C, m)[j]
      BY <3>3, <3>4, ConcatProperties DEF Offset
    <3>6. \A j \in 1..Offset(C, n) : j \in 1..Offset(C, m)
      BY <3>2, <3>3
    <3>7. Still(m + 1)
      BY <3>2, <3>3, <3>4, <3>5, <3>6
    <3> QED
      BY <3>1, <3>7
  <2> QED
    BY <2>1
<1>3. Nat \subseteq T
  <2> HIDE DEF T
  <2> QED
    BY <1>1, <1>2, SetInduction
<1> SUFFICES ASSUME NEW m \in n..Len(C) PROVE Still(m)
  OBVIOUS
<1>4. m - n \in Nat /\ n + (m - n) = m
  OBVIOUS
<1>5. n + (m - n) <= Len(C) => Still(n + (m - n))
  <2> HIDE DEF Still
  <2> QED
    BY <1>3, <1>4
<1> QED
  BY <1>4, <1>5

-----------------------------------------------------------------------------
(* The bits of a parameter set: each field's code behind those before it.  *)
LEMMA SyntaxFields ==
  ASSUME NEW ps, Sps!InSyntax(ps)
  PROVE  /\ Len(ps.fields) \in Nat /\ DOMAIN ps.fields = 1..Len(ps.fields)
         /\ \A j \in 1..Len(ps.fields) : IsField(ps.fields[j])
<1>1. ps.fields \in Seq([name : STRING, kind : {"u1", "ue", "se"}, value : Int])
  BY DEF Sps!InSyntax
<1>2. Len(ps.fields) \in Nat /\ DOMAIN ps.fields = 1..Len(ps.fields)
  BY <1>1, LenProperties
<1>3. ASSUME NEW j \in 1..Len(ps.fields) PROVE IsField(ps.fields[j])
  <2>1. ps.fields[j] \in [name : STRING, kind : {"u1", "ue", "se"}, value : Int]
    BY <1>1, ElementOfSeq
  <2>2. ps.fields[j].value \in Sps!Values[ps.fields[j].kind]
    BY <1>2 DEF Sps!InSyntax
  <2> QED
    BY <2>1, <2>2 DEF IsField
<1> QED
  BY <1>2, <1>3

(* The codes of a parameter set are sequences of bits.                     *)
LEMMA CodesTyped ==
  ASSUME NEW ps, Sps!InSyntax(ps)
  PROVE  /\ Sps!Codes(ps) \in Seq(Seq({0, 1}))
         /\ Len(Sps!Codes(ps)) = Len(ps.fields)
         /\ \A j \in 1..Len(ps.fields) : Sps!Codes(ps)[j] = Sps!Written(ps.fields[j])
<1> DEFINE n == Len(ps.fields)
           C == Sps!Codes(ps)
<1>1. n \in Nat /\ C = [j \in 1..n |-> Sps!Written(ps.fields[j])]
  BY SyntaxFields DEF Sps!Codes
<1>2. \A j \in 1..n : Sps!Written(ps.fields[j]) \in Seq({0, 1})
  BY SyntaxFields, WrittenAs
<1> HIDE DEF n, C
<1>3. C \in [1..n -> Seq({0, 1})]
  BY <1>1, <1>2
<1>4. C \in Seq(Seq({0, 1})) /\ Len(C) = n
  BY <1>1, <1>3
<1> QED
  BY <1>1, <1>4 DEF n, C

(* The bytes that all codes and the stop bit take.                         *)
Written(ps) == Offset(Sps!Codes(ps), Len(Sps!Codes(ps)))
Bytes(ps)   == (Written(ps) + 8) \div 8

(* All codes lie at the front of the bits, and at least one bit is behind  *)
(* them.                                                                   *)
LEMMA WholeShape ==
  ASSUME NEW ps, Sps!InSyntax(ps)
  PROVE  /\ Written(ps) \in Nat /\ Bytes(ps) \in Nat
         /\ Written(ps) < 8 * Bytes(ps)
         /\ Sps!Whole(ps) \in Seq({0, 1})
         /\ Len(Sps!Whole(ps)) = 8 * Bytes(ps)
         /\ \A j \in 1..Written(ps) :
              Sps!Whole(ps)[j] = Parts(Sps!Codes(ps), Len(Sps!Codes(ps)))[j]
<1> DEFINE C == Sps!Codes(ps)
           flat == Sps!FlattenSeq(C)
           bits == Append(flat, 1)
           N == Written(ps)
           M == Bytes(ps)
<1>1. C \in Seq(Seq({0, 1}))
  BY CodesTyped
<1>2. flat = Parts(C, Len(C))
  <2>1. [j \in 1..Len(C) |-> C[j]] = C
    <3> HIDE DEF C
    <3> QED
      BY <1>1
  <2> QED
    BY <2>1 DEF Parts
<1>3. Parts(C, Len(C)) \in Seq({0, 1}) /\ N \in Nat
  <2>1. Len(C) \in 0..Len(C)
    BY <1>1, LenProperties
  <2> QED
    BY <1>1, <2>1, PartsTyped DEF Written
<1>4. N = Len(flat)
  BY <1>2 DEF Written, Offset
<1>5. flat \in Seq({0, 1}) /\ Len(flat) \in Nat
  BY <1>2, <1>3, <1>4
<1>6. Sps!Whole(ps) =
        [j \in 1..(8 * ((Len(bits) + 7) \div 8)) |-> IF j <= Len(bits) THEN bits[j] ELSE 0]
  BY DEF Sps!Whole
<1> HIDE DEF C, flat
<1>7. /\ Len(bits) = N + 1 /\ bits \in Seq({0, 1})
      /\ \A j \in 1..N : bits[j] = flat[j]
  BY <1>4, <1>5, AppendProperties
<1> HIDE DEF bits
<1>8. M \in Nat /\ N < 8 * M
  <2>1. N + 8 \in Nat /\ 8 \in Nat \ {0}
    BY <1>3
  <2>2. M \in Nat /\ N + 8 < (M + 1) * 8
    BY <2>1, Quotient DEF Bytes
  <2> HIDE DEF M, N
  <2> QED
    BY <1>3, <2>2
<1>9. Sps!Whole(ps) = [j \in 1..(8 * M) |-> IF j <= N + 1 THEN bits[j] ELSE 0]
  <2>1. Len(bits) + 7 = N + 8
    BY <1>3, <1>7
  <2> QED
    BY <1>6, <1>7, <2>1 DEF Bytes
<1> HIDE DEF M, N
<1>10. \A j \in 1..(8 * M) : j <= N + 1 => bits[j] \in {0, 1}
  BY <1>3, <1>7
<1>11. Sps!Whole(ps) \in [1..(8 * M) -> {0, 1}] /\ 8 * M \in Nat
  BY <1>8, <1>9, <1>10
<1>12. Sps!Whole(ps) \in Seq({0, 1}) /\ Len(Sps!Whole(ps)) = 8 * M
  BY <1>11
<1>13. \A j \in 1..N : Sps!Whole(ps)[j] = flat[j]
  <2>1. \A j \in 1..N : j \in 1..(8 * M) /\ j <= N + 1
    BY <1>3, <1>8
  <2> QED
    BY <1>7, <1>9, <2>1
<1> QED
  BY <1>2, <1>3, <1>8, <1>12, <1>13 DEF C, N, M

(* What is left of it.                                                     *)
Kept(ps) == IF ps.cut <= Bytes(ps) THEN Bytes(ps) - ps.cut ELSE 0

(* What is left is whole bytes of that.                                    *)
LEMMA BitsShape ==
  ASSUME NEW ps, Sps!InSyntax(ps), ps.cut \in Nat
  PROVE  /\ Kept(ps) \in Nat
         /\ Sps!Bits(ps) \in Seq({0, 1})
         /\ Len(Sps!Bits(ps)) = 8 * Kept(ps)
         /\ Len(Sps!Bits(ps)) \div 8 = Kept(ps)
         /\ ps.cut = 0 => Written(ps) < 8 * Kept(ps)
         /\ \A j \in 1..(8 * Kept(ps)) : Sps!Bits(ps)[j] = Sps!Whole(ps)[j]
<1> DEFINE M == Bytes(ps)
           B == Kept(ps)
           W == Sps!Whole(ps)
<1>1. M \in Nat /\ W \in Seq({0, 1}) /\ Len(W) = 8 * M /\ Written(ps) < 8 * M
  BY WholeShape
<1>2. B = IF ps.cut <= M THEN M - ps.cut ELSE 0
  BY DEF Kept
<1>3. Sps!Bits(ps) = SubSeq(W, 1, 8 * M - 8 * ps.cut)
  BY <1>1 DEF Sps!Bits
<1> HIDE DEF M, B, W
<1>4. B \in Nat /\ (ps.cut = 0 => B = M)
  BY <1>1, <1>2
<1>5. (8 * B) \div 8 = B
  BY <1>4, EightTimes
<1>6. /\ Sps!Bits(ps) \in Seq({0, 1}) /\ Len(Sps!Bits(ps)) = 8 * B
      /\ \A j \in 1..(8 * B) : Sps!Bits(ps)[j] = W[j]
  <2>1. CASE ps.cut <= M /\ B > 0
    <3>1. 8 * M - 8 * ps.cut = 8 * B /\ 8 * B \in 1..Len(W) /\ 1 \in 1..Len(W)
      BY <1>1, <1>2, <1>4, <2>1
    <3>2. Sps!Bits(ps) = SubSeq(W, 1, 8 * B)
      BY <1>3, <3>1
    <3>3. /\ SubSeq(W, 1, 8 * B) \in Seq({0, 1}) /\ Len(SubSeq(W, 1, 8 * B)) = 8 * B
          /\ \A j \in 1..(8 * B) : SubSeq(W, 1, 8 * B)[j] = W[j]
      BY <1>1, <3>1, SubSeqProperties
    <3> QED
      BY <3>2, <3>3
  <2>2. CASE ~(ps.cut <= M /\ B > 0)
    <3>1. B = 0 /\ 8 * M - 8 * ps.cut <= 0 /\ 8 * M - 8 * ps.cut \in Int
      BY <1>1, <1>2, <1>4, <2>2
    <3>2. Sps!Bits(ps) = <<>>
      BY <1>1, <1>3, <3>1, SubSeqEmpty
    <3>3. 8 * B = 0
      BY <3>1
    <3> QED
      BY <3>2, <3>3
  <2> QED
    BY <2>1, <2>2
<1> QED
  BY <1>1, <1>4, <1>5, <1>6 DEF M, B, W

(* The code of field n + 1 lies at Offset(n), as far as bits are left.     *)
LEMMA FieldInBits ==
  ASSUME NEW ps, Sps!InSyntax(ps), ps.cut \in Nat, data = Sps!Bits(ps),
         NEW n \in Nat, n < Len(ps.fields)
  PROVE  /\ Offset(Sps!Codes(ps), n) \in Nat
         /\ Offset(Sps!Codes(ps), n + 1)
              = Offset(Sps!Codes(ps), n) + Len(Sps!Written(ps.fields[n + 1]))
         /\ Offset(Sps!Codes(ps), n + 1) <= Written(ps)
         /\ CodeAt(Sps!Written(ps.fields[n + 1]), Offset(Sps!Codes(ps), n), Kept(ps))
<1> DEFINE C == Sps!Codes(ps)
           p == Offset(C, n)
           code == Sps!Written(ps.fields[n + 1])
           all == Parts(C, Len(C))
           B == Kept(ps)
<1>1. n + 1 \in 1..Len(ps.fields)
  BY SyntaxFields
<1>2. C \in Seq(Seq({0, 1})) /\ Len(C) = Len(ps.fields) /\ C[n + 1] = code /\ Len(C) \in Nat
  BY <1>1, CodesTyped, SyntaxFields
<1>3. /\ \A j \in 1..Written(ps) : Sps!Whole(ps)[j] = all[j]
      /\ Written(ps) \in Nat /\ Written(ps) = Offset(C, Len(C))
  BY WholeShape DEF Written
<1>4. \A j \in 1..(8 * B) : data[j] = Sps!Whole(ps)[j]
  BY BitsShape
<1>5. B \in Nat
  BY BitsShape
<1> HIDE DEF C, code, B
<1>6. n \in 0..Len(C) /\ n + 1 \in 0..Len(C) /\ n < Len(C) /\ Len(C) \in (n + 1)..Len(C)
  BY <1>1, <1>2
<1>7. Parts(C, n) \in Seq({0, 1}) /\ p \in Nat /\ Offset(C, n + 1) \in Nat
  BY <1>2, <1>6, PartsTyped
<1>8. /\ code \in Seq({0, 1}) /\ Parts(C, n + 1) = Parts(C, n) \o code
      /\ Offset(C, n + 1) = p + Len(code)
  BY <1>2, <1>6, <1>7, PartsStep
<1>9. /\ Offset(C, n + 1) <= Written(ps)
      /\ \A j \in 1..Offset(C, n + 1) : all[j] = Parts(C, n + 1)[j]
  BY <1>2, <1>3, <1>6, PartsKept
<1> HIDE DEF all
<1>10. CodeAt(code, p, B)
  <2> SUFFICES ASSUME NEW j \in 1..Len(code), p + j <= 8 * B PROVE data[p + j] = code[j]
    BY DEF CodeAt
  <2>1. Len(code) \in Nat
    BY <1>8, LenProperties
  <2>2. p + j \in 1..Offset(C, n + 1) /\ p + j \in 1..Written(ps) /\ p + j \in 1..(8 * B)
    <3>1. p + j \in Nat /\ p + j > 0 /\ p + j <= p + Len(code)
      BY <1>7, <2>1
    <3>2. p + j <= Offset(C, n + 1) /\ Offset(C, n + 1) \in Nat
      BY <1>7, <1>8, <3>1
    <3>3. p + j <= Written(ps) /\ Written(ps) \in Nat
      BY <1>3, <1>9, <3>1, <3>2
    <3> QED
      BY <1>5, <3>1, <3>2, <3>3
  <2>3. data[p + j] = Parts(C, n + 1)[p + j]
    <3>1. data[p + j] = Sps!Whole(ps)[p + j]
      BY <1>4, <2>2
    <3>2. Sps!Whole(ps)[p + j] = all[p + j]
      BY <1>3, <2>2
    <3>3. all[p + j] = Parts(C, n + 1)[p + j]
      BY <1>9, <2>2
    <3> QED
      BY <3>1, <3>2, <3>3
  <2>4. (Parts(C, n) \o code)[p + j] = code[j]
    <3> DEFINE s == Parts(C, n)
    <3>1. s \in Seq({0, 1}) /\ Len(s) = p
      BY <1>7 DEF Offset
    <3> HIDE DEF s, p
    <3> DEFINE k == p + j
    <3>2. k \in 1..(Len(s) + Len(code)) /\ ~(k <= Len(s)) /\ k - Len(s) = j
      BY <1>7, <2>1, <3>1
    <3> HIDE DEF k
    <3>3. (s \o code)[k] = IF k <= Len(s) THEN s[k] ELSE code[k - Len(s)]
      BY <1>8, <3>1, <3>2, ConcatProperties
    <3> QED
      BY <3>2, <3>3 DEF k, s
  <2> QED
    BY <1>8, <2>3, <2>4
<1> QED
  BY <1>7, <1>8, <1>9, <1>10 DEF C, code, B

-----------------------------------------------------------------------------
(* Where the fields of a name stand: EndOf(ps, a) fields have one of the   *)
(* first a names, and they are the first ones.                             *)
LEMMA Segment ==
  ASSUME NEW n \in Nat, NEW S \in SUBSET (1..n), \A j \in S : j >= 2 => j - 1 \in S
  PROVE  Cardinality(S) \in 0..n /\ S = 1..Cardinality(S)
<1>1. \E k \in Nat : 1..k \subseteq S /\ k + 1 \notin S
  <2> SUFFICES ASSUME \A k \in Nat : 1..k \subseteq S => k + 1 \in S PROVE FALSE
    OBVIOUS
  <2> DEFINE T == {k \in Nat : 1..k \subseteq S}
  <2>1. 0 \in T
    OBVIOUS
  <2>2. ASSUME NEW k \in Nat, k \in T PROVE k + 1 \in T
    <3>1. \A j \in 1..(k + 1) : j \in 1..k \/ j = k + 1
      OBVIOUS
    <3> QED
      BY <2>2, <3>1
  <2>3. n + 1 \in T
    <3> HIDE DEF T
    <3> QED
      BY <2>1, <2>2, SetInduction
  <2> QED
    BY <2>3
<1>2. PICK k \in Nat : 1..k \subseteq S /\ k + 1 \notin S
  BY <1>1
<1> DEFINE T == {d \in Nat : k + 1 + d \notin S}
<1>3. 0 \in T
  BY <1>2
<1>4. ASSUME NEW d \in Nat, d \in T PROVE d + 1 \in T
  <2>1. k + 1 + (d + 1) >= 2 /\ k + 1 + (d + 1) - 1 = k + 1 + d
    OBVIOUS
  <2> QED
    BY <1>4, <2>1
<1>5. Nat \subseteq T
  <2> HIDE DEF T
  <2> QED
    BY <1>3, <1>4, SetInduction
<1>6. \A j \in S : j \in 1..k
  <2> SUFFICES ASSUME NEW j \in S, j > k PROVE FALSE
    OBVIOUS
  <2>1. j - (k + 1) \in Nat /\ k + 1 + (j - (k + 1)) = j
    OBVIOUS
  <2> QED
    BY <1>5, <2>1
<1>7. S = 1..k
  BY <1>2, <1>6
<1>8. Cardinality(S) = k
  BY <1>7, FS_Interval
<1>9. k <= n
  <2>1. CASE k = 0
    BY <2>1
  <2>2. CASE k > 0
    <3>1. k \in 1..k
      BY <2>2
    <3>2. k \in 1..n
      BY <1>7, <3>1
    <3> QED
      BY <3>2
  <2> QED
    BY <2>1, <2>2
<1> QED
  BY <1>7, <1>8, <1>9

(* No name is in Order twice.                                              *)
LEMMA OrderShape ==
  /\ Len(Sps!Order) = 20 /\ DOMAIN Sps!Order = 1..20
  /\ \A a, b \in 1..20 : Sps!Order[a] = Sps!Order[b] => a = b
  /\ \A a \in 1..20 : Sps!Order[a] \in Sps!ToSet(Sps!Order)
BY DEF Sps!Order, Sps!ToSet

FieldsTo(ps, a) == {j \in DOMAIN ps.fields : \E b \in 1..a : ps.fields[j].name = Sps!Order[b]}

EndOf(ps, a) == Cardinality(FieldsTo(ps, a))

(* The first EndOf(ps, a) fields are the ones with the first a names.      *)
LEMMA FirstFields ==
  ASSUME NEW ps, Sps!InSyntax(ps), NEW a \in 0..20
  PROVE  /\ EndOf(ps, a) \in 0..Len(ps.fields)
         /\ FieldsTo(ps, a) = 1..EndOf(ps, a)
<1> DEFINE n == Len(ps.fields)
           S == FieldsTo(ps, a)
<1>1. n \in Nat /\ DOMAIN ps.fields = 1..n
  BY SyntaxFields
<1>2. S \subseteq 1..n
  BY <1>1 DEF FieldsTo
<1>3. ASSUME NEW j \in S, j >= 2 PROVE j - 1 \in S
  <2>1. j \in 2..n /\ j - 1 \in 1..n
    BY <1>1, <1>2, <1>3
  <2>2. PICK b \in 1..a : ps.fields[j].name = Sps!Order[b]
    BY DEF FieldsTo
  <2>3. b \in DOMAIN Sps!Order
    BY OrderShape
  <2>4. PICK c \in 1..b : ps.fields[j - 1].name = Sps!Order[c]
    BY <2>1, <2>2, <2>3 DEF Sps!InSyntax
  <2>5. c \in 1..a
    OBVIOUS
  <2> QED
    BY <1>1, <2>1, <2>4, <2>5 DEF FieldsTo
<1> HIDE DEF n, S
<1>4. Cardinality(S) \in 0..n /\ S = 1..Cardinality(S)
  BY <1>1, <1>2, <1>3, Segment
<1> QED
  BY <1>4 DEF n, S, EndOf

(* The fields with one name follow each other.                             *)
LEMMA EndsAt ==
  ASSUME NEW ps, Sps!InSyntax(ps), NEW a \in 1..20
  PROVE  /\ EndOf(ps, a) = EndOf(ps, a - 1) + Sps!Repeated(ps, Sps!Order[a])
         /\ EndOf(ps, a - 1) <= EndOf(ps, a)
         /\ \A j \in 1..Len(ps.fields) :
              ps.fields[j].name = Sps!Order[a] <=> j \in (EndOf(ps, a - 1) + 1)..EndOf(ps, a)
<1> DEFINE n == Len(ps.fields)
           P == Sps!Places(ps, Sps!Order[a])
           S == FieldsTo(ps, a - 1)
           e == EndOf(ps, a - 1)
           f == EndOf(ps, a)
<1>1. n \in Nat /\ DOMAIN ps.fields = 1..n
  BY SyntaxFields
<1>2. a - 1 \in 0..20 /\ a \in 0..20
  OBVIOUS
<1>3. e \in 0..n /\ S = 1..e /\ f \in 0..n /\ FieldsTo(ps, a) = 1..f
  BY <1>2, FirstFields
<1>4. FieldsTo(ps, a) = S \cup P
  <2>1. 1..a = 1..(a - 1) \cup {a}
    OBVIOUS
  <2> QED
    BY <2>1 DEF FieldsTo, Sps!Places
<1>5. S \cap P = {}
  <2> SUFFICES ASSUME NEW j \in S, j \in P PROVE FALSE
    OBVIOUS
  <2>1. PICK b \in 1..(a - 1) : ps.fields[j].name = Sps!Order[b]
    BY DEF FieldsTo
  <2>2. Sps!Order[b] = Sps!Order[a] /\ b \in 1..20 /\ b # a
    BY <2>1 DEF Sps!Places
  <2> QED
    BY <2>2, OrderShape
<1>6. P \subseteq 1..n /\ \A j \in 1..n : j \in P <=> ps.fields[j].name = Sps!Order[a]
  BY <1>1 DEF Sps!Places
<1>7. Cardinality(P) = Sps!Repeated(ps, Sps!Order[a])
  <2>1. Sps!Cardinality(P) = Sps!Repeated(ps, Sps!Order[a])
    BY OrderShape DEF Sps!InSyntax
  <2>2. Sps!Cardinality(P) = Cardinality(P)
    <3> HIDE DEF P
    <3> QED
      BY DEF Sps!Cardinality, Cardinality
  <2> QED
    BY <2>1, <2>2
<1> HIDE DEF n, P, S, e, f
<1>8. e <= f
  <2>1. CASE e = 0
    BY <1>3, <2>1
  <2>2. CASE e > 0
    <3>1. e \in S
      BY <1>3, <2>2
    <3>2. e \in 1..f
      BY <1>3, <1>4, <3>1
    <3> QED
      BY <1>3, <3>2
  <2> QED
    BY <1>3, <2>1, <2>2
<1>9. P = (e + 1)..f
  <2>1. ASSUME NEW j \in P PROVE j \in (e + 1)..f
    <3>1. j \in 1..f /\ j \notin 1..e
      BY <1>3, <1>4, <1>5, <2>1
    <3> QED
      BY <1>3, <3>1
  <2>2. ASSUME NEW j \in (e + 1)..f PROVE j \in P
    <3>1. j \in 1..f /\ j \notin 1..e
      BY <1>3, <2>2
    <3> QED
      BY <1>3, <1>4, <3>1
  <2> QED
    BY <2>1, <2>2
<1>10. f = e + Cardinality(P)
  <2>1. Cardinality((e + 1)..f) = f - (e + 1) + 1
    <3>1. CASE e + 1 <= f
      BY <1>3, <3>1, FS_Interval
    <3>2. CASE ~(e + 1 <= f)
      <4>1. e = f /\ (e + 1)..f = {}
        BY <1>3, <1>8, <3>2
      <4> QED
        BY <1>3, <4>1, FS_EmptySet
    <3> QED
      BY <3>1, <3>2
  <2>2. f - (e + 1) + 1 = f - e
    BY <1>3
  <2>3. Cardinality(P) = f - e
    BY <1>9, <2>1, <2>2
  <2> QED
    BY <1>3, <2>3
<1> QED
  BY <1>6, <1>7, <1>8, <1>9, <1>10 DEF n, e, f

LEMMA EndsFromNone ==
  ASSUME NEW ps
  PROVE  EndOf(ps, 0) = 0
<1>1. FieldsTo(ps, 0) = {}
  BY DEF FieldsTo
<1> QED
  BY <1>1, FS_EmptySet DEF EndOf

-----------------------------------------------------------------------------
(* The inductive invariant.  The numbers on which the reader's way depends *)
(* and the size: their places in Order.                                    *)
Known     == {2, 7, 10, 15, 19, 20}
SizePlace == {19, 20}

FieldPassed(a) == a < at \/ (a = at /\ left = 0)

(* How many fields have been read, and the bits in front of the next one.  *)
FieldsRead == EndOf(sps, at) - left
BitsRead   == Offset(Sps!Codes(sps), FieldsRead)

GotWritten(a) ==
  \A j \in Sps!Places(sps, Sps!Order[a]) : got[Sps!Order[a]] = sps.fields[j].value

(* The reader stands where the next field was written, with the values of  *)
(* those before it.                                                        *)
InSync ==
  /\ at \in 1..20 /\ left \in Nat
  /\ left <= EndOf(sps, at) - EndOf(sps, at - 1)
  /\ BitsRead < 8 * Kept(sps)
  /\ cursor = At(BitsRead, Kept(sps))
  /\ \A a \in Known : FieldPassed(a) => GotWritten(a)
  /\ \A a \in SizePlace : ~FieldPassed(a) => got[Sps!Order[a]] = 0

(* The bits came to an end before the size.                                *)
RanOut ==
  /\ sps.cut > 0
  /\ at \in 1..20
  /\ Behind(cursor)
  /\ \A a \in SizePlace :
       \/ Sps!HasField(sps, Sps!Order[a], got[Sps!Order[a]])
       \/ got[Sps!Order[a]] = 0
  /\ ~Sps!HasField(sps, Sps!Order[19], got[Sps!Order[19]]) => got[Sps!Order[20]] = 0
  /\ \A a \in SizePlace : at < a => got[Sps!Order[a]] = 0

(* Nothing is said of a set that the reader does not follow, nor when      *)
(* "shift" is the one with which it reads no bit right.                    *)
SpsInv ==
  sps # NoSet =>
    /\ sps \in ParameterSets
    /\ data = Sps!Bits(sps)
    /\ DOMAIN got = Sps!ToSet(Sps!Order)
    /\ shift = "old" /\ Sps!Followed(sps) => InSync \/ RanOut

-----------------------------------------------------------------------------
(* Names, by their places.                                                 *)
LEMMA Names ==
  /\ Sps!Order[2] = "chroma_format_idc"
  /\ Sps!Order[7] = "seq_scaling_matrix_present_flag"
  /\ Sps!Order[10] = "pic_order_cnt_type"
  /\ Sps!Order[12] = Delta
  /\ Sps!Order[15] = "num_ref_frames_in_pic_order_cnt_cycle"
  /\ Sps!Order[19] = "pic_width_in_mbs_minus1"
  /\ Sps!Order[20] = "pic_height_in_map_units_minus1"
BY DEF Sps!Order, Delta

(* The known numbers are read by get_ue_golomb or get_bits1.               *)
LEMMA KnownKinds ==
  /\ \A a \in Known : a \in 1..20 /\ Sps!Order[a] \notin Sps!Signed \cup {Delta}
  /\ \A a \in SizePlace : a \in Known /\ Sps!Order[a] \notin Sps!Signed \cup Sps!Bits1
BY Names DEF Known, SizePlace, Sps!Signed, Sps!Bits1, Delta

(* A known field is written once, or not at all.                           *)
LEMMA KnownOnce ==
  ASSUME NEW ps, ps.high \in BOOLEAN
  PROVE  /\ \A a \in Known : Sps!Repeated(ps, Sps!Order[a]) \in {0, 1}
         /\ Sps!Repeated(ps, Sps!Order[1]) = 1
         /\ \A a \in SizePlace : Sps!Repeated(ps, Sps!Order[a]) = 1
         /\ Sps!Repeated(ps, Sps!Order[2]) = Sps!Once(ps.high)
         /\ Sps!Repeated(ps, Sps!Order[7]) = Sps!Once(ps.high)
         /\ Sps!Repeated(ps, Sps!Order[10]) = 1
         /\ Sps!Repeated(ps, Sps!Order[15]) = Sps!Once(Sps!HasField(ps, "pic_order_cnt_type", 1))
<1>1. Sps!Order[1] = "seq_parameter_set_id"
  BY DEF Sps!Order
<1>2. \A x : Sps!Once(x) \in {0, 1}
  BY DEF Sps!Once
<1>3. Sps!Repeated(ps, Sps!Order[1]) = 1
  BY <1>1 DEF Sps!Repeated, Sps!High, Sps!Cyclic
<1>4. /\ Sps!Repeated(ps, Sps!Order[2]) = Sps!Once(ps.high)
      /\ Sps!Repeated(ps, Sps!Order[7]) = Sps!Once(ps.high)
  BY Names DEF Sps!Repeated, Sps!High, Sps!Cyclic
<1>5. Sps!Repeated(ps, Sps!Order[10]) = 1
  BY Names DEF Sps!Repeated, Sps!High, Sps!Cyclic
<1>6. Sps!Repeated(ps, Sps!Order[15]) = Sps!Once(Sps!HasField(ps, "pic_order_cnt_type", 1))
  BY Names DEF Sps!Repeated, Sps!High, Sps!Cyclic
<1>7. Sps!Repeated(ps, Sps!Order[19]) = 1 /\ Sps!Repeated(ps, Sps!Order[20]) = 1
  BY Names DEF Sps!Repeated, Sps!High, Sps!Cyclic
<1> QED
  BY <1>2, <1>3, <1>4, <1>5, <1>6, <1>7 DEF Known, SizePlace

(* Where a field lies that is written once.                                *)
LEMMA OnePlace ==
  ASSUME NEW ps, Sps!InSyntax(ps), NEW a \in 1..20
  PROVE  /\ Sps!Repeated(ps, Sps!Order[a]) = 0 => Sps!Places(ps, Sps!Order[a]) = {}
         /\ Sps!Repeated(ps, Sps!Order[a]) = 1 =>
              /\ Sps!Places(ps, Sps!Order[a]) = {EndOf(ps, a)}
              /\ EndOf(ps, a) = EndOf(ps, a - 1) + 1
<1> DEFINE e == EndOf(ps, a - 1)
           f == EndOf(ps, a)
           n == Len(ps.fields)
           P == Sps!Places(ps, Sps!Order[a])
           c == Sps!Repeated(ps, Sps!Order[a])
<1>1. e \in 0..n /\ f \in 0..n /\ n \in Nat
  <2>1. a - 1 \in 0..20 /\ a \in 0..20
    OBVIOUS
  <2> QED
    BY <2>1, FirstFields, SyntaxFields
<1>2. f = e + c /\ \A j \in 1..n : ps.fields[j].name = Sps!Order[a] <=> j \in (e + 1)..f
  BY EndsAt
<1>3. P \subseteq 1..n /\ \A j \in 1..n : j \in P <=> ps.fields[j].name = Sps!Order[a]
  BY SyntaxFields DEF Sps!Places
<1> HIDE DEF e, f, n, P, c
<1>4. ASSUME c = 0 PROVE P = {}
  BY <1>1, <1>2, <1>3, <1>4
<1>5. ASSUME c = 1 PROVE P = {f} /\ f = e + 1
  <2>1. f = e + 1
    BY <1>1, <1>2, <1>5
  <2>2. \A j \in 1..n : j \in P <=> j = f
    BY <1>1, <1>2, <1>3, <2>1
  <2>3. f \in 1..n
    BY <1>1, <2>1
  <2> QED
    BY <1>3, <2>1, <2>2, <2>3
<1> QED
  BY <1>4, <1>5 DEF e, f, P, c

(* What it says of a parameter set that a value is the written one.        *)
LEMMA ValueKnown ==
  ASSUME NEW ps, Sps!InSyntax(ps), NEW a \in 1..20,
         Sps!Repeated(ps, Sps!Order[a]) = 1,
         NEW v, \A j \in Sps!Places(ps, Sps!Order[a]) : v = ps.fields[j].value
  PROVE  /\ \A w : Sps!HasField(ps, Sps!Order[a], w) <=> v = w
         /\ Sps!Places(ps, Sps!Order[a]) # {}
         /\ \A j \in Sps!Places(ps, Sps!Order[a]) : ps.fields[j].value = v
BY OnePlace DEF Sps!HasField

(* The reader expects a field as often as it was written.                  *)
LEMMA TimesRight ==
  ASSUME Sps!InSyntax(sps), Sps!Followed(sps), sps.high \in BOOLEAN,
         NEW b \in 2..20, \A a \in Known : a < b => GotWritten(a)
  PROVE  Sps!Times(Sps!Order[b]) = Sps!Repeated(sps, Sps!Order[b])
<1> DEFINE name == Sps!Order[b]
           chroma == "chroma_format_idc"
           scaling == "seq_scaling_matrix_present_flag"
           type == "pic_order_cnt_type"
           cycle == "num_ref_frames_in_pic_order_cnt_cycle"
<1>1. \A a \in Known : a < b =>
        \A j \in Sps!Places(sps, Sps!Order[a]) : got[Sps!Order[a]] = sps.fields[j].value
  BY DEF GotWritten
<1>2. CASE b = 3
  <2>1. name = "residual_colour_transform_flag"
    BY <1>2 DEF Sps!Order
  <2>2. Sps!Times(name) = Sps!Once(sps.high /\ got[chroma] = 3)
    BY <2>1 DEF Sps!Times, Sps!High, Sps!Cyclic
  <2>3. Sps!Repeated(sps, name) = Sps!Once(Sps!HasField(sps, chroma, 3))
    BY <2>1 DEF Sps!Repeated, Sps!High, Sps!Cyclic
  <2>4. \A j \in Sps!Places(sps, Sps!Order[2]) : got[chroma] = sps.fields[j].value
    BY <1>1, <1>2, Names DEF Known
  <2>5. CASE sps.high
    <3>1. Sps!Repeated(sps, Sps!Order[2]) = 1
      <4>1. Sps!Once(sps.high) = 1
        BY <2>5 DEF Sps!Once
      <4> QED
        BY <4>1, KnownOnce
    <3>2. Sps!HasField(sps, chroma, 3) <=> got[chroma] = 3
      BY <2>4, <3>1, ValueKnown, Names
    <3> QED
      BY <2>2, <2>3, <2>5, <3>2 DEF Sps!Once
  <2>6. CASE ~sps.high
    <3>1. Sps!Repeated(sps, Sps!Order[2]) = 0
      BY <2>6, KnownOnce DEF Sps!Once
    <3>2. ~Sps!HasField(sps, chroma, 3)
      BY <3>1, OnePlace, Names DEF Sps!HasField
    <3> QED
      BY <2>2, <2>3, <2>6, <3>2 DEF Sps!Once
  <2> QED
    BY <2>5, <2>6
<1>3. CASE b = 8
  <2>1. name = "seq_scaling_list_present_flag"
    BY <1>3 DEF Sps!Order
  <2>2. Sps!Times(name) = 8 * Sps!Once(sps.high /\ got[scaling] # 0)
    BY <2>1 DEF Sps!Times, Sps!High, Sps!Cyclic
  <2>3. Sps!Repeated(sps, name) = 8 * Sps!Once(Sps!HasField(sps, scaling, 1))
    BY <2>1 DEF Sps!Repeated, Sps!High, Sps!Cyclic
  <2>4. ~Sps!HasField(sps, scaling, 1)
    BY DEF Sps!Followed
  <2>5. \A j \in Sps!Places(sps, Sps!Order[7]) : got[scaling] = sps.fields[j].value
    BY <1>1, <1>3, Names DEF Known
  <2>6. ASSUME sps.high PROVE got[scaling] = 0
    <3>1. Sps!Repeated(sps, Sps!Order[7]) = 1
      <4>1. Sps!Once(sps.high) = 1
        BY <2>6 DEF Sps!Once
      <4> QED
        BY <4>1, KnownOnce
    <3>2. PICK j \in Sps!Places(sps, scaling) : TRUE
      BY <2>5, <3>1, ValueKnown, Names
    <3>3. j \in 1..Len(sps.fields) /\ sps.fields[j].name = scaling
      BY SyntaxFields DEF Sps!Places
    <3>4. IsField(sps.fields[j]) /\ sps.fields[j].kind = Sps!Kind(scaling)
      <4>1. scaling \in Sps!ToSet(Sps!Order)
        BY OrderShape, Names
      <4> QED
        BY <3>3, <4>1, SyntaxFields DEF Sps!InSyntax
    <3>5. Sps!Kind(scaling) = "u1"
      BY KindsApart DEF Sps!Kind, Sps!Bits1
    <3>6. sps.fields[j].value \in {0, 1} /\ sps.fields[j].value # 1
      BY <2>4, <3>4, <3>5, FieldValues DEF Sps!HasField
    <3> QED
      BY <2>5, <3>6, Names
  <2> QED
    BY <2>2, <2>3, <2>4, <2>6 DEF Sps!Once
<1>4. CASE b \in 11..16
  <2>1. \A j \in Sps!Places(sps, Sps!Order[10]) : got[type] = sps.fields[j].value
    BY <1>1, <1>4, Names DEF Known
  <2>2. Sps!Repeated(sps, Sps!Order[10]) = 1
    BY KnownOnce
  <2>3. \A w : Sps!HasField(sps, type, w) <=> got[type] = w
    BY <2>1, <2>2, ValueKnown, Names
  <2>4. CASE b = 11
    <3>1. name = "log2_max_pic_order_cnt_lsb_minus4"
      BY <2>4 DEF Sps!Order
    <3>2. Sps!Times(name) = Sps!Once(got[type] = 0)
      BY <3>1 DEF Sps!Times, Sps!High, Sps!Cyclic
    <3>3. Sps!Repeated(sps, name) = Sps!Once(Sps!HasField(sps, type, 0))
      BY <3>1 DEF Sps!Repeated, Sps!High, Sps!Cyclic
    <3> QED
      BY <2>3, <3>2, <3>3 DEF Sps!Once
  <2>5. CASE b \in 12..15
    <3>1. name \in Sps!Cyclic
      BY <2>5 DEF Sps!Order, Sps!Cyclic
    <3>2. Sps!Times(name) = Sps!Once(got[type] = 1)
      BY <3>1 DEF Sps!Times, Sps!High, Sps!Cyclic
    <3>3. Sps!Repeated(sps, name) = Sps!Once(Sps!HasField(sps, type, 1))
      BY <3>1 DEF Sps!Repeated, Sps!High, Sps!Cyclic
    <3> QED
      BY <2>3, <3>2, <3>3 DEF Sps!Once
  <2>6. CASE b = 16
    <3>1. name = "offset_for_ref_frame"
      BY <2>6 DEF Sps!Order
    <3>2. Sps!Times(name) = IF got[type] = 1 THEN got[cycle] ELSE 0
      BY <3>1 DEF Sps!Times, Sps!High, Sps!Cyclic
    <3>3. Sps!Repeated(sps, name) =
            IF Sps!Places(sps, cycle) = {} THEN 0
            ELSE sps.fields[CHOOSE j \in Sps!Places(sps, cycle) : TRUE].value
      BY <3>1 DEF Sps!Repeated, Sps!High, Sps!Cyclic
    <3>4. \A j \in Sps!Places(sps, Sps!Order[15]) : got[cycle] = sps.fields[j].value
      BY <1>1, <2>6, Names DEF Known
    <3>5. CASE got[type] = 1
      <4>1. Sps!Repeated(sps, Sps!Order[15]) = 1
        BY <2>3, <3>5, KnownOnce DEF Sps!Once
      <4>2. /\ Sps!Places(sps, cycle) # {}
            /\ \A j \in Sps!Places(sps, cycle) : sps.fields[j].value = got[cycle]
        BY <3>4, <4>1, ValueKnown, Names
      <4> QED
        BY <3>2, <3>3, <3>5, <4>2
    <3>6. CASE got[type] # 1
      <4>1. Sps!Repeated(sps, Sps!Order[15]) = 0
        BY <2>3, <3>6, KnownOnce DEF Sps!Once
      <4>2. Sps!Places(sps, cycle) = {}
        BY <4>1, OnePlace, Names
      <4> QED
        BY <3>2, <3>3, <3>6, <4>2
    <3> QED
      BY <3>5, <3>6
  <2> QED
    BY <1>4, <2>4, <2>5, <2>6
<1>5. CASE b \in {2, 4, 5, 6, 7}
  <2>1. name \in Sps!High
    BY <1>5 DEF Sps!Order, Sps!High
  <2> QED
    BY <2>1 DEF Sps!Times, Sps!Repeated, Sps!High, Sps!Cyclic
<1>6. CASE b \in {9, 10, 17, 18, 19, 20}
  <2>1. name \in {"log2_max_frame_num_minus4", "pic_order_cnt_type", "num_ref_frames",
                  "gaps_in_frame_num_value_allowed_flag", "pic_width_in_mbs_minus1",
                  "pic_height_in_map_units_minus1"}
    BY <1>6 DEF Sps!Order
  <2> QED
    BY <2>1 DEF Sps!Times, Sps!Repeated, Sps!High, Sps!Cyclic
<1>7. b \in {2, 3, 4, 5, 6, 7, 8, 9, 10} \/ b \in 11..16 \/ b \in {17, 18, 19, 20}
  OBVIOUS
<1> QED
  BY <1>2, <1>3, <1>4, <1>5, <1>6, <1>7

-----------------------------------------------------------------------------
(* The invariant holds at first and after every step.                      *)
LEMMA SpsStart ==
  ASSUME Sps!Init
  PROVE  SpsInv
<1> DEFINE B == Kept(sps)
<1>1. /\ sps \in ParameterSets /\ data = Sps!Bits(sps)
      /\ at = 1 /\ left = 1
      /\ cursor = Sps!Cursor(0, 0, Len(Sps!Bits(sps)) \div 8)
      /\ got = [name \in Sps!ToSet(Sps!Order) |-> 0]
  BY DEF Sps!Init, Sps!Start
<1>2. DOMAIN got = Sps!ToSet(Sps!Order)
  BY <1>1
<1>3. \A a \in SizePlace : got[Sps!Order[a]] = 0
  <2>1. \A a \in SizePlace : Sps!Order[a] \in Sps!ToSet(Sps!Order)
    BY OrderShape DEF SizePlace
  <2> QED
    BY <1>1, <2>1
<1>4. ASSUME Sps!Followed(sps) PROVE InSync \/ RanOut
  <2>1. Sps!InSyntax(sps) /\ sps.cut \in Nat /\ sps.high \in BOOLEAN
    BY <1>1, <1>4, ParameterSetsAssumption
  <2>2. EndOf(sps, 0) = 0 /\ EndOf(sps, 1) = 1
    <3>1. EndOf(sps, 1) = EndOf(sps, 1 - 1) + Sps!Repeated(sps, Sps!Order[1])
      BY <2>1, EndsAt
    <3> QED
      BY <2>1, <3>1, EndsFromNone, KnownOnce
  <2>3. FieldsRead = 0
    BY <1>1, <2>2 DEF FieldsRead
  <2>4. BitsRead = 0
    BY <2>3, PartsEmpty DEF BitsRead, Offset
  <2>5. B \in Nat /\ Len(Sps!Bits(sps)) \div 8 = B /\ (sps.cut = 0 => Written(sps) < 8 * B)
    BY <2>1, BitsShape
  <2>6. cursor = At(0, B) /\ cursor.size = B /\ cursor.bit = 0
    <3>1. 0 \div 8 = 0 /\ 0 % 8 = 0
      BY EightTimes
    <3> QED
      BY <1>1, <2>5, <3>1 DEF At, Sps!Cursor
  <2> HIDE DEF B
  <2>7. CASE B > 0
    <3>1. \A a \in Known : ~FieldPassed(a)
      BY <1>1 DEF FieldPassed, Known
    <3>2. BitsRead < 8 * B
      BY <2>4, <2>5, <2>7
    <3>3. left <= EndOf(sps, at) - EndOf(sps, at - 1)
      BY <1>1, <2>2
    <3> QED
      BY <1>1, <1>3, <2>4, <2>6, <3>1, <3>2, <3>3 DEF InSync, B
  <2>8. CASE B = 0
    <3>1. sps.cut > 0
      BY <2>1, <2>5, <2>8, WholeShape
    <3>2. Behind(cursor)
      BY <2>6, <2>8 DEF Behind
    <3> QED
      BY <1>1, <1>3, <3>1, <3>2 DEF RanOut, SizePlace
  <2> QED
    BY <2>5, <2>7, <2>8
<1> QED
  BY <1>1, <1>2, <1>4 DEF SpsInv

(* What stays the same while a field is read, or passed over.              *)
LEMMA SameSet ==
  ASSUME UNCHANGED <<sps, data, shift>>
  PROVE  /\ FieldsRead' = EndOf(sps, at') - left'
         /\ BitsRead' = Offset(Sps!Codes(sps), FieldsRead')
         /\ Kept(sps)' = Kept(sps)
         /\ Sps!Bits(sps)' = Sps!Bits(sps)
         /\ Sps!Followed(sps)' = Sps!Followed(sps)
         /\ \A a : Sps!Places(sps, Sps!Order[a])' = Sps!Places(sps, Sps!Order[a])
BY DEF FieldsRead, BitsRead

-----------------------------------------------------------------------------
(* The field that is read next, and its bits.                              *)
LEMMA NextOne ==
  ASSUME sps \in ParameterSets, data = Sps!Bits(sps), shift = "old",
         Sps!Followed(sps), InSync, left > 0
  PROVE  LET f == sps.fields[FieldsRead + 1]
             e == BitsRead + Len(Sps!Written(f))
         IN  /\ FieldsRead + 1 \in 1..Len(sps.fields)
             /\ FieldsRead + 1 \in (EndOf(sps, at - 1) + 1)..EndOf(sps, at)
             /\ Expected(f, Sps!Order[at])
             /\ BitsRead \in Nat
             /\ e = Offset(Sps!Codes(sps), FieldsRead + 1) /\ e <= Written(sps)
             /\ CodeAt(Sps!Written(f), BitsRead, Kept(sps))
<1> DEFINE n == FieldsRead
           f == sps.fields[n + 1]
           d == EndOf(sps, at - 1)
           e == EndOf(sps, at)
           name == Sps!Order[at]
<1>1. Sps!InSyntax(sps) /\ sps.cut \in Nat
  BY ParameterSetsAssumption
<1>2. at \in 1..20 /\ left \in Nat /\ left <= e - d
  BY DEF InSync
<1>3. /\ d \in Nat /\ e \in 0..Len(sps.fields)
      /\ \A j \in 1..Len(sps.fields) : sps.fields[j].name = name <=> j \in (d + 1)..e
  <2>1. at - 1 \in 0..20 /\ at \in 0..20
    BY <1>2
  <2>2. d \in 0..Len(sps.fields) /\ e \in 0..Len(sps.fields)
    BY <1>1, <2>1, FirstFields
  <2>3. d \in Nat
    BY <2>2
  <2>4. \A j \in 1..Len(sps.fields) : sps.fields[j].name = name <=> j \in (d + 1)..e
    BY <1>1, <1>2, EndsAt
  <2> QED
    BY <2>2, <2>3, <2>4
<1>4. Len(sps.fields) \in Nat
  BY <1>1, SyntaxFields
<1>5. n = e - left
  BY DEF FieldsRead
<1> HIDE DEF n, d, e
<1>6. n \in Nat /\ n + 1 \in (d + 1)..e /\ n + 1 \in 1..Len(sps.fields) /\ n < Len(sps.fields)
  BY <1>2, <1>3, <1>4, <1>5
<1>7. f.name = name
  BY <1>3, <1>6
<1>8. Expected(f, name)
  <2>1. name \in Sps!ToSet(Sps!Order)
    BY <1>2, OrderShape
  <2>2. IsField(f)
    BY <1>1, <1>6, SyntaxFields
  <2>3. n + 1 \in DOMAIN sps.fields
    BY <1>1, <1>6, SyntaxFields
  <2>4. f.kind = Sps!Kind(name)
    BY <1>1, <1>7, <2>1, <2>3 DEF Sps!InSyntax
  <2>5. ASSUME name = Delta PROVE f.value = 1
    <3>1. f.kind = "u1"
      <4>1. Sps!Kind(Delta) = "u1"
        BY KindsApart DEF Sps!Kind, Delta
      <4> QED
        BY <2>4, <2>5, <4>1
    <3>2. f.value \in {0, 1}
      BY <2>2, <3>1, FieldValues
    <3>3. n + 1 \in Sps!Places(sps, Delta)
      BY <1>7, <2>3, <2>5 DEF Sps!Places
    <3>4. f.value # 0
      BY <3>3 DEF Sps!Followed, Sps!HasField, Delta
    <3> QED
      BY <3>2, <3>4
  <2> QED
    BY <2>2, <2>4, <2>5 DEF Expected
<1>9. /\ Offset(Sps!Codes(sps), n) \in Nat
      /\ Offset(Sps!Codes(sps), n + 1) = Offset(Sps!Codes(sps), n) + Len(Sps!Written(f))
      /\ Offset(Sps!Codes(sps), n + 1) <= Written(sps)
      /\ CodeAt(Sps!Written(f), Offset(Sps!Codes(sps), n), Kept(sps))
  BY <1>1, <1>6, FieldInBits
<1>10. BitsRead = Offset(Sps!Codes(sps), n)
  BY DEF BitsRead, n
<1> QED
  BY <1>6, <1>8, <1>9, <1>10 DEF n, d, e

(* A name of the size has one field.                                       *)
LEMMA SizeOnce ==
  ASSUME NEW ps, Sps!InSyntax(ps), ps.high \in BOOLEAN, NEW a \in SizePlace
  PROVE  /\ a \in Known /\ a \in 1..20
         /\ Sps!Repeated(ps, Sps!Order[a]) = 1
         /\ EndOf(ps, a) = EndOf(ps, a - 1) + 1
<1>1. a \in Known /\ a \in 1..20
  BY DEF SizePlace, Known
<1> QED
  BY <1>1, KnownOnce, OnePlace

(* The values behind a step that reads one field.                          *)
LEMMA OneChanged ==
  ASSUME DOMAIN got = Sps!ToSet(Sps!Order), at \in 1..20, NEW v,
         got' = [got EXCEPT ![Sps!Order[at]] = v]
  PROVE  /\ DOMAIN got' = Sps!ToSet(Sps!Order)
         /\ got'[Sps!Order[at]] = v
         /\ \A a \in 1..20 : a # at => got'[Sps!Order[a]] = got[Sps!Order[a]]
<1>1. \A a \in 1..20 : a # at => Sps!Order[a] # Sps!Order[at]
  BY OrderShape
<1>2. \A a \in 1..20 : Sps!Order[a] \in DOMAIN got
  BY OrderShape
<1> QED
  BY <1>1, <1>2

(* A field that is read where it was written.                              *)
LEMMA ReadInSync ==
  ASSUME sps \in ParameterSets, data = Sps!Bits(sps), shift = "old",
         DOMAIN got = Sps!ToSet(Sps!Order),
         Sps!Followed(sps), InSync, Sps!ReadField
  PROVE  InSync' \/ RanOut'
<1> DEFINE n == FieldsRead
           p == BitsRead
           B == Kept(sps)
           f == sps.fields[n + 1]
           e == p + Len(Sps!Written(f))
           name == Sps!Order[at]
<1>1. Sps!InSyntax(sps) /\ sps.cut \in Nat /\ sps.high \in BOOLEAN
  BY ParameterSetsAssumption
<1>2. /\ left > 0 /\ left' = left - 1 /\ at' = at
      /\ UNCHANGED <<sps, data, shift>>
  BY DEF Sps!ReadField
<1>3. /\ at \in 1..20 /\ left \in Nat /\ left <= EndOf(sps, at) - EndOf(sps, at - 1)
      /\ p < 8 * B /\ cursor = At(p, B)
      /\ \A a \in Known : FieldPassed(a) => GotWritten(a)
      /\ \A a \in SizePlace : ~FieldPassed(a) => got[Sps!Order[a]] = 0
  BY DEF InSync
<1>4. /\ n + 1 \in 1..Len(sps.fields)
      /\ n + 1 \in (EndOf(sps, at - 1) + 1)..EndOf(sps, at)
      /\ Expected(f, name)
      /\ p \in Nat /\ e = Offset(Sps!Codes(sps), n + 1) /\ e <= Written(sps)
      /\ CodeAt(Sps!Written(f), p, B)
  BY <1>2, NextOne
<1>5. PICK r \in Sps!Readings(name) :
        cursor' = r.cursor /\ got' = [got EXCEPT ![name] = r.value]
  BY DEF Sps!ReadField
<1>6. /\ DOMAIN got' = Sps!ToSet(Sps!Order)
      /\ got'[name] = r.value
      /\ \A a \in 1..20 : a # at => got'[Sps!Order[a]] = got[Sps!Order[a]]
  BY <1>3, <1>5, OneChanged
<1>7. EndOf(sps, at) \in Nat /\ EndOf(sps, at - 1) \in Nat
  <2>1. at - 1 \in 0..20 /\ at \in 0..20
    BY <1>3
  <2>2. EndOf(sps, at) \in 0..Len(sps.fields) /\ EndOf(sps, at - 1) \in 0..Len(sps.fields)
    BY <1>1, <2>1, FirstFields
  <2> QED
    BY <2>2
<1>8. n = EndOf(sps, at) - left
  BY DEF FieldsRead
<1>9. /\ FieldsRead' = n + 1 /\ BitsRead' = e /\ Kept(sps)' = B
  <2>1. FieldsRead' = EndOf(sps, at) - (left - 1)
    BY <1>2, SameSet
  <2>2. FieldsRead' = n + 1
    BY <1>3, <1>7, <1>8, <2>1
  <2> QED
    BY <1>2, <1>4, <2>2, SameSet
<1>10. left = 1 <=> n + 1 = EndOf(sps, at)
  BY <1>3, <1>7, <1>8
<1>11. B \in Nat
  BY <1>1, BitsShape
<1>12. IF e < 8 * B
       THEN /\ r.cursor = At(e, B)
            /\ name \notin Sps!Signed \cup {Delta} => r.value = f.value
       ELSE /\ Behind(r.cursor)
            /\ name \notin Sps!Signed \cup Sps!Bits1 => r.value = 0
  BY <1>3, <1>4, <1>11, FieldRead
<1>15. e \in Nat
  <2>1. Sps!Written(f) \in Seq({0, 1})
    BY <1>4, WrittenAs DEF Expected
  <2>2. Len(Sps!Written(f)) \in Nat
    BY <2>1, LenProperties
  <2> QED
    BY <1>4, <2>2
<1> HIDE DEF n, p, B, e
<1>13. CASE e < 8 * B
  <2>1. ASSUME NEW a \in Known, FieldPassed(a)' PROVE GotWritten(a)'
    <3>1. a \in 1..20 /\ (a < at \/ (a = at /\ left = 1))
      BY <1>2, <1>3, <2>1 DEF FieldPassed, Known
    <3>2. CASE a < at
      <4>1. GotWritten(a)
        BY <1>3, <3>2 DEF FieldPassed
      <4>2. got'[Sps!Order[a]] = got[Sps!Order[a]]
        BY <1>3, <1>6, <3>1, <3>2
      <4> QED
        BY <1>2, <4>1, <4>2 DEF GotWritten
    <3>3. CASE a = at /\ left = 1
      <4>1. got'[name] = f.value
        BY <1>6, <1>12, <1>13, <3>3, KnownKinds
      <4>2. \A j \in Sps!Places(sps, name) : j = n + 1
        BY <1>1, <1>3, <1>10, <3>3, KnownOnce, OnePlace
      <4> QED
        BY <1>2, <3>3, <4>1, <4>2 DEF GotWritten
    <3> QED
      BY <3>1, <3>2, <3>3
  <2>2. ASSUME NEW a \in SizePlace, ~FieldPassed(a)' PROVE got'[Sps!Order[a]] = 0
    <3>1. a \in 1..20 /\ EndOf(sps, a) = EndOf(sps, a - 1) + 1
      BY <1>1, SizeOnce
    <3>2. a # at
      <4> SUFFICES ASSUME a = at PROVE FALSE
        OBVIOUS
      <4>1. left = 1
        BY <1>2, <1>3, <1>7, <3>1
      <4> QED
        BY <1>2, <2>2, <4>1 DEF FieldPassed
    <3>3. ~FieldPassed(a)
      BY <1>2, <1>3, <2>2, <3>1, <3>2 DEF FieldPassed
    <3> QED
      BY <1>3, <1>6, <3>1, <3>2, <3>3
  <2>3. left' \in Nat /\ left' <= EndOf(sps, at) - EndOf(sps, at - 1)
    BY <1>2, <1>3, <1>7
  <2>4. BitsRead' < 8 * Kept(sps)' /\ cursor' = At(BitsRead', Kept(sps)')
    BY <1>5, <1>9, <1>12, <1>13
  <2>5. InSync'
    BY <1>2, <1>3, <2>1, <2>2, <2>3, <2>4 DEF InSync
  <2> QED
    BY <2>5
<1>14. CASE ~(e < 8 * B)
  <2>1. sps.cut > 0
    <3>1. sps.cut = 0 => Written(sps) < 8 * B
      BY <1>1, BitsShape DEF B
    <3>2. Written(sps) \in Nat
      BY <1>1, WholeShape
    <3> QED
      BY <1>1, <1>4, <1>11, <1>14, <1>15, <3>1, <3>2
  <2>2. ASSUME NEW a \in SizePlace
        PROVE  /\ a < at => Sps!HasField(sps, Sps!Order[a], got'[Sps!Order[a]])
               /\ ~(a < at) => got'[Sps!Order[a]] = 0
    <3>1. a \in 1..20 /\ a \in Known /\ Sps!Repeated(sps, Sps!Order[a]) = 1
      BY <1>1, SizeOnce
    <3>2. CASE a < at
      <4>1. got'[Sps!Order[a]] = got[Sps!Order[a]]
        BY <1>3, <1>6, <3>1, <3>2
      <4>2. GotWritten(a)
        BY <1>3, <3>1, <3>2 DEF FieldPassed
      <4>3. \A j \in Sps!Places(sps, Sps!Order[a]) : got'[Sps!Order[a]] = sps.fields[j].value
        BY <4>1, <4>2 DEF GotWritten
      <4> QED
        BY <1>1, <1>3, <3>1, <3>2, <4>3, ValueKnown
    <3>3. CASE a = at
      BY <1>6, <1>12, <1>14, <3>3, KnownKinds
    <3>4. CASE a > at
      <4>1. ~FieldPassed(a)
        BY <1>3, <3>1, <3>4 DEF FieldPassed
      <4> QED
        BY <1>3, <1>6, <3>1, <3>4, <4>1
    <3> QED
      BY <1>3, <3>1, <3>2, <3>3, <3>4
  <2>3. ~Sps!HasField(sps, Sps!Order[19], got'[Sps!Order[19]]) => got'[Sps!Order[20]] = 0
    <3>1. at \in 1..20
      BY <1>3
    <3>3. (19 < at \/ ~(19 < at)) /\ ~(20 < at)
      BY <3>1
    <3>2. 19 \in SizePlace /\ 20 \in SizePlace
      BY DEF SizePlace
    <3> QED
      BY <2>2, <3>2, <3>3
  <2>4. \A a \in SizePlace : at < a => got'[Sps!Order[a]] = 0
    <3>1. \A a \in SizePlace : at < a => ~(a < at)
      BY <1>3 DEF SizePlace
    <3> QED
      BY <2>2, <3>1
  <2>5. Behind(cursor')
    BY <1>5, <1>12, <1>14
  <2>6. \A a \in SizePlace : a < at \/ ~(a < at)
    OBVIOUS
  <2>7. RanOut'
    BY <1>2, <1>3, <2>1, <2>2, <2>3, <2>4, <2>5 DEF RanOut
  <2> QED
    BY <2>7
<1> QED
  BY <1>13, <1>14

(* A field that is read behind the end.                                    *)
LEMMA ReadRanOut ==
  ASSUME DOMAIN got = Sps!ToSet(Sps!Order), RanOut, Sps!ReadField
  PROVE  RanOut'
<1> DEFINE name == Sps!Order[at]
<1>1. left' = left - 1 /\ at' = at /\ UNCHANGED <<sps, data, shift>>
  BY DEF Sps!ReadField
<1>2. /\ sps.cut > 0 /\ at \in 1..20 /\ Behind(cursor)
      /\ \A a \in SizePlace :
           \/ Sps!HasField(sps, Sps!Order[a], got[Sps!Order[a]])
           \/ got[Sps!Order[a]] = 0
      /\ ~Sps!HasField(sps, Sps!Order[19], got[Sps!Order[19]]) => got[Sps!Order[20]] = 0
      /\ \A a \in SizePlace : at < a => got[Sps!Order[a]] = 0
  BY DEF RanOut
<1>3. PICK r \in Sps!Readings(name) :
        cursor' = r.cursor /\ got' = [got EXCEPT ![name] = r.value]
  BY DEF Sps!ReadField
<1>4. /\ DOMAIN got' = Sps!ToSet(Sps!Order)
      /\ got'[name] = r.value
      /\ \A a \in 1..20 : a # at => got'[Sps!Order[a]] = got[Sps!Order[a]]
  BY <1>2, <1>3, OneChanged
<1>5. Behind(r.cursor) /\ (at \in SizePlace => r.value = 0)
  BY <1>2, NothingRead, KnownKinds
<1>6. \A a \in SizePlace : got'[Sps!Order[a]] = IF a = at THEN 0 ELSE got[Sps!Order[a]]
  BY <1>4, <1>5 DEF SizePlace
<1>7. ~Sps!HasField(sps, Sps!Order[19], got'[Sps!Order[19]]) => got'[Sps!Order[20]] = 0
  <2>1. 19 \in SizePlace /\ 20 \in SizePlace
    BY DEF SizePlace
  <2>2. CASE at = 19
    BY <1>2, <1>6, <2>1, <2>2
  <2>3. CASE at # 19
    BY <1>2, <1>6, <2>1, <2>3
  <2> QED
    BY <2>2, <2>3
<1>8. \A a \in SizePlace : at < a => got'[Sps!Order[a]] = 0
  BY <1>2, <1>6
<1> QED
  BY <1>1, <1>2, <1>3, <1>5, <1>6, <1>7, <1>8 DEF RanOut

-----------------------------------------------------------------------------
(* How often a field is written is a number.                               *)
LEMMA RepeatedTyped ==
  ASSUME NEW ps, Sps!InSyntax(ps), NEW a \in 1..20
  PROVE  Sps!Repeated(ps, Sps!Order[a]) \in Nat
<1> DEFINE P == Sps!Places(ps, Sps!Order[a])
<1>1. Sps!Cardinality(P) = Sps!Repeated(ps, Sps!Order[a])
  BY OrderShape DEF Sps!InSyntax
<1>2. Sps!Cardinality(P) = Cardinality(P)
  <2> HIDE DEF P
  <2> QED
    BY DEF Sps!Cardinality, Cardinality, Sps!IsFiniteSet, IsFiniteSet
<1>3. IsFiniteSet(1..Len(ps.fields)) /\ P \subseteq 1..Len(ps.fields)
  <2>1. Len(ps.fields) \in Nat /\ DOMAIN ps.fields = 1..Len(ps.fields)
    BY SyntaxFields
  <2>2. P \subseteq 1..Len(ps.fields)
    BY <2>1 DEF Sps!Places
  <2>3. \A n \in Nat : IsFiniteSet(1..n)
    BY FS_Interval
  <2> QED
    BY <2>1, <2>2, <2>3
<1>4. Cardinality(P) \in Nat
  <2> HIDE DEF P
  <2> QED
    BY <1>3, FS_Subset, FS_CardinalityType
<1> QED
  BY <1>1, <1>2, <1>4

LEMMA Difference ==
  ASSUME NEW d \in Nat, NEW e \in Nat, NEW l \in Int, e = d + l, d <= e
  PROVE  l \in Nat /\ e - l = d /\ l <= e - d
OBVIOUS

(* The reader goes on to the next field, as often as it was written.       *)
LEMMA NextInSync ==
  ASSUME sps \in ParameterSets, Sps!Followed(sps), InSync, Sps!NextField
  PROVE  InSync'
<1> DEFINE b == at + 1
           B == Kept(sps)
           d == EndOf(sps, at)
           e == EndOf(sps, b)
<1>1. Sps!InSyntax(sps) /\ sps.high \in BOOLEAN
  BY ParameterSetsAssumption
<1>2. /\ left = 0 /\ at < 20 /\ at' = b /\ left' = Sps!Times(Sps!Order[b])
      /\ UNCHANGED <<sps, data, shift, cursor, got>>
  BY OrderShape DEF Sps!NextField
<1>3. /\ at \in 1..20 /\ BitsRead < 8 * B /\ cursor = At(BitsRead, B)
      /\ \A a \in Known : FieldPassed(a) => GotWritten(a)
      /\ \A a \in SizePlace : ~FieldPassed(a) => got[Sps!Order[a]] = 0
  BY DEF InSync
<1>4. b \in 2..20 /\ b \in 1..20 /\ b - 1 = at
  BY <1>2, <1>3
<1>5. ASSUME NEW a \in Known, a < b PROVE GotWritten(a)
  <2>1. a < at \/ a = at
    BY <1>3, <1>5 DEF Known
  <2> QED
    BY <1>2, <1>3, <2>1 DEF FieldPassed
<1>6. left' = Sps!Repeated(sps, Sps!Order[b])
  BY <1>1, <1>2, <1>4, <1>5, TimesRight
<1>7. e = d + left' /\ d <= e
  BY <1>1, <1>4, <1>6, EndsAt
<1>8. d \in Nat /\ e \in Nat
  <2>1. at \in 0..20 /\ b \in 0..20
    BY <1>3, <1>4
  <2>2. d \in 0..Len(sps.fields) /\ e \in 0..Len(sps.fields)
    BY <1>1, <2>1, FirstFields
  <2> QED
    BY <2>2
<1>9. left' \in Int
  BY <1>1, <1>4, <1>6, RepeatedTyped
<1> HIDE DEF b, B, d, e
<1>10. left' \in Nat /\ e - left' = d /\ left' <= e - d
  BY <1>7, <1>8, <1>9, Difference
<1>11. BitsRead' = BitsRead /\ Kept(sps)' = B
  <2>1. FieldsRead' = e - left'
    BY <1>2, SameSet DEF e
  <2>2. FieldsRead = d
    BY <1>2, <1>8 DEF FieldsRead, d
  <2>3. FieldsRead' = FieldsRead
    BY <1>10, <2>1, <2>2
  <2> QED
    BY <1>2, <2>3, SameSet DEF BitsRead, B
<1>12. ASSUME NEW a \in Known, FieldPassed(a)' PROVE GotWritten(a)'
  <2>1. a < b \/ (a = b /\ left' = 0)
    BY <1>2, <1>12 DEF FieldPassed
  <2>2. GotWritten(a)
    <3>1. CASE a < b
      BY <1>5, <3>1
    <3>2. CASE a = b /\ left' = 0
      BY <1>1, <1>4, <1>6, <3>2, OnePlace DEF GotWritten
    <3> QED
      BY <2>1, <3>1, <3>2
  <2> QED
    BY <1>2, <2>2 DEF GotWritten
<1>13. ASSUME NEW a \in SizePlace, ~FieldPassed(a)' PROVE got'[Sps!Order[a]] = 0
  <2>1. ~(a < b)
    BY <1>2, <1>13 DEF FieldPassed
  <2>2. ~FieldPassed(a)
    BY <1>3, <1>4, <2>1 DEF FieldPassed, SizePlace
  <2> QED
    BY <1>2, <1>3, <2>2
<1>14. left' \in Nat /\ left' <= EndOf(sps, at') - EndOf(sps, at' - 1)
  <2>1. e = EndOf(sps, at') /\ d = EndOf(sps, at' - 1)
    BY <1>2, <1>4 DEF d, e
  <2> QED
    BY <1>10, <2>1
<1> QED
  BY <1>2, <1>3, <1>4, <1>10, <1>11, <1>12, <1>13, <1>14 DEF InSync

LEMMA NextRanOut ==
  ASSUME RanOut, Sps!NextField
  PROVE  RanOut'
<1>1. at < 20 /\ at' = at + 1 /\ UNCHANGED <<sps, cursor, got>>
  BY OrderShape DEF Sps!NextField
<1>2. at \in 1..20 /\ at' \in 1..20
  BY <1>1 DEF RanOut
<1>3. \A a \in SizePlace : at' < a => at < a
  BY <1>1, <1>2 DEF SizePlace
<1> QED
  BY <1>1, <1>2, <1>3 DEF RanOut

(* A step of H264_Decode_SPS keeps it; one of GetNalSize leaves it alone.  *)
LEMMA SpsStep ==
  ASSUME SpsInv, sps # NoSet, Sps!ReadField \/ Sps!NextField
  PROVE  SpsInv'
<1>1. /\ sps \in ParameterSets /\ data = Sps!Bits(sps)
      /\ DOMAIN got = Sps!ToSet(Sps!Order)
      /\ shift = "old" /\ Sps!Followed(sps) => InSync \/ RanOut
  BY DEF SpsInv
<1>2. UNCHANGED <<sps, data, shift>>
  BY DEF Sps!ReadField, Sps!NextField
<1>3. DOMAIN got' = Sps!ToSet(Sps!Order)
  <2>1. CASE Sps!ReadField
    BY <1>1, <2>1 DEF Sps!ReadField
  <2>2. CASE Sps!NextField
    BY <1>1, <2>2 DEF Sps!NextField
  <2> QED
    BY <2>1, <2>2
<1>4. ASSUME shift = "old", Sps!Followed(sps) PROVE InSync' \/ RanOut'
  <2>1. CASE InSync /\ Sps!ReadField
    BY <1>1, <1>4, <2>1, ReadInSync
  <2>2. CASE RanOut /\ Sps!ReadField
    BY <1>1, <2>2, ReadRanOut
  <2>3. CASE InSync /\ Sps!NextField
    BY <1>1, <1>4, <2>3, NextInSync
  <2>4. CASE RanOut /\ Sps!NextField
    BY <2>4, NextRanOut
  <2> QED
    BY <1>1, <1>4, <2>1, <2>2, <2>3, <2>4
<1> QED
  BY <1>1, <1>2, <1>3, <1>4, SameSet DEF SpsInv

LEMMA SpsStutter ==
  ASSUME SpsInv, UNCHANGED spsVars
  PROVE  SpsInv'
<1>1. UNCHANGED <<sps, data, shift, at, left, cursor, got>>
  BY DEF spsVars
<1>2. BitsRead' = BitsRead /\ Kept(sps)' = Kept(sps)
  BY <1>1 DEF BitsRead, FieldsRead
<1>3. InSync' = InSync
  BY <1>1, <1>2 DEF InSync, FieldPassed, GotWritten
<1>4. RanOut' = RanOut
  BY <1>1 DEF RanOut
<1> QED
  BY <1>1, <1>3, <1>4, SameSet DEF SpsInv

-----------------------------------------------------------------------------
(* What the invariant says when the reader is done.                        *)
LEMMA DoneInSync ==
  ASSUME sps \in ParameterSets, Sps!Followed(sps), InSync, Sps!Done, NEW a \in SizePlace
  PROVE  Sps!HasField(sps, Sps!Order[a], got[Sps!Order[a]])
<1>1. Sps!InSyntax(sps) /\ sps.high \in BOOLEAN
  BY ParameterSetsAssumption
<1>2. at = 20 /\ left = 0
  BY OrderShape DEF Sps!Done
<1>3. a \in Known /\ a \in 1..20 /\ Sps!Repeated(sps, Sps!Order[a]) = 1
  BY <1>1, SizeOnce
<1>4. GotWritten(a)
  <2>1. FieldPassed(a)
    BY <1>2 DEF FieldPassed, SizePlace
  <2> QED
    BY <1>3, <2>1 DEF InSync
<1>5. \A j \in Sps!Places(sps, Sps!Order[a]) : got[Sps!Order[a]] = sps.fields[j].value
  BY <1>4 DEF GotWritten
<1> QED
  BY <1>1, <1>3, <1>5, ValueKnown

LEMMA SizePlaces ==
  \A name \in Sps!SizeFields : \E a \in SizePlace : name = Sps!Order[a]
BY Names DEF Sps!SizeFields, SizePlace

(* It implies what is wanted.                                              *)
LEMMA SpsInvSizeRead == SpsInv => SizeRead
<1> SUFFICES ASSUME SpsInv, sps # NoSet, Sps!Done, shift = "old", Sps!Followed(sps), sps.cut = 0,
                    NEW name \in Sps!SizeFields
             PROVE  Sps!HasField(sps, name, got[name])
  BY DEF SizeRead, Sps!SizeRead
<1>1. sps \in ParameterSets /\ InSync
  BY DEF SpsInv, RanOut
<1>2. PICK a \in SizePlace : name = Sps!Order[a]
  BY SizePlaces
<1> QED
  BY <1>1, <1>2, DoneInSync

LEMMA SpsInvSizeNotInvented == SpsInv => SizeNotInvented
<1> DEFINE width == "pic_width_in_mbs_minus1"
           height == "pic_height_in_map_units_minus1"
<1> SUFFICES ASSUME SpsInv, sps # NoSet, Sps!Done, shift = "old", Sps!Followed(sps)
             PROVE  /\ \A name \in Sps!SizeFields :
                         Sps!HasField(sps, name, got[name]) \/ got[name] = 0
                    /\ ~Sps!HasField(sps, width, got[width]) => got[height] = 0
  BY DEF SizeNotInvented, Sps!SizeNotInvented
<1>1. sps \in ParameterSets /\ (InSync \/ RanOut)
  BY DEF SpsInv
<1>2. 19 \in SizePlace /\ Sps!Order[19] = width /\ Sps!Order[20] = height
  BY Names DEF SizePlace
<1>3. \A a \in SizePlace :
        Sps!HasField(sps, Sps!Order[a], got[Sps!Order[a]]) \/ got[Sps!Order[a]] = 0
  BY <1>1, DoneInSync DEF RanOut
<1>4. ~Sps!HasField(sps, width, got[width]) => got[height] = 0
  BY <1>1, <1>2, DoneInSync DEF RanOut
<1> QED
  BY <1>3, <1>4, SizePlaces

-----------------------------------------------------------------------------
(* The invariant of H264_Decode_SPS holds in every state.                  *)
LEMMA ParserInvariance == ParserSpec => []SpsInv
<1>1. ParserInit => SpsInv
  <2> SUFFICES ASSUME ParserInit PROVE SpsInv
    OBVIOUS
  <2>1. CASE Sps!Start(NoSet)
    BY <2>1 DEF Sps!Start, SpsInv
  <2>2. CASE Sps!Init
    BY <2>2, SpsStart
  <2> QED
    BY <2>1, <2>2 DEF ParserInit
<1>2. SpsInv /\ [ParserNext]_parserVars => SpsInv'
  <2> SUFFICES ASSUME SpsInv, [ParserNext]_parserVars PROVE SpsInv'
    OBVIOUS
  <2>1. CASE UNCHANGED spsVars
    BY <2>1, SpsStutter
  <2>2. CASE sps # NoSet /\ (Sps!ReadField \/ Sps!NextField)
    BY <2>2, SpsStep
  <2> QED
    BY <2>1, <2>2 DEF ParserNext, parserVars
<1> QED
  BY <1>1, <1>2, PTL DEF ParserSpec

(* H264_Decode_SPS reads the size that was written.                        *)
THEOREM SizeReadCorrect == ParserSpec => []SizeRead
BY ParserInvariance, SpsInvSizeRead, PTL

(* From a set whose end is missing it reads no other size.                 *)
THEOREM SizeNotInventedCorrect == ParserSpec => []SizeNotInvented
BY ParserInvariance, SpsInvSizeNotInvented, PTL
=============================================================================
