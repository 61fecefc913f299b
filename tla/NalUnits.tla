------------------------------ MODULE NalUnits ------------------------------
(***************************************************************************)
(* GetNalSize (jrtp/Is_H264KeyFrame.cpp): the NAL units of an encoded      *)
(* picture.  The encoder separates them by start codes of three or four    *)
(* bytes; the packetizer gets an array with where each unit starts and how *)
(* long it is, at most MaxNal of them.  A byte position counts from 1.     *)
(***************************************************************************)
EXTENDS Naturals, Sequences

CONSTANTS
  Pictures,   \* the byte strings that may be given to GetNalSize
  MaxNal      \* maxNal: MAX_NAL_SIZE

ASSUME PicturesAssumption == Pictures \subseteq Seq(Nat)
ASSUME MaxNalAssumption == MaxNal \in Nat

VARIABLES
  src,      \* the picture
  lpData,   \* the position from which the next start code is searched
  nal,      \* the first byte of the unit being measured, or 0
  i,        \* the position up to which it is measured
  pnal      \* the units found: pdata and len of each

vars == <<src, lpData, nal, i, pnal>>

-----------------------------------------------------------------------------
Left(p) == Len(src) + 1 - p

Zeros(p, n) == \A k \in p..(p + n - 1) : src[k] = 0

LongHead(p)  == Left(p) >= 4 /\ Zeros(p, 3) /\ src[p + 3] = 1
ShortHead(p) == Left(p) >= 3 /\ Zeros(p, 2) /\ src[p + 2] = 1

(* isNalHead: the length of the start code at p, or 0. *)
isNalHead(p) == CASE LongHead(p) -> 4
                  [] ~LongHead(p) /\ ShortHead(p) -> 3
                  [] OTHER -> 0

(* isNalTail: whether the unit before p ends there: at a start code or at  *)
(* three zeros.                                                            *)
\* Mutant: only a start code of four bytes ends a unit.
isNalTailLong(p) == LongHead(p) \/ (Left(p) >= 3 /\ Zeros(p, 3))

isNalTail(p) == isNalHead(p) # 0 \/ (Left(p) >= 3 /\ Zeros(p, 3))

Unit(start, end) == [pdata |-> start, len |-> end - start]

-----------------------------------------------------------------------------
Start ==
  /\ lpData = 1
  /\ nal = 0 /\ i = 1
  /\ pnal = <<>>

Init == src \in Pictures /\ Start

Searching == nal = 0 /\ lpData <= Len(src) /\ Len(pnal) < MaxNal

(* Search for the next start code. *)
SkipByte ==
  /\ Searching
  /\ isNalHead(lpData) = 0
  /\ lpData' = lpData + 1
  /\ UNCHANGED <<src, nal, i, pnal>>

HeadFound ==
  /\ Searching
  /\ isNalHead(lpData) # 0
  /\ nal' = lpData + isNalHead(lpData)
  /\ i' = lpData + isNalHead(lpData)
  /\ UNCHANGED <<src, lpData, pnal>>

(* GetNALSize: the unit goes on to the next tail or to the end. *)
Measure ==
  /\ nal # 0
  /\ i <= Len(src) /\ ~isNalTail(i)
  /\ i' = i + 1
  /\ UNCHANGED <<src, lpData, nal, pnal>>

\* Mutant: the search goes on one byte behind the end of the unit.
AddUnitSkips ==
  /\ nal # 0
  /\ i > Len(src) \/ isNalTail(i)
  /\ pnal' = Append(pnal, Unit(nal, i))
  /\ lpData' = i + 1
  /\ nal' = 0
  /\ UNCHANGED <<src, i>>

(* The unit is entered, and the search goes on behind it. *)
AddUnit ==
  /\ nal # 0
  /\ i > Len(src) \/ isNalTail(i)
  /\ pnal' = Append(pnal, Unit(nal, i))
  /\ lpData' = i
  /\ nal' = 0
  /\ UNCHANGED <<src, i>>

Next == SkipByte \/ HeadFound \/ Measure \/ AddUnit

Spec == Init /\ [][Next]_vars

-----------------------------------------------------------------------------
(* What a byte stream with start codes means, apart from how it is read: a *)
(* unit starts behind every 0 0 1 and ends at the next 0 0 0 or 0 0 1, or  *)
(* where the picture ends.                                                 *)
Starts == {s \in 4..(Len(src) + 1) : src[s - 3] = 0 /\ src[s - 2] = 0 /\ src[s - 1] = 1}

Ends(e) ==
  \/ e = Len(src) + 1
  \/ e + 2 <= Len(src) /\ Zeros(e, 2) /\ src[e + 2] \in {0, 1}

IsUnit(u) ==
  LET end == u.pdata + u.len
  IN  /\ u.pdata \in Starts
      /\ Ends(end)
      /\ \A e \in u.pdata..(end - 1) : ~Ends(e)

Returned == nal = 0 /\ ~Searching

(* What GetNalSize enters in the array is units of the picture, in their   *)
(* order, and none between two of them is left out.                        *)
UnitsInOrder ==
  /\ \A k \in 1..Len(pnal) : IsUnit(pnal[k])
  /\ \A k \in 1..(Len(pnal) - 1) :
       /\ pnal[k].pdata + pnal[k].len < pnal[k + 1].pdata
       /\ \A s \in Starts : ~(pnal[k].pdata < s /\ s < pnal[k + 1].pdata)

(* When it returns, every unit of the picture is in the array, unless the  *)
(* array is full: then what is missing are the last ones.                  *)
AllUnits ==
  Returned => \A s \in Starts :
    \/ \E k \in 1..Len(pnal) : pnal[k].pdata = s
    \/ Len(pnal) = MaxNal /\ \A k \in 1..Len(pnal) : pnal[k].pdata < s
=============================================================================
