-------------------------- MODULE RtpStreamProofs --------------------------
(***************************************************************************)
(* Proofs about RtpStream, for every range of sequence numbers, every      *)
(* probation, every packet size and any number of packets: the stream uses *)
(* the link as RtpLink specifies it, the list of a source is sorted and    *)
(* typed, packets come out in the order in which they were sent, and a     *)
(* picture whose packets come in turn is rebuilt byte for byte.            *)
(***************************************************************************)
EXTENDS RtpStream, SequenceTheorems, FiniteSetTheorems, WellFoundedInduction, TLAPS

(* Induction over the natural numbers, for a set: the least number that is *)
(* not in it would have a predecessor that is.                             *)
LEMMA SetInduction ==
  ASSUME NEW T, 0 \in T, \A n \in Nat : n \in T => n + 1 \in T
  PROVE  Nat \subseteq T
<1> DEFINE R == OpToRel(<, Nat)
<1>1. IsWellFoundedOn(R, Nat)
  BY NatLessThanWellFounded
<1>2. \A x, y \in Nat : x < y => <<x, y>> \in R
  BY DEF OpToRel
<1> HIDE DEF R
<1> SUFFICES ASSUME Nat \ T # {} PROVE FALSE
  OBVIOUS
<1>3. PICK x \in Nat \ T : \A y \in Nat \ T : ~(<<y, x>> \in R)
  BY <1>1, WFMin
<1>4. x - 1 \in Nat /\ x - 1 < x /\ x = x - 1 + 1
  BY <1>3
<1> QED
  BY <1>2, <1>3, <1>4

(* A set of numbers up to a bound has a maximum. *)
LEMMA MaxExists ==
  ASSUME NEW n \in Nat, NEW S, S \subseteq 0..n, 0 \in S
  PROVE  Link!Max(S) \in S /\ \A y \in S : Link!Max(S) >= y
<1> DEFINE T == {m \in Nat : (\A y \in S : y <= m) => \E x \in S : \A y \in S : x >= y}
<1>1. 0 \in T
  OBVIOUS
<1>2. ASSUME NEW m \in Nat, m \in T PROVE m + 1 \in T
  <2> SUFFICES ASSUME \A y \in S : y <= m + 1
               PROVE  \E x \in S : \A y \in S : x >= y
    OBVIOUS
  <2>1. CASE m + 1 \in S
    BY <2>1
  <2>2. CASE m + 1 \notin S
    <3>1. \A y \in S : y <= m
      BY <2>2
    <3> QED
      BY <1>2, <3>1
  <2> QED
    BY <2>1, <2>2
<1>3. n \in T
  <2> HIDE DEF T
  <2> QED
    BY <1>1, <1>2, SetInduction
<1>4. \E x \in S : \A y \in S : x >= y
  BY <1>3
<1> QED
  BY <1>4 DEF Link!Max

-----------------------------------------------------------------------------
(* Remainders of a range of numbers. *)
LEMMA Divided ==
  ASSUME NEW S \in Nat \ {0}, NEW x \in Int
  PROVE  /\ x = S * (x \div S) + (x % S)
         /\ x \div S \in Int /\ (x % S) \in 0..(S - 1)
OBVIOUS

LEMMA RemainderUnique ==
  ASSUME NEW S \in Nat \ {0}, NEW q \in Int, NEW r \in 0..(S - 1)
  PROVE  (S * q + r) % S = r
<1> DEFINE k == (S * q + r) \div S
           m == (S * q + r) % S
<1>1. S * q + r \in Int /\ S * q \in Int
  OBVIOUS
<1>2. S * q + r = S * k + m /\ k \in Int /\ m \in 0..(S - 1)
  BY <1>1, Divided
<1> HIDE DEF k, m
<1>3. CASE q > k
  <2>1. S * (q - k) >= S /\ S * (q - k) = S * q - S * k
    BY <1>2, <1>3
  <2> QED
    BY <1>1, <1>2, <2>1
<1>4. CASE q < k
  <2>1. S * (k - q) >= S /\ S * (k - q) = S * k - S * q
    BY <1>2, <1>4
  <2> QED
    BY <1>1, <1>2, <2>1
<1>5. CASE q = k
  BY <1>2, <1>5 DEF m
<1> QED
  BY <1>2, <1>3, <1>4, <1>5

(* Counting on by less than the range wraps once at most. *)
LEMMA RemainderOfSum ==
  ASSUME NEW S \in Nat \ {0}, NEW x \in Nat, NEW d \in 0..S
  PROVE  /\ (x % S) + d < S => (x + d) % S = (x % S) + d
         /\ (x % S) + d >= S => (x + d) % S = (x % S) + d - S
<1> DEFINE q == x \div S
           r == x % S
<1>1. x = S * q + r /\ q \in Int /\ r \in 0..(S - 1)
  BY Divided
<1> HIDE DEF q, r
<1>2. ASSUME r + d < S PROVE (x + d) % S = r + d
  <2>1. x + d = S * q + (r + d) /\ r + d \in 0..(S - 1)
    BY <1>1, <1>2
  <2> QED
    BY <1>1, <2>1, RemainderUnique
<1>3. ASSUME r + d >= S PROVE (x + d) % S = r + d - S
  <2>1. S * (q + 1) = S * q + S
    BY <1>1
  <2>2. /\ x + d = S * (q + 1) + (r + d - S)
        /\ q + 1 \in Int /\ r + d - S \in 0..(S - 1)
    BY <1>1, <1>3, <2>1
  <2> QED
    BY <2>2, RemainderUnique
<1> QED
  BY <1>2, <1>3 DEF r

(* What remains after the remainder is taken off is in full rounds. *)
LEMMA FullRounds ==
  ASSUME NEW S \in Nat \ {0}, NEW x \in Nat
  PROVE  x - (x % S) \in Nat /\ (x - (x % S)) % S = 0
<1>1. x = S * (x \div S) + (x % S) /\ x \div S \in Int /\ (x % S) \in 0..(S - 1)
  BY Divided
<1>2. x \div S >= 0
  BY <1>1
<1>3. x - (x % S) = S * (x \div S) + 0 /\ 0 \in 0..(S - 1) /\ S * (x \div S) \in Nat
  BY <1>1, <1>2
<1>4. (S * (x \div S) + 0) % S = 0
  BY <1>1, <1>3, RemainderUnique
<1> QED
  BY <1>3, <1>4

LEMMA FromFullRounds ==
  ASSUME NEW S \in Nat \ {0}, NEW x \in Nat, x % S = 0
  PROVE  /\ (x + S) % S = 0
         /\ \A d \in 0..(S - 1) : (x + d) % S = d
<1>1. (x + S) % S = 0
  <2>1. S \in 0..S /\ (x % S) + S >= S
    OBVIOUS
  <2>2. (x + S) % S = (x % S) + S - S
    BY <2>1, RemainderOfSum
  <2> QED
    BY <2>2
<1>2. ASSUME NEW d \in 0..(S - 1) PROVE (x + d) % S = d
  <2>1. d \in 0..S /\ (x % S) + d < S
    OBVIOUS
  <2>2. (x + d) % S = (x % S) + d
    BY <2>1, RemainderOfSum
  <2> QED
    BY <2>2
<1> QED
  BY <1>1, <1>2

-----------------------------------------------------------------------------
(* The sorted insertion. *)
Entries == [ext : Nat, number : Nat]

Sorted(list) == \A i, j \in 1..Len(list) : i < j => list[i].ext < list[j].ext

LEMMA EntryTypes ==
  ASSUME NEW list \in Seq(Entries)
  PROVE  /\ Len(list) \in Nat
         /\ \A i \in 1..Len(list) :
              list[i] \in Entries /\ list[i].ext \in Nat /\ list[i].number \in Nat
<1>1. Len(list) \in Nat /\ \A i \in 1..Len(list) : list[i] \in Entries
  BY ElementOfSeq, LenProperties
<1> QED
  BY <1>1 DEF Entries

(* The scan stops where all packets behind have higher numbers. *)
LEMMA PlaceFound ==
  ASSUME NEW list \in Seq(Entries), NEW ext \in Nat
  PROVE  LET k == Link!Place(list, ext)
         IN  /\ k \in 0..Len(list)
             /\ k > 0 => list[k].ext <= ext
             /\ \A i \in 1..Len(list) : i > k => list[i].ext > ext
<1> DEFINE S == {0} \cup {k \in 1..Len(list) : list[k].ext <= ext}
           k == Link!Max(S)
<1>1. Len(list) \in Nat /\ \A i \in 1..Len(list) : list[i].ext \in Nat
  BY EntryTypes
<1>2. S \subseteq 0..Len(list) /\ 0 \in S
  BY <1>1
<1>3. k \in S /\ \A y \in S : k >= y
  <2> HIDE DEF S
  <2> QED
    BY <1>1, <1>2, MaxExists
<1>4. k \in 0..Len(list) /\ (k > 0 => list[k].ext <= ext)
  BY <1>1, <1>3
<1>5. ASSUME NEW i \in 1..Len(list), i > k PROVE list[i].ext > ext
  BY <1>1, <1>3, <1>4, <1>5
<1> QED
  BY <1>4, <1>5 DEF Link!Place

LEMMA InsertedAt ==
  ASSUME NEW list \in Seq(Entries), NEW e \in Entries, NEW k \in 0..Len(list)
  PROVE  LET l == Link!InsertAt(list, k + 1, e)
         IN  /\ l \in Seq(Entries)
             /\ Len(l) = Len(list) + 1
             /\ \A i \in 1..Len(l) : /\ i <= k => l[i] = list[i]
                                     /\ i = k + 1 => l[i] = e
                                     /\ i > k + 1 => l[i] = list[i - 1]
<1> DEFINE front == SubSeq(list, 1, k)
           back  == SubSeq(list, k + 1, Len(list))
           left  == front \o <<e>>
<1>1. Len(list) \in Nat /\ k \in Nat /\ \A i \in 1..Len(list) : list[i] \in Entries
  BY ElementOfSeq, LenProperties
<1>2. /\ front \in Seq(Entries) /\ Len(front) = k
      /\ \A i \in 1..k : front[i] = list[i]
  <2>1. \A i \in 1..k : list[i] \in Entries
    BY <1>1
  <2> QED
    BY <1>1, <2>1, SubSeqProperties, Z3
<1>3. /\ back \in Seq(Entries) /\ Len(back) = Len(list) - k
      /\ \A i \in 1..(Len(list) - k) : back[i] = list[k + i]
  <2>1. \A i \in (k + 1)..Len(list) : list[i] \in Entries
    BY <1>1
  <2>2. k + 1 \in Int /\ Len(list) \in Int
    BY <1>1
  <2>3. /\ back \in Seq(Entries)
        /\ Len(back) = IF k + 1 <= Len(list) THEN Len(list) - (k + 1) + 1 ELSE 0
        /\ \A i \in 1..(Len(list) - (k + 1) + 1) : back[i] = list[(k + 1) + i - 1]
    BY <2>1, <2>2, SubSeqProperties
  <2> QED
    BY <1>1, <2>3
<1>4. <<e>> \in Seq(Entries) /\ Len(<<e>>) = 1 /\ <<e>>[1] = e
  OBVIOUS
<1> HIDE DEF front, back
<1>5. /\ left \in Seq(Entries) /\ Len(left) = k + 1
      /\ \A i \in 1..(k + 1) : left[i] = IF i <= k THEN front[i] ELSE <<e>>[i - k]
  BY <1>2, <1>4, ConcatProperties
<1> HIDE DEF left
<1>6. /\ left \o back \in Seq(Entries) /\ Len(left \o back) = Len(list) + 1
      /\ \A i \in 1..(Len(list) + 1) :
           (left \o back)[i] = IF i <= k + 1 THEN left[i] ELSE back[i - (k + 1)]
  <2>1. /\ left \in Seq(Entries) /\ back \in Seq(Entries)
        /\ Len(left) = k + 1 /\ Len(left) + Len(back) = Len(list) + 1
    BY <1>1, <1>3, <1>5
  <2>2. /\ left \o back \in Seq(Entries)
        /\ Len(left \o back) = Len(left) + Len(back)
        /\ \A i \in 1..(Len(left) + Len(back)) :
             (left \o back)[i] = IF i <= Len(left) THEN left[i] ELSE back[i - Len(left)]
    BY ONLY <2>1, ConcatProperties
  <2> QED
    BY ONLY <2>1, <2>2
<1>7. ASSUME NEW i \in 1..(Len(list) + 1)
      PROVE  /\ i <= k => (left \o back)[i] = list[i]
             /\ i = k + 1 => (left \o back)[i] = e
             /\ i > k + 1 => (left \o back)[i] = list[i - 1]
  <2>1. CASE i <= k
    <3>1. i \in 1..k /\ i \in 1..(k + 1) /\ i # k + 1
      BY <1>1, <2>1
    <3>2. (left \o back)[i] = left[i] /\ left[i] = front[i]
      BY <1>5, <1>6, <3>1
    <3> QED
      BY <1>2, <3>1, <3>2
  <2>2. CASE i = k + 1
    BY <1>1, <1>4, <1>5, <1>6, <2>2
  <2>3. CASE i > k + 1
    <3>1. i - (k + 1) \in 1..(Len(list) - k) /\ k + (i - (k + 1)) = i - 1
      BY <1>1, <2>3
    <3> QED
      BY <1>1, <1>3, <1>6, <2>3, <3>1
  <2> QED
    BY <1>1, <2>1, <2>2, <2>3
<1>8. Link!InsertAt(list, k + 1, e) = left \o back
  <2>1. (k + 1) - 1 = k
    BY <1>1
  <2> QED
    BY <2>1 DEF Link!InsertAt, left, front, back
<1> QED
  BY <1>6, <1>7, <1>8

(* An insertion keeps the list sorted, adds one packet at most, and keeps  *)
(* the others.                                                             *)
LEMMA Inserted ==
  ASSUME NEW list \in Seq(Entries), Sorted(list), NEW e \in Entries
  PROVE  LET l == Link!Insert(list, e)
         IN  /\ l \in Seq(Entries) /\ Sorted(l) /\ Len(l) <= Len(list) + 1
             /\ \A i \in 1..Len(l) : l[i] = e \/ \E j \in 1..Len(list) : l[i] = list[j]
<1> DEFINE k == Link!Place(list, e.ext)
           l == Link!InsertAt(list, k + 1, e)
<1>1. /\ Len(list) \in Nat /\ e.ext \in Nat
      /\ \A i \in 1..Len(list) : list[i].ext \in Nat
  BY EntryTypes DEF Entries
<1>2. /\ k \in 0..Len(list)
      /\ k > 0 => list[k].ext <= e.ext
      /\ \A i \in 1..Len(list) : i > k => list[i].ext > e.ext
  BY <1>1, PlaceFound
<1> HIDE DEF k
<1>3. CASE k > 0 /\ list[k].ext = e.ext
  <2>1. Link!Insert(list, e) = list
    BY <1>3 DEF Link!Insert, k
  <2> QED
    BY <1>1, <2>1
<1>4. CASE ~(k > 0 /\ list[k].ext = e.ext)
  <2>1. Link!Insert(list, e) = l
    BY <1>4 DEF Link!Insert, k
  <2>2. /\ l \in Seq(Entries) /\ Len(l) = Len(list) + 1
        /\ \A i \in 1..Len(l) : /\ i <= k => l[i] = list[i]
                                /\ i = k + 1 => l[i] = e
                                /\ i > k + 1 => l[i] = list[i - 1]
    BY <1>2, InsertedAt
  <2> HIDE DEF l
  <2>3. \A i \in 1..Len(list) : i <= k => list[i].ext < e.ext
    <3> SUFFICES ASSUME NEW i \in 1..Len(list), i <= k PROVE list[i].ext < e.ext
      OBVIOUS
    <3>1. k \in 1..Len(list) /\ list[k].ext < e.ext
      BY <1>1, <1>2, <1>4
    <3> QED
      BY <1>1, <3>1 DEF Sorted
  <2>4. Sorted(l)
    <3> SUFFICES ASSUME NEW i \in 1..Len(l), NEW j \in 1..Len(l), i < j
                 PROVE  l[i].ext < l[j].ext
      BY DEF Sorted
    <3>1. CASE j <= k
      <4>1. i \in 1..Len(list) /\ j \in 1..Len(list) /\ i <= k
        BY <1>1, <1>2, <2>2, <3>1
      <4>2. l[i] = list[i] /\ l[j] = list[j]
        BY <2>2, <3>1, <4>1
      <4> QED
        BY <4>1, <4>2 DEF Sorted
    <3>2. CASE j = k + 1
      <4>1. l[j] = e /\ l[i] = list[i] /\ i <= k /\ i \in 1..Len(list)
        BY <1>1, <1>2, <2>2, <3>2
      <4> QED
        BY <2>3, <4>1
    <3>3. CASE j > k + 1 /\ i <= k
      <4>1. j - 1 \in 1..Len(list) /\ i \in 1..Len(list) /\ i < j - 1
        BY <1>1, <1>2, <2>2, <3>3
      <4> QED
        BY <1>1, <1>2, <2>2, <3>3, <4>1 DEF Sorted
    <3>4. CASE j > k + 1 /\ i = k + 1
      <4>1. j - 1 \in 1..Len(list) /\ j - 1 > k
        BY <1>1, <1>2, <2>2, <3>4
      <4> QED
        BY <1>1, <1>2, <2>2, <3>4, <4>1
    <3>5. CASE j > k + 1 /\ i > k + 1
      <4>1. j - 1 \in 1..Len(list) /\ i - 1 \in 1..Len(list) /\ i - 1 < j - 1
        BY <1>1, <1>2, <2>2, <3>5
      <4> QED
        BY <1>1, <1>2, <2>2, <3>5, <4>1 DEF Sorted
    <3> QED
      BY <1>1, <1>2, <2>2, <3>1, <3>2, <3>3, <3>4, <3>5
  <2>5. \A i \in 1..Len(l) : l[i] = e \/ \E j \in 1..Len(list) : l[i] = list[j]
    <3> SUFFICES ASSUME NEW i \in 1..Len(l), i # k + 1
                 PROVE  \E j \in 1..Len(list) : l[i] = list[j]
      BY <2>2
    <3>1. CASE i <= k
      BY <1>1, <1>2, <2>2, <3>1
    <3>2. CASE i > k + 1
      <4>1. i - 1 \in 1..Len(list)
        BY <1>1, <1>2, <2>2, <3>2
      <4> QED
        BY <2>2, <3>2, <4>1
    <3> QED
      BY <1>1, <1>2, <2>2, <3>1, <3>2
  <2> QED
    BY <1>1, <2>1, <2>2, <2>4, <2>5
<1> QED
  BY <1>3, <1>4

-----------------------------------------------------------------------------

(* What is stored before the source is valid has no cycle; then and later  *)
(* the cycles are counted in full rounds.                                  *)
Stored ==
  /\ Sorted(packetlist)
  /\ ~validated => /\ first = 0 /\ taken = 0
                   /\ \A i \in 1..Len(packetlist) :
                        packetlist[i].ext = Link!SeqNr(packetlist[i].number)
  /\ validated => /\ first > 0
                  /\ numcycles = exthighseqnr - (exthighseqnr % SeqRange)

(* The packets after the newest that came and not under way were lost.     *)
Missing(h) == ((h + 1)..count) \ net

InTurn(h) ==
  /\ \A m \in net : h < m
  /\ \A i \in 1..Len(packetlist) : packetlist[i].number <= h
  /\ taken <= h
  /\ Cardinality(Missing(h)) <= lost
  /\ probation > 0 \/ validated => h > 0
  /\ validated => first <= h

(* Once the source is valid an extended number says which packet it is.    *)
Exact(h) ==
  /\ exthighseqnr = base + h - 1
  /\ \A i \in 1..Len(packetlist) :
       /\ packetlist[i].ext = base + packetlist[i].number - 1
       /\ taken < packetlist[i].number

OneByOne ==
  Link!OnlyLoses =>
    \E h \in 0..count :
      /\ InTurn(h)
      /\ validated /\ Link!FewLost /\ ~Link!WrapsOnProbation => Exact(h)

LinkInv == Link!TypeOK /\ Stored /\ OneByOne

(* What the type invariant says of the list. *)
LEMMA ListTyped ==
  ASSUME Link!TypeOK
  PROVE  /\ packetlist \in Seq(Entries) /\ Len(packetlist) \in Nat
         /\ \A i \in 1..Len(packetlist) :
              packetlist[i].ext \in Nat /\ packetlist[i].number \in 1..count
<1> DEFINE T == [ext : Nat, number : 1..count]
<1>1. packetlist \in Seq(T) /\ T \subseteq Entries
  BY DEF Link!TypeOK, Entries
<1>2. packetlist \in Seq(Entries)
  BY <1>1, SeqMonotonic
<1>3. \A i \in 1..Len(packetlist) : packetlist[i] \in T
  BY <1>1, ElementOfSeq
<1> QED
  BY <1>2, <1>3, LenProperties

LEMMA TypedList ==
  ASSUME NEW l \in Seq(Entries), NEW c \in Nat,
         \A i \in 1..Len(l) : l[i].number \in 1..c
  PROVE  l \in Seq([ext : Nat, number : 1..c])
<1> DEFINE T == [ext : Nat, number : 1..c]
<1>1. Len(l) \in Nat /\ l = [i \in 1..Len(l) |-> l[i]]
  BY LenProperties
<1>2. \A i \in 1..Len(l) : l[i] \in Entries
  BY ElementOfSeq
<1>3. \A i \in 1..Len(l) : l[i] \in T
  BY <1>2 DEF Entries
<1> HIDE DEF T
<1>4. l \in [1..Len(l) -> T]
  BY <1>1, <1>3
<1>5. l \in Seq(T)
  BY <1>1, <1>4, SeqDef
<1> QED
  BY <1>5 DEF T

LEMMA NumberTyped ==
  ASSUME Link!TypeOK, NEW n \in net
  PROVE  n \in 1..count /\ base \in 0..(SeqRange - 1) /\ Link!SeqNr(n) \in 0..(SeqRange - 1)
<1>1. n \in 1..count /\ base \in 0..(SeqRange - 1)
  BY BasesAssumption DEF Link!TypeOK
<1>2. base + n - 1 \in Int
  BY <1>1, SeqRangeAssumption DEF Link!TypeOK
<1> QED
  BY <1>1, <1>2, Divided, SeqRangeAssumption DEF Link!SeqNr

LEMMA OneMore ==
  ASSUME NEW S, IsFiniteSet(S), NEW x
  PROVE  /\ Cardinality(S \cup {x}) <= Cardinality(S) + 1
         /\ Cardinality(S \cup {x}) \in Nat
<1>1. IsFiniteSet(S \cup {x}) /\ Cardinality(S) \in Nat
  BY FS_AddElement, FS_CardinalityType
<1>2. Cardinality(S \cup {x}) = IF x \in S THEN Cardinality(S) ELSE Cardinality(S) + 1
  BY FS_AddElement
<1> QED
  BY <1>1, <1>2

LEMMA MissingFinite ==
  ASSUME count \in Nat, NEW h \in Nat
  PROVE  IsFiniteSet(Missing(h)) /\ Cardinality(Missing(h)) \in Nat
<1>1. IsFiniteSet((h + 1)..count) /\ Missing(h) \in SUBSET ((h + 1)..count)
  BY FS_Interval DEF Missing
<1> QED
  BY <1>1, FS_Subset, FS_CardinalityType

-----------------------------------------------------------------------------
LEMMA InitLink == Link!Init => LinkInv
<1> SUFFICES ASSUME Link!Init PROVE LinkInv
  OBVIOUS
<1>1. <<>> \in Seq([ext : Nat, number : 1..count]) /\ Len(<<>>) = 0
  BY EmptySeq
<1>2. 0 % SeqRange = 0
  BY SeqRangeAssumption
<1>3. Link!TypeOK
  <2>1. prevseqnr \in 0..(SeqRange - 1) /\ probation \in 0..ProbationCount
    BY SeqRangeAssumption, ProbationAssumption DEF Link!Init
  <2>2. /\ packetlist \in Seq([ext : Nat, number : 1..count])
        /\ ~validated => Len(packetlist) <= MaxProbation
    BY <1>1, ProbationAssumption DEF Link!Init
  <2>3. numcycles \in Nat /\ numcycles % SeqRange = 0 /\ exthighseqnr \in Nat
    BY <1>2 DEF Link!Init
  <2>4. net \subseteq 1..count /\ taken \in 0..count /\ first \in 0..count
    BY DEF Link!Init
  <2>5. /\ base \in Bases /\ window \in Windows /\ count \in Nat
        /\ lost \in Nat /\ repeated \in Nat /\ validated \in BOOLEAN
    BY DEF Link!Init
  <2> QED
    BY <2>1, <2>2, <2>3, <2>4, <2>5 DEF Link!TypeOK
<1>4. Stored
  BY <1>1 DEF Link!Init, Stored, Sorted
<1>5. InTurn(0)
  <2>1. Missing(0) = {}
    BY DEF Missing, Link!Init
  <2> QED
    BY <1>1, <2>1, FS_EmptySet DEF InTurn, Link!Init
<1>6. OneByOne
  BY <1>5 DEF OneByOne, Link!Init
<1> QED
  BY <1>3, <1>4, <1>6 DEF LinkInv

LEMMA SendStep == ASSUME LinkInv, Link!Send PROVE LinkInv'
<1> USE DEF Link!Send, Link!stats
<1>1. Link!TypeOK /\ Stored /\ OneByOne
  BY DEF LinkInv
<1>2. count \in Nat /\ count' = count + 1
  BY <1>1 DEF Link!TypeOK
<1>3. Link!TypeOK'
  <2>1. packetlist \in Seq([ext : Nat, number : 1..(count + 1)])
    <3>1. /\ packetlist \in Seq(Entries)
          /\ \A i \in 1..Len(packetlist) : packetlist[i].number \in 1..count
      BY <1>1, ListTyped
    <3>2. \A i \in 1..Len(packetlist) : packetlist[i].number \in 1..(count + 1)
      BY <1>2, <3>1
    <3>3. count + 1 \in Nat
      BY <1>2
    <3> QED
      BY ONLY <3>1, <3>2, <3>3, TypedList
  <2> QED
    BY <1>1, <1>2, <2>1 DEF Link!TypeOK
<1>4. Stored'
  BY <1>1 DEF Stored, Sorted, Link!SeqNr
<1>5. OneByOne'
  <2> SUFFICES ASSUME Link!OnlyLoses
               PROVE  OneByOne'
    BY DEF OneByOne, Link!OnlyLoses
  <2>1. PICK h \in 0..count :
          /\ InTurn(h)
          /\ validated /\ Link!FewLost /\ ~Link!WrapsOnProbation => Exact(h)
    BY <1>1 DEF OneByOne
  <2>2. Missing(h)' = Missing(h)
    BY <1>1, <1>2 DEF Missing, Link!TypeOK
  <2>3. InTurn(h)'
    BY <1>2, <2>1, <2>2 DEF InTurn
  <2>4. (validated /\ Link!FewLost /\ ~Link!WrapsOnProbation => Exact(h))'
    BY <2>1 DEF Exact, Link!FewLost, Link!WrapsOnProbation
  <2>5. h \in 0..count'
    BY <1>2
  <2> QED
    BY <2>3, <2>4, <2>5 DEF OneByOne
<1> QED
  BY <1>3, <1>4, <1>5 DEF LinkInv

LEMMA LoseStep == ASSUME LinkInv, NEW n \in net, Link!Lose(n) PROVE LinkInv'
<1> USE DEF Link!Lose, Link!stats
<1>1. Link!TypeOK /\ Stored /\ OneByOne
  BY DEF LinkInv
<1>2. Link!TypeOK'
  BY <1>1 DEF Link!TypeOK
<1>3. Stored'
  BY <1>1 DEF Stored, Sorted, Link!SeqNr
<1>4. OneByOne'
  <2> SUFFICES ASSUME Link!OnlyLoses
               PROVE  OneByOne'
    BY DEF OneByOne, Link!OnlyLoses
  <2>1. PICK h \in 0..count :
          /\ InTurn(h)
          /\ validated /\ Link!FewLost /\ ~Link!WrapsOnProbation => Exact(h)
    BY <1>1 DEF OneByOne
  <2>2. Missing(h)' = Missing(h) \cup {n}
    BY <1>1, <2>1 DEF Missing, Link!TypeOK, InTurn
  <2>3. Cardinality(Missing(h)') <= lost'
    <3>1. count \in Nat /\ h \in Nat
      BY <1>1 DEF Link!TypeOK
    <3>2. IsFiniteSet(Missing(h)) /\ Cardinality(Missing(h)) \in Nat
      BY <3>1, MissingFinite
    <3>3. /\ Cardinality(Missing(h) \cup {n}) <= Cardinality(Missing(h)) + 1
          /\ Cardinality(Missing(h) \cup {n}) \in Nat
      BY <3>2, OneMore
    <3> QED
      BY <1>1, <2>1, <2>2, <3>2, <3>3 DEF InTurn, Link!TypeOK
  <2>4. InTurn(h)'
    BY <2>1, <2>3 DEF InTurn
  <2>5. (validated /\ Link!FewLost /\ ~Link!WrapsOnProbation => Exact(h))'
    <3>1. Link!FewLost' => Link!FewLost
      BY <1>1, SeqRangeAssumption DEF Link!FewLost, Link!TypeOK
    <3>2. Link!WrapsOnProbation' = Link!WrapsOnProbation /\ Exact(h)' = Exact(h)
      BY DEF Exact, Link!WrapsOnProbation
    <3> QED
      BY <2>1, <3>1, <3>2
  <2> QED
    BY <2>1, <2>4, <2>5 DEF OneByOne
<1> QED
  BY <1>2, <1>3, <1>4 DEF LinkInv

LEMMA Tailed ==
  ASSUME NEW list \in Seq(Entries), Sorted(list), list # <<>>
  PROVE  /\ Len(list) \in Nat \ {0} /\ Head(list) = list[1]
         /\ Tail(list) \in Seq(Entries) /\ Len(Tail(list)) = Len(list) - 1
         /\ \A i \in 1..Len(Tail(list)) : Tail(list)[i] = list[i + 1]
         /\ Sorted(Tail(list))
<1>1. Len(list) \in Nat \ {0} /\ Head(list) = list[1]
  BY EmptySeq
<1>2. /\ Tail(list) \in Seq(Entries) /\ Len(Tail(list)) = Len(list) - 1
      /\ \A i \in 1..Len(Tail(list)) : Tail(list)[i] = list[i + 1]
  BY HeadTailProperties
<1>3. Sorted(Tail(list))
  <2> SUFFICES ASSUME NEW i \in 1..Len(Tail(list)), NEW j \in 1..Len(Tail(list)), i < j
               PROVE  Tail(list)[i].ext < Tail(list)[j].ext
    BY DEF Sorted
  <2>1. i + 1 \in 1..Len(list) /\ j + 1 \in 1..Len(list) /\ i + 1 < j + 1
    BY <1>1, <1>2
  <2> QED
    BY <1>2, <2>1 DEF Sorted
<1> QED
  BY <1>1, <1>2, <1>3

(* On probation there is room for one more. *)
LEMMA Trimmed ==
  ASSUME Link!TypeOK, Sorted(packetlist), ~validated
  PROVE  LET t == Link!Trim(packetlist)
         IN  /\ t \in Seq(Entries) /\ Sorted(t) /\ Len(t) \in Nat /\ Len(t) < MaxProbation
             /\ \A i \in 1..Len(t) : \E j \in 1..Len(packetlist) : t[i] = packetlist[j]
<1>1. /\ packetlist \in Seq(Entries) /\ Len(packetlist) \in Nat
      /\ Len(packetlist) <= MaxProbation /\ MaxProbation \in Nat \ {0}
  BY ListTyped, ProbationAssumption DEF Link!TypeOK
<1>2. CASE Len(packetlist) = MaxProbation
  <2>1. packetlist # <<>>
    BY <1>1, <1>2, EmptySeq
  <2>2. /\ Tail(packetlist) \in Seq(Entries) /\ Sorted(Tail(packetlist))
        /\ Len(Tail(packetlist)) = Len(packetlist) - 1
        /\ \A i \in 1..Len(Tail(packetlist)) : Tail(packetlist)[i] = packetlist[i + 1]
    BY <1>1, <2>1, Tailed
  <2>3. \A i \in 1..Len(Tail(packetlist)) : i + 1 \in 1..Len(packetlist)
    BY <1>1, <2>2
  <2> QED
    BY <1>1, <1>2, <2>2, <2>3 DEF Link!Trim
<1>3. CASE Len(packetlist) # MaxProbation
  BY <1>1, <1>3 DEF Link!Trim
<1> QED
  BY <1>2, <1>3

(* While nothing is reordered or repeated a packet that arrives is newer   *)
(* than those before, the rest is newer still, and what lies in the gap    *)
(* was lost.                                                               *)
LEMMA ArrivesInTurn ==
  ASSUME Link!TypeOK, NEW n \in net, Link!Arrives(n), Link!OnlyLoses',
         NEW h \in 0..count, InTurn(h)
  PROVE  /\ Link!OnlyLoses
         /\ n \in 1..count /\ h < n /\ (n - h) - 1 <= lost
         /\ \A m \in net' : n < m
         /\ Cardinality(Missing(n)') <= lost
<1>1. /\ count \in Nat /\ net \subseteq 1..count /\ lost \in Nat
      /\ repeated \in Nat /\ n \in 1..count /\ h \in Nat
  BY DEF Link!TypeOK
<1>2. /\ window = 0 /\ repeated = 0 /\ net' = net \ {n} /\ count' = count
  BY <1>1 DEF Link!Arrives, Link!OnlyLoses
<1>3. \A m \in net : n <= m
  BY <1>1, <1>2 DEF Link!Arrives
<1>4. h < n
  BY DEF InTurn
<1>5. Missing(n)' \in SUBSET Missing(h) /\ ((h + 1)..(n - 1)) \in SUBSET Missing(h)
  BY <1>1, <1>2, <1>3, <1>4 DEF Missing
<1>6. IsFiniteSet(Missing(h)) /\ Cardinality(Missing(h)) \in Nat /\ Cardinality(Missing(h)) <= lost
  BY <1>1, MissingFinite DEF InTurn
<1>7. /\ Cardinality(Missing(n)') <= Cardinality(Missing(h)) /\ Cardinality(Missing(n)') \in Nat
      /\ Cardinality((h + 1)..(n - 1)) <= Cardinality(Missing(h))
  BY <1>5, <1>6, FS_Subset, FS_CardinalityType
<1>8. Cardinality((h + 1)..(n - 1)) = (n - h) - 1
  <2>1. Cardinality((h + 1)..(n - 1)) = IF h + 1 > n - 1 THEN 0 ELSE (n - 1) - (h + 1) + 1
    BY <1>1, FS_Interval
  <2> QED
    BY <1>1, <1>4, <2>1
<1> QED
  BY <1>1, <1>2, <1>3, <1>4, <1>6, <1>7, <1>8 DEF Link!OnlyLoses

LEMMA ArrivalTyped ==
  ASSUME Link!TypeOK, NEW n \in net, Link!Arrives(n)
  PROVE  net' \subseteq 1..count /\ repeated' \in Nat
<1>1. net \subseteq 1..count /\ repeated \in Nat
  BY DEF Link!TypeOK
<1>2. \/ net' = net \ {n} /\ repeated' = repeated
      \/ net' = net /\ repeated' = repeated + 1
  BY DEF Link!Arrives
<1>3. CASE net' = net \ {n} /\ repeated' = repeated
  BY <1>1, <1>3
<1>4. CASE net' = net /\ repeated' = repeated + 1
  BY <1>1, <1>4
<1> QED
  BY <1>2, <1>3, <1>4

LEMMA OnProbationStep ==
  ASSUME LinkInv, NEW n \in net, Link!Arrives(n), Link!OnProbation(n), UNCHANGED taken
  PROVE  LinkInv'
<1> DEFINE e == Link!Entry(Link!SeqNr(n), n)
           t == Link!Trim(packetlist)
<1>1. Link!TypeOK /\ Stored /\ OneByOne
  BY DEF LinkInv
<1>2. /\ n \in 1..count /\ count \in Nat /\ Link!SeqNr(n) \in 0..(SeqRange - 1)
      /\ base \in 0..(SeqRange - 1)
  BY <1>1, NumberTyped DEF Link!TypeOK
<1>3. ~validated /\ packetlist' = Link!Insert(t, e) /\ UNCHANGED <<base, window, count, lost>>
  BY DEF Link!OnProbation, Link!Arrives
<1>4. e \in Entries /\ e.ext = Link!SeqNr(n) /\ e.number = n
  BY <1>2, SeqRangeAssumption DEF Link!Entry, Entries
<1>5. /\ t \in Seq(Entries) /\ Sorted(t) /\ Len(t) \in Nat /\ Len(t) < MaxProbation
      /\ \A i \in 1..Len(t) : \E j \in 1..Len(packetlist) : t[i] = packetlist[j]
  BY <1>1, <1>3, Trimmed DEF Stored
<1> HIDE DEF e, t
<1>6. /\ packetlist' \in Seq(Entries) /\ Sorted(packetlist') /\ Len(packetlist') <= Len(t) + 1
      /\ \A i \in 1..Len(packetlist') :
           packetlist'[i] = e \/ \E j \in 1..Len(t) : packetlist'[i] = t[j]
  BY <1>3, <1>4, <1>5, Inserted
<1>7. \A i \in 1..Len(packetlist') :
        packetlist'[i] = e \/ \E j \in 1..Len(packetlist) : packetlist'[i] = packetlist[j]
  BY <1>5, <1>6
<1>8. Link!TypeOK'
  <2>1. \A i \in 1..Len(packetlist') : packetlist'[i].number \in 1..count
    BY <1>1, <1>2, <1>4, <1>7, ListTyped
  <2>2. packetlist' \in Seq([ext : Nat, number : 1..count])
    BY <1>2, <1>6, <2>1, TypedList
  <2>3. Len(packetlist') \in Nat /\ Len(packetlist') <= MaxProbation /\ MaxProbation \in Nat
    BY <1>5, <1>6, LenProperties, ProbationAssumption
  <2>4. net' \subseteq 1..count /\ repeated' \in Nat
    BY <1>1, ArrivalTyped
  <2>5. probation' \in 0..ProbationCount
    BY <1>1, ProbationAssumption DEF Link!OnProbation, Link!TypeOK, Link!Follows
  <2>6. /\ prevseqnr' = Link!SeqNr(n)
        /\ UNCHANGED <<validated, exthighseqnr, numcycles, first, taken>>
    BY DEF Link!OnProbation
  <2> QED
    BY <1>1, <1>2, <1>3, <2>2, <2>3, <2>4, <2>5, <2>6 DEF Link!TypeOK
<1>9. Stored'
  <2>1. UNCHANGED <<validated, first, taken>> /\ first = 0 /\ taken = 0
    BY <1>1, <1>3 DEF Link!OnProbation, Stored
  <2>2. \A m : Link!SeqNr(m)' = (base + m - 1) % SeqRange /\ Link!SeqNr(m) = (base + m - 1) % SeqRange
    BY <1>3 DEF Link!SeqNr
  <2>3. ASSUME NEW i \in 1..Len(packetlist')
        PROVE  packetlist'[i].ext = Link!SeqNr(packetlist'[i].number)
    BY <1>1, <1>3, <1>4, <1>7 DEF Stored
  <2>4. ASSUME NEW i \in 1..Len(packetlist')
        PROVE  packetlist'[i].ext = (base' + packetlist'[i].number - 1) % SeqRange
    BY <1>3, <2>3 DEF Link!SeqNr
  <2> QED
    BY <1>3, <1>6, <2>1, <2>4 DEF Stored, Link!SeqNr
<1>10. OneByOne'
  <2> SUFFICES ASSUME Link!OnlyLoses' PROVE OneByOne'
    BY DEF OneByOne
  <2>1. Link!OnlyLoses
    BY <1>1 DEF Link!OnlyLoses, Link!Arrives, Link!TypeOK
  <2>2. PICK h \in 0..count : InTurn(h)
    BY <1>1, <2>1 DEF OneByOne
  <2>3. /\ h < n /\ \A m \in net' : n < m
        /\ Cardinality(Missing(n)') <= lost
    BY <1>1, <2>2, ArrivesInTurn
  <2>4. \A i \in 1..Len(packetlist') : packetlist'[i].number <= n
    <3>1. \A i \in 1..Len(packetlist) : packetlist[i].number <= h /\ packetlist[i].number \in Nat
      BY <1>1, <2>2, ListTyped DEF InTurn
    <3> QED
      BY <1>2, <1>4, <1>7, <2>3, <3>1
  <2>5. taken' <= n /\ ~validated'
    BY <1>1, <1>2, <1>3 DEF Stored, Link!OnProbation
  <2>6. InTurn(n)'
    BY <1>2, <1>3, <2>3, <2>4, <2>5 DEF InTurn
  <2> QED
    BY <1>2, <1>3, <2>5, <2>6 DEF OneByOne
<1> QED
  BY <1>8, <1>9, <1>10 DEF LinkInv

LEMMA AcceptFirstStep ==
  ASSUME LinkInv, NEW n \in net, Link!Arrives(n), Link!AcceptFirst(n), UNCHANGED taken
  PROVE  LinkInv'
<1> DEFINE seq == Link!SeqNr(n)
           ext == Link!FirstExt(seq)
           e   == Link!Entry(ext, n)
<1>1. Link!TypeOK /\ Stored /\ OneByOne
  BY DEF LinkInv
<1>2. /\ n \in 1..count /\ count \in Nat /\ base \in 0..(SeqRange - 1)
      /\ seq \in 0..(SeqRange - 1) /\ seq = (base + n - 1) % SeqRange
      /\ SeqRange \in Nat \ {0}
  BY <1>1, NumberTyped, SeqRangeAssumption DEF Link!TypeOK, Link!SeqNr
<1>3. /\ ~validated /\ validated' = TRUE /\ probation > 0 /\ probation' = 0
      /\ prevseqnr' = seq /\ exthighseqnr' = ext /\ numcycles' = ext - seq
      /\ packetlist' = Link!Insert(packetlist, e) /\ first' = n /\ taken' = taken
      /\ UNCHANGED <<base, window, count, lost>>
  BY DEF Link!AcceptFirst, Link!EndsProbation, Link!Follows, Link!Arrives
<1> HIDE DEF seq
<1>4. /\ ext = IF seq = 0 THEN SeqRange ELSE seq
      /\ ext \in Nat /\ ext % SeqRange = seq
      /\ ext - seq \in Nat /\ (ext - seq) % SeqRange = 0
  <2>1. ext = IF seq = 0 THEN SeqRange ELSE seq
    BY DEF Link!FirstExt
  <2>2. ext \in Nat /\ ext - seq \in Nat
    BY <1>2, <2>1
  <2>3. ext % SeqRange = seq
    <3>1. CASE seq = 0
      <4>1. SeqRange * 1 + 0 = SeqRange /\ 0 \in 0..(SeqRange - 1) /\ 1 \in Int
        BY <1>2
      <4>2. (SeqRange * 1 + 0) % SeqRange = 0
        BY <1>2, <4>1, RemainderUnique
      <4> QED
        BY <2>1, <3>1, <4>1, <4>2
    <3>2. CASE seq # 0
      <4>1. ext = seq
        BY <2>1, <3>2
      <4> HIDE DEF ext
      <4> QED
        BY <1>2, <4>1
    <3> QED
      BY <3>1, <3>2
  <2> HIDE DEF ext
  <2>4. (ext - (ext % SeqRange)) % SeqRange = 0
    BY <1>2, <2>2, FullRounds
  <2> QED
    BY <2>1, <2>2, <2>3, <2>4
<1> HIDE DEF ext
<1>5. e \in Entries /\ e.ext = ext /\ e.number = n
  BY <1>2, <1>4 DEF Link!Entry, Entries
<1> HIDE DEF e
<1>6. /\ packetlist \in Seq(Entries) /\ Sorted(packetlist)
      /\ \A i \in 1..Len(packetlist) :
           /\ packetlist[i].ext \in Nat /\ packetlist[i].number \in 1..count
           /\ packetlist[i].ext = (base + packetlist[i].number - 1) % SeqRange
      /\ taken = 0
  BY <1>1, <1>3, ListTyped DEF Stored, Link!SeqNr
<1>7. /\ packetlist' \in Seq(Entries) /\ Sorted(packetlist')
      /\ \A i \in 1..Len(packetlist') :
           packetlist'[i] = e \/ \E j \in 1..Len(packetlist) : packetlist'[i] = packetlist[j]
  BY <1>3, <1>5, <1>6, Inserted
<1>8. Link!TypeOK'
  <2>1. \A i \in 1..Len(packetlist') : packetlist'[i].number \in 1..count
    BY <1>2, <1>5, <1>6, <1>7
  <2>2. packetlist' \in Seq([ext : Nat, number : 1..count])
    BY <1>2, <1>7, <2>1, TypedList
  <2>3. net' \subseteq 1..count /\ repeated' \in Nat
    BY <1>1, ArrivalTyped
  <2>4. probation' \in 0..ProbationCount /\ first' \in 0..count /\ taken' \in 0..count
    BY <1>2, <1>3, <1>6, ProbationAssumption
  <2>5. /\ exthighseqnr' \in Nat /\ numcycles' \in Nat /\ numcycles' % SeqRange = 0
        /\ prevseqnr' \in 0..(SeqRange - 1) /\ validated' = TRUE
    BY <1>2, <1>3, <1>4
  <2> QED
    BY <1>1, <1>3, <2>2, <2>3, <2>4, <2>5 DEF Link!TypeOK
<1>9. Stored'
  BY <1>2, <1>3, <1>4, <1>7 DEF Stored
<1>10. OneByOne'
  <2> SUFFICES ASSUME Link!OnlyLoses' PROVE OneByOne'
    BY DEF OneByOne
  <2>1. Link!OnlyLoses
    BY <1>1 DEF Link!OnlyLoses, Link!Arrives, Link!TypeOK
  <2>2. PICK h \in 0..count : InTurn(h)
    BY <1>1, <2>1 DEF OneByOne
  <2>3. /\ h < n /\ \A m \in net' : n < m
        /\ Cardinality(Missing(n)') <= lost
    BY <1>1, <2>2, ArrivesInTurn
  <2>4. h > 0 /\ \A i \in 1..Len(packetlist) : packetlist[i].number <= h
    BY <1>3, <2>2 DEF InTurn
  <2>5. \A i \in 1..Len(packetlist') : packetlist'[i].number <= n
    <3>1. \A i \in 1..Len(packetlist) : packetlist[i].number <= n
      BY <1>2, <1>6, <2>3, <2>4
    <3>2. e.number <= n
      BY <1>2, <1>5
    <3> QED
      BY <1>7, <3>1, <3>2
  <2>6. InTurn(n)'
    BY <1>2, <1>3, <1>6, <2>3, <2>5 DEF InTurn
  <2>7. ASSUME ~Link!WrapsOnProbation' PROVE Exact(n)'
    <3>1. base + n - 1 <= SeqRange /\ base + n - 1 \in Nat /\ base + n - 1 > 0
      BY <1>2, <1>3, <2>3, <2>4, <2>7 DEF Link!WrapsOnProbation
    <3>2. ext = base + n - 1
      <4>1. CASE base + n - 1 = SeqRange
        <5>1. SeqRange * 1 + 0 = SeqRange /\ 0 \in 0..(SeqRange - 1) /\ 1 \in Int
          BY <1>2
        <5>2. SeqRange % SeqRange = 0
          BY <1>2, <5>1, RemainderUnique
        <5> QED
          BY <1>2, <1>4, <4>1, <5>2
      <4>2. CASE base + n - 1 < SeqRange
        <5>1. (base + n - 1) % SeqRange = base + n - 1
          BY <1>2, <3>1, <4>2
        <5> QED
          BY <1>2, <1>4, <3>1, <5>1
      <4> QED
        BY <1>2, <3>1, <4>1, <4>2
    <3>3. ASSUME NEW j \in 1..Len(packetlist)
          PROVE  packetlist[j].ext = base + packetlist[j].number - 1
      <4>1. packetlist[j].number \in 1..count /\ packetlist[j].number <= h
        BY <1>6, <2>4
      <4>2. base + packetlist[j].number - 1 \in 0..(SeqRange - 1)
        BY <1>2, <2>3, <3>1, <4>1
      <4>3. (base + packetlist[j].number - 1) % SeqRange = base + packetlist[j].number - 1
        BY <1>2, <4>2
      <4> QED
        BY <1>6, <4>3
    <3>4. ASSUME NEW i \in 1..Len(packetlist')
          PROVE  /\ packetlist'[i].ext = base + packetlist'[i].number - 1
                 /\ 0 < packetlist'[i].number
      <4>1. CASE packetlist'[i] = e
        BY <1>2, <1>5, <3>2, <4>1
      <4>2. CASE packetlist'[i] # e
        <5>1. PICK j \in 1..Len(packetlist) : packetlist'[i] = packetlist[j]
          BY <1>7, <4>2
        <5>2. packetlist[j].number \in 1..count
          BY <1>6
        <5>3. 0 < packetlist[j].number
          BY ONLY <5>2
        <5>4. packetlist[j].ext = base + packetlist[j].number - 1
          BY <3>3
        <5> QED
          BY ONLY <5>1, <5>3, <5>4
      <4> QED
        BY <4>1, <4>2
    <3> QED
      BY <1>3, <1>6, <3>2, <3>4 DEF Exact
  <2> QED
    BY <1>2, <1>3, <2>6, <2>7 DEF OneByOne
<1> QED
  BY <1>8, <1>9, <1>10 DEF LinkInv

(* Where a valid source puts a packet: the cycle it counts it to.          *)
LEMMA NextExtended ==
  ASSUME LinkInv, NEW n \in net, Link!AcceptNext(n)
  PROVE  /\ numcycles' \in Nat /\ numcycles' % SeqRange = 0
         /\ exthighseqnr' \in Nat
         /\ numcycles' = exthighseqnr' - (exthighseqnr' % SeqRange)
<1> DEFINE seq == Link!SeqNr(n)
<1>1. /\ Link!TypeOK /\ Stored /\ validated
  BY DEF LinkInv, Link!AcceptNext
<1>2. /\ seq \in 0..(SeqRange - 1) /\ SeqRange \in Nat \ {0}
      /\ numcycles \in Nat /\ numcycles % SeqRange = 0 /\ exthighseqnr \in Nat
      /\ numcycles = exthighseqnr - (exthighseqnr % SeqRange)
  BY <1>1, NumberTyped, SeqRangeAssumption DEF Link!TypeOK, Stored
<1> HIDE DEF seq
<1>3. /\ numcycles' = IF Link!Wrapped(n) THEN numcycles + SeqRange ELSE numcycles
      /\ exthighseqnr' = IF seq >= Link!maxseq16 \/ Link!Wrapped(n)
                         THEN numcycles' + seq ELSE exthighseqnr
      /\ Link!Wrapped(n) => seq < Link!maxseq16
  BY DEF Link!AcceptNext, Link!Wrapped, seq
<1>4. numcycles' \in Nat /\ numcycles' % SeqRange = 0
  <2>1. CASE Link!Wrapped(n)
    <3>1. (numcycles + SeqRange) % SeqRange = 0
      BY <1>2, FromFullRounds
    <3>2. numcycles' = numcycles + SeqRange
      BY <1>3, <2>1
    <3> QED
      BY <1>2, <3>1, <3>2
  <2>2. CASE ~Link!Wrapped(n)
    BY <1>2, <1>3, <2>2
  <2> QED
    BY <2>1, <2>2
<1>5. CASE seq >= Link!maxseq16 \/ Link!Wrapped(n)
  <2>1. (numcycles' + seq) % SeqRange = seq
    BY <1>2, <1>4, FromFullRounds
  <2>2. exthighseqnr' = numcycles' + seq
    BY <1>3, <1>5
  <2>3. exthighseqnr' % SeqRange = seq
    BY <2>1, <2>2
  <2>4. exthighseqnr' \in Nat /\ numcycles' = exthighseqnr' - seq
    <3>1. seq \in Nat /\ numcycles' \in Nat
      BY <1>2, <1>4
    <3>2. \A x, y \in Nat : x + y \in Nat /\ x = (x + y) - y
      OBVIOUS
    <3> QED
      BY <2>2, <3>1, <3>2
  <2> QED
    BY <1>4, <2>3, <2>4
<1>6. CASE ~(seq >= Link!maxseq16 \/ Link!Wrapped(n))
  BY <1>2, <1>3, <1>4, <1>6
<1> QED
  BY <1>4, <1>5, <1>6

(* When less than half the numbers were skipped the cycle is the right one. *)
LEMMA NextExact ==
  ASSUME LinkInv, NEW n \in net, Link!AcceptNext(n), NEW h \in 0..count, h > 0, h < n,
         2 * (n - h) < SeqRange, exthighseqnr = base + h - 1
  PROVE  /\ numcycles' + Link!SeqNr(n) = base + n - 1
         /\ exthighseqnr' = base + n - 1
<1> DEFINE seq == Link!SeqNr(n)
           m   == Link!maxseq16
           d   == n - h
<1>1. Link!TypeOK /\ Stored /\ validated
  BY DEF LinkInv, Link!AcceptNext
<1>2. /\ n \in 1..count /\ count \in Nat /\ base \in 0..(SeqRange - 1)
      /\ SeqRange \in Nat \ {0} /\ exthighseqnr \in Nat
  BY <1>1, NumberTyped, SeqRangeAssumption DEF Link!TypeOK
<1>3. /\ m = exthighseqnr % SeqRange /\ m \in 0..(SeqRange - 1)
      /\ numcycles = exthighseqnr - m
  <2>1. m = exthighseqnr % SeqRange /\ numcycles = exthighseqnr - m
    BY <1>1 DEF Link!maxseq16, Stored
  <2> HIDE DEF m
  <2> QED
    BY <1>2, <2>1, Divided
<1>4. d \in 0..SeqRange /\ 2 * d < SeqRange /\ d > 0 /\ exthighseqnr + d = base + n - 1
  BY <1>2
<1>5. seq = (exthighseqnr + d) % SeqRange
  BY <1>2, <1>4 DEF Link!SeqNr
<1>6. /\ Link!Wrapped(n) <=> seq < m /\ (seq - m) % SeqRange < m - seq
      /\ numcycles' = IF Link!Wrapped(n) THEN numcycles + SeqRange ELSE numcycles
      /\ exthighseqnr' = IF seq >= m \/ Link!Wrapped(n) THEN numcycles' + seq ELSE exthighseqnr
  BY DEF Link!AcceptNext, Link!Wrapped
<1> HIDE DEF seq, m, d
<1>7. CASE m + d < SeqRange
  <2>1. seq = m + d
    BY <1>2, <1>3, <1>4, <1>5, <1>7, RemainderOfSum
  <2>2. seq >= m /\ ~Link!Wrapped(n)
    BY <1>3, <1>4, <1>6, <2>1
  <2> QED
    BY <1>2, <1>3, <1>4, <1>6, <2>1, <2>2 DEF seq
<1>8. CASE m + d >= SeqRange
  <2>1. seq = m + d - SeqRange
    BY <1>2, <1>3, <1>4, <1>5, <1>8, RemainderOfSum
  <2>2. seq < m /\ m - seq = SeqRange - d /\ d < SeqRange - d
    BY <1>2, <1>3, <1>4, <2>1
  <2>3. (seq - m) % SeqRange = d
    <3>1. seq - m = SeqRange * (-1) + d /\ -1 \in Int /\ d \in 0..(SeqRange - 1)
      BY <1>2, <1>3, <1>4, <2>1
    <3>2. (SeqRange * (-1) + d) % SeqRange = d
      BY <1>2, <3>1, RemainderUnique
    <3> QED
      BY <3>1, <3>2
  <2>4. Link!Wrapped(n)
    BY <1>6, <2>2, <2>3
  <2>5. numcycles' = numcycles + SeqRange /\ exthighseqnr' = numcycles' + seq
    BY <1>6, <2>4
  <2>6. numcycles' + seq = base + n - 1
    BY <1>2, <1>3, <1>4, <2>1, <2>5
  <2> QED
    BY <2>5, <2>6 DEF seq
<1> QED
  BY <1>2, <1>3, <1>4, <1>7, <1>8

LEMMA AcceptNextStep ==
  ASSUME LinkInv, NEW n \in net, Link!Arrives(n), Link!AcceptNext(n), UNCHANGED taken
  PROVE  LinkInv'
<1> DEFINE ext == numcycles' + Link!SeqNr(n)
           e   == Link!Entry(ext, n)
<1>1. Link!TypeOK /\ Stored /\ OneByOne
  BY DEF LinkInv
<1>2. /\ n \in 1..count /\ count \in Nat /\ base \in 0..(SeqRange - 1)
      /\ Link!SeqNr(n) \in 0..(SeqRange - 1) /\ SeqRange \in Nat \ {0}
  BY <1>1, NumberTyped, SeqRangeAssumption DEF Link!TypeOK
<1>3. /\ validated /\ validated' = validated
      /\ packetlist' = Link!Insert(packetlist, e)
      /\ UNCHANGED <<probation, prevseqnr, first, taken, base, window, count, lost>>
  BY DEF Link!AcceptNext, Link!Arrives
<1>4. /\ numcycles' \in Nat /\ numcycles' % SeqRange = 0
      /\ exthighseqnr' \in Nat
      /\ numcycles' = exthighseqnr' - (exthighseqnr' % SeqRange)
  BY NextExtended
<1>5. ext \in Nat
  BY <1>2, <1>4
<1> HIDE DEF ext
<1>6. e \in Entries /\ e.ext = ext /\ e.number = n
  BY <1>2, <1>5 DEF Link!Entry, Entries
<1> HIDE DEF e
<1>7. /\ packetlist \in Seq(Entries) /\ Sorted(packetlist)
      /\ \A i \in 1..Len(packetlist) :
           packetlist[i].ext \in Nat /\ packetlist[i].number \in 1..count
  BY <1>1, ListTyped DEF Stored
<1>8. /\ packetlist' \in Seq(Entries) /\ Sorted(packetlist')
      /\ \A i \in 1..Len(packetlist') :
           packetlist'[i] = e \/ \E j \in 1..Len(packetlist) : packetlist'[i] = packetlist[j]
  BY <1>3, <1>6, <1>7, Inserted
<1>9. Link!TypeOK'
  <2>1. \A i \in 1..Len(packetlist') : packetlist'[i].number \in 1..count
    BY <1>2, <1>6, <1>7, <1>8
  <2>2. packetlist' \in Seq([ext : Nat, number : 1..count])
    BY <1>2, <1>8, <2>1, TypedList
  <2>3. net' \subseteq 1..count /\ repeated' \in Nat
    BY <1>1, ArrivalTyped
  <2> QED
    BY <1>1, <1>3, <1>4, <2>2, <2>3 DEF Link!TypeOK
<1>10. Stored'
  BY <1>1, <1>3, <1>4, <1>8 DEF Stored
<1>11. OneByOne'
  <2> SUFFICES ASSUME Link!OnlyLoses' PROVE OneByOne'
    BY DEF OneByOne
  <2>1. Link!OnlyLoses
    BY <1>1 DEF Link!OnlyLoses, Link!Arrives, Link!TypeOK
  <2>2. PICK h \in 0..count :
          /\ InTurn(h)
          /\ validated /\ Link!FewLost /\ ~Link!WrapsOnProbation => Exact(h)
    BY <1>1, <2>1 DEF OneByOne
  <2>3. /\ h < n /\ (n - h) - 1 <= lost /\ \A m \in net' : n < m
        /\ Cardinality(Missing(n)') <= lost
    BY <1>1, <2>2, ArrivesInTurn
  <2>4. /\ h > 0 /\ taken <= h /\ taken \in Nat /\ first <= h /\ first \in Nat
        /\ \A i \in 1..Len(packetlist) : packetlist[i].number <= h
    BY <1>1, <1>3, <2>2 DEF InTurn, Link!TypeOK
  <2>5. \A i \in 1..Len(packetlist') : packetlist'[i].number <= n
    <3>1. \A i \in 1..Len(packetlist) : packetlist[i].number <= n
      BY <1>2, <1>7, <2>3, <2>4
    <3>2. e.number <= n
      BY <1>2, <1>6
    <3> QED
      BY <1>8, <3>1, <3>2
  <2>6. InTurn(n)'
    BY <1>2, <1>3, <2>3, <2>4, <2>5 DEF InTurn
  <2>7. ASSUME Link!FewLost', ~Link!WrapsOnProbation' PROVE Exact(n)'
    <3>1. Link!FewLost /\ ~Link!WrapsOnProbation
      BY <1>3, <2>7 DEF Link!FewLost, Link!WrapsOnProbation
    <3>2. Exact(h)
      BY <1>3, <2>2, <3>1
    <3>3. 2 * (n - h) < SeqRange
      BY <1>1, <1>2, <2>3, <3>1 DEF Link!FewLost, Link!TypeOK
    <3>4. ext = base + n - 1 /\ exthighseqnr' = base + n - 1
      BY <2>3, <2>4, <3>2, <3>3, NextExact DEF Exact, ext
    <3>5. ASSUME NEW i \in 1..Len(packetlist')
          PROVE  /\ packetlist'[i].ext = base + packetlist'[i].number - 1
                 /\ taken < packetlist'[i].number
      <4>1. CASE packetlist'[i] = e
        BY <1>2, <1>6, <2>3, <2>4, <3>4, <4>1
      <4>2. CASE packetlist'[i] # e
        BY <1>8, <3>2, <4>2 DEF Exact
      <4> QED
        BY <4>1, <4>2
    <3> QED
      BY <1>3, <3>4, <3>5 DEF Exact
  <2> QED
    BY <1>2, <1>3, <2>6, <2>7 DEF OneByOne
<1> QED
  BY <1>9, <1>10, <1>11 DEF LinkInv

LEMMA GetStep == ASSUME LinkInv, Link!GetNextPacket PROVE LinkInv'
<1>1. Link!TypeOK /\ Stored /\ OneByOne
  BY DEF LinkInv
<1>2. /\ validated /\ packetlist # <<>>
      /\ taken' = Head(packetlist).number /\ packetlist' = Tail(packetlist)
      /\ UNCHANGED <<base, window, count, net, lost, repeated, validated, probation,
                     prevseqnr, exthighseqnr, numcycles, first>>
  BY DEF Link!GetNextPacket, Link!network, Link!stats
<1>3. /\ packetlist \in Seq(Entries) /\ Sorted(packetlist)
      /\ \A i \in 1..Len(packetlist) :
           packetlist[i].ext \in Nat /\ packetlist[i].number \in 1..count
  BY <1>1, ListTyped DEF Stored
<1>4. /\ Len(packetlist) \in Nat \ {0} /\ taken' = packetlist[1].number
      /\ packetlist' \in Seq(Entries) /\ Len(packetlist') = Len(packetlist) - 1
      /\ \A i \in 1..Len(packetlist') : packetlist'[i] = packetlist[i + 1]
      /\ Sorted(packetlist')
  BY <1>2, <1>3, Tailed
<1>5. \A i \in 1..Len(packetlist') : i + 1 \in 1..Len(packetlist) /\ 1 < i + 1
  BY <1>4
<1>6. 1 \in 1..Len(packetlist) /\ taken' \in 1..count
  BY <1>3, <1>4
<1>7. count \in Nat
  BY <1>1 DEF Link!TypeOK
<1>8. Link!TypeOK'
  <2>1. packetlist' \in Seq([ext : Nat, number : 1..count])
    BY <1>3, <1>4, <1>5, <1>7, TypedList
  <2> QED
    BY <1>1, <1>2, <1>6, <2>1 DEF Link!TypeOK
<1>9. Stored'
  BY <1>1, <1>2, <1>4 DEF Stored
<1>10. OneByOne'
  <2> SUFFICES ASSUME Link!OnlyLoses PROVE OneByOne'
    BY <1>2 DEF OneByOne, Link!OnlyLoses
  <2>1. PICK h \in 0..count :
          /\ InTurn(h)
          /\ validated /\ Link!FewLost /\ ~Link!WrapsOnProbation => Exact(h)
    BY <1>1 DEF OneByOne
  <2>2. Missing(h)' = Missing(h)
    BY <1>2 DEF Missing
  <2>3. InTurn(h)'
    <3>1. taken' <= h
      BY <1>4, <1>6, <2>1 DEF InTurn
    <3>2. \A i \in 1..Len(packetlist') : packetlist'[i].number <= h
      BY <1>4, <1>5, <2>1 DEF InTurn
    <3> QED
      BY <1>2, <2>1, <2>2, <3>1, <3>2 DEF InTurn
  <2>4. ASSUME Link!FewLost', ~Link!WrapsOnProbation' PROVE Exact(h)'
    <3>1. Exact(h)
      BY <1>2, <2>1, <2>4 DEF Link!FewLost, Link!WrapsOnProbation
    <3>2. ASSUME NEW i \in 1..Len(packetlist')
          PROVE  /\ packetlist'[i].ext = base + packetlist'[i].number - 1
                 /\ taken' < packetlist'[i].number
      <4>1. i + 1 \in 1..Len(packetlist) /\ packetlist'[i] = packetlist[i + 1]
            /\ packetlist[1].ext < packetlist[i + 1].ext
        BY <1>3, <1>4, <1>5, <1>6 DEF Sorted
      <4>2. /\ packetlist[1].ext = base + packetlist[1].number - 1
            /\ packetlist[i + 1].ext = base + packetlist[i + 1].number - 1
        BY <1>6, <3>1, <4>1 DEF Exact
      <4>3. packetlist[1].number \in 1..count /\ packetlist[i + 1].number \in 1..count
        BY <1>3, <1>6, <4>1
      <4>4. base \in Nat
        BY <1>1, BasesAssumption, SeqRangeAssumption DEF Link!TypeOK
      <4>5. packetlist[1].number < packetlist[i + 1].number
        <5>1. /\ packetlist[1].number \in Nat /\ packetlist[i + 1].number \in Nat
              /\ base + packetlist[1].number - 1 < base + packetlist[i + 1].number - 1
          BY ONLY <1>7, <4>1, <4>2, <4>3
        <5>2. \A m, n \in Nat : base + m - 1 < base + n - 1 => m < n
          BY ONLY <4>4
        <5> QED
          BY ONLY <5>1, <5>2
      <4>6. packetlist'[i].ext = base + packetlist'[i].number - 1
        BY <4>1, <4>2
      <4>7. taken' < packetlist'[i].number
        BY <1>4, <4>1, <4>5
      <4> QED
        BY <4>6, <4>7
    <3> QED
      BY <1>2, <3>1, <3>2 DEF Exact
  <2> QED
    BY <1>2, <2>1, <2>3, <2>4 DEF OneByOne
<1> QED
  BY <1>8, <1>9, <1>10 DEF LinkInv

LEMMA LinkUnchanged == ASSUME LinkInv, UNCHANGED Link!vars PROVE LinkInv'
<1> USE DEF Link!vars, Link!network, Link!stats
<1>1. Link!TypeOK'
  BY DEF LinkInv, Link!TypeOK
<1>2. Stored'
  BY DEF LinkInv, Stored, Link!SeqNr
<1>3. OneByOne'
  BY DEF LinkInv, OneByOne, InTurn, Exact, Missing, Link!OnlyLoses, Link!FewLost,
         Link!WrapsOnProbation
<1> QED
  BY <1>1, <1>2, <1>3 DEF LinkInv

LEMMA StepLink == ASSUME LinkInv, [Link!Next]_(Link!vars) PROVE LinkInv'
<1>1. CASE Link!Send
  BY <1>1, SendStep
<1>2. ASSUME NEW n \in net, Link!Lose(n) PROVE LinkInv'
  BY <1>2, LoseStep
<1>3. ASSUME NEW n \in net, Link!ProcessRTPPacket(n) PROVE LinkInv'
  BY <1>3, OnProbationStep, AcceptFirstStep, AcceptNextStep DEF Link!ProcessRTPPacket
<1>4. CASE Link!GetNextPacket
  BY <1>4, GetStep
<1>5. CASE UNCHANGED Link!vars
  BY <1>5, LinkUnchanged
<1> QED
  BY <1>1, <1>2, <1>3, <1>4, <1>5 DEF Link!Next

-----------------------------------------------------------------------------
(* Every step of the stream is one of the link, or leaves it alone. *)
LEMMA StreamStep == [Next]_vars => [Link!Next]_(Link!vars)
<1> SUFFICES ASSUME [Next]_vars PROVE [Link!Next]_(Link!vars)
  OBVIOUS
<1> USE DEF Link!vars, Link!network, Link!stats, linkVars
<1>1. ASSUME NEW t \in Threads, Encode(t) PROVE UNCHANGED Link!vars
  BY <1>1 DEF Encode
<1>2. ASSUME NEW t \in Threads, Transmit(t) PROVE Link!Send
  BY <1>2 DEF Transmit
<1>3. ASSUME NEW n \in net, Lose(n) \/ Poll(n) PROVE Link!Lose(n) \/ Link!ProcessRTPPacket(n)
  BY <1>3 DEF Lose, Poll
<1>4. ASSUME RecvDataThread PROVE Link!GetNextPacket
  BY <1>4 DEF RecvDataThread
<1>5. ASSUME UNCHANGED vars PROVE UNCHANGED Link!vars
  BY <1>5 DEF vars
<1> QED
  BY <1>1, <1>2, <1>3, <1>4, <1>5 DEF Next, Link!Next

(* The stream uses the sequence numbers, the network and jrtplib's record  *)
(* of the source as RtpLink specifies them.                                *)
THEOREM StreamUsesLink == Spec => Link!Spec
<1>1. Init => Link!Init
  BY DEF Init
<1> QED
  BY <1>1, StreamStep, PTL DEF Spec, Link!Spec

(* And the packetizer as RtpSender specifies it. *)
THEOREM StreamUsesSender == Spec => Sender!Spec
<1> USE DEF Sender!vars, Sender!encapsulation, senderVars
<1>1. Init => Sender!Init
  BY DEF Init
<1>2. [Next]_vars => [Sender!Next]_(Sender!vars)
  <2> SUFFICES ASSUME [Next]_vars PROVE [Sender!Next]_(Sender!vars)
    OBVIOUS
  <2>1. ASSUME NEW t \in Threads, Encode(t) PROVE Sender!Next
    BY <2>1 DEF Encode, Sender!Next
  <2>2. ASSUME NEW t \in Threads, Transmit(t) PROVE Sender!Next
    BY <2>2 DEF Transmit, Sender!Next
  <2>3. ASSUME NEW n \in net, Lose(n) \/ Poll(n) PROVE UNCHANGED Sender!vars
    BY <2>3 DEF Lose, Poll
  <2>4. ASSUME RecvDataThread PROVE UNCHANGED Sender!vars
    BY <2>4 DEF RecvDataThread
  <2>5. ASSUME UNCHANGED vars PROVE UNCHANGED Sender!vars
    BY <2>5 DEF vars
  <2> QED
    BY <2>1, <2>2, <2>3, <2>4, <2>5 DEF Next
<1> QED
  BY <1>1, <1>2, PTL DEF Spec, Sender!Spec

LEMMA LinkInvariant == Spec => []LinkInv
<1>1. Init => LinkInv
  BY InitLink DEF Init
<1>2. LinkInv /\ [Next]_vars => LinkInv'
  BY StreamStep, StepLink
<1> QED
  BY <1>1, <1>2, PTL DEF Spec

(* Type correctness of the link: the cycles are full rounds, no number is  *)
(* outside its range, and what waits during probation never exceeds        *)
(* RTPINTERNALSOURCEDATA_MAXPROBATIONPACKETS.                              *)
THEOREM LinkTypeCorrect == Spec => []Link!TypeOK
<1>1. LinkInv => Link!TypeOK
  BY DEF LinkInv
<1> QED
  BY <1>1, LinkInvariant, PTL

(* The list of a source is sorted and holds no number twice, whatever the  *)
(* network does.                                                           *)
THEOREM SortedCorrect == Spec => []Sorted(packetlist)
<1>1. LinkInv => Sorted(packetlist)
  BY DEF LinkInv, Stored
<1> QED
  BY <1>1, LinkInvariant, PTL

(* What is taken is newer than what was taken before. *)
LEMMA TakenInTurn ==
  ASSUME LinkInv, [Link!Next]_(Link!vars), taken' # taken,
         Link!OnlyLoses, Link!FewLost, ~Link!WrapsOnProbation
  PROVE  taken' > taken
<1>1. Link!GetNextPacket
  BY DEF Link!Next, Link!Send, Link!Lose, Link!ProcessRTPPacket, Link!vars
<1>2. PICK h \in 0..count : Exact(h)
  BY <1>1 DEF LinkInv, OneByOne, Link!GetNextPacket
<1>3. /\ packetlist \in Seq(Entries) /\ Sorted(packetlist) /\ packetlist # <<>>
      /\ taken' = Head(packetlist).number
  BY <1>1, ListTyped DEF LinkInv, Stored, Link!GetNextPacket
<1>4. Len(packetlist) \in Nat \ {0} /\ Head(packetlist) = packetlist[1]
  BY <1>3, Tailed
<1>5. 1 \in 1..Len(packetlist) /\ taken < packetlist[1].number
  BY <1>2, <1>4 DEF Exact
<1> QED
  BY <1>3, <1>4, <1>5

(* On a network that only loses packets they are taken in the order in     *)
(* which they were sent, for every range of sequence numbers, every first  *)
(* number and every length of probation.                                   *)
THEOREM InOrderOutCorrect == Spec => InOrderOut
<1> DEFINE Newer == /\ taken' # taken
                    /\ Link!OnlyLoses /\ Link!FewLost /\ ~Link!WrapsOnProbation
                    => taken' > taken
<1>1. LinkInv /\ [Next]_vars => [Newer]_vars
  BY StreamStep, TakenInTurn
<1>2. Spec => [][Newer]_vars
  BY <1>1, LinkInvariant, PTL DEF Spec
<1> QED
  BY <1>2 DEF InOrderOut

-----------------------------------------------------------------------------
(* The place of a NAL unit in the buffer: the recursion of Ahead has a     *)
(* solution, and it grows.                                                 *)
SP == INSTANCE RtpSenderProofs

Units == [type : NALType, len : Nat \ {0}]

Adds(a, units, m) == a[0] = 0 /\ \A i \in 1..m : a[i] = a[i - 1] + 4 + units[i].len

LEMMA UnitTypes ==
  ASSUME NEW units \in Seq(Units)
  PROVE  /\ Len(units) \in Nat
         /\ \A i \in 1..Len(units) : units[i].len \in Nat \ {0} /\ units[i].type \in NALType
<1>1. Len(units) \in Nat /\ \A i \in 1..Len(units) : units[i] \in Units
  BY ElementOfSeq, LenProperties
<1> QED
  BY <1>1 DEF Units

LEMMA AddsExists ==
  ASSUME NEW units \in Seq(Units)
  PROVE  \E a \in [0..Len(units) -> Nat] : Adds(a, units, Len(units))
<1> DEFINE Upto(m) == \E a \in [0..m -> Nat] : Adds(a, units, m)
           T == {m \in Nat : m <= Len(units) => Upto(m)}
<1>1. Len(units) \in Nat /\ \A i \in 1..Len(units) : units[i].len \in Nat
  BY UnitTypes
<1>2. 0 \in T
  <2> DEFINE a == [i \in 0..0 |-> 0]
  <2>1. a \in [0..0 -> Nat] /\ a[0] = 0 /\ \A i : i \notin 1..0
    OBVIOUS
  <2> HIDE DEF a
  <2> QED
    BY <2>1 DEF Adds
<1>3. ASSUME NEW m \in Nat, m \in T PROVE m + 1 \in T
  <2> SUFFICES ASSUME m + 1 <= Len(units) PROVE Upto(m + 1)
    <3> HIDE DEF Upto
    <3> QED
      OBVIOUS
  <2>1. m <= Len(units) /\ units[m + 1].len \in Nat
    BY <1>1
  <2>2. PICK a \in [0..m -> Nat] : Adds(a, units, m)
    BY <1>3, <2>1
  <2> DEFINE b == [i \in 0..(m + 1) |-> IF i = m + 1 THEN a[m] + 4 + units[m + 1].len ELSE a[i]]
  <2>3. a[m] + 4 + units[m + 1].len \in Nat
    BY <2>1, <2>2
  <2>4. b \in [0..(m + 1) -> Nat] /\ b[0] = 0
    BY <2>2, <2>3 DEF Adds
  <2>5. ASSUME NEW i \in 1..(m + 1) PROVE b[i] = b[i - 1] + 4 + units[i].len
    <3>1. CASE i = m + 1
      <4>1. m + 1 \in 0..(m + 1) /\ m \in 0..(m + 1) /\ m # m + 1 /\ i - 1 = m
        BY <3>1
      <4> QED
        BY <3>1, <4>1
    <3>2. CASE i # m + 1
      <4>1. i \in 1..m /\ i \in 0..(m + 1) /\ i - 1 \in 0..(m + 1) /\ i - 1 # m + 1
        BY <3>2
      <4> QED
        BY <2>2, <3>2, <4>1 DEF Adds
    <3> QED
      BY <3>1, <3>2
  <2> HIDE DEF b
  <2> QED
    BY <2>4, <2>5 DEF Adds
<1>4. Len(units) \in T
  <2> HIDE DEF T
  <2> QED
    BY <1>1, <1>2, <1>3, SetInduction
<1> QED
  BY <1>1, <1>4

LEMMA AddsTyped ==
  ASSUME NEW units \in Seq(Units), NEW a, Adds(a, units, Len(units))
  PROVE  \A i \in 0..Len(units) : a[i] \in Nat
<1> DEFINE T == {m \in Nat : m <= Len(units) => a[m] \in Nat}
<1>1. Len(units) \in Nat /\ \A i \in 1..Len(units) : units[i].len \in Nat
  BY UnitTypes
<1>2. 0 \in T
  BY DEF Adds
<1>3. ASSUME NEW m \in Nat, m \in T PROVE m + 1 \in T
  <2> SUFFICES ASSUME m + 1 <= Len(units) PROVE a[m + 1] \in Nat
    OBVIOUS
  <2>1. m + 1 \in 1..Len(units) /\ (m + 1) - 1 = m /\ a[m] \in Nat
    BY <1>1, <1>3
  <2>2. a[m + 1] = a[m] + 4 + units[m + 1].len /\ units[m + 1].len \in Nat
    BY <1>1, <2>1 DEF Adds
  <2> QED
    BY <2>1, <2>2
<1>4. Nat \subseteq T
  <2> HIDE DEF T
  <2> QED
    BY <1>2, <1>3, SetInduction
<1> QED
  BY <1>1, <1>4

LEMMA AheadAdds ==
  ASSUME NEW units \in Seq(Units)
  PROVE  /\ Adds(Ahead(units), units, Len(units))
         /\ \A i \in 0..Len(units) : Ahead(units)[i] \in Nat
<1> DEFINE L == Len(units)
           Solves(a) == a = [i \in 0..L |-> IF i = 0 THEN 0 ELSE a[i - 1] + 4 + units[i].len]
           ahead[i \in 0..L] == IF i = 0 THEN 0 ELSE ahead[i - 1] + 4 + units[i].len
<1>1. Ahead(units) = ahead
  BY DEF Ahead
<1>2. L \in Nat
  BY UnitTypes
<1>3. PICK a \in [0..L -> Nat] : Adds(a, units, L)
  BY AddsExists
<1>4. Solves(a)
  <2>1. ASSUME NEW i \in 0..L
        PROVE  a[i] = IF i = 0 THEN 0 ELSE a[i - 1] + 4 + units[i].len
    <3>1. CASE i = 0
      BY <1>3, <3>1 DEF Adds
    <3>2. CASE i # 0
      <4>1. i \in 1..L
        BY <1>2, <3>2
      <4> QED
        BY <1>3, <3>2, <4>1 DEF Adds
    <3> QED
      BY <3>1, <3>2
  <2> QED
    BY <1>3, <2>1
<1>5. ahead = CHOOSE h : Solves(h)
  BY DEF ahead
<1>6. Solves(ahead)
  <2> HIDE DEF ahead, Solves
  <2> QED
    BY <1>4, <1>5
<1> HIDE DEF ahead
<1>7. Adds(ahead, units, L)
  <2> DEFINE F == [i \in 0..L |-> IF i = 0 THEN 0 ELSE ahead[i - 1] + 4 + units[i].len]
  <2>1. F[0] = 0 /\ \A i \in 1..L : F[i] = ahead[i - 1] + 4 + units[i].len
    <3>1. 0 \in 0..L /\ \A i \in 1..L : i \in 0..L /\ i # 0
      BY <1>2
    <3> QED
      BY <3>1
  <2>2. ahead = F
    BY <1>6
  <2> HIDE DEF F
  <2> QED
    BY <2>1, <2>2 DEF Adds
<1> QED
  BY <1>1, <1>7, AddsTyped

(* Sums and bounds of lengths. *)
LEMMA AddendBelow ==
  \A x, y, z, w \in Nat : x = y + 4 + z /\ x <= w => y <= w
OBVIOUS

LEMMA ShorterFits ==
  \A x, y, z, w \in Nat : y <= z /\ x + 4 + z <= w => x + 4 + y <= w
OBVIOUS

LEMMA AheadGrows ==
  ASSUME NEW units \in Seq(Units), NEW i \in 1..Len(units)
  PROVE  /\ Ahead(units)[0] = 0
         /\ Ahead(units)[i - 1] \in Nat
         /\ units[i].len \in Nat \ {0}
         /\ Ahead(units)[i] = Ahead(units)[i - 1] + 4 + units[i].len
         /\ Ahead(units)[i] <= Ahead(units)[Len(units)]
         /\ Ahead(units)[Len(units)] \in Nat
<1> DEFINE a == Ahead(units)
           L == Len(units)
           T == {k \in Nat : k <= L => a[L - k] <= a[L]}
<1>1. L \in Nat /\ \A j \in 1..L : units[j].len \in Nat \ {0}
  BY UnitTypes
<1>2. Adds(a, units, L) /\ \A j \in 0..L : a[j] \in Nat
  BY AheadAdds
<1> HIDE DEF a
<1>3. 0 \in T
  BY <1>1, <1>2
<1>4. ASSUME NEW k \in Nat, k \in T PROVE k + 1 \in T
  <2> SUFFICES ASSUME k + 1 <= L PROVE a[L - (k + 1)] <= a[L]
    OBVIOUS
  <2>1. /\ L - k \in 1..L /\ (L - k) - 1 = L - (k + 1) /\ L - (k + 1) \in 0..L
        /\ k <= L /\ L \in 0..L /\ L - k \in 0..L
    BY <1>1
  <2>2. a[L - k] = a[L - (k + 1)] + 4 + units[L - k].len /\ a[L - k] <= a[L]
    BY <1>2, <1>4, <2>1 DEF Adds
  <2>3. /\ a[L - (k + 1)] \in Nat /\ a[L] \in Nat /\ a[L - k] \in Nat
        /\ units[L - k].len \in Nat
    BY <1>1, <1>2, <2>1
  <2> QED
    BY ONLY <2>2, <2>3, AddendBelow, Zenon
<1>5. L - i \in T
  <2>1. L - i \in Nat
    BY <1>1
  <2> HIDE DEF T
  <2> QED
    BY <1>3, <1>4, <2>1, SetInduction
<1>6. L - i <= L /\ L - (L - i) = i /\ i - 1 \in 0..L /\ L \in 0..L
  BY <1>1
<1>7. a[i] <= a[L]
  BY <1>5, <1>6
<1>8. /\ a[0] = 0 /\ a[i] = a[i - 1] + 4 + units[i].len
      /\ a[i - 1] \in Nat /\ a[L] \in Nat
  BY <1>2, <1>6 DEF Adds
<1> QED
  BY <1>1, <1>7, <1>8 DEF a

-----------------------------------------------------------------------------
(* What is on the wire: the packets of the pictures, byte for byte, every  *)
(* picture in turn.  With one thread this is the invariant of RtpSender,   *)
(* which the packet that was sent last carries on.                         *)
Joined(p, q) == SP!Continues(p, q) \/ (p.marker /\ SP!Begins(q))

Wired ==
  /\ SP!Turns
  /\ wire \in Seq(SP!PacketType) /\ Len(wire) = count
  /\ \A k \in 1..count : wire[k].pic \in 1..called /\ SP!GoodPacket(wire[k], picture[wire[k].pic])
  /\ \A k \in 1..(count - 1) : Joined(wire[k], wire[k + 1])
  /\ last = IF count = 0 THEN SP!NoPacket ELSE wire[count]

LEMMA TurnsInit == SP!Init => SP!Turns
BY SP!InitTurns, MaxPayloadAssumption, MaxPicturesAssumption, PicturesAssumption
   DEF NALType, SP!NALType

LEMMA TurnsStep == SP!Turns /\ [SP!Next]_(SP!vars) => SP!Turns'
BY SP!StepTurns, MaxPayloadAssumption, MaxPicturesAssumption, PicturesAssumption
   DEF NALType, SP!NALType

LEMMA SameCardinality == ASSUME NEW S PROVE SP!Cardinality(S) = Cardinality(S)
BY DEF SP!Cardinality, Cardinality

(* The steps of the sender of this stream are those of RtpSender. *)
LEMMA SameInit == Sender!Init => SP!Init
BY DEF Sender!Init, SP!Init, Sender!NoPacket, SP!NoPacket, Sender!Packet, SP!Packet

LEMMA SameCall ==
  ASSUME NEW t \in Threads, NEW pic \in Pictures, Sender!SendH264Nalu(t, pic)
  PROVE  SP!SendH264Nalu(t, pic)
BY DEF Sender!SendH264Nalu, SP!SendH264Nalu, Sender!encapsulation, SP!encapsulation

LEMMA SameEncode ==
  ASSUME NEW t \in Threads, Sender!EncodeFrames(t)
  PROVE  SP!EncodeFrames(t)
<1>1. Sender!HasRTPFrames = SP!HasRTPFrames
  BY DEF Sender!HasRTPFrames, SP!HasRTPFrames, Sender!m_NALs, SP!m_NALs
<1>2. \A f, i, r : /\ Sender!Remaining(f, i, r) = SP!Remaining(f, i, r)
                   /\ Sender!FULen(f, i, r) = SP!FULen(f, i, r)
  BY DEF Sender!Remaining, SP!Remaining, Sender!FULen, SP!FULen
<1>3. \A f, i, r : Sender!FragmentOf(f, i, r) = SP!FragmentOf(f, i, r)
  BY <1>2 DEF Sender!FragmentOf, SP!FragmentOf, Sender!Packet, SP!Packet
<1>4. \A f, i : Sender!SingleNAL(f, i) = SP!SingleNAL(f, i)
  BY DEF Sender!SingleNAL, SP!SingleNAL, Sender!Packet, SP!Packet
<1> QED
  BY <1>1, <1>2, <1>3, <1>4 DEF Sender!EncodeFrames, SP!EncodeFrames

LEMMA SameSend ==
  ASSUME NEW t \in Threads, Sender!SendPacket(t)
  PROVE  SP!SendPacket(t)
BY DEF Sender!SendPacket, SP!SendPacket, Sender!encapsulation, SP!encapsulation,
       Sender!NoPacket, SP!NoPacket, Sender!Packet, SP!Packet

LEMMA SenderTurns ==
  ASSUME SP!Turns, NEW t \in Threads,
         Sender!SendPacket(t) \/ Sender!EncodeFrames(t)
           \/ \E pic \in Pictures : Sender!SendH264Nalu(t, pic)
  PROVE  SP!Turns'
<1>1. SP!Next
  BY SameCall, SameEncode, SameSend DEF SP!Next
<1> QED
  BY <1>1, TurnsStep

LEMMA WireFacts ==
  ASSUME Wired
  PROVE  /\ count \in Nat /\ called \in Nat
         /\ picture \in Seq(Pictures) /\ Len(picture) = called
         /\ \A f \in 1..called : picture[f] \in Seq(Units) /\ Len(picture[f]) \in Nat \ {0}
         /\ \A k \in 1..count : wire[k] \in SP!PacketType
<1>1. SP!TypeOK
  BY DEF Wired, SP!Turns, SP!IInv
<1>2. called \in Nat /\ picture \in Seq(Pictures) /\ Len(picture) = called
  BY <1>1, MaxPicturesAssumption DEF SP!TypeOK
<1>3. \A f \in 1..called : picture[f] \in Seq(Units) /\ picture[f] # <<>>
  <2> SUFFICES ASSUME NEW f \in 1..called PROVE picture[f] \in Seq(Units) /\ picture[f] # <<>>
    OBVIOUS
  <2>1. picture[f] \in Pictures
    BY <1>2, ElementOfSeq
  <2> QED
    BY <2>1, PicturesAssumption DEF Units
<1>4. \A f \in 1..called : Len(picture[f]) \in Nat \ {0}
  BY <1>3, EmptySeq, LenProperties
<1>5. count \in Nat /\ \A k \in 1..count : wire[k] \in SP!PacketType
  BY ElementOfSeq, LenProperties DEF Wired
<1> QED
  BY <1>2, <1>3, <1>4, <1>5

LEMMA InitWired == Init => Wired
<1> SUFFICES ASSUME Init PROVE Wired
  OBVIOUS
<1>1. SP!Init
  BY SameInit DEF Init
<1>2. SP!Turns
  BY <1>1, TurnsInit
<1>3. wire = <<>> /\ count = 0
  BY DEF Init, Link!Init
<1>4. wire \in Seq(SP!PacketType) /\ Len(wire) = 0
  BY <1>3, EmptySeq
<1>5. last = SP!NoPacket
  BY <1>1 DEF SP!Init
<1> QED
  BY <1>2, <1>3, <1>4, <1>5 DEF Wired

(* Pictures that were given stay as they are. *)
LEMMA Stays ==
  ASSUME Wired, called' \in Nat, called' >= called,
         \A f \in 1..called : picture'[f] = picture[f],
         UNCHANGED <<wire, count, last>>, SP!Turns'
  PROVE  Wired'
<1>1. count \in Nat /\ called \in Nat
  BY WireFacts
<1>2. ASSUME NEW k \in 1..count'
      PROVE  wire'[k].pic \in 1..called' /\ SP!GoodPacket(wire[k], picture[wire[k].pic])'
  <2>1. wire[k].pic \in 1..called /\ SP!GoodPacket(wire[k], picture[wire[k].pic])
    BY <1>2 DEF Wired
  <2>2. picture'[wire[k].pic] = picture[wire[k].pic]
    BY <2>1
  <2> QED
    BY <1>1, <2>1, <2>2 DEF SP!GoodPacket, SP!PayloadSize
<1>3. ASSUME NEW k \in 1..(count' - 1) PROVE Joined(wire[k], wire[k + 1])'
  <2>1. Joined(wire[k], wire[k + 1]) /\ k \in 1..count
    BY <1>1, <1>3 DEF Wired
  <2>2. picture'[wire[k].pic] = picture[wire[k].pic]
    BY <2>1 DEF Wired
  <2> QED
    BY <2>1, <2>2 DEF Joined, SP!Continues, SP!Begins
<1>4. SP!NoPacket' = SP!NoPacket /\ SP!PacketType' = SP!PacketType
  BY DEF SP!NoPacket, SP!Packet, SP!PacketType
<1> QED
  BY <1>2, <1>3, <1>4 DEF Wired

LEMMA EncodeWired == ASSUME Wired, NEW t \in Threads, Encode(t) PROVE Wired'
<1>1. /\ called \in Nat /\ picture \in Seq(Pictures) /\ Len(picture) = called
  BY WireFacts
<1>2. UNCHANGED <<wire, count>>
  BY DEF Encode, linkVars
<1>3. SP!Turns'
  BY SenderTurns DEF Encode, Wired
<1>4. CASE Sender!EncodeFrames(t)
  <2>1. UNCHANGED <<called, picture, last>>
    BY <1>4 DEF Sender!EncodeFrames
  <2> QED
    BY <1>1, <1>2, <1>3, <2>1, Stays
<1>5. ASSUME NEW pic \in Pictures, Sender!SendH264Nalu(t, pic) PROVE Wired'
  <2>1. called' = called + 1 /\ picture' = Append(picture, pic) /\ last' = last
    BY <1>5 DEF Sender!SendH264Nalu
  <2>2. \A f \in 1..called : picture'[f] = picture[f]
    BY <1>1, <2>1, AppendProperties
  <2> QED
    BY <1>1, <1>2, <1>3, <2>1, <2>2, Stays
<1> QED
  BY <1>4, <1>5 DEF Encode

LEMMA OneCaller == Wired => SP!OneThread
<1> SUFFICES ASSUME Wired PROVE Cardinality(callers) <= 1
  BY SameCardinality DEF SP!OneThread
<1>1. PICK t \in Threads : Threads = {t}
  BY OneThreadAssumption
<1>2. callers \subseteq {t}
  BY <1>1 DEF Wired, SP!Turns, SP!IInv, SP!TypeOK
<1>3. IsFiniteSet({t}) /\ Cardinality({t}) = 1
  BY FS_Singleton
<1>4. Cardinality(callers) <= Cardinality({t})
  BY <1>2, <1>3, FS_Subset
<1> QED
  BY <1>3, <1>4

LEMMA TransmitWired == ASSUME Wired, NEW t \in Threads, Transmit(t) PROVE Wired'
<1> DEFINE p == inHand[t]
<1>1. count \in Nat /\ called \in Nat /\ \A k \in 1..count : wire[k] \in SP!PacketType
  BY WireFacts
<1>2. /\ pc[t] = "send" /\ last' = p /\ wire' = Append(wire, p)
      /\ count' = count + 1 /\ UNCHANGED <<called, picture>>
  BY DEF Transmit, Sender!SendPacket, Link!Send
<1>3. SP!Turns /\ SP!Turns' /\ SP!TypeOK
  BY SenderTurns DEF Transmit, Wired, SP!Turns, SP!IInv
<1>4. p \in SP!PacketType /\ p.pic \in 1..called /\ SP!GoodPacket(p, picture[p.pic])
  <2>1. p \in SP!Made
    BY <1>2 DEF SP!Made, SP!Sending
  <2> QED
    BY <1>3, <2>1 DEF SP!Turns, SP!IInv, SP!TypeOK
<1>5. SP!Follows(p)
  <2>1. SP!InTurn /\ t \in SP!Sending
    BY <1>2, <1>3, OneCaller DEF SP!Turns, SP!Sending
  <2> QED
    BY <2>1 DEF SP!InTurn
<1> HIDE DEF p
<1>6. /\ wire' \in Seq(SP!PacketType) /\ Len(wire') = count + 1
      /\ \A k \in 1..count : wire'[k] = wire[k]
      /\ wire'[count + 1] = p
  BY <1>2, <1>4, AppendProperties DEF Wired
<1>7. ASSUME NEW k \in 1..count'
      PROVE  wire'[k].pic \in 1..called' /\ SP!GoodPacket(wire[k], picture[wire[k].pic])'
  <2>1. wire'[k] = p \/ (k \in 1..count /\ wire'[k] = wire[k])
    BY <1>1, <1>2, <1>6
  <2>2. wire'[k].pic \in 1..called /\ SP!GoodPacket(wire'[k], picture[wire'[k].pic])
    BY <1>4, <2>1 DEF Wired
  <2> QED
    BY <1>2, <2>2 DEF SP!GoodPacket, SP!PayloadSize
<1>8. ASSUME NEW k \in 1..(count' - 1) PROVE Joined(wire[k], wire[k + 1])'
  <2>1. k \in 1..count /\ wire'[k] = wire[k]
    BY <1>1, <1>2, <1>6
  <2>2. CASE k = count
    <3>1. last = wire[k] /\ last.pic \in 1..called
      BY <2>1, <2>2 DEF Wired
    <3>2. last # SP!NoPacket
      BY <1>1, <3>1 DEF SP!NoPacket, SP!Packet
    <3>3. Joined(last, p)
      BY <1>5, <3>2 DEF SP!Follows, Joined
    <3> QED
      BY <1>2, <1>6, <2>1, <2>2, <3>1, <3>3 DEF Joined, SP!Continues, SP!Begins
  <2>3. CASE k # count
    <3>1. k \in 1..(count - 1) /\ k + 1 \in 1..count
      BY <1>1, <2>1, <2>3
    <3>2. Joined(wire[k], wire[k + 1]) /\ wire'[k + 1] = wire[k + 1]
      BY <1>6, <3>1 DEF Wired
    <3> QED
      BY <1>2, <2>1, <3>2 DEF Joined, SP!Continues, SP!Begins
  <2> QED
    BY <2>2, <2>3
<1>9. last' = wire'[count'] /\ count' # 0
  BY <1>1, <1>2, <1>6
<1>10. SP!NoPacket' = SP!NoPacket /\ SP!PacketType' = SP!PacketType
  BY DEF SP!NoPacket, SP!Packet, SP!PacketType
<1> QED
  BY <1>2, <1>3, <1>6, <1>7, <1>8, <1>9, <1>10 DEF Wired

(* Nobody else touches the sender or the wire. *)
LEMMA OthersWired ==
  ASSUME Wired, UNCHANGED <<senderVars, wire, count>>
  PROVE  Wired'
<1>1. [SP!Next]_(SP!vars)
  BY DEF SP!vars, SP!encapsulation, senderVars
<1>2. SP!Turns'
  BY <1>1, TurnsStep DEF Wired
<1>3. called \in Nat /\ UNCHANGED <<called, picture, last>>
  BY WireFacts DEF senderVars
<1> QED
  BY <1>2, <1>3, Stays

LEMMA StepWired == Wired /\ [Next]_vars => Wired'
<1> SUFFICES ASSUME Wired, [Next]_vars PROVE Wired'
  OBVIOUS
<1>1. ASSUME NEW t \in Threads, Encode(t) PROVE Wired'
  BY <1>1, EncodeWired
<1>2. ASSUME NEW t \in Threads, Transmit(t) PROVE Wired'
  BY <1>2, TransmitWired
<1>3. ASSUME NEW n \in net, Lose(n) \/ Poll(n) PROVE Wired'
  <2>1. UNCHANGED <<senderVars, wire, count>>
    BY <1>3 DEF Lose, Poll, Link!Lose, Link!ProcessRTPPacket, Link!Arrives
  <2> QED
    BY <2>1, OthersWired
<1>4. CASE RecvDataThread
  <2>1. UNCHANGED <<senderVars, wire, count>>
    BY <1>4 DEF RecvDataThread, Link!GetNextPacket, Link!network
  <2> QED
    BY <2>1, OthersWired
<1>5. CASE UNCHANGED vars
  <2>1. UNCHANGED <<senderVars, wire, count>>
    BY <1>5 DEF vars, linkVars
  <2> QED
    BY <2>1, OthersWired
<1> QED
  BY <1>1, <1>2, <1>3, <1>4, <1>5 DEF Next

-----------------------------------------------------------------------------
(* The buffer of the receiver while the packets of one picture come in     *)
(* turn: what it holds of the picture, as far as byte e of NAL unit i.     *)
NALs == [type : NALType, offset : Nat, pieces : Seq(SP!PacketType)]

UnitOf(n, f, units, i, e) ==
  /\ n \in NALs /\ n.pieces # <<>> /\ Intact(n)
  /\ n.type = units[i].type /\ n.offset = Ahead(units)[i - 1] + 4
  /\ n.pieces[1].pic = f /\ n.pieces[1].nal = i /\ n.pieces[1].first = 1
  /\ LET end == n.pieces[Len(n.pieces)]
     IN  end.pic = f /\ end.nal = i /\ end.last = e

Whole(frame, f, units, i) ==
  /\ frame.m_NALs \in Seq(NALs) /\ Len(frame.m_NALs) = i
  /\ \A j \in 1..i : UnitOf(frame.m_NALs[j], f, units, j, units[j].len)
  /\ frame.m_encodedFrameLen = Ahead(units)[i]

Partial(frame, f, units, i, e) ==
  /\ frame.m_NALs \in Seq(NALs) /\ Len(frame.m_NALs) = i
  /\ \A j \in 1..(i - 1) : UnitOf(frame.m_NALs[j], f, units, j, units[j].len)
  /\ UnitOf(frame.m_NALs[i], f, units, i, e)
  /\ frame.m_encodedFrameLen = Ahead(units)[i - 1] + 4 + e

(* m_currentFU counts the fragments of a NAL unit that is not complete. *)
Assembled(frame, f, units, i, e) ==
  IF e = units[i].len
  THEN Whole(frame, f, units, i) /\ frame.m_currentFU = 0
  ELSE /\ Partial(frame, f, units, i, e)
       /\ frame.m_currentFU \in 1..(FURange - 1)
       /\ frame.m_currentFU * (MaxPayload - 2) = e - 1

(* The buffer that packet q carries on. *)
Ready(frame, f, units, q) ==
  IF q.first = 1
  THEN Whole(frame, f, units, q.nal - 1) /\ frame.m_currentFU = 0
  ELSE /\ q.first - 1 \in Nat /\ q.first - 1 # units[q.nal].len
       /\ Assembled(frame, f, units, q.nal, q.first - 1)

LEMMA PacketTyped ==
  ASSUME NEW p \in SP!PacketType
  PROVE  /\ p.first \in Nat /\ p.last \in Nat /\ p.nal \in Nat /\ p.type \in NALType
         /\ p.start \in BOOLEAN /\ p.end \in BOOLEAN /\ p.marker \in BOOLEAN
BY DEF SP!PacketType, NALType, SP!NALType

LEMMA OneNAL ==
  ASSUME NEW f, NEW units \in Seq(Units), NEW i \in 1..Len(units), NEW p \in SP!PacketType,
         p.pic = f, p.nal = i, p.first = 1, p.type = units[i].type
  PROVE  UnitOf(Receiver!NALU(p, Ahead(units)[i - 1] + 4), f, units, i, p.last)
<1> DEFINE n == Receiver!NALU(p, Ahead(units)[i - 1] + 4)
<1>1. /\ n = [type |-> p.type, offset |-> Ahead(units)[i - 1] + 4, pieces |-> <<p>>]
      /\ n.type = p.type /\ n.offset = Ahead(units)[i - 1] + 4 /\ n.pieces = <<p>>
  BY DEF Receiver!NALU
<1>2. <<p>> \in Seq(SP!PacketType) /\ <<p>> # <<>> /\ Len(<<p>>) = 1 /\ <<p>>[1] = p
  OBVIOUS
<1>3. Ahead(units)[i - 1] + 4 \in Nat
  BY AheadGrows
<1>4. n \in NALs
  BY <1>1, <1>2, <1>3, PacketTyped DEF NALs
<1> HIDE DEF n
<1>5. Intact(n)
  BY <1>1, <1>2 DEF Intact
<1> QED
  BY <1>1, <1>2, <1>4, <1>5 DEF UnitOf, n

(* Sums of the length of the buffer. *)
LEMMA WithHeader == \A x, y \in Nat : x + 5 + (y - 1) = x + 4 + y
OBVIOUS

LEMMA WithoutHeader == \A x, y, z \in Nat : (x + 4 + z) + 0 + (y - z) = x + 4 + y
OBVIOUS

(* What has room in the buffer does not wrap. *)
LEMMA NotWrapped ==
  ASSUME NEW n \in Nat, n <= MaxFrameSize
  PROVE  n % LenRange = n
<1>1. LenRange \in Nat \ {0} /\ n \in 0..(LenRange - 1)
  BY BufferAssumption
<1>2. LenRange * 0 + n = n
  BY <1>1
<1>3. (LenRange * 0 + n) % LenRange = n
  BY ONLY <1>1, RemainderUnique
<1> QED
  BY ONLY <1>2, <1>3, Zenon

LEMMA ShorterData ==
  ASSUME NEW x \in Nat, NEW y \in Nat, NEW len \in Nat, NEW a \in Nat, NEW max \in Nat,
         y <= x, x <= len, a + 4 + len <= max
  PROVE  x - y \in Nat /\ x - y <= max
OBVIOUS

(* AddDataToEncodedFrame with a header byte: the next NAL unit begins. *)
LEMMA AddsHeaded ==
  ASSUME NEW f, NEW units \in Seq(Units), NEW i \in 1..Len(units), NEW p \in SP!PacketType,
         p.pic = f, p.nal = i, p.first = 1, p.type = units[i].type,
         p.last >= 1, p.last <= units[i].len, Receiver!HasHeader(p),
         Ahead(units)[Len(units)] <= MaxFrameSize,
         NEW frame, Whole(frame, f, units, i - 1)
  PROVE  /\ ~Receiver!Spills(frame, p)
         /\ Partial(Receiver!AddHeaded(frame, p), f, units, i, p.last)
         /\ Receiver!AddHeaded(frame, p).m_currentFU = frame.m_currentFU
<1> DEFINE a == Ahead(units)
           n == Receiver!NALU(p, a[i - 1] + 4)
           g == Receiver!AddHeaded(frame, p)
<1>1. /\ p.last \in Nat /\ MaxFrameSize \in Nat /\ i \in Nat \ {0}
      /\ units[i].len \in Nat /\ a[i - 1] \in Nat
      /\ a[i - 1] + 4 + units[i].len <= MaxFrameSize
  <2>1. /\ units[i].len \in Nat /\ a[i - 1] \in Nat /\ a[Len(units)] \in Nat
        /\ a[i] = a[i - 1] + 4 + units[i].len /\ a[i] <= a[Len(units)]
    BY AheadGrows
  <2>2. p.last \in Nat /\ MaxFrameSize \in Nat /\ a[Len(units)] <= MaxFrameSize
    BY PacketTyped, BufferAssumption
  <2>3. i \in Nat \ {0}
    BY UnitTypes
  <2> HIDE DEF a
  <2> QED
    BY ONLY <2>1, <2>2, <2>3
<1>2. Receiver!DataLen(p) = p.last - 1
  <2>1. Receiver!Bytes(p) = p.last - 1
    BY DEF Receiver!Bytes
  <2>2. p.last - 1 \in Nat /\ p.last - 1 <= MaxFrameSize
    <3>1. p.last <= units[i].len /\ 1 <= p.last /\ 1 \in Nat
      BY <1>1
    <3> QED
      BY ONLY <1>1, <3>1, ShorterData, Zenon
  <2> QED
    BY <2>1, <2>2, NotWrapped, Zenon DEF Receiver!DataLen
<1>3. /\ frame.m_NALs \in Seq(NALs) /\ Len(frame.m_NALs) = i - 1
      /\ frame.m_encodedFrameLen = a[i - 1]
      /\ \A j \in 1..(i - 1) : UnitOf(frame.m_NALs[j], f, units, j, units[j].len)
  BY DEF Whole
<1>4. UnitOf(n, f, units, i, p.last)
  BY OneNAL
<1>5. n \in NALs
  BY <1>4 DEF UnitOf
<1> HIDE DEF a, n
<1>6. /\ Receiver!End(frame, p) = a[i - 1] + 4 + p.last
      /\ Receiver!Room(frame, p) /\ ~Receiver!Spills(frame, p)
  <2>1. frame.m_encodedFrameLen = a[i - 1]
    BY <1>3
  <2>2. p.last <= units[i].len
    OBVIOUS
  <2>3. Receiver!End(frame, p) = a[i - 1] + 4 + p.last
    <3>1. p.last \in Nat /\ a[i - 1] \in Nat
      BY <1>1
    <3>2. a[i - 1] + 5 + (p.last - 1) = a[i - 1] + 4 + p.last
      BY ONLY <3>1, WithHeader, Zenon
    <3>3. Receiver!End(frame, p) = frame.m_encodedFrameLen + 5 + Receiver!DataLen(p)
      BY DEF Receiver!End, Receiver!headerLen
    <3> QED
      BY ONLY <1>2, <2>1, <3>2, <3>3, Zenon
  <2>4. a[i - 1] + 4 + p.last <= MaxFrameSize
    BY ONLY <1>1, <2>2, ShorterFits, Zenon
  <2>5. Receiver!End(frame, p) \in Nat /\ Receiver!End(frame, p) <= MaxFrameSize
    BY ONLY <1>1, <2>3, <2>4
  <2>6. Receiver!End(frame, p) % LenRange = Receiver!End(frame, p)
    BY <2>5, NotWrapped, Zenon
  <2>7. ~(Receiver!End(frame, p) > MaxFrameSize)
    BY ONLY <1>1, <2>5
  <2> QED
    BY ONLY <2>3, <2>5, <2>6, <2>7, Zenon DEF Receiver!Room, Receiver!Spills
<1>7. g = Receiver!Frame(Append(frame.m_NALs, n), Receiver!End(frame, p), frame.m_currentFU)
  BY <1>3, <1>6 DEF Receiver!AddHeaded, n
<1>8. /\ g.m_NALs = Append(frame.m_NALs, n) /\ g.m_currentFU = frame.m_currentFU
      /\ g.m_encodedFrameLen = Receiver!End(frame, p)
  BY <1>7 DEF Receiver!Frame
<1> HIDE DEF g
<1>9. g.m_encodedFrameLen = a[i - 1] + 4 + p.last
  BY <1>6, <1>8
<1>10. /\ g.m_NALs \in Seq(NALs) /\ Len(g.m_NALs) = i
       /\ \A j \in 1..(i - 1) : g.m_NALs[j] = frame.m_NALs[j]
       /\ g.m_NALs[i] = n
  <2>1. (i - 1) + 1 = i
    BY <1>1
  <2> QED
    BY <1>3, <1>5, <1>8, <2>1, AppendProperties
<1>11. Partial(g, f, units, i, p.last)
  BY <1>3, <1>4, <1>9, <1>10 DEF Partial, a
<1> QED
  BY <1>6, <1>8, <1>11 DEF g

(* And without: the NAL unit goes on. *)
LEMMA MoreOfUnit ==
  ASSUME NEW f, NEW units, NEW i, NEW e \in Nat, NEW p \in SP!PacketType,
         p.pic = f, p.nal = i, p.first = e + 1, NEW n, UnitOf(n, f, units, i, e)
  PROVE  UnitOf(Receiver!More(n, p), f, units, i, p.last)
<1> DEFINE m == Receiver!More(n, p)
           L == Len(n.pieces)
<1>1. /\ n \in NALs /\ n.pieces \in Seq(SP!PacketType) /\ n.pieces # <<>>
      /\ n.type \in NALType /\ n.offset \in Nat
  BY DEF UnitOf, NALs
<1>2. /\ m = [type |-> n.type, offset |-> n.offset, pieces |-> Append(n.pieces, p)]
      /\ m.type = n.type /\ m.offset = n.offset /\ m.pieces = Append(n.pieces, p)
  BY DEF Receiver!More
<1>3. L \in Nat \ {0}
  BY <1>1, EmptySeq, LenProperties
<1>4. /\ m.pieces \in Seq(SP!PacketType) /\ m.pieces # <<>> /\ Len(m.pieces) = L + 1
      /\ \A j \in 1..L : m.pieces[j] = n.pieces[j]
      /\ m.pieces[L + 1] = p
  BY <1>1, <1>2, AppendProperties
<1>5. m \in NALs
  BY <1>1, <1>2, <1>4 DEF NALs
<1> HIDE DEF m, L
<1>6. Intact(m)
  <2> SUFFICES ASSUME NEW j \in 1..L PROVE Continued(m.pieces[j], m.pieces[j + 1])
    BY <1>3, <1>4 DEF Intact
  <2>1. CASE j = L
    <3>1. /\ n.pieces[L].pic = f /\ n.pieces[L].nal = i /\ n.pieces[L].last = e
          /\ m.pieces[L] = n.pieces[L]
      BY <1>3, <1>4 DEF UnitOf, L
    <3> QED
      BY <1>4, <2>1, <3>1 DEF Continued
  <2>2. CASE j # L
    <3>1. j \in 1..(L - 1) /\ j + 1 \in 1..L
      BY <1>3, <2>2
    <3>2. Continued(n.pieces[j], n.pieces[j + 1])
      BY <3>1 DEF UnitOf, Intact, L
    <3> QED
      BY <1>4, <3>1, <3>2
  <2> QED
    BY <2>1, <2>2
<1>7. m.pieces[1] = n.pieces[1] /\ m.pieces[Len(m.pieces)] = p
  BY <1>3, <1>4
<1> QED
  BY <1>2, <1>4, <1>5, <1>6, <1>7 DEF UnitOf, m

LEMMA AddsMore ==
  ASSUME NEW f, NEW units \in Seq(Units), NEW i \in 1..Len(units), NEW p \in SP!PacketType,
         NEW e \in Nat, p.pic = f, p.nal = i, p.first = e + 1,
         p.first <= p.last, p.last <= units[i].len, ~Receiver!HasHeader(p),
         Ahead(units)[Len(units)] <= MaxFrameSize,
         NEW frame, Partial(frame, f, units, i, e)
  PROVE  /\ ~Receiver!Spills(frame, p)
         /\ Partial(Receiver!AddMore(frame, p), f, units, i, p.last)
         /\ Receiver!AddMore(frame, p).m_currentFU = frame.m_currentFU
<1> DEFINE a == Ahead(units)
           n == Receiver!More(frame.m_NALs[i], p)
           g == Receiver!AddMore(frame, p)
<1>1. /\ p.last \in Nat /\ MaxFrameSize \in Nat /\ i \in Nat \ {0}
      /\ units[i].len \in Nat /\ a[i - 1] \in Nat
      /\ a[i - 1] + 4 + units[i].len <= MaxFrameSize
  <2>1. /\ units[i].len \in Nat /\ a[i - 1] \in Nat /\ a[Len(units)] \in Nat
        /\ a[i] = a[i - 1] + 4 + units[i].len /\ a[i] <= a[Len(units)]
    BY AheadGrows
  <2>2. p.last \in Nat /\ MaxFrameSize \in Nat /\ a[Len(units)] <= MaxFrameSize
    BY PacketTyped, BufferAssumption
  <2>3. i \in Nat \ {0}
    BY UnitTypes
  <2> HIDE DEF a
  <2> QED
    BY ONLY <2>1, <2>2, <2>3
<1>2. Receiver!DataLen(p) = p.last - e
  <2>1. Receiver!Bytes(p) = p.last - p.first + 1
    BY DEF Receiver!Bytes
  <2>2. p.last - p.first + 1 = p.last - e
    BY <1>1
  <2>3. p.last - e \in Nat /\ p.last - e <= MaxFrameSize
    <3>1. p.last <= units[i].len /\ e <= p.last /\ e \in Nat
      BY <1>1
    <3> QED
      BY ONLY <1>1, <3>1, ShorterData, Zenon
  <2> QED
    BY <2>1, <2>2, <2>3, NotWrapped, Zenon DEF Receiver!DataLen
<1>3. /\ frame.m_NALs \in Seq(NALs) /\ Len(frame.m_NALs) = i
      /\ frame.m_encodedFrameLen = a[i - 1] + 4 + e
      /\ \A j \in 1..(i - 1) : UnitOf(frame.m_NALs[j], f, units, j, units[j].len)
      /\ UnitOf(frame.m_NALs[i], f, units, i, e)
  BY DEF Partial
<1>4. UnitOf(n, f, units, i, p.last)
  BY <1>3, MoreOfUnit
<1>5. n \in NALs
  BY <1>4 DEF UnitOf
<1> HIDE DEF a, n
<1>6. /\ Receiver!End(frame, p) = a[i - 1] + 4 + p.last
      /\ Receiver!Room(frame, p) /\ ~Receiver!Spills(frame, p)
  <2>1. frame.m_encodedFrameLen = a[i - 1] + 4 + e
    BY <1>3
  <2>2. p.last <= units[i].len
    OBVIOUS
  <2>3. Receiver!End(frame, p) = a[i - 1] + 4 + p.last
    <3>1. p.last \in Nat /\ a[i - 1] \in Nat /\ e \in Nat
      BY <1>1
    <3>2. (a[i - 1] + 4 + e) + 0 + (p.last - e) = a[i - 1] + 4 + p.last
      BY ONLY <3>1, WithoutHeader, Zenon
    <3>3. Receiver!End(frame, p) = frame.m_encodedFrameLen + 0 + Receiver!DataLen(p)
      BY DEF Receiver!End, Receiver!headerLen
    <3> QED
      BY ONLY <1>2, <2>1, <3>2, <3>3, Zenon
  <2>4. a[i - 1] + 4 + p.last <= MaxFrameSize
    BY ONLY <1>1, <2>2, ShorterFits, Zenon
  <2>5. Receiver!End(frame, p) \in Nat /\ Receiver!End(frame, p) <= MaxFrameSize
    BY ONLY <1>1, <2>3, <2>4
  <2>6. Receiver!End(frame, p) % LenRange = Receiver!End(frame, p)
    BY <2>5, NotWrapped, Zenon
  <2>7. ~(Receiver!End(frame, p) > MaxFrameSize)
    BY ONLY <1>1, <2>5
  <2> QED
    BY ONLY <2>3, <2>5, <2>6, <2>7, Zenon DEF Receiver!Room, Receiver!Spills
<1>7. g = Receiver!Frame([frame.m_NALs EXCEPT ![i] = n], Receiver!End(frame, p),
                         frame.m_currentFU)
  BY <1>3, <1>6 DEF Receiver!AddMore, n
<1>8. /\ g.m_NALs = [frame.m_NALs EXCEPT ![i] = n] /\ g.m_currentFU = frame.m_currentFU
      /\ g.m_encodedFrameLen = Receiver!End(frame, p)
  BY <1>7 DEF Receiver!Frame
<1> HIDE DEF g
<1>9. g.m_encodedFrameLen = a[i - 1] + 4 + p.last
  BY <1>6, <1>8
<1>10. i \in 1..Len(frame.m_NALs)
  BY <1>1, <1>3
<1>11. /\ g.m_NALs \in Seq(NALs) /\ Len(g.m_NALs) = i
       /\ \A j \in 1..i : g.m_NALs[j] = IF j = i THEN n ELSE frame.m_NALs[j]
  BY <1>3, <1>5, <1>8, <1>10, ExceptSeq
<1>12. Partial(g, f, units, i, p.last)
  <2>1. \A j \in 1..(i - 1) : g.m_NALs[j] = frame.m_NALs[j]
    <3>1. \A j \in 1..(i - 1) : j \in 1..i /\ j # i
      BY <1>1
    <3> QED
      BY <1>11, <3>1
  <2>2. g.m_NALs[i] = n
    BY <1>1, <1>11
  <2> QED
    BY <1>3, <1>4, <1>9, <1>11, <2>1, <2>2 DEF Partial, a
<1> QED
  BY <1>6, <1>8, <1>12 DEF g

-----------------------------------------------------------------------------
(* SetFromRTPFrame on the packet that is due. *)
LEMMA Completed ==
  ASSUME NEW f, NEW units \in Seq(Units), NEW i \in 1..Len(units), NEW frame,
         Partial(frame, f, units, i, units[i].len)
  PROVE  Whole(frame, f, units, i)
<1>1. /\ Ahead(units)[i] = Ahead(units)[i - 1] + 4 + units[i].len
      /\ i \in Nat \ {0}
  BY AheadGrows, UnitTypes
<1>2. \A j \in 1..i : UnitOf(frame.m_NALs[j], f, units, j, units[j].len)
  <2>1. \A j \in 1..i : j = i \/ j \in 1..(i - 1)
    BY <1>1
  <2> QED
    BY <2>1 DEF Partial
<1> QED
  BY <1>1, <1>2 DEF Partial, Whole

LEMMA CountingKeeps ==
  ASSUME NEW f, NEW units, NEW i, NEW e, NEW frame, NEW fu
  PROVE  LET g == Receiver!Counting(frame, fu)
         IN  /\ Whole(frame, f, units, i) => Whole(g, f, units, i)
             /\ Partial(frame, f, units, i, e) => Partial(g, f, units, i, e)
             /\ g.m_currentFU = fu
<1> DEFINE g == Receiver!Counting(frame, fu)
<1>1. /\ g.m_NALs = frame.m_NALs /\ g.m_currentFU = fu
      /\ g.m_encodedFrameLen = frame.m_encodedFrameLen
  BY DEF Receiver!Counting, Receiver!Frame
<1> HIDE DEF g
<1> QED
  BY <1>1 DEF Whole, Partial, g

LEMMA CountingSpills ==
  ASSUME NEW frame, NEW fu, NEW p
  PROVE  Receiver!Spills(Receiver!Counting(frame, fu), p) <=> Receiver!Spills(frame, p)
<1> DEFINE g == Receiver!Counting(frame, fu)
<1>1. g.m_encodedFrameLen = frame.m_encodedFrameLen
  BY DEF Receiver!Counting, Receiver!Frame
<1> HIDE DEF g
<1>2. Receiver!Spills(g, p) <=> Receiver!Spills(frame, p)
  BY <1>1 DEF Receiver!Spills, Receiver!Room, Receiver!End
<1> QED
  BY <1>2 DEF g

(* Fewer bytes are fewer fragments. *)
LEMMA FewerTimes ==
  ASSUME NEW c \in Nat, NEW d \in Nat, NEW k \in Nat, c * k < d * k
  PROVE  c < d
<1> SUFFICES ASSUME c >= d PROVE c * k >= d * k
  <2>1. c * k \in Nat /\ d * k \in Nat
    OBVIOUS
  <2> QED
    BY <2>1
<1>1. c - d \in Nat /\ (c - d) * k \in Nat
  OBVIOUS
<1>2. (c - d) * k = c * k - d * k
  OBVIOUS
<1>3. c * k \in Nat /\ d * k \in Nat
  OBVIOUS
<1> QED
  BY <1>1, <1>2, <1>3

LEMMA OneMoreFragment ==
  ASSUME NEW c \in Nat, NEW e \in Nat, NEW more \in Nat, NEW len \in Nat,
         c * (MaxPayload - 2) = e - 1, more = e + (MaxPayload - 2), more < len,
         len - 1 <= FURange * (MaxPayload - 2)
  PROVE  /\ c + 1 < FURange /\ (c + 1) % FURange = c + 1
         /\ (c + 1) * (MaxPayload - 2) = more - 1
<1> DEFINE k == MaxPayload - 2
<1>1. k \in Nat /\ FURange \in Nat /\ c * k = e - 1 /\ more = e + k /\ len - 1 <= FURange * k
  BY MaxPayloadAssumption, BufferAssumption
<1> HIDE DEF k
<1>2. (c + 1) * k = c * k + k /\ c * k \in Nat /\ FURange * k \in Nat /\ (c + 1) * k \in Nat
  BY <1>1
<1>3. (c + 1) * k = more - 1 /\ (c + 1) * k < FURange * k
  BY <1>1, <1>2
<1>4. c + 1 < FURange
  BY <1>1, <1>3, FewerTimes
<1>5. (c + 1) % FURange = c + 1
  BY <1>1, <1>4
<1> QED
  BY <1>3, <1>4, <1>5 DEF k

LEMMA GoodFacts ==
  ASSUME NEW units \in Seq(Units), NEW q \in SP!PacketType, SP!GoodPacket(q, units)
  PROVE  /\ q.nal \in 1..Len(units) /\ q.nal \in Nat \ {0}
         /\ q.first \in Nat /\ q.last \in Nat /\ units[q.nal].len \in Nat \ {0}
         /\ q.first <= q.last /\ q.last <= units[q.nal].len
         /\ q.type = units[q.nal].type
         /\ q.kind = "single" \/ q.kind = "fu"
         /\ q.kind = "single" => q.first = 1 /\ q.last = units[q.nal].len
         /\ q.kind = "fu" => /\ q.start <=> q.first = 1
                             /\ q.end <=> q.last = units[q.nal].len
                             /\ ~(q.start /\ q.end)
         /\ q.kind = "fu" /\ q.start => q.last = 1 + (MaxPayload - 2)
         /\ q.kind = "fu" /\ ~q.start /\ ~q.end => q.last = (q.first - 1) + (MaxPayload - 2)
<1>1. /\ q.nal \in 1..Len(units) /\ q.first <= q.last /\ q.last <= units[q.nal].len
      /\ q.type = units[q.nal].type /\ q.kind \in {"single", "fu"}
      /\ q.kind = "single" => q.first = 1 /\ q.last = units[q.nal].len
      /\ q.kind = "fu" => /\ q.start <=> q.first = 1
                          /\ q.end <=> q.last = units[q.nal].len
                          /\ ~(q.start /\ q.end)
      /\ q.kind = "fu" /\ ~q.end => SP!PayloadSize(q) = MaxPayload
  BY DEF SP!GoodPacket
<1>2. q.first \in Nat /\ q.last \in Nat
  BY PacketTyped
<1>3. q.nal \in Nat \ {0} /\ units[q.nal].len \in Nat \ {0}
  BY <1>1, UnitTypes
<1>4. ASSUME q.kind = "fu", q.start PROVE q.last = 1 + (MaxPayload - 2)
  <2>1. SP!PayloadSize(q) = (q.last - q.first) + 2
    BY <1>4 DEF SP!PayloadSize
  <2>2. q.first = 1 /\ SP!PayloadSize(q) = MaxPayload
    BY <1>1, <1>4
  <2> QED
    BY <1>2, <2>1, <2>2, MaxPayloadAssumption
<1>5. ASSUME q.kind = "fu", ~q.start, ~q.end
      PROVE  q.last = (q.first - 1) + (MaxPayload - 2)
  <2>1. SP!PayloadSize(q) = (q.last - q.first + 1) + 2
    BY <1>5 DEF SP!PayloadSize
  <2>2. SP!PayloadSize(q) = MaxPayload
    BY <1>1, <1>5
  <2> QED
    BY <1>2, <2>1, <2>2, MaxPayloadAssumption
<1> QED
  BY <1>1, <1>2, <1>3, <1>4, <1>5

LEMMA TakesDue ==
  ASSUME NEW f, NEW units \in Seq(Units), Fits(units), NEW q \in SP!PacketType,
         q.pic = f, SP!GoodPacket(q, units), NEW frame, Ready(frame, f, units, q)
  PROVE  /\ Receiver!Takes(frame, q) /\ Receiver!Spilled(frame, q) = {}
         /\ Assembled(Receiver!SetFromRTPFrame(frame, q), f, units, q.nal, q.last)
<1> DEFINE i   == q.nal
           len == units[i].len
           g   == Receiver!SetFromRTPFrame(frame, q)
<1>1. /\ i \in 1..Len(units) /\ i \in Nat \ {0} /\ len \in Nat \ {0}
      /\ q.first \in Nat /\ q.last \in Nat /\ q.first <= q.last /\ q.last <= len
      /\ q.type = units[i].type
  BY GoodFacts
<1>2. Ahead(units)[Len(units)] <= MaxFrameSize /\ len - 1 <= FURange * (MaxPayload - 2)
  BY <1>1 DEF Fits
<1>3. CASE q.kind = "single"
  <2>1. q.first = 1 /\ q.last = len /\ q.last >= 1 /\ Receiver!HasHeader(q)
    BY <1>1, <1>3, GoodFacts DEF Receiver!HasHeader
  <2>2. Whole(frame, f, units, i - 1) /\ frame.m_currentFU = 0
    BY <2>1 DEF Ready
  <2>3. g = Receiver!AddHeaded(frame, q)
    BY <1>3 DEF Receiver!SetFromRTPFrame
  <2>4. Partial(g, f, units, i, len) /\ g.m_currentFU = 0 /\ ~Receiver!Spills(frame, q)
    <3>1. /\ Partial(Receiver!AddHeaded(frame, q), f, units, i, q.last)
          /\ Receiver!AddHeaded(frame, q).m_currentFU = frame.m_currentFU
          /\ ~Receiver!Spills(frame, q)
      <4>1. /\ q.pic = f /\ q.nal = i /\ q.first = 1 /\ q.type = units[i].type
            /\ q.last >= 1 /\ q.last <= units[i].len /\ Receiver!HasHeader(q)
            /\ Ahead(units)[Len(units)] <= MaxFrameSize /\ i \in 1..Len(units)
            /\ Whole(frame, f, units, i - 1)
        BY <1>1, <1>2, <2>1, <2>2
      <4> HIDE DEF i
      <4> QED
        BY <4>1, AddsHeaded, ZenonT(40)
    <3> QED
      BY <2>1, <2>2, <2>3, <3>1
  <2>5. Whole(g, f, units, i)
    BY <1>1, <2>4, Completed
  <2>6. Receiver!Takes(frame, q) /\ Receiver!Spilled(frame, q) = {}
    BY <1>3, <2>4 DEF Receiver!Takes, Receiver!Spilled
  <2> QED
    BY <2>1, <2>4, <2>5, <2>6 DEF Assembled
<1>4. CASE q.kind = "fu" /\ q.start
  <2>1. /\ q.first = 1 /\ ~q.end /\ q.last # len /\ q.last >= 1 /\ Receiver!HasHeader(q)
        /\ q.last = 1 + (MaxPayload - 2)
    BY <1>1, <1>4, GoodFacts DEF Receiver!HasHeader
  <2> DEFINE h == Receiver!Counting(frame, 1)
  <2>2. Whole(frame, f, units, i - 1) /\ frame.m_currentFU = 0
    BY <2>1 DEF Ready
  <2>3. /\ Whole(h, f, units, i - 1) /\ h.m_currentFU = 1
        /\ Receiver!Spills(h, q) <=> Receiver!Spills(frame, q)
    <3>1. Whole(h, f, units, i - 1) /\ h.m_currentFU = 1
      BY <2>2, CountingKeeps
    <3>2. Receiver!Spills(h, q) <=> Receiver!Spills(frame, q)
      BY CountingSpills
    <3> QED
      BY <3>1, <3>2
  <2>4. g = Receiver!AddHeaded(h, q)
    BY <1>4, <2>2
       DEF Receiver!SetFromRTPFrame, Receiver!DeencapsulateFU, Receiver!OpenFU
  <2> HIDE DEF h
  <2>5. Partial(g, f, units, i, q.last) /\ g.m_currentFU = 1 /\ ~Receiver!Spills(h, q)
    BY <1>1, <1>2, <2>1, <2>3, <2>4, AddsHeaded
  <2>6. 1 \in 1..(FURange - 1) /\ 1 * (MaxPayload - 2) = q.last - 1
    BY <2>1, MaxPayloadAssumption, BufferAssumption
  <2>7. Receiver!Takes(frame, q) /\ Receiver!Spilled(frame, q) = {}
    BY <1>4, <2>1, <2>3, <2>5 DEF Receiver!Takes, Receiver!Spilled
  <2> QED
    BY <2>1, <2>5, <2>6, <2>7 DEF Assembled
<1>5. CASE q.kind = "fu" /\ ~q.start
  <2> DEFINE e == q.first - 1
             c == frame.m_currentFU
  <2>1. q.first # 1 /\ ~Receiver!HasHeader(q)
    BY <1>5, GoodFacts DEF Receiver!HasHeader
  <2>2. /\ e \in Nat /\ q.first = e + 1 /\ Partial(frame, f, units, i, e)
        /\ c \in 1..(FURange - 1) /\ c * (MaxPayload - 2) = e - 1
    BY <1>1, <2>1 DEF Ready, Assembled
  <2>3. c \in Nat /\ c > 0
    BY <2>2, BufferAssumption
  <2> HIDE DEF c, e
  <2>4. Receiver!Takes(frame, q)
    BY <1>5, <2>3 DEF Receiver!Takes, c
  <2>5. CASE q.end
    <3>1. q.last = len
      BY <1>5, <2>5, GoodFacts
    <3> DEFINE h == Receiver!Counting(frame, 0)
    <3>2. /\ Partial(h, f, units, i, e) /\ h.m_currentFU = 0
          /\ Receiver!Spills(h, q) <=> Receiver!Spills(frame, q)
      BY <2>2, CountingKeeps, CountingSpills
    <3>3. g = Receiver!AddMore(h, q)
      BY <1>5, <2>5 DEF Receiver!SetFromRTPFrame, Receiver!DeencapsulateFU
    <3> HIDE DEF h
    <3>4. Partial(g, f, units, i, q.last) /\ g.m_currentFU = 0 /\ ~Receiver!Spills(h, q)
      <4>1. /\ ~Receiver!Spills(h, q)
            /\ Partial(Receiver!AddMore(h, q), f, units, i, q.last)
            /\ Receiver!AddMore(h, q).m_currentFU = h.m_currentFU
        BY <1>1, <1>2, <2>1, <2>2, <3>2, AddsMore
      <4> QED
        BY <3>2, <3>3, <4>1
    <3>5. Whole(g, f, units, i)
      BY <1>1, <3>1, <3>4, Completed
    <3>6. Receiver!Spilled(frame, q) = {}
      BY <1>5, <3>2, <3>4 DEF Receiver!Spilled
    <3> QED
      BY <2>4, <3>1, <3>4, <3>5, <3>6 DEF Assembled
  <2>6. CASE ~q.end
    <3>1. q.last # len /\ q.last < len /\ q.last = e + (MaxPayload - 2)
      <4>1. q.last # len /\ q.last = (q.first - 1) + (MaxPayload - 2)
        BY <1>5, <2>6, GoodFacts
      <4> QED
        BY <1>1, <4>1 DEF e
    <3>2. /\ c + 1 < FURange /\ (c + 1) % FURange = c + 1
          /\ (c + 1) * (MaxPayload - 2) = q.last - 1
      <4>1. /\ e \in Nat /\ q.last \in Nat /\ len \in Nat /\ c * (MaxPayload - 2) = e - 1
            /\ len - 1 <= FURange * (MaxPayload - 2)
        BY <1>1, <1>2, <2>2
      <4> QED
        BY ONLY <2>3, <3>1, <4>1, OneMoreFragment
    <3> DEFINE h == Receiver!Counting(frame, c + 1)
    <3>3. /\ Partial(h, f, units, i, e) /\ h.m_currentFU = c + 1
          /\ Receiver!Spills(h, q) <=> Receiver!Spills(frame, q)
      BY <2>2, CountingKeeps, CountingSpills
    <3>4. g = Receiver!AddMore(h, q)
      BY <1>5, <2>6, <3>2 DEF Receiver!SetFromRTPFrame, Receiver!DeencapsulateFU, c
    <3> HIDE DEF h
    <3>5. Partial(g, f, units, i, q.last) /\ g.m_currentFU = c + 1 /\ ~Receiver!Spills(h, q)
      <4>1. /\ ~Receiver!Spills(h, q)
            /\ Partial(Receiver!AddMore(h, q), f, units, i, q.last)
            /\ Receiver!AddMore(h, q).m_currentFU = h.m_currentFU
        <5>1. /\ i \in 1..Len(units) /\ e \in Nat /\ q.first = e + 1 /\ q.first <= q.last
              /\ q.last <= units[i].len /\ ~Receiver!HasHeader(q)
              /\ Ahead(units)[Len(units)] <= MaxFrameSize
          BY <1>1, <1>2, <2>1, <2>2
        <5> HIDE DEF i
        <5> QED
          BY <3>3, <5>1, AddsMore DEF i
      <4> QED
        BY <3>3, <3>4, <4>1
    <3>6. c + 1 \in 1..(FURange - 1)
      BY <2>3, <3>2, BufferAssumption
    <3>7. Receiver!Spilled(frame, q) = {}
      BY <1>5, <3>3, <3>5 DEF Receiver!Spilled
    <3> QED
      BY <2>4, <3>1, <3>2, <3>5, <3>6, <3>7 DEF Assembled
  <2> QED
    BY <2>5, <2>6
<1> QED
  BY <1>3, <1>4, <1>5, GoodFacts

(* The packet that follows, and the first one of a picture, are due. *)
LEMMA NextDue ==
  ASSUME NEW units \in Seq(Units), NEW p \in SP!PacketType, NEW q \in SP!PacketType,
         SP!GoodPacket(p, units), SP!GoodPacket(q, units),
         units = picture[p.pic], SP!Continues(p, q),
         NEW frame, Assembled(frame, p.pic, units, p.nal, p.last)
  PROVE  Ready(frame, p.pic, units, q)
<1>1. /\ p.nal \in Nat \ {0} /\ p.first \in Nat /\ p.last \in Nat /\ p.first <= p.last
      /\ units[p.nal].len \in Nat /\ q.first \in Nat
  BY GoodFacts
<1>2. CASE p.last = units[p.nal].len
  <2>1. q.nal = p.nal + 1 /\ q.first = 1
    BY <1>2 DEF SP!Continues
  <2>2. q.nal - 1 = p.nal
    BY <1>1, <2>1
  <2> QED
    BY <1>2, <2>1, <2>2 DEF Ready, Assembled
<1>3. CASE p.last # units[p.nal].len
  <2>1. q.nal = p.nal /\ q.first = p.last + 1
    BY <1>3 DEF SP!Continues
  <2>2. q.first - 1 = p.last
    BY <1>1, <2>1
  <2>3. q.first # 1
    <3>1. /\ frame.m_currentFU \in 1..(FURange - 1)
          /\ frame.m_currentFU * (MaxPayload - 2) = p.last - 1
      BY <1>3 DEF Assembled
    <3>2. frame.m_currentFU * (MaxPayload - 2) \in Nat
      BY <3>1, MaxPayloadAssumption, BufferAssumption
    <3>3. p.last # 0
      BY <1>1, <3>1, <3>2
    <3> QED
      BY <1>1, <2>1, <3>3
  <2> QED
    BY <1>1, <1>3, <2>1, <2>2, <2>3 DEF Ready
<1> QED
  BY <1>2, <1>3

LEMMA FirstDue ==
  ASSUME NEW f, NEW units \in Seq(Units), NEW q, SP!Begins(q)
  PROVE  Ready(Receiver!Emptied, f, units, q)
<1> DEFINE frame == Receiver!Emptied
<1>1. frame.m_NALs = <<>> /\ frame.m_encodedFrameLen = 0 /\ frame.m_currentFU = 0
  BY DEF Receiver!Emptied, Receiver!Frame
<1> HIDE DEF frame
<1>2. Ahead(units)[0] = 0
  BY AheadAdds DEF Adds
<1>3. <<>> \in Seq(NALs) /\ Len(<<>>) = 0 /\ \A j : j \notin 1..0
  OBVIOUS
<1>4. Whole(frame, f, units, 0)
  BY <1>1, <1>2, <1>3 DEF Whole
<1>5. q.first = 1 /\ q.nal - 1 = 0
  BY DEF SP!Begins
<1> QED
  BY <1>1, <1>4, <1>5 DEF Ready, frame

-----------------------------------------------------------------------------
(* The packets taken since the last marker: none of them has one, and if   *)
(* they are the first ones of a picture that has room, each in turn, they  *)
(* are what is in the buffer.  Nothing is in it after a marker.  All this  *)
(* as long as the receiver runs.                                           *)
InARow(s) == \A i \in 1..(Len(s) - 1) : s[i + 1] = s[i] + 1

Gathered ==
  /\ since \in Seq(1..count)
  /\ \A i \in 1..Len(since) : ~wire[since[i]].marker
  /\ overran = {} /\ since = <<>> => m_fullFrame = Receiver!Emptied
  /\ overran = {} /\ since # <<>> /\ InARow(since) /\ SP!Begins(wire[since[1]]) =>
       LET p == wire[since[Len(since)]]
       IN  Fits(picture[p.pic])
             => Assembled(m_fullFrame, p.pic, picture[p.pic], p.nal, p.last)

StreamInv == LinkInv /\ Wired /\ Gathered

LEMMA Run ==
  ASSUME NEW c, NEW s \in Seq(1..c), NEW n \in 1..c
  PROVE  /\ Len(s) \in Nat /\ \A i \in 1..Len(s) : s[i] \in 1..c
         /\ Append(s, n) \in Seq(1..c) /\ Append(s, n) # <<>>
         /\ Len(Append(s, n)) = Len(s) + 1
         /\ \A i \in 1..Len(s) : Append(s, n)[i] = s[i]
         /\ Append(s, n)[Len(s) + 1] = n
         /\ s # <<>> => Len(s) \in Nat \ {0}
<1> DEFINE r == Append(s, n)
<1>1. Len(s) \in Nat /\ \A i \in 1..Len(s) : s[i] \in 1..c
  BY ElementOfSeq, LenProperties
<1>2. /\ r \in Seq(1..c) /\ Len(r) = Len(s) + 1 /\ r[Len(s) + 1] = n
      /\ \A i \in 1..Len(s) : r[i] = s[i]
  BY AppendProperties
<1>3. s # <<>> => Len(s) \in Nat \ {0}
  BY <1>1, EmptySeq
<1>4. r # <<>>
  <2>1. Len(r) # 0
    BY <1>1, <1>2
  <2> QED
    BY <2>1, EmptySeq
<1> HIDE DEF r
<1> QED
  BY <1>1, <1>2, <1>3, <1>4 DEF r

(* The next packet in the row is due. *)
LEMMA DueInARow ==
  ASSUME Wired, Gathered, overran = {}, NEW n \in 1..count,
         InARow(Append(since, n)), SP!Begins(wire[Append(since, n)[1]]),
         Fits(picture[wire[n].pic])
  PROVE  Ready(m_fullFrame, wire[n].pic, picture[wire[n].pic], wire[n])
<1> DEFINE q == wire[n]
           units == picture[q.pic]
           run == Append(since, n)
           L == Len(since)
<1>1. /\ L \in Nat /\ \A i \in 1..L : since[i] \in 1..count
      /\ Len(run) = L + 1 /\ run[L + 1] = n /\ \A i \in 1..L : run[i] = since[i]
      /\ since # <<>> => L \in Nat \ {0}
  BY Run DEF Gathered
<1>2. /\ q \in SP!PacketType /\ q.pic \in 1..called /\ SP!GoodPacket(q, units)
      /\ units \in Seq(Units) /\ count \in Nat
  BY WireFacts DEF Wired
<1>3. CASE since = <<>>
  <2>1. m_fullFrame = Receiver!Emptied /\ L = 0
    BY <1>3 DEF Gathered
  <2>2. SP!Begins(q)
    BY <1>1, <2>1
  <2> QED
    BY <1>2, <2>1, <2>2, FirstDue
<1>4. CASE since # <<>>
  <2> DEFINE p == wire[since[L]]
  <2>1. L \in 1..L /\ L \in Nat \ {0} /\ 1 \in 1..L
    BY <1>1, <1>4
  <2>2. run[L + 1] = run[L] + 1 /\ run[1] = since[1] /\ run[L] = since[L]
    BY <1>1, <2>1 DEF InARow
  <2>3. n = since[L] + 1 /\ since[L] \in 1..(count - 1)
    BY <1>1, <1>2, <2>1, <2>2
  <2>4. InARow(since)
    <3> SUFFICES ASSUME NEW i \in 1..(L - 1) PROVE since[i + 1] = since[i] + 1
      BY DEF InARow
    <3>1. i \in 1..L /\ i + 1 \in 1..L /\ i \in 1..(Len(run) - 1)
      BY <1>1
    <3>2. run[i + 1] = run[i] + 1
      BY <3>1 DEF InARow
    <3> QED
      BY <1>1, <3>1, <3>2
  <2>5. Joined(p, q) /\ ~p.marker
    BY <2>1, <2>3 DEF Wired, Gathered
  <2>6. SP!Continues(p, q) /\ q.pic = p.pic
    BY <2>5 DEF Joined, SP!Continues
  <2>7. Assembled(m_fullFrame, p.pic, picture[p.pic], p.nal, p.last)
    BY <1>4, <2>2, <2>4, <2>6 DEF Gathered
  <2>8. p \in SP!PacketType /\ SP!GoodPacket(p, picture[p.pic])
    BY <1>1, <2>1, WireFacts DEF Wired
  <2>9. SP!GoodPacket(q, picture[p.pic]) /\ picture[p.pic] \in Seq(Units)
    BY <1>2, <2>6
  <2>10. q \in SP!PacketType
    BY <1>2
  <2> HIDE DEF p, q
  <2>11. Ready(m_fullFrame, p.pic, picture[p.pic], q)
    BY <2>6, <2>7, <2>8, <2>9, <2>10, NextDue
  <2>12. Ready(m_fullFrame, q.pic, picture[q.pic], q)
    BY <2>6, <2>11
  <2> QED
    BY <2>12 DEF q
<1> QED
  BY <1>3, <1>4

LEMMA InitGathered == Init => Gathered
<1> SUFFICES ASSUME Init PROVE Gathered
  OBVIOUS
<1>1. since = <<>> /\ m_fullFrame = Receiver!Emptied
  BY DEF Init, Receiver!Init
<1>2. since \in Seq(1..count) /\ \A i : i \notin 1..Len(since)
  BY <1>1, EmptySeq
<1> QED
  BY <1>1, <1>2 DEF Gathered

(* More on the wire changes nothing. *)
LEMMA KeepsGathered ==
  ASSUME Wired, Gathered, UNCHANGED <<since, m_fullFrame, overran>>,
         count' \in Nat, count' >= count,
         \A k \in 1..count : wire'[k] = wire[k],
         \A f \in 1..called : picture'[f] = picture[f]
  PROVE  Gathered'
<1>1. count \in Nat /\ since \in Seq(1..count) /\ \A i \in 1..Len(since) : since[i] \in 1..count
  BY WireFacts, ElementOfSeq DEF Gathered
<1>2. since \in Seq(1..count')
  <2>1. 1..count \subseteq 1..count'
    BY <1>1
  <2> QED
    BY <1>1, <2>1, SeqMonotonic
<1>3. \A i \in 1..Len(since) :
        /\ wire'[since[i]] = wire[since[i]]
        /\ picture'[wire[since[i]].pic] = picture[wire[since[i]].pic]
  BY <1>1 DEF Wired
<1>4. since # <<>> => 1 \in 1..Len(since) /\ Len(since) \in 1..Len(since)
  BY <1>1, EmptySeq, LenProperties
<1>5. \A i \in 1..Len(since') : ~wire'[since'[i]].marker
  BY <1>3 DEF Gathered
<1>6. overran' = {} /\ since' = <<>> => m_fullFrame' = Receiver!Emptied
  BY DEF Gathered
<1>7. ASSUME overran' = {}, since' # <<>>, InARow(since'), SP!Begins(wire'[since'[1]]),
             Fits(picture'[wire'[since'[Len(since')]].pic])
      PROVE  LET p == wire'[since'[Len(since')]]
             IN  Assembled(m_fullFrame', p.pic, picture'[p.pic], p.nal, p.last)
  BY <1>3, <1>4, <1>7 DEF Gathered
<1> HIDE DEF Assembled, InARow
<1> QED
  BY <1>2, <1>5, <1>6, <1>7 DEF Gathered

(* RecvDataThread takes the first packet of the list. *)
LEMMA Taken ==
  ASSUME LinkInv, Wired, RecvDataThread
  PROVE  LET n == Head(packetlist).number
         IN  /\ n \in 1..count /\ taken' = n
             /\ Receiver!DecodeFrames(wire[n])
             /\ since' = IF wire[n].marker THEN <<>> ELSE Append(since, n)
             /\ wire[n] \in SP!PacketType /\ wire[n].pic \in 1..called
             /\ SP!GoodPacket(wire[n], picture[wire[n].pic])
             /\ picture[wire[n].pic] \in Seq(Units)
             /\ UNCHANGED <<wire, count, picture, called>>
<1>1. Link!GetNextPacket
  BY DEF RecvDataThread
<1>2. /\ packetlist # <<>> /\ taken' = Head(packetlist).number
      /\ UNCHANGED <<count>>
  BY <1>1 DEF Link!GetNextPacket, Link!network
<1>3. /\ packetlist \in Seq(Entries)
      /\ \A i \in 1..Len(packetlist) : packetlist[i].number \in 1..count
  BY ListTyped DEF LinkInv
<1>4. Head(packetlist) = packetlist[1] /\ 1 \in 1..Len(packetlist)
  BY <1>2, <1>3, EmptySeq, LenProperties, HeadTailProperties
<1>5. Head(packetlist).number \in 1..count
  BY <1>3, <1>4
<1>6. /\ Receiver!DecodeFrames(wire[Head(packetlist).number])
      /\ since' = IF wire[Head(packetlist).number].marker THEN <<>>
                  ELSE Append(since, Head(packetlist).number)
      /\ UNCHANGED <<wire, picture, called>>
  BY DEF RecvDataThread, senderVars
<1> QED
  BY <1>2, <1>5, <1>6, WireFacts DEF Wired

LEMMA RecvGathered ==
  ASSUME LinkInv, Wired, Gathered, RecvDataThread
  PROVE  Gathered'
<1> DEFINE n == Head(packetlist).number
           q == wire[n]
           units == picture[q.pic]
<1>1. /\ n \in 1..count /\ Receiver!DecodeFrames(q)
      /\ since' = IF q.marker THEN <<>> ELSE Append(since, n)
      /\ q \in SP!PacketType /\ q.pic \in 1..called /\ SP!GoodPacket(q, units)
      /\ units \in Seq(Units) /\ UNCHANGED <<wire, count, picture, called>>
  BY Taken
<1> HIDE DEF n
<1>20. overran = {} /\ (Receiver!Spilled(m_fullFrame, q) = {} => overran' = {})
  BY <1>1 DEF Receiver!DecodeFrames, Receiver!Refuse, Receiver!Collect, Receiver!Drop,
              Receiver!Deliver, Receiver!Overrun, Receiver!Returns
<1>2. CASE q.marker
  <2>1. since' = <<>> /\ (overran' = {} => m_fullFrame' = Receiver!Emptied)
    BY <1>1, <1>2 DEF Receiver!Overrun, Receiver!DecodeFrames, Receiver!Refuse, Receiver!Collect,
                      Receiver!Drop, Receiver!Deliver
  <2>2. since' \in Seq(1..count') /\ \A i : i \notin 1..Len(since')
    BY <2>1, EmptySeq
  <2> QED
    BY <2>1, <2>2 DEF Gathered
<1>3. CASE ~q.marker
  <2> DEFINE L == Len(since)
  <2>1. /\ since' = Append(since, n) /\ since \in Seq(1..count)
        /\ L \in Nat /\ since' \in Seq(1..count) /\ since' # <<>>
        /\ Len(since') = L + 1 /\ since'[L + 1] = n
        /\ \A i \in 1..L : since'[i] = since[i]
    BY <1>1, <1>3, Run DEF Gathered
  <2>2. \A i \in 1..Len(since') : ~wire'[since'[i]].marker
    <3>1. \A i \in 1..Len(since') : i \in 1..L \/ i = L + 1
      BY <2>1
    <3> QED
      BY <1>1, <1>3, <2>1, <3>1 DEF Gathered
  <2>3. ASSUME InARow(since'), SP!Begins(wire'[since'[1]]), Fits(units)
        PROVE  Assembled(m_fullFrame', q.pic, units, q.nal, q.last)
    <3>1. Ready(m_fullFrame, q.pic, units, q)
      BY <1>1, <1>20, <2>1, <2>3, DueInARow
    <3>2. /\ Receiver!Takes(m_fullFrame, q) /\ Receiver!Spilled(m_fullFrame, q) = {}
          /\ Assembled(Receiver!SetFromRTPFrame(m_fullFrame, q), q.pic, units, q.nal, q.last)
      BY <1>1, <2>3, <3>1, TakesDue
    <3>3. m_fullFrame' = Receiver!SetFromRTPFrame(m_fullFrame, q)
      BY <1>1, <1>3, <3>2 DEF Receiver!DecodeFrames, Receiver!Refuse, Receiver!Collect,
                              Receiver!Drop, Receiver!Deliver, Receiver!Overrun
    <3> QED
      BY <3>2, <3>3
  <2>4. wire'[since'[Len(since')]] = q /\ picture'[q.pic] = units
    BY <1>1, <2>1
  <2> HIDE DEF q, units
  <2>5. since' \in Seq(1..count')
    BY <1>1, <2>1
  <2> QED
    BY <2>1, <2>2, <2>3, <2>4, <2>5 DEF Gathered
<1> QED
  BY <1>2, <1>3

LEMMA StepGathered ==
  ASSUME LinkInv, Wired, Gathered, [Next]_vars
  PROVE  Gathered'
<1>1. /\ count \in Nat /\ called \in Nat /\ picture \in Seq(Pictures)
      /\ Len(picture) = called /\ wire \in Seq(SP!PacketType) /\ Len(wire) = count
  BY WireFacts DEF Wired
<1>2. ASSUME NEW t \in Threads, Encode(t) PROVE Gathered'
  <2>1. UNCHANGED <<wire, count, since, m_fullFrame, overran>>
    BY <1>2 DEF Encode, linkVars, receiverVars
  <2>2. \A f \in 1..called : picture'[f] = picture[f]
    <3>1. CASE Sender!EncodeFrames(t)
      BY <3>1 DEF Sender!EncodeFrames
    <3>2. ASSUME NEW pic \in Pictures, Sender!SendH264Nalu(t, pic)
          PROVE  \A f \in 1..called : picture'[f] = picture[f]
      <4>1. picture' = Append(picture, pic)
        BY <3>2 DEF Sender!SendH264Nalu
      <4> QED
        BY <1>1, <4>1, AppendProperties
    <3> QED
      BY <1>2, <3>1, <3>2 DEF Encode
  <2> QED
    BY <1>1, <2>1, <2>2, KeepsGathered
<1>3. ASSUME NEW t \in Threads, Transmit(t) PROVE Gathered'
  <2>1. /\ count' = count + 1 /\ wire' = Append(wire, inHand[t])
        /\ UNCHANGED <<picture, since, m_fullFrame, overran>>
    BY <1>3 DEF Transmit, Link!Send, Sender!SendPacket, receiverVars
  <2>2. \A k \in 1..count : wire'[k] = wire[k]
    <3>1. inHand[t] \in SP!PacketType
      <4>1. SP!TypeOK /\ inHand[t] \in SP!Made
        BY <1>3 DEF Transmit, Sender!SendPacket, SP!Made, SP!Sending, Wired, SP!Turns, SP!IInv
      <4> QED
        BY <4>1 DEF SP!TypeOK
    <3> QED
      BY <1>1, <2>1, <3>1, AppendProperties
  <2> QED
    BY <1>1, <2>1, <2>2, KeepsGathered
<1>4. ASSUME NEW n \in net, Lose(n) \/ Poll(n) PROVE Gathered'
  <2>1. UNCHANGED <<wire, count, since, m_fullFrame, overran, picture>>
    BY <1>4 DEF Lose, Poll, Link!Lose, Link!ProcessRTPPacket, Link!Arrives, senderVars,
                receiverVars
  <2> QED
    BY <1>1, <2>1, KeepsGathered
<1>5. CASE RecvDataThread
  BY <1>5, RecvGathered
<1>6. CASE UNCHANGED vars
  <2>1. UNCHANGED <<wire, count, since, m_fullFrame, overran, picture>>
    BY <1>6 DEF vars, senderVars, linkVars, receiverVars
  <2> QED
    BY <1>1, <2>1, KeepsGathered
<1> QED
  BY <1>2, <1>3, <1>4, <1>5, <1>6 DEF Next

(* What is on the wire and what the receiver has of it, at all times. *)
THEOREM StreamInvariant == Spec => []StreamInv
<1>1. Init => StreamInv
  BY InitLink, InitWired, InitGathered DEF Init, StreamInv
<1>2. StreamInv /\ [Next]_vars => StreamInv'
  BY StreamStep, StepLink, StepWired, StepGathered DEF StreamInv
<1> QED
  BY <1>1, <1>2, PTL DEF Spec

-----------------------------------------------------------------------------
(* Is_H264KeyFrame finds the parameter set of a whole picture. *)
LEMMA KeyFound ==
  ASSUME NEW f, NEW units \in Seq(Units), Len(units) \in Nat \ {0},
         NEW frame, Whole(frame, f, units, Len(units))
  PROVE  /\ frame.m_encodedFrameLen # 0
         /\ KeyPicture(units) => Receiver!KeyFrame(frame)
<1> DEFINE a == Ahead(units)
           L == Len(units)
<1>1. /\ frame.m_encodedFrameLen = a[L] /\ Len(frame.m_NALs) = L
      /\ \A j \in 1..L : UnitOf(frame.m_NALs[j], f, units, j, units[j].len)
  BY DEF Whole
<1>2. \A i \in 1..L : /\ a[i - 1] \in Nat /\ a[L] \in Nat
                      /\ a[i - 1] + 4 < a[L]
  <2> SUFFICES ASSUME NEW i \in 1..L
               PROVE  a[i - 1] \in Nat /\ a[L] \in Nat /\ a[i - 1] + 4 < a[L]
    OBVIOUS
  <2>1. /\ a[i - 1] \in Nat /\ units[i].len \in Nat \ {0} /\ a[L] \in Nat
        /\ a[i] = a[i - 1] + 4 + units[i].len /\ a[i] <= a[L]
    BY AheadGrows
  <2> HIDE DEF a
  <2> QED
    BY <2>1
<1>3. 1 \in 1..L
  OBVIOUS
<1> HIDE DEF a, L
<1>4. frame.m_encodedFrameLen # 0
  BY <1>1, <1>2, <1>3
<1>5. ASSUME KeyPicture(units) PROVE Receiver!KeyFrame(frame)
  <2>1. PICK i \in 1..L : units[i].type = "SPS" /\ a[i - 1] + 3 < KeyWindow
    BY <1>5 DEF KeyPicture, a, L
  <2>2. frame.m_NALs[i].type = "SPS" /\ frame.m_NALs[i].offset = a[i - 1] + 4
    BY <1>1, <2>1 DEF UnitOf, a
  <2>3. a[i - 1] \in Nat /\ a[L] \in Nat /\ a[i - 1] + 4 < a[L] /\ KeyWindow \in Nat
    BY <1>2, BufferAssumption
  <2>4. frame.m_NALs[i].offset - 4 < (IF a[L] > KeyWindow THEN KeyWindow ELSE a[L]) - 3
    BY <2>1, <2>2, <2>3
  <2> QED
    BY <1>1, <2>2, <2>4 DEF Receiver!KeyFrame
<1> QED
  BY <1>4, <1>5

LEMMA WholeIsPicture ==
  ASSUME NEW frame, NEW f, picture[f] \in Seq(Units),
         Whole(frame, f, picture[f], Len(picture[f]))
  PROVE  IsPicture(frame.m_NALs, f)
BY DEF Whole, UnitOf, IsPicture

(* The packet with the marker completes the picture. *)
LEMMA LastTaken ==
  ASSUME StreamInv, RecvDataThread, NEW n \in 1..count, taken' = n, WholeTaken(n),
         Fits(picture[wire[n].pic]),
         m_bHaveGetKeyFrame \/ KeyPicture(picture[wire[n].pic])
  PROVE  IsPicture(dst', wire[n].pic)
<1> DEFINE q == wire[n]
           units == picture[q.pic]
           frame == Receiver!SetFromRTPFrame(m_fullFrame, q)
<1>1. /\ Receiver!DecodeFrames(q)
      /\ q \in SP!PacketType /\ q.pic \in 1..called /\ SP!GoodPacket(q, units)
      /\ units \in Seq(Units) /\ UNCHANGED <<wire, picture>>
  BY Taken DEF StreamInv
<1>2. Len(units) \in Nat \ {0}
  BY <1>1, WireFacts DEF StreamInv
<1>3. /\ InARow(Append(since, n)) /\ SP!Begins(wire[Append(since, n)[1]])
      /\ q.marker
  BY DEF WholeTaken, InARow, Sender!Begins, SP!Begins
<1>20. overran = {}
  BY <1>1 DEF Receiver!DecodeFrames, Receiver!Refuse, Receiver!Collect, Receiver!Drop,
              Receiver!Deliver, Receiver!Overrun, Receiver!Returns
<1>4. Ready(m_fullFrame, q.pic, units, q)
  BY <1>3, <1>20, DueInARow DEF StreamInv
<1>5. /\ Receiver!Takes(m_fullFrame, q) /\ Receiver!Spilled(m_fullFrame, q) = {}
      /\ Assembled(frame, q.pic, units, q.nal, q.last)
  BY <1>1, <1>4, TakesDue
<1>6. q.nal = Len(units) /\ q.last = units[q.nal].len
  BY <1>1, <1>3 DEF SP!GoodPacket
<1>7. Whole(frame, q.pic, units, Len(units))
  BY <1>5, <1>6 DEF Assembled
<1>8. /\ frame.m_encodedFrameLen # 0
      /\ Receiver!KeyFrame(frame) \/ m_bHaveGetKeyFrame
  BY <1>1, <1>2, <1>7, KeyFound
<1>9. dst' = frame.m_NALs
  BY <1>1, <1>3, <1>5, <1>8
     DEF Receiver!DecodeFrames, Receiver!Refuse, Receiver!Collect, Receiver!Drop,
         Receiver!Deliver, Receiver!Overrun
<1>10. IsPicture(frame.m_NALs, q.pic)
  BY <1>1, <1>7, WholeIsPicture
<1> HIDE DEF frame
<1> QED
  BY <1>9, <1>10

(* Whatever was lost, repeated or reordered before: the packets of a       *)
(* picture that come in turn after a marker give that picture, for every   *)
(* packet size, every buffer and every number of NAL units.                *)
THEOREM IntactDeliveredCorrect == Spec => IntactDelivered
<1> DEFINE Given == \A n \in 1..count :
              /\ RecvDataThread /\ taken' = n /\ WholeTaken(n)
              /\ Fits(picture[wire[n].pic])
              /\ m_bHaveGetKeyFrame \/ KeyPicture(picture[wire[n].pic])
              => IsPicture(dst', wire[n].pic)
<1>1. StreamInv /\ [Next]_vars => [Given]_vars
  <2> SUFFICES ASSUME StreamInv, [Next]_vars, NEW n \in 1..count,
                      RecvDataThread, taken' = n, WholeTaken(n),
                      Fits(picture[wire[n].pic]),
                      m_bHaveGetKeyFrame \/ KeyPicture(picture[wire[n].pic])
               PROVE  IsPicture(dst', wire[n].pic)
    OBVIOUS
  <2> QED
    BY LastTaken
<1>2. Spec => [][Given]_vars
  BY <1>1, StreamInvariant, PTL DEF Spec
<1> QED
  BY <1>2 DEF IntactDelivered
=============================================================================
