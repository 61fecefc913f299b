-------------------------- MODULE Mp4RecordProofs --------------------------
(* Proofs about Mp4Record, for every number of frames and recordings. *)
EXTENDS Mp4Record, SequenceTheorems, FiniteSetTheorems, TLAPS

Places == {"none", "test", "lock", "get", "write"}

TypeInv ==
  /\ m_bStart \in BOOLEAN /\ ended \in BOOLEAN
  /\ m_mutex \in 0..MaxRecords
  /\ dialog \in {"idle", "starting", "stopping"}
  /\ thread \in [Threads -> Places]
  /\ hand \in [Threads -> Nat]
  /\ queue \in Seq(Nat) /\ file \in Seq(Nat)
  /\ frame \in Nat /\ records \in Nat

(* The mutex is held from the lock to the write; a thread has a frame only *)
(* between taking and writing it; threads not yet created do nothing.      *)
Holder ==
  /\ \A t \in Threads : thread[t] \in {"get", "write"} => m_mutex = t
  /\ \A t \in Threads : hand[t] # 0 => thread[t] = "write"
  /\ \A t \in Threads : t > records => thread[t] = "none"

Increasing(s) == \A i, j \in 1..Len(s) : i < j => s[i] < s[j]

(* What was written is older than what a thread has in its hand, and that  *)
(* is older than what is queued.                                           *)
Older ==
  /\ Increasing(queue)
  /\ \A i \in 1..Len(queue) : queue[i] <= frame
  /\ \A i \in 1..Len(file) : file[i] <= frame
  /\ \A i \in 1..Len(file) : \A j \in 1..Len(queue) : file[i] < queue[j]
  /\ \A t \in Threads : thread[t] = "write" =>
       /\ hand[t] <= frame
       /\ \A j \in 1..Len(queue) : hand[t] < queue[j]
       /\ \A i \in 1..Len(file) : file[i] < hand[t]

IInv == TypeInv /\ Holder /\ Older /\ FileInOrder

-----------------------------------------------------------------------------
(* What Append and Tail leave of a sequence of numbers. *)
LEMMA Appended ==
  ASSUME NEW s \in Seq(Nat), NEW n \in Nat
  PROVE  /\ Append(s, n) \in Seq(Nat)
         /\ Len(s) \in Nat /\ Len(Append(s, n)) = Len(s) + 1
         /\ \A i \in 1..Len(s) : s[i] \in Nat /\ Append(s, n)[i] = s[i]
         /\ Append(s, n)[Len(s) + 1] = n
         /\ \A i \in 1..(Len(s) + 1) : i \in 1..Len(s) \/ i = Len(s) + 1
BY AppendProperties, LenProperties, ElementOfSeq

LEMMA AppendIncreasing ==
  ASSUME NEW s \in Seq(Nat), NEW n \in Nat,
         Increasing(s), \A i \in 1..Len(s) : s[i] < n
  PROVE  Increasing(Append(s, n))
<1> DEFINE a == Append(s, n)
<1>1. /\ Len(s) \in Nat /\ Len(a) = Len(s) + 1
      /\ \A i \in 1..Len(s) : a[i] = s[i]
      /\ a[Len(s) + 1] = n
  BY Appended
<1> HIDE DEF a
<1> SUFFICES ASSUME NEW i \in 1..Len(a), NEW j \in 1..Len(a), i < j
             PROVE  a[i] < a[j]
  BY DEF Increasing, a
<1>2. i \in 1..Len(s)
  BY <1>1
<1>3. CASE j = Len(s) + 1
  BY <1>1, <1>2, <1>3
<1>4. CASE j \in 1..Len(s)
  BY <1>1, <1>2, <1>4 DEF Increasing
<1> QED
  BY <1>1, <1>3, <1>4

LEMMA Removed ==
  ASSUME NEW s \in Seq(Nat), s # <<>>
  PROVE  /\ Tail(s) \in Seq(Nat) /\ Head(s) \in Nat
         /\ Len(s) \in Nat /\ Len(s) > 0 /\ Head(s) = s[1]
         /\ Len(Tail(s)) = Len(s) - 1
         /\ \A i \in 1..Len(Tail(s)) : i + 1 \in 1..Len(s) /\ Tail(s)[i] = s[i + 1]
<1>1. Len(s) \in Nat /\ Len(s) > 0
  BY LenProperties, EmptySeq
<1> QED
  BY <1>1, HeadTailProperties

LEMMA TailIncreasing ==
  ASSUME NEW s \in Seq(Nat), s # <<>>, Increasing(s)
  PROVE  /\ Increasing(Tail(s))
         /\ \A i \in 1..Len(Tail(s)) : Head(s) < Tail(s)[i]
<1> DEFINE t == Tail(s)
<1>1. /\ Len(s) \in Nat /\ Len(s) > 0 /\ Head(s) = s[1] /\ Len(t) = Len(s) - 1
      /\ \A i \in 1..Len(t) : i + 1 \in 1..Len(s) /\ t[i] = s[i + 1]
  BY Removed
<1> HIDE DEF t
<1>2. Increasing(t)
  <2> SUFFICES ASSUME NEW i \in 1..Len(t), NEW j \in 1..Len(t), i < j PROVE t[i] < t[j]
    BY DEF Increasing
  <2>1. i + 1 < j + 1
    BY <1>1
  <2> QED
    BY <1>1, <2>1 DEF Increasing
<1>3. ASSUME NEW i \in 1..Len(t) PROVE Head(s) < t[i]
  <2>1. 1 \in 1..Len(s) /\ 1 < i + 1
    BY <1>1
  <2> QED
    BY <1>1, <2>1 DEF Increasing
<1> QED
  BY <1>2, <1>3 DEF t

-----------------------------------------------------------------------------
LEMMA InitInv == Init => IInv
<1> SUFFICES ASSUME Init PROVE IInv
  OBVIOUS
<1>1. Len(<<>>) = 0 /\ <<>> \in Seq(Nat)
  BY EmptySeq
<1>2. TypeInv
  <2>1. m_mutex \in 0..MaxRecords
    BY MaxRecordsAssumption DEF Init, Free
  <2>2. thread \in [Threads -> Places] /\ hand \in [Threads -> Nat]
    BY DEF Init, Places
  <2> QED
    BY <1>1, <2>1, <2>2 DEF Init, TypeInv
<1>3. Holder /\ Older /\ FileInOrder
  BY <1>1 DEF Init, Holder, Older, FileInOrder, Increasing
<1> QED
  BY <1>2, <1>3 DEF IInv

LEMMA PutStep == ASSUME IInv, Put PROVE IInv'
<1> USE DEF IInv
<1>1. /\ queue \in Seq(Nat) /\ file \in Seq(Nat) /\ frame \in Nat /\ frame + 1 \in Nat
      /\ queue' = Append(queue, frame + 1) /\ frame' = frame + 1
      /\ UNCHANGED <<m_bStart, m_mutex, dialog, thread, hand, records, file, ended, late>>
  BY DEF TypeInv, Put
<1>2. /\ queue' \in Seq(Nat) /\ Len(queue) \in Nat /\ Len(queue') = Len(queue) + 1
      /\ \A i \in 1..Len(queue) : queue[i] \in Nat /\ queue'[i] = queue[i]
      /\ queue'[Len(queue) + 1] = frame + 1
      /\ \A i \in 1..Len(queue') : i \in 1..Len(queue) \/ i = Len(queue) + 1
  BY <1>1, Appended
<1>3. \A i \in 1..Len(file) : file[i] \in Nat
  BY <1>1, ElementOfSeq
<1>4. TypeInv'
  BY <1>1, <1>2 DEF TypeInv
<1>5. Holder' /\ FileInOrder'
  BY <1>1 DEF Holder, FileInOrder
<1>6. Increasing(queue')
  <2>1. \A i \in 1..Len(queue) : queue[i] < frame + 1
    BY <1>1, <1>2 DEF Older
  <2> QED
    BY <1>1, <2>1, AppendIncreasing DEF Older
<1>7. /\ \A i \in 1..Len(queue') : queue'[i] <= frame'
      /\ \A i \in 1..Len(file) : file[i] <= frame'
      /\ \A i \in 1..Len(file) : \A j \in 1..Len(queue') : file[i] < queue'[j]
  BY <1>1, <1>2, <1>3 DEF Older
<1>8. ASSUME NEW t \in Threads, thread[t] = "write"
      PROVE  /\ hand[t] <= frame'
             /\ \A j \in 1..Len(queue') : hand[t] < queue'[j]
             /\ \A i \in 1..Len(file) : file[i] < hand[t]
  <2>1. hand[t] \in Nat
    BY DEF TypeInv
  <2> QED
    BY <1>1, <1>2, <1>8, <2>1 DEF Older
<1>9. Older'
  BY <1>1, <1>6, <1>7, <1>8 DEF Older
<1> QED
  BY <1>4, <1>5, <1>9

LEMMA TakenStep == ASSUME IInv, TakenByOther PROVE IInv'
<1> USE DEF IInv
<1>1. /\ queue \in Seq(Nat) /\ queue # <<>> /\ queue' = Tail(queue)
      /\ UNCHANGED <<m_bStart, m_mutex, dialog, thread, hand, frame, records, file, ended, late>>
  BY DEF TypeInv, TakenByOther
<1>2. /\ queue' \in Seq(Nat)
      /\ \A i \in 1..Len(queue') : i + 1 \in 1..Len(queue) /\ queue'[i] = queue[i + 1]
  BY <1>1, Removed
<1>3. Increasing(queue')
  BY <1>1, TailIncreasing DEF Older
<1>4. TypeInv'
  BY <1>1, <1>2 DEF TypeInv
<1>5. Holder' /\ FileInOrder'
  BY <1>1 DEF Holder, FileInOrder
<1>6. Older'
  BY <1>1, <1>2, <1>3 DEF Older
<1> QED
  BY <1>4, <1>5, <1>6

(* The dialog's thread touches neither the queue nor a frame. *)
LEMMA DialogStep ==
  ASSUME IInv, InitRecord \/ StartRecord \/ StopRecord \/ Trailer
  PROVE  IInv'
<1> USE DEF IInv
<1>1. CASE InitRecord
  <2>1. Len(<<>>) = 0 /\ <<>> \in Seq(Nat)
    BY EmptySeq
  <2>2. TypeInv'
    BY <1>1, <2>1 DEF InitRecord, TypeInv
  <2>3. Holder' /\ Older' /\ FileInOrder'
    BY <1>1, <2>1 DEF InitRecord, Holder, Older, FileInOrder
  <2> QED
    BY <2>2, <2>3
<1>2. CASE StartRecord
  <2> DEFINE n == records + 1
  <2>1. /\ thread' = [thread EXCEPT ![n] = "test"] /\ records' = n /\ records \in Nat
        /\ UNCHANGED <<m_mutex, hand, queue, frame, file, ended, late>>
        /\ thread \in [Threads -> Places]
    BY <1>2 DEF StartRecord, TypeInv
  <2>2. TypeInv'
    <3>1. thread' \in [Threads -> Places]
      BY <2>1 DEF Places
    <3> QED
      BY <1>2, <2>1, <3>1 DEF StartRecord, TypeInv
  <2>3. \A t \in Threads : IF t = n THEN thread'[t] = "test" /\ hand[t] = 0
                           ELSE thread'[t] = thread[t]
    BY <2>1 DEF Holder, Threads
  <2>4. Holder'
    BY <2>1, <2>3 DEF Holder, Threads
  <2>5. Older' /\ FileInOrder'
    BY <2>1, <2>3 DEF Older, FileInOrder
  <2> QED
    BY <2>2, <2>4, <2>5
<1>3. CASE StopRecord
  BY <1>3 DEF StopRecord, TypeInv, Holder, Older, FileInOrder
<1>4. CASE Trailer
  BY <1>4 DEF Trailer, TypeInv, Holder, Older, FileInOrder
<1> QED
  BY <1>1, <1>2, <1>3, <1>4

LEMMA TestStep == ASSUME IInv, NEW t \in Threads, Test(t) PROVE IInv'
<1> USE DEF IInv
<1>1. /\ thread' = [thread EXCEPT ![t] = "lock"] /\ thread[t] = "test"
      /\ UNCHANGED <<m_bStart, m_mutex, dialog, hand, queue, frame, records, file, ended, late>>
      /\ thread \in [Threads -> Places]
  BY DEF Test, TypeInv
<1>2. \A u \in Threads : IF u = t THEN thread'[u] = "lock" ELSE thread'[u] = thread[u]
  BY <1>1
<1>3. TypeInv'
  BY <1>1 DEF TypeInv, Places
<1>4. Holder'
  BY <1>1, <1>2 DEF Holder
<1>5. Older' /\ FileInOrder'
  BY <1>1, <1>2 DEF Older, FileInOrder
<1> QED
  BY <1>3, <1>4, <1>5

LEMMA LockStep == ASSUME IInv, NEW t \in Threads, Lock(t) PROVE IInv'
<1> USE DEF IInv
<1>1. /\ thread' = [thread EXCEPT ![t] = "get"] /\ thread[t] = "lock"
      /\ m_mutex = 0 /\ m_mutex' = t
      /\ UNCHANGED <<m_bStart, dialog, hand, queue, frame, records, file, ended, late>>
      /\ thread \in [Threads -> Places]
  BY DEF Lock, TypeInv, Free
<1>2. \A u \in Threads : IF u = t THEN thread'[u] = "get" ELSE thread'[u] = thread[u]
  BY <1>1
<1>3. TypeInv'
  BY <1>1 DEF TypeInv, Places, Threads
<1>4. Holder'
  BY <1>1, <1>2 DEF Holder, Threads
<1>5. Older' /\ FileInOrder'
  BY <1>1, <1>2 DEF Older, FileInOrder
<1> QED
  BY <1>3, <1>4, <1>5

LEMMA GetStep == ASSUME IInv, NEW t \in Threads, GetFrame(t) PROVE IInv'
<1> USE DEF IInv
<1>1. /\ thread' = [thread EXCEPT ![t] = "write"] /\ thread[t] = "get"
      /\ hand' = [hand EXCEPT ![t] = Head(queue)]
      /\ queue \in Seq(Nat) /\ queue # <<>> /\ queue' = Tail(queue)
      /\ UNCHANGED <<m_bStart, m_mutex, dialog, frame, records, file, ended, late>>
      /\ thread \in [Threads -> Places] /\ hand \in [Threads -> Nat]
  BY DEF GetFrame, TypeInv
<1>2. /\ queue' \in Seq(Nat) /\ Head(queue) \in Nat
      /\ 1 \in 1..Len(queue) /\ Head(queue) = queue[1]
      /\ \A i \in 1..Len(queue') : i + 1 \in 1..Len(queue) /\ queue'[i] = queue[i + 1]
  BY <1>1, Removed
<1>3. /\ Increasing(queue')
      /\ \A i \in 1..Len(queue') : Head(queue) < queue'[i]
  BY <1>1, TailIncreasing DEF Older
<1>4. \A u \in Threads : IF u = t THEN thread'[u] = "write" /\ hand'[u] = Head(queue)
                         ELSE thread'[u] = thread[u] /\ hand'[u] = hand[u]
  BY <1>1
<1>5. TypeInv'
  BY <1>1, <1>2 DEF TypeInv, Places
<1>6. Holder'
  BY <1>1, <1>4 DEF Holder
<1>7. ASSUME NEW u \in Threads, thread'[u] = "write"
      PROVE  /\ hand'[u] <= frame
             /\ \A j \in 1..Len(queue') : hand'[u] < queue'[j]
             /\ \A i \in 1..Len(file) : file[i] < hand'[u]
  <2>1. CASE u = t
    BY <1>2, <1>3, <1>4, <2>1 DEF Older
  <2>2. CASE u # t
    BY <1>2, <1>4, <1>7, <2>2 DEF Older
  <2> QED
    BY <2>1, <2>2
<1>8. Older'
  BY <1>1, <1>2, <1>3, <1>7 DEF Older
<1>9. FileInOrder'
  BY <1>1 DEF FileInOrder
<1> QED
  BY <1>5, <1>6, <1>8, <1>9

(* Only the holder of the mutex has a frame, so nobody else's is older.    *)
LEMMA WriteStep == ASSUME IInv, NEW t \in Threads, Write(t) PROVE IInv'
<1> USE DEF IInv
<1>1. /\ thread' = [thread EXCEPT ![t] = "test"] /\ thread[t] = "write"
      /\ hand' = [hand EXCEPT ![t] = 0] /\ m_mutex' = 0
      /\ file \in Seq(Nat) /\ hand[t] \in Nat
      /\ UNCHANGED <<m_bStart, dialog, queue, frame, records, ended>>
      /\ thread \in [Threads -> Places] /\ hand \in [Threads -> Nat]
  BY DEF Write, TypeInv, Free
<1>2. file' = Append(file, hand[t]) \/ file' = file
  BY DEF Write
<1>3. \A u \in Threads : IF u = t THEN thread'[u] = "test" /\ hand'[u] = 0
                         ELSE thread'[u] = thread[u] /\ hand'[u] = hand[u]
  BY <1>1
<1>4. \A u \in Threads : thread'[u] \notin {"get", "write"}
  BY <1>1, <1>3 DEF Holder
<1>5. Holder'
  BY <1>1, <1>3, <1>4 DEF Holder
<1>6. CASE file' = file
  <2>1. TypeInv'
    BY <1>1, <1>6, MaxRecordsAssumption DEF TypeInv, Places
  <2>2. Older' /\ FileInOrder'
    BY <1>1, <1>4, <1>6 DEF Older, FileInOrder
  <2> QED
    BY <1>5, <2>1, <2>2
<1>7. CASE file' = Append(file, hand[t])
  <2>1. /\ file' \in Seq(Nat) /\ Len(file) \in Nat /\ Len(file') = Len(file) + 1
        /\ \A i \in 1..Len(file) : file'[i] = file[i]
        /\ file'[Len(file) + 1] = hand[t]
        /\ \A i \in 1..Len(file') : i \in 1..Len(file) \/ i = Len(file) + 1
    BY <1>1, <1>7, Appended
  <2>2. TypeInv'
    BY <1>1, <2>1, MaxRecordsAssumption DEF TypeInv, Places
  <2>3. Increasing(file')
    <3>1. Increasing(file) /\ \A i \in 1..Len(file) : file[i] < hand[t]
      BY <1>1 DEF FileInOrder, Increasing, Older
    <3> QED
      BY <1>1, <1>7, <3>1, AppendIncreasing
  <2>4. FileInOrder'
    BY <2>3 DEF FileInOrder, Increasing
  <2>5. /\ hand[t] <= frame
        /\ \A j \in 1..Len(queue) : hand[t] < queue[j]
    BY <1>1 DEF Older
  <2>6. Older'
    BY <1>1, <1>4, <2>1, <2>5 DEF Older
  <2> QED
    BY <1>5, <2>2, <2>4, <2>6
<1> QED
  BY <1>2, <1>6, <1>7

LEMMA StepInv == ASSUME IInv, [Next]_vars PROVE IInv'
<1>1. CASE Put
  BY <1>1, PutStep
<1>2. CASE TakenByOther
  BY <1>2, TakenStep
<1>3. CASE InitRecord \/ StartRecord \/ StopRecord \/ Trailer
  BY <1>3, DialogStep
<1>4. ASSUME NEW t \in Threads, Test(t) \/ Lock(t) \/ GetFrame(t) \/ Write(t)
      PROVE  IInv'
  BY <1>4, TestStep, LockStep, GetStep, WriteStep
<1>5. CASE UNCHANGED vars
  BY <1>5 DEF vars, IInv, TypeInv, Holder, Older, FileInOrder, Increasing
<1> QED
  BY <1>1, <1>2, <1>3, <1>4, <1>5 DEF Next

-----------------------------------------------------------------------------
(* The frames of a file are in the order of their capture, for any number  *)
(* of recording threads.                                                   *)
THEOREM FileInOrderCorrect == Spec => []FileInOrder
<1>1. IInv => FileInOrder
  BY DEF IInv
<1> QED
  BY <1>1, InitInv, StepInv, PTL DEF Spec

(* StopRecord writes the trailer while no thread has a frame in its hand.  *)
THEOREM TrailerCorrect == Spec => TrailerBetweenFrames
<1>1. ASSUME IInv, [Next]_vars
      PROVE  [~ended /\ ended' => \A t \in Threads : hand[t] = 0]_vars
  <2> SUFFICES ASSUME ~ended, ended', NEW t \in Threads, UNCHANGED vars \/ Next
               PROVE  hand[t] = 0
    BY <1>1
  <2>1. Trailer
    BY DEF Next, vars, Put, TakenByOther, InitRecord, StartRecord, StopRecord,
           Test, Lock, GetFrame, Write
  <2>2. m_mutex = 0 /\ t # 0
    BY <2>1 DEF Trailer, Free, Threads
  <2> QED
    BY <1>1, <2>2 DEF IInv, Holder
<1> QED
  BY <1>1, InitInv, StepInv, PTL DEF Spec, TrailerBetweenFrames

-----------------------------------------------------------------------------
(* Behind the trailer nobody tests m_bStart with success any more: a write *)
(* uses up one of the threads that did before.                             *)
Busy == {t \in Threads : thread[t] \notin {"none", "test"}}

Closed ==
  /\ IInv
  /\ late \in Nat
  /\ dialog = "starting" => ~ended
  /\ ended \/ dialog = "stopping" => ~m_bStart
  /\ LateBounded

LEMMA BusyCount ==
  ASSUME IInv
  PROVE  IsFiniteSet(Busy) /\ Cardinality(Busy) \in Nat /\ Cardinality(Busy) <= records
<1>1. records \in Nat
  BY DEF IInv, TypeInv
<1>2. Busy \subseteq 1..records
  BY <1>1, MaxRecordsAssumption DEF IInv, Holder, Busy, Threads
<1>3. IsFiniteSet(1..records) /\ Cardinality(1..records) = records
  BY <1>1, FS_Interval
<1> QED
  BY <1>2, <1>3, FS_Subset, FS_CardinalityType

LEMMA InitClosed == Init => Closed
<1> SUFFICES ASSUME Init PROVE Closed
  OBVIOUS
<1>1. Busy = {}
  BY DEF Init, Busy
<1>2. Cardinality(Busy) = 0
  BY <1>1, FS_EmptySet
<1>3. LateBounded
  BY <1>2 DEF Init, LateBounded, Busy
<1> QED
  BY <1>3, InitInv DEF Init, Closed

LEMMA WriteClosed ==
  ASSUME Closed, NEW t \in Threads, Write(t)
  PROVE  late' \in Nat /\ LateBounded'
<1>1. /\ thread[t] = "write" /\ thread' = [thread EXCEPT ![t] = "test"]
      /\ late' = late \/ (ended /\ late' = late + 1) \/ (~ended /\ late' = late)
      /\ ended' = ended /\ records' = records
      /\ thread \in [Threads -> Places] /\ late \in Nat /\ records \in Nat
  BY DEF Write, Closed, IInv, TypeInv
<1>2. t \in Busy /\ Busy' = Busy \ {t}
  BY <1>1 DEF Busy
<1>3. IsFiniteSet(Busy) /\ Cardinality(Busy) \in Nat
  BY BusyCount DEF Closed
<1>4. Cardinality(Busy') = Cardinality(Busy) - 1
  BY <1>2, <1>3, FS_RemoveElement
<1>5. ended => late + Cardinality(Busy) <= records
  BY DEF Closed, LateBounded, Busy
<1>6. ended' => late' + Cardinality(Busy') <= records'
  BY <1>1, <1>3, <1>4, <1>5
<1> QED
  BY <1>1, <1>6 DEF LateBounded, Busy

LEMMA StepClosed == ASSUME Closed, [Next]_vars PROVE Closed'
<1>0. IInv' /\ IInv
  BY StepInv DEF Closed
<1>1. CASE UNCHANGED vars \/ Put \/ TakenByOther
  <2>1. UNCHANGED <<m_bStart, dialog, thread, records, ended, late>>
    BY <1>1 DEF vars, Put, TakenByOther
  <2>2. LateBounded'
    BY <2>1 DEF LateBounded, Closed
  <2> QED
    BY <1>0, <2>1, <2>2 DEF Closed
<1>2. CASE InitRecord \/ StartRecord \/ StopRecord
  <2>1. ~ended' \/ StopRecord
    BY <1>2 DEF InitRecord, StartRecord, Closed
  <2>2. CASE ~ended'
    BY <1>0, <1>2, <2>2 DEF InitRecord, StartRecord, StopRecord, Closed, LateBounded
  <2>3. CASE StopRecord
    BY <1>0, <2>3 DEF StopRecord, Closed, LateBounded
  <2> QED
    BY <2>1, <2>2, <2>3
<1>3. CASE Trailer
  <2>1. Busy' = Busy /\ late' = 0 /\ records' = records
    BY <1>3 DEF Trailer, Busy
  <2>2. Cardinality(Busy) \in Nat /\ Cardinality(Busy) <= records /\ records \in Nat
    BY <1>0, BusyCount DEF IInv, TypeInv
  <2>3. late' + Cardinality(Busy') <= records'
    BY <2>1, <2>2
  <2>4. LateBounded'
    BY <2>3 DEF LateBounded, Busy
  <2> QED
    BY <1>0, <1>3, <2>4 DEF Trailer, Closed
<1>4. ASSUME NEW t \in Threads, Test(t) \/ Lock(t) \/ GetFrame(t) PROVE Closed'
  <2>1. /\ UNCHANGED <<m_bStart, dialog, records, ended, late>>
        /\ thread \in [Threads -> Places]
    BY <1>0, <1>4 DEF Test, Lock, GetFrame, IInv, TypeInv
  <2>2. ended => Busy' = Busy
    BY <1>4, <2>1 DEF Test, Lock, GetFrame, Busy, Closed
  <2>3. LateBounded'
    BY <2>1, <2>2 DEF LateBounded, Busy, Closed
  <2> QED
    BY <1>0, <2>1, <2>3 DEF Closed
<1>5. ASSUME NEW t \in Threads, Write(t) PROVE Closed'
  <2>1. UNCHANGED <<m_bStart, dialog, ended>>
    BY <1>5 DEF Write
  <2> QED
    BY <1>0, <1>5, <2>1, WriteClosed DEF Closed
<1> QED
  BY <1>1, <1>2, <1>3, <1>4, <1>5 DEF Next

(* Behind its trailer a file gets at most one frame for each thread that   *)
(* had tested m_bStart.                                                    *)
THEOREM LateBoundedCorrect == Spec => []LateBounded
<1>1. Closed => LateBounded
  BY DEF Closed
<1> QED
  BY <1>1, InitClosed, StepClosed, PTL DEF Spec
=============================================================================
