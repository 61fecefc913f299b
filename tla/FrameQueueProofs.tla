-------------------------- MODULE FrameQueueProofs --------------------------
(***************************************************************************)
(* Proofs about FrameQueue, for every number of threads, nodes and frames. *)
(***************************************************************************)
EXTENDS FrameQueue, SequenceTheorems, FiniteSetTheorems, TLAPS

(* One disjunct per way a step of the queue can be taken. *)
LEMMA NextCases ==
  ASSUME [Next]_vars
  PROVE  \/ UNCHANGED vars
         \/ \E t \in Threads : PutFails(t)
         \/ \E t \in Threads, n \in Nodes : Put(t, n)
         \/ \E t \in Threads : GetAborted(t)
         \/ \E t \in Threads : GetFrame(t)
         \/ \E t \in Threads : GetWait(t)
         \/ \E t \in Threads : SpuriousWakeup(t)
         \/ \E t \in Threads : Abort(t)
         \/ \E t \in Threads : Start(t)
         \/ \E t \in Threads : FlushLock(t)
         \/ \E t \in Threads : FlushNode(t)
         \/ \E t \in Threads : FlushUnlock(t)
         \/ \E t \in Threads : Reinit(t)
BY DEF Next, GetNothing

(* What removing the head of a list does to its length and its elements. *)
LEMMA TailFacts ==
  ASSUME NEW S, NEW s \in Seq(S), s # <<>>
  PROVE  /\ Tail(s) \in Seq(S)
         /\ Len(s) \in Nat /\ Len(s) > 0
         /\ Len(Tail(s)) = Len(s) - 1
         /\ \A i \in 1..(Len(s) - 1) : Tail(s)[i] = s[i + 1]
         /\ Tail(s) = <<>> <=> Len(s) = 1
<1>1. Len(s) \in Nat /\ Len(s) > 0
  BY EmptySeq, LenProperties
<1>2. /\ Tail(s) \in Seq(S)
      /\ Len(Tail(s)) = Len(s) - 1
      /\ \A i \in 1..Len(Tail(s)) : Tail(s)[i] = s[i + 1]
  BY HeadTailProperties
<1>3. Tail(s) = <<>> <=> Len(Tail(s)) = 0
  BY <1>2, EmptySeq
<1> QED
  BY <1>1, <1>2, <1>3

LEMMA AppendFacts ==
  ASSUME NEW S, NEW s \in Seq(S), NEW e \in S
  PROVE  /\ Append(s, e) \in Seq(S)
         /\ Len(s) \in Nat
         /\ Append(s, e) # <<>>
         /\ Len(Append(s, e)) = Len(s) + 1
         /\ \A i \in 1..Len(s) : Append(s, e)[i] = s[i]
         /\ Append(s, e)[Len(s) + 1] = e
         /\ s = <<>> <=> Len(s) = 0
BY AppendProperties, EmptySeq, LenProperties

-----------------------------------------------------------------------------
(* A queue that was destroyed is empty and nobody is in it; a thread that  *)
(* destroys it is alone.                                                   *)
Lifetime ==
  /\ ~live => list = <<>> /\ \A t \in Threads : pc[t] = "run"
  /\ \A t, u \in Threads : pc[t] = "destroy" /\ u # t => pc[u] = "run"

(* The nodes on the list hold frames that were offered. *)
Numbered == \A i \in 1..Len(list) : buffer[list[i]] \in 1..offered

Shape == TypeOK /\ Lifetime /\ OneFlusher /\ ListShape /\ EndsAgree /\ Numbered

LEMMA InitShape == Init => Shape
<1> SUFFICES ASSUME Init PROVE Shape
  OBVIOUS
<1> USE DEF Init
<1>1. TypeOK
  BY MaxFramesAssumption, EmptySeq DEF TypeOK, Frame
<1>2. flushing = {}
  BY DEF flushing
<1>3. Len(list) = 0
  BY EmptySeq
<1>4. Lifetime /\ OneFlusher /\ Numbered
  BY <1>2, <1>3 DEF Lifetime, OneFlusher, Numbered
<1>5. ListShape /\ EndsAgree
  BY <1>2, <1>3 DEF ListShape, EndsAgree, head
<1> QED
  BY <1>1, <1>4, <1>5 DEF Shape

(* At a get the list is not empty and its first node is first_frame. *)
LEMMA HeadIsFirst ==
  ASSUME Shape, NEW t \in Threads, GetFrame(t)
  PROVE  /\ flushing = {}
         /\ list \in Seq(Nodes) /\ list # <<>>
         /\ first_frame \in Nodes
         /\ list[1] = first_frame
         /\ buffer[first_frame] \in 1..offered
<1>1. flushing = {} /\ list # <<>> /\ list[1] = first_frame /\ first_frame \in Nodes
  BY DEF Shape, TypeOK, GetFrame, AtGet, Unlocked, ListShape, head
<1>2. 1 \in 1..Len(list)
  BY <1>1, TailFacts DEF Shape, TypeOK
<1> QED
  BY <1>1, <1>2 DEF Shape, TypeOK, Numbered

(* The same for the cursor of a flush. *)
LEMMA HeadIsCursor ==
  ASSUME Shape, NEW t \in Threads, FlushNode(t)
  PROVE  /\ flushing # {}
         /\ list \in Seq(Nodes) /\ list # <<>>
         /\ cursor \in Nodes
         /\ list[1] = cursor
         /\ buffer[cursor] \in 1..offered
<1>1. flushing # {} /\ list # <<>> /\ list[1] = cursor /\ cursor \in Nodes
  BY DEF Shape, TypeOK, FlushNode, ListShape, head
<1>2. 1 \in 1..Len(list)
  BY <1>1, TailFacts DEF Shape, TypeOK
<1> QED
  BY <1>1, <1>2 DEF Shape, TypeOK, Numbered

(* Every step keeps the types. *)
LEMMA TypeStep ==
  ASSUME Shape, [Next]_vars
  PROVE  TypeOK'
<1> USE DEF TypeOK, Frame
<1>0. TypeOK
  BY DEF Shape
<1>1. CASE UNCHANGED vars
  BY <1>0, <1>1 DEF vars, listVars, history
<1>2. ASSUME NEW t \in Threads, PutFails(t) PROVE TypeOK'
  BY <1>0, <1>2, MaxFramesAssumption DEF PutFails, listVars
<1>3. ASSUME NEW t \in Threads, NEW n \in Nodes, Put(t, n) PROVE TypeOK'
  <2>1. list' \in Seq(Nodes)
    BY <1>0, <1>3, AppendProperties DEF Put, Link
  <2>2. /\ pc' \in [Threads -> {"run", "waiting", "woken", "flush", "destroy"}]
        /\ stranded' \subseteq Threads
    BY <1>0, <1>3 DEF Put, Link, Signal, waiting
  <2>3. next' \in [Nodes -> Nodes \cup {NULL}]
    BY <1>0, <1>3 DEF Put, Link
  <2>4. offered' \in 0..MaxFrames /\ buffer' \in [Nodes -> 0..MaxFrames] /\ nb_packets' \in Nat
    BY <1>0, <1>3, MaxFramesAssumption DEF Put, Link
  <2>5. first_frame' \in Nodes \cup {NULL} /\ last_frame' \in Nodes \cup {NULL} /\ heap' \subseteq Nodes
    BY <1>0, <1>3 DEF Put, Link
  <2> QED
    BY <1>0, <1>3, <2>1, <2>2, <2>3, <2>4, <2>5 DEF Put, Link
<1>4. ASSUME NEW t \in Threads, GetAborted(t) PROVE TypeOK'
  BY <1>0, <1>4 DEF GetAborted, listVars, history
<1>5. ASSUME NEW t \in Threads, GetFrame(t) PROVE TypeOK'
  <2>1. Tail(list) \in Seq(Nodes) /\ Len(list) \in Nat /\ Len(list) > 0
    BY <1>5, HeadIsFirst, TailFacts
  <2>2. flushing = {} /\ buffer[first_frame] \in 1..offered
    BY <1>5, HeadIsFirst
  <2>3. nb_packets' \in Nat
    <3>1. nb_packets = Len(list)
      BY <2>2 DEF Shape, EndsAgree
    <3> QED
      BY <1>5, <2>1, <3>1 DEF GetFrame
  <2>4. delivered' \subseteq Frame
    <3>1. buffer[first_frame] \in Frame
      BY <1>0, <2>2, MaxFramesAssumption
    <3> QED
      BY <1>0, <1>5, <3>1 DEF GetFrame
  <2>5. first_frame' \in Nodes \cup {NULL} /\ last_frame' \in Nodes \cup {NULL}
    BY <1>0, <1>5, HeadIsFirst DEF GetFrame
  <2> QED
    BY <1>0, <1>5, <2>1, <2>3, <2>4, <2>5 DEF GetFrame
<1>6. ASSUME NEW t \in Threads, GetWait(t) PROVE TypeOK'
  BY <1>0, <1>6 DEF GetWait, listVars, history
<1>7. ASSUME NEW t \in Threads, SpuriousWakeup(t) PROVE TypeOK'
  BY <1>0, <1>7 DEF SpuriousWakeup, listVars
<1>8. ASSUME NEW t \in Threads, Abort(t) PROVE TypeOK'
  BY <1>0, <1>8 DEF Abort, listVars, waiting
<1>9. ASSUME NEW t \in Threads, Start(t) PROVE TypeOK'
  BY <1>0, <1>9 DEF Start, listVars, history
<1>10. ASSUME NEW t \in Threads, FlushLock(t) PROVE TypeOK'
  BY <1>0, <1>10 DEF FlushLock, listVars, history
<1>11. ASSUME NEW t \in Threads, FlushNode(t) PROVE TypeOK'
  <2>1. Tail(list) \in Seq(Nodes)
    BY <1>11, HeadIsCursor, TailFacts
  <2>2. freed' \subseteq Frame
    <3>1. buffer[cursor] \in 1..offered
      BY <1>11, HeadIsCursor
    <3>2. buffer[cursor] \in Frame
      BY <1>0, <3>1, MaxFramesAssumption
    <3> QED
      BY <1>0, <1>11, <3>2 DEF FlushNode
  <2> QED
    BY <1>0, <1>11, <2>1, <2>2, HeadIsCursor DEF FlushNode
<1>12. ASSUME NEW t \in Threads, FlushUnlock(t) PROVE TypeOK'
  BY <1>0, <1>12 DEF FlushUnlock, history
<1>13. ASSUME NEW t \in Threads, Reinit(t) PROVE TypeOK'
  BY <1>0, <1>13 DEF Reinit, history
<1> QED
  BY NextCases, <1>1, <1>2, <1>3, <1>4, <1>5, <1>6, <1>7, <1>8, <1>9, <1>10,
     <1>11, <1>12, <1>13

-----------------------------------------------------------------------------
(* A step that leaves the list alone, and lets nobody start or end a flush, *)
(* keeps the shape of the list.                                             *)
LEMMA ListUntouched ==
  ASSUME Shape, UNCHANGED <<listVars, cursor, list>>,
         flushing' = flushing, offered' \in Nat, offered' >= offered
  PROVE  (ListShape /\ EndsAgree /\ Numbered)'
<1>1. Len(list) \in Nat /\ offered \in Nat
  BY LenProperties, MaxFramesAssumption DEF Shape, TypeOK
<1> QED
  BY <1>1 DEF Shape, TypeOK, ListShape, EndsAgree, Numbered, head, listVars

(* A put links the new node behind the last one. *)
LEMMA PutShape ==
  ASSUME Shape, NEW t \in Threads, NEW n \in Nodes, Put(t, n)
  PROVE  (ListShape /\ EndsAgree /\ Numbered)'
<1>1. flushing = {} /\ flushing' = {}
  BY DEF Put, Link, Unlocked, Signal, flushing, waiting, Shape, TypeOK
<1>2. /\ list \in Seq(Nodes) /\ list' = Append(list, n) /\ Len(list) \in Nat
      /\ list' \in Seq(Nodes) /\ list' # <<>>
      /\ Len(list') = Len(list) + 1
      /\ \A i \in 1..Len(list) : list'[i] = list[i] /\ list[i] \in Nodes
      /\ list'[Len(list) + 1] = n
      /\ list = <<>> <=> Len(list) = 0
  <2>1. list \in Seq(Nodes) /\ list' = Append(list, n)
    BY DEF Put, Link, Shape, TypeOK
  <2>2. \A i \in 1..Len(list) : list[i] \in Nodes
    BY <2>1, ElementOfSeq
  <2> QED
    BY <2>1, <2>2, AppendFacts
<1>3. ListShape /\ EndsAgree /\ Numbered /\ TypeOK
  BY DEF Shape
<1>4. \A i \in 1..Len(list) : list[i] # n /\ list[i] \in heap
  BY <1>3 DEF Put, Link, ListShape
<1>5. heap' = {list'[i] : i \in 1..Len(list')}
  BY <1>2, <1>3 DEF Put, Link, ListShape
<1>6. \A i, j \in 1..Len(list') : list'[i] = list'[j] => i = j
  BY <1>2, <1>3, <1>4 DEF ListShape
<1>7. \A i \in 1..Len(list') :
         next'[list'[i]] = IF i = Len(list') THEN NULL ELSE list'[i + 1]
  <2> SUFFICES ASSUME NEW i \in 1..Len(list')
               PROVE  next'[list'[i]] = IF i = Len(list') THEN NULL ELSE list'[i + 1]
    OBVIOUS
  <2>1. CASE list = <<>>
    BY <1>1, <1>2, <1>3, <2>1 DEF Put, Link, EndsAgree, TypeOK
  <2>2. CASE list # <<>>
    <3>1. last_frame = list[Len(list)] /\ Len(list) \in 1..Len(list) /\ last_frame # NULL
      BY <1>1, <1>2, <1>3, <2>2, NullAssumption DEF EndsAgree
    <3>2. next' = [next EXCEPT ![n] = NULL, ![last_frame] = n]
      BY <3>1 DEF Put, Link
    <3>3. CASE i = Len(list) + 1
      BY <1>2, <1>3, <1>4, <3>1, <3>2, <3>3 DEF TypeOK
    <3>4. CASE i = Len(list)
      BY <1>2, <1>3, <1>4, <3>1, <3>2, <3>4 DEF TypeOK
    <3>5. CASE i \in 1..Len(list) /\ i # Len(list)
      <4>1. list[i] # last_frame /\ list[i] # n /\ next'[list[i]] = next[list[i]]
        BY <1>2, <1>3, <1>4, <3>1, <3>2, <3>5 DEF ListShape, TypeOK
      <4>2. next[list[i]] = list[i + 1] /\ i + 1 \in 1..Len(list)
        BY <1>2, <1>3, <3>5 DEF ListShape
      <4> QED
        BY <1>2, <3>5, <4>1, <4>2
    <3> QED
      BY <1>2, <3>3, <3>4, <3>5
  <2> QED
    BY <2>1, <2>2
<1>8. head' = list'[1]
  <2>1. head = first_frame /\ head' = first_frame'
    BY <1>1 DEF head
  <2>2. CASE list = <<>>
    BY <1>1, <1>2, <1>3, <2>1, <2>2 DEF Put, Link, EndsAgree
  <2>3. CASE list # <<>>
    BY <1>1, <1>2, <1>3, <2>1, <2>3, NullAssumption DEF Put, Link, EndsAgree, ListShape
  <2> QED
    BY <2>2, <2>3
<1>9. EndsAgree'
  BY <1>1, <1>2, <1>3 DEF Put, Link, EndsAgree
<1>10. Numbered'
  BY <1>2, <1>3, <1>4, MaxFramesAssumption DEF Put, Link, Numbered, TypeOK
<1> QED
  BY <1>2, <1>5, <1>6, <1>7, <1>8, <1>9, <1>10 DEF ListShape

(* Unlinking and freeing the first node leaves the rest of the list well    *)
(* formed: both frame_queue_get and the loop of frame_queue_flush rely on it. *)
LEMMA ChainOfTail ==
  ASSUME Shape, list # <<>>, list' = Tail(list), heap' = heap \ {list[1]},
         UNCHANGED <<next, buffer, offered>>
  PROVE  /\ heap' = {list'[i] : i \in 1..Len(list')}
         /\ \A i, j \in 1..Len(list') : list'[i] = list'[j] => i = j
         /\ \A i \in 1..Len(list') :
               next'[list'[i]] = IF i = Len(list') THEN NULL ELSE list'[i + 1]
         /\ next[list[1]] = IF list' = <<>> THEN NULL ELSE list'[1]
         /\ Len(list') = Len(list) - 1
         /\ list' # <<>> => list'[Len(list')] = list[Len(list)]
         /\ Numbered'
<1>1. /\ Len(list) \in Nat /\ Len(list) > 0
      /\ Len(list') = Len(list) - 1
      /\ \A i \in 1..(Len(list) - 1) : list'[i] = list[i + 1]
      /\ list' = <<>> <=> Len(list) = 1
  BY TailFacts DEF Shape, TypeOK
<1>2. ListShape /\ Numbered
  BY DEF Shape
<1>3. heap' = {list'[i] : i \in 1..Len(list')}
  <2>1. ASSUME NEW i \in 1..Len(list') PROVE list'[i] \in heap'
    <3>1. list'[i] = list[i + 1] /\ i + 1 \in 1..Len(list) /\ 1 \in 1..Len(list) /\ i + 1 # 1
      BY <1>1
    <3> QED
      BY <1>2, <3>1 DEF ListShape
  <2>2. ASSUME NEW n \in heap' PROVE \E i \in 1..Len(list') : n = list'[i]
    <3>1. PICK i \in 1..Len(list) : n = list[i]
      BY <1>2 DEF ListShape
    <3>2. i # 1
      BY <3>1
    <3>3. i - 1 \in 1..Len(list') /\ list'[i - 1] = list[i]
      BY <1>1, <3>2
    <3> QED
      BY <3>1, <3>3
  <2> QED
    BY ONLY <2>1, <2>2
<1>4. \A i, j \in 1..Len(list') : list'[i] = list'[j] => i = j
  <2> SUFFICES ASSUME NEW i \in 1..Len(list'), NEW j \in 1..Len(list'), list'[i] = list'[j]
               PROVE  i = j
    OBVIOUS
  <2>1. i + 1 \in 1..Len(list) /\ j + 1 \in 1..Len(list) /\ list[i + 1] = list[j + 1]
    BY <1>1
  <2>2. i + 1 = j + 1
    BY <1>2, <2>1 DEF ListShape
  <2> QED
    BY <1>1, <2>2
<1>5. \A i \in 1..Len(list') :
         next'[list'[i]] = IF i = Len(list') THEN NULL ELSE list'[i + 1]
  <2> SUFFICES ASSUME NEW i \in 1..Len(list')
               PROVE  next'[list'[i]] = IF i = Len(list') THEN NULL ELSE list'[i + 1]
    OBVIOUS
  <2>1. i + 1 \in 1..Len(list) /\ list'[i] = list[i + 1]
    BY <1>1
  <2>2. next[list[i + 1]] = IF i + 1 = Len(list) THEN NULL ELSE list[(i + 1) + 1]
    BY <1>2, <2>1 DEF ListShape
  <2>3. i # Len(list') => list'[i + 1] = list[(i + 1) + 1]
    <3>1. Len(list) \in Nat /\ Len(list') = Len(list) - 1 /\ i \in 1..Len(list')
      BY <1>1
    <3>2. i # Len(list') => i + 1 \in 1..(Len(list) - 1)
      BY ONLY <3>1
    <3> QED
      BY <1>1, <3>2
  <2>4. i = Len(list') <=> i + 1 = Len(list)
    BY <1>1
  <2> QED
    BY <2>1, <2>2, <2>3, <2>4
<1>6. next[list[1]] = IF list' = <<>> THEN NULL ELSE list'[1]
  <2>1. 1 \in 1..Len(list)
    BY <1>1
  <2>2. next[list[1]] = IF 1 = Len(list) THEN NULL ELSE list[1 + 1]
    BY <1>2, <2>1 DEF ListShape
  <2>3. Len(list) # 1 => list'[1] = list[1 + 1]
    BY <1>1
  <2> QED
    BY <1>1, <2>2, <2>3
<1>7. Numbered'
  BY <1>1, <1>2 DEF Numbered
<1>8. list' # <<>> => list'[Len(list')] = list[Len(list)]
  BY <1>1
<1> QED
  BY <1>1, <1>3, <1>4, <1>5, <1>6, <1>7, <1>8

LEMMA GetShape ==
  ASSUME Shape, NEW t \in Threads, GetFrame(t)
  PROVE  (ListShape /\ EndsAgree /\ Numbered)'
<1>1. flushing = {} /\ flushing' = {}
  BY HeadIsFirst DEF GetFrame, flushing, Shape, TypeOK
<1>2. list # <<>> /\ list' = Tail(list) /\ heap' = heap \ {list[1]} /\ first_frame = list[1]
  BY HeadIsFirst DEF GetFrame
<1>3. UNCHANGED <<next, buffer, offered>>
  BY DEF GetFrame
<1>4. /\ heap' = {list'[i] : i \in 1..Len(list')}
      /\ \A i, j \in 1..Len(list') : list'[i] = list'[j] => i = j
      /\ \A i \in 1..Len(list') :
            next'[list'[i]] = IF i = Len(list') THEN NULL ELSE list'[i + 1]
      /\ next[list[1]] = IF list' = <<>> THEN NULL ELSE list'[1]
      /\ Len(list') = Len(list) - 1
      /\ list' # <<>> => list'[Len(list')] = list[Len(list)]
      /\ Numbered'
  BY <1>2, <1>3, ChainOfTail
<1>5. head' = IF list' = <<>> THEN NULL ELSE list'[1]
  BY <1>1, <1>2, <1>4 DEF head, GetFrame
<1>6. list' # <<>> => list'[1] # NULL
  <2>1. list' \in Seq(Nodes)
    BY <1>2, TailFacts DEF Shape, TypeOK
  <2>2. list' # <<>> => 1 \in 1..Len(list')
    BY <2>1, EmptySeq
  <2> QED
    BY <2>1, <2>2, ElementOfSeq, NullAssumption
<1>7. EndsAgree'
  <2>1. last_frame = list[Len(list)] /\ nb_packets = Len(list)
    BY <1>1, <1>2 DEF Shape, EndsAgree
  <2> QED
    BY <1>1, <1>2, <1>4, <1>6, <2>1 DEF EndsAgree, GetFrame
<1> QED
  BY <1>4, <1>5, <1>7 DEF ListShape

LEMMA FlushNodeShape ==
  ASSUME Shape, NEW t \in Threads, FlushNode(t)
  PROVE  (ListShape /\ EndsAgree /\ Numbered)'
<1>1. flushing # {} /\ flushing' = flushing
  BY HeadIsCursor DEF FlushNode, flushing
<1>2. list # <<>> /\ list' = Tail(list) /\ heap' = heap \ {list[1]} /\ cursor = list[1]
  BY HeadIsCursor DEF FlushNode
<1>3. UNCHANGED <<next, buffer, offered>>
  BY DEF FlushNode
<1>4. /\ heap' = {list'[i] : i \in 1..Len(list')}
      /\ \A i, j \in 1..Len(list') : list'[i] = list'[j] => i = j
      /\ \A i \in 1..Len(list') :
            next'[list'[i]] = IF i = Len(list') THEN NULL ELSE list'[i + 1]
      /\ next[list[1]] = IF list' = <<>> THEN NULL ELSE list'[1]
      /\ Numbered'
  BY <1>2, <1>3, ChainOfTail
<1>5. head' = IF list' = <<>> THEN NULL ELSE list'[1]
  BY <1>1, <1>2, <1>4 DEF head, FlushNode
<1>6. EndsAgree'
  BY <1>1 DEF EndsAgree
<1> QED
  BY <1>4, <1>5, <1>6 DEF ListShape

LEMMA FlushLockShape ==
  ASSUME Shape, NEW t \in Threads, FlushLock(t)
  PROVE  (ListShape /\ EndsAgree /\ Numbered)'
<1>1. flushing = {} /\ flushing' # {}
  BY DEF FlushLock, Unlocked, flushing, Shape, TypeOK
<1>2. UNCHANGED listVars /\ UNCHANGED history /\ head' = head
  BY <1>1 DEF FlushLock, head
<1> QED
  BY <1>1, <1>2 DEF Shape, ListShape, EndsAgree, Numbered, listVars, history

LEMMA FlushUnlockShape ==
  ASSUME Shape, NEW t \in Threads, FlushUnlock(t)
  PROVE  (ListShape /\ EndsAgree /\ Numbered)'
<1>1. flushing' = {}
  BY DEF FlushUnlock, flushing, Shape, OneFlusher, TypeOK
<1>2. list = <<>>
  <2>1. flushing # {} /\ cursor = NULL
    BY DEF FlushUnlock
  <2>2. list # <<>> => list[1] \in Nodes
    <3>1. list # <<>> => 1 \in 1..Len(list)
      BY EmptySeq DEF Shape, TypeOK
    <3> QED
      BY <3>1, ElementOfSeq DEF Shape, TypeOK
  <2> QED
    BY <2>1, <2>2, NullAssumption DEF Shape, ListShape, head
<1>3. list' = list /\ Len(list) = 0 /\ UNCHANGED <<next, buffer, heap, offered>>
  BY <1>2, EmptySeq DEF FlushUnlock, history
<1>4. ListShape'
  BY <1>1, <1>2, <1>3 DEF Shape, ListShape, head, FlushUnlock
<1>5. EndsAgree'
  BY <1>1, <1>2, <1>3 DEF EndsAgree, FlushUnlock
<1> QED
  BY <1>3, <1>4, <1>5 DEF Shape, Numbered

(* Who may be inside frame_queue_flush and frame_queue_destroy. *)
LEMMA LifetimeStep ==
  ASSUME Shape, [Next]_vars
  PROVE  (Lifetime /\ OneFlusher)'
<1> USE DEF Lifetime, OneFlusher, flushing
<1>0. TypeOK /\ Lifetime /\ OneFlusher
  BY DEF Shape
<1>1. CASE UNCHANGED vars
  BY <1>0, <1>1 DEF vars, listVars, history
<1>2. ASSUME NEW t \in Threads, PutFails(t) PROVE (Lifetime /\ OneFlusher)'
  BY <1>0, <1>2 DEF PutFails, TypeOK
<1>3. ASSUME NEW t \in Threads, NEW n \in Nodes, Put(t, n) PROVE (Lifetime /\ OneFlusher)'
  <2>1. live' /\ flushing' = {}
    BY <1>0, <1>3 DEF Put, Link, Signal, Unlocked, TypeOK, waiting
  <2> QED
    BY <2>1
<1>4. ASSUME NEW t \in Threads, GetAborted(t) PROVE (Lifetime /\ OneFlusher)'
  <2>1. live' /\ flushing' = {}
    BY <1>0, <1>4 DEF GetAborted, AtGet, Unlocked, TypeOK
  <2> QED
    BY <2>1
<1>5. ASSUME NEW t \in Threads, GetFrame(t) PROVE (Lifetime /\ OneFlusher)'
  <2>1. live' /\ flushing' = {}
    BY <1>0, <1>5 DEF GetFrame, AtGet, Unlocked, TypeOK
  <2> QED
    BY <2>1
<1>6. ASSUME NEW t \in Threads, GetWait(t) PROVE (Lifetime /\ OneFlusher)'
  <2>1. live' /\ flushing' = {}
    BY <1>0, <1>6 DEF GetWait, AtGet, Unlocked, TypeOK
  <2> QED
    BY <2>1
<1>7. ASSUME NEW t \in Threads, SpuriousWakeup(t) PROVE (Lifetime /\ OneFlusher)'
  <2>1. live /\ live' = live /\ flushing' = flushing
    BY <1>0, <1>7 DEF SpuriousWakeup, TypeOK
  <2>2. \A u \in Threads : u # t => pc[u] # "destroy"
    BY <1>0, <1>7 DEF SpuriousWakeup
  <2>3. \A u \in Threads : pc'[u] # "destroy"
    BY <1>0, <1>7, <2>2 DEF SpuriousWakeup, TypeOK
  <2> QED
    BY <1>0, <2>1, <2>3
<1>8. ASSUME NEW t \in Threads, Abort(t) PROVE (Lifetime /\ OneFlusher)'
  <2>1. live' /\ flushing' = {}
    BY <1>0, <1>8 DEF Abort, Unlocked, TypeOK, waiting
  <2> QED
    BY <2>1
<1>9. ASSUME NEW t \in Threads, Start(t) PROVE (Lifetime /\ OneFlusher)'
  BY <1>0, <1>9 DEF Start, Unlocked
<1>10. ASSUME NEW t \in Threads, FlushLock(t) PROVE (Lifetime /\ OneFlusher)'
  <2>1. live' /\ flushing' = {t}
    BY <1>0, <1>10 DEF FlushLock, Unlocked, TypeOK
  <2>2. pc'[t] = "destroy" => \A u \in Threads : u # t => pc'[u] = "run"
    BY <1>0, <1>10 DEF FlushLock, TypeOK
  <2>3. \A u \in Threads : pc'[u] = "destroy" => u = t
    BY <2>1
  <2> QED
    BY <2>1, <2>2, <2>3
<1>11. ASSUME NEW t \in Threads, FlushNode(t) PROVE (Lifetime /\ OneFlusher)'
  <2>1. live
    BY <1>0, <1>11 DEF FlushNode
  <2> QED
    BY <1>0, <1>11, <2>1 DEF FlushNode
<1>12. ASSUME NEW t \in Threads, FlushUnlock(t) PROVE (Lifetime /\ OneFlusher)'
  <2>1. flushing = {t} /\ flushing' = {}
    BY <1>0, <1>12 DEF FlushUnlock, TypeOK
  <2>2. CASE pc[t] = "flush"
    BY <1>12, <2>1, <2>2 DEF FlushUnlock
  <2>3. CASE pc[t] = "destroy"
    <3>1. \A u \in Threads : pc'[u] = "run"
      BY <1>0, <1>12, <2>3 DEF FlushUnlock, TypeOK
    <3>2. list' = <<>>
      <4>1. list # <<>> => list[1] \in Nodes
        <5>1. list # <<>> => 1 \in 1..Len(list)
          BY <1>0, EmptySeq DEF TypeOK
        <5> QED
          BY <1>0, <5>1, ElementOfSeq DEF TypeOK
      <4> QED
        BY <1>12, <4>1, <2>1, NullAssumption DEF FlushUnlock, history, Shape, ListShape, head
    <3> QED
      BY <3>1, <3>2, <2>1
  <2> QED
    BY <1>12, <2>2, <2>3 DEF FlushUnlock
<1>13. ASSUME NEW t \in Threads, Reinit(t) PROVE (Lifetime /\ OneFlusher)'
  BY <1>0, <1>13 DEF Reinit, history, TypeOK
<1> QED
  BY NextCases, <1>1, <1>2, <1>3, <1>4, <1>5, <1>6, <1>7, <1>8, <1>9, <1>10,
     <1>11, <1>12, <1>13

LEMMA ShapeStep ==
  ASSUME Shape, [Next]_vars
  PROVE  Shape'
<1> DEFINE Linked == ListShape /\ EndsAgree /\ Numbered
<1>0. TypeOK /\ offered \in Nat
  BY MaxFramesAssumption DEF Shape, TypeOK
<1>1. ASSUME UNCHANGED vars PROVE Linked'
  <2>1. UNCHANGED <<listVars, cursor, list, offered>> /\ flushing' = flushing
    BY <1>1 DEF vars, history, flushing
  <2> QED
    BY <1>0, <2>1, ListUntouched
<1>2. ASSUME NEW t \in Threads, PutFails(t) PROVE Linked'
  BY <1>0, <1>2, ListUntouched DEF PutFails, flushing
<1>3. ASSUME NEW t \in Threads, NEW n \in Nodes, Put(t, n) PROVE Linked'
  BY <1>3, PutShape
<1>4. ASSUME NEW t \in Threads, GetAborted(t) PROVE Linked'
  <2>1. flushing' = flushing
    BY <1>0, <1>4 DEF GetAborted, AtGet, flushing, TypeOK
  <2> QED
    BY <1>0, <1>4, <2>1, ListUntouched DEF GetAborted, history
<1>5. ASSUME NEW t \in Threads, GetFrame(t) PROVE Linked'
  BY <1>5, GetShape
<1>6. ASSUME NEW t \in Threads, GetWait(t) PROVE Linked'
  <2>1. flushing' = flushing
    BY <1>0, <1>6 DEF GetWait, AtGet, flushing, TypeOK
  <2> QED
    BY <1>0, <1>6, <2>1, ListUntouched DEF GetWait, history
<1>7. ASSUME NEW t \in Threads, SpuriousWakeup(t) PROVE Linked'
  <2>1. flushing' = flushing
    BY <1>0, <1>7 DEF SpuriousWakeup, flushing, TypeOK
  <2> QED
    BY <1>0, <1>7, <2>1, ListUntouched DEF SpuriousWakeup
<1>8. ASSUME NEW t \in Threads, Abort(t) PROVE Linked'
  <2>1. flushing' = flushing
    BY <1>0, <1>8 DEF Abort, flushing, waiting, TypeOK
  <2> QED
    BY <1>0, <1>8, <2>1, ListUntouched DEF Abort
<1>9. ASSUME NEW t \in Threads, Start(t) PROVE Linked'
  BY <1>0, <1>9, ListUntouched DEF Start, history, flushing
<1>10. ASSUME NEW t \in Threads, FlushLock(t) PROVE Linked'
  BY <1>10, FlushLockShape
<1>11. ASSUME NEW t \in Threads, FlushNode(t) PROVE Linked'
  BY <1>11, FlushNodeShape
<1>12. ASSUME NEW t \in Threads, FlushUnlock(t) PROVE Linked'
  BY <1>12, FlushUnlockShape
<1>13. ASSUME NEW t \in Threads, Reinit(t) PROVE Linked'
  <2>1. list = <<>> /\ flushing = {} /\ flushing' = {} /\ Len(list) = 0
    BY <1>13, EmptySeq DEF Reinit, Shape, Lifetime, flushing
  <2> QED
    BY <1>13, <2>1 DEF Reinit, history, Shape, ListShape, EndsAgree, Numbered, head
<1>14. Linked'
  BY NextCases, <1>1, <1>2, <1>3, <1>4, <1>5, <1>6, <1>7, <1>8, <1>9, <1>10,
     <1>11, <1>12, <1>13
<1> QED
  BY <1>14, TypeStep, LifetimeStep DEF Shape

(* The shape of the queue holds in every reachable state. *)
LEMMA SpecShape == Spec => []Shape
<1>1. Shape /\ [Next]_vars => Shape'
  BY ShapeStep
<1> QED
  BY InitShape, <1>1, PTL DEF Spec

(* Every variable of the queue keeps its type, whatever the threads do. *)
THEOREM TypeCorrect == Spec => []TypeOK
<1>1. Shape => TypeOK
  BY DEF Shape
<1> QED
  BY SpecShape, <1>1, PTL

(* The pointers always form the list of the nodes that were put and not    *)
(* yet taken or freed, in order, and these are the allocated ones.         *)
THEOREM ListCorrect == Spec => []ListShape
<1>1. Shape => ListShape
  BY DEF Shape
<1> QED
  BY SpecShape, <1>1, PTL

(* Whenever the mutex is free, last_frame is the last node of the list and *)
(* nb_packets its length.                                                  *)
THEOREM EndsCorrect == Spec => []EndsAgree
<1>1. Shape => EndsAgree
  BY DEF Shape
<1> QED
  BY SpecShape, <1>1, PTL

-----------------------------------------------------------------------------
(* Signals: the invariant that a queued frame has a thread coming for it.  *)
Wakeup == NoLostWakeup /\ StrandedAsleep

LEMMA InitWakeup == Init => Wakeup
BY DEF Init, Wakeup, NoLostWakeup, StrandedAsleep, waiting

LEMMA WokenFinite ==
  IsFiniteSet(woken) /\ Cardinality(woken) \in Nat
BY ThreadsAssumption, FS_Subset, FS_CardinalityType DEF woken

(* A thread that is about to wait has found the list empty. *)
LEMMA WaitsOnEmpty ==
  ASSUME Shape, flushing = {}, first_frame = NULL
  PROVE  Len(list) = 0
<1>1. list # <<>> => 1 \in 1..Len(list)
  BY EmptySeq DEF Shape, TypeOK
<1>2. list # <<>> => list[1] \in Nodes
  BY <1>1, ElementOfSeq DEF Shape, TypeOK
<1> QED
  BY <1>2, NullAssumption, EmptySeq DEF Shape, ListShape, head

LEMMA PutWakes ==
  ASSUME Shape, Wakeup, NEW t \in Threads, NEW n \in Nodes, Put(t, n)
  PROVE  Wakeup'
<1>1. TypeOK /\ flushing = {} /\ ~abort_request /\ abort_request' = abort_request
  BY DEF Put, Link, Unlocked, Shape
<1>2. Len(list') = Len(list) + 1 /\ Len(list) \in Nat
  BY <1>1, AppendFacts DEF Put, Link, TypeOK
<1>3. CASE waiting = {}
  <2>1. waiting' = {} /\ stranded' = stranded
    BY <1>3 DEF Put, Link, Signal, waiting
  <2> QED
    BY <1>1, <1>3, <2>1 DEF Wakeup, NoLostWakeup, StrandedAsleep
<1>4. CASE waiting # {}
  <2>1. PICK w \in waiting : pc' = [pc EXCEPT ![w] = "woken"] /\ stranded' = stranded \ {w}
    BY <1>4 DEF Put, Link, Signal
  <2>2. waiting' = waiting \ {w} /\ woken' = woken \cup {w} /\ w \notin woken
    BY <1>1, <2>1 DEF waiting, woken, TypeOK
  <2>3. Cardinality(woken') = Cardinality(woken) + 1
    BY <2>2, WokenFinite, FS_AddElement
  <2>4. waiting \subseteq stranded => waiting' \subseteq stranded'
    BY <2>1, <2>2
  <2>5. NoLostWakeup'
    BY <1>1, <1>2, <2>3, <2>4, WokenFinite DEF Wakeup, NoLostWakeup
  <2>6. StrandedAsleep'
    BY <1>1, <2>1, <2>2 DEF Wakeup, StrandedAsleep
  <2> QED
    BY <2>5, <2>6 DEF Wakeup
<1> QED
  BY <1>3, <1>4

LEMMA GetWakes ==
  ASSUME Shape, Wakeup, NEW t \in Threads, GetFrame(t)
  PROVE  Wakeup'
<1>1. TypeOK /\ flushing = {} /\ abort_request' = abort_request /\ stranded' = stranded
  BY DEF GetFrame, AtGet, Unlocked, Shape
<1>2. Len(list') = Len(list) - 1 /\ Len(list) \in Nat
  BY HeadIsFirst, TailFacts DEF GetFrame
<1>3. waiting' = waiting
  BY <1>1 DEF GetFrame, AtGet, waiting, TypeOK
<1>4. StrandedAsleep'
  BY <1>1, <1>3 DEF Wakeup, StrandedAsleep
<1>5. Cardinality(woken') >= Cardinality(woken) - 1 /\ Cardinality(woken') \in Nat
  <2>1. woken' = woken \ {t}
    BY <1>1 DEF GetFrame, AtGet, woken, TypeOK
  <2>2. Cardinality(woken') = IF t \in woken THEN Cardinality(woken) - 1 ELSE Cardinality(woken)
    BY <2>1, WokenFinite, FS_RemoveElement
  <2>3. Cardinality(woken') \in Nat
    BY <2>1, WokenFinite, FS_RemoveElement, FS_CardinalityType
  <2> QED
    BY <2>2, <2>3, WokenFinite
<1>6. NoLostWakeup'
  <2>1. (~(waiting \subseteq stranded)) => Len(list) <= Cardinality(woken)
    BY <1>1 DEF Wakeup, NoLostWakeup
  <2>2. (~(waiting \subseteq stranded)) => Len(list') <= Cardinality(woken')
    BY <1>2, <1>5, <2>1, WokenFinite
  <2> QED
    BY <1>1, <1>3, <2>2 DEF NoLostWakeup
<1> QED
  BY <1>4, <1>6 DEF Wakeup

LEMMA WakeupStep ==
  ASSUME Shape, Wakeup, [Next]_vars
  PROVE  Wakeup'
<1>0. TypeOK /\ Lifetime /\ NoLostWakeup /\ StrandedAsleep
  BY DEF Shape, Wakeup
<1>1. CASE UNCHANGED vars
  <2>1. UNCHANGED <<list, pc, stranded, abort_request>> /\ flushing' = flushing
        /\ waiting' = waiting /\ woken' = woken
    BY <1>1 DEF vars, history, flushing, waiting, woken
  <2> QED
    BY <1>0, <2>1 DEF Wakeup, NoLostWakeup, StrandedAsleep
<1>2. ASSUME NEW t \in Threads, PutFails(t) PROVE Wakeup'
  <2>1. UNCHANGED <<list, pc, stranded, abort_request>> /\ flushing' = flushing
        /\ waiting' = waiting /\ woken' = woken
    BY <1>2 DEF PutFails, flushing, waiting, woken
  <2> QED
    BY <1>0, <2>1 DEF Wakeup, NoLostWakeup, StrandedAsleep
<1>3. ASSUME NEW t \in Threads, NEW n \in Nodes, Put(t, n) PROVE Wakeup'
  BY <1>3, PutWakes
<1>4. ASSUME NEW t \in Threads, GetAborted(t) PROVE Wakeup'
  <2>1. abort_request /\ abort_request' = abort_request /\ stranded' = stranded /\ waiting' = waiting
    BY <1>0, <1>4 DEF GetAborted, AtGet, history, waiting, TypeOK
  <2> QED
    BY <1>0, <2>1 DEF Wakeup, NoLostWakeup, StrandedAsleep
<1>5. ASSUME NEW t \in Threads, GetFrame(t) PROVE Wakeup'
  BY <1>5, GetWakes
<1>6. ASSUME NEW t \in Threads, GetWait(t) PROVE Wakeup'
  <2>1. Len(list') = 0
    BY <1>6, WaitsOnEmpty DEF GetWait, AtGet, Unlocked, history
  <2>2. waiting \subseteq waiting' /\ stranded' = stranded /\ ~abort_request'
    BY <1>0, <1>6 DEF GetWait, history, waiting, TypeOK
  <2>3. Cardinality(woken') \in Nat
    <3>1. woken' \subseteq Threads
      BY DEF woken
    <3> QED
      BY <3>1, ThreadsAssumption, FS_Subset, FS_CardinalityType
  <2> QED
    BY <1>0, <2>1, <2>2, <2>3 DEF Wakeup, NoLostWakeup, StrandedAsleep
<1>7. ASSUME NEW t \in Threads, SpuriousWakeup(t) PROVE Wakeup'
  <2>1. /\ waiting' = waiting \ {t} /\ woken' = woken \cup {t} /\ stranded' = stranded \ {t}
        /\ flushing' = flushing /\ list' = list /\ abort_request' = abort_request
    BY <1>0, <1>7 DEF SpuriousWakeup, waiting, woken, flushing, TypeOK
  <2>2. Cardinality(woken') >= Cardinality(woken) /\ Cardinality(woken') \in Nat
    <3>1. Cardinality(woken') = IF t \in woken THEN Cardinality(woken) ELSE Cardinality(woken) + 1
      BY <2>1, WokenFinite, FS_AddElement
    <3> QED
      BY <3>1, WokenFinite
  <2>3. waiting \subseteq stranded => waiting' \subseteq stranded'
    BY <2>1
  <2>4. Len(list) \in Nat
    BY <1>0, LenProperties DEF TypeOK
  <2>5. NoLostWakeup'
    BY <1>0, <2>1, <2>2, <2>3, <2>4, WokenFinite DEF NoLostWakeup
  <2> QED
    BY <1>0, <2>1, <2>5 DEF Wakeup, StrandedAsleep
<1>8. ASSUME NEW t \in Threads, Abort(t) PROVE Wakeup'
  <2>1. CASE waiting = {} /\ UNCHANGED <<pc, stranded>>
    BY <1>0, <2>1 DEF Wakeup, NoLostWakeup, StrandedAsleep, waiting
  <2>2. CASE \E w \in waiting : /\ pc' = [pc EXCEPT ![w] = "woken"]
                                /\ stranded' = waiting \ {w}
    <3>1. waiting' = stranded'
      BY <1>0, <2>2 DEF waiting, TypeOK
    <3> QED
      BY <3>1 DEF Wakeup, NoLostWakeup, StrandedAsleep
  <2> QED
    BY <1>8, <2>1, <2>2 DEF Abort
<1>9. ASSUME NEW t \in Threads, Start(t) PROVE Wakeup'
  <2>1. UNCHANGED <<list, pc, stranded>> /\ flushing' = flushing /\ ~abort_request'
        /\ waiting' = waiting /\ woken' = woken
    BY <1>9 DEF Start, history, flushing, waiting, woken
  <2> QED
    BY <1>0, <2>1 DEF Wakeup, NoLostWakeup, StrandedAsleep
<1>10. ASSUME NEW t \in Threads, FlushLock(t) PROVE Wakeup'
  <2>1. flushing' # {} /\ waiting' = waiting /\ UNCHANGED <<stranded, abort_request>>
    BY <1>0, <1>10 DEF FlushLock, history, flushing, waiting, TypeOK
  <2> QED
    BY <1>0, <2>1 DEF Wakeup, NoLostWakeup, StrandedAsleep
<1>11. ASSUME NEW t \in Threads, FlushNode(t) PROVE Wakeup'
  <2>1. flushing' # {} /\ waiting' = waiting /\ UNCHANGED <<stranded, abort_request>>
    BY <1>0, <1>11 DEF FlushNode, flushing, waiting
  <2> QED
    BY <1>0, <2>1 DEF Wakeup, NoLostWakeup, StrandedAsleep
<1>12. ASSUME NEW t \in Threads, FlushUnlock(t) PROVE Wakeup'
  <2>1. waiting' = waiting /\ UNCHANGED <<stranded, abort_request, list>>
    BY <1>0, <1>12 DEF FlushUnlock, history, flushing, waiting, TypeOK
  <2>2. Len(list) = 0
    <3>1. cursor = NULL /\ flushing # {}
      BY <1>12 DEF FlushUnlock
    <3>2. list # <<>> => list[1] \in Nodes
      <4>1. list # <<>> => 1 \in 1..Len(list)
        BY <1>0, EmptySeq DEF TypeOK
      <4> QED
        BY <1>0, <4>1, ElementOfSeq DEF TypeOK
    <3> QED
      BY <3>1, <3>2, NullAssumption, EmptySeq DEF Shape, ListShape, head
  <2>3. Cardinality(woken') \in Nat
    <3>1. woken' \subseteq Threads
      BY DEF woken
    <3> QED
      BY <3>1, ThreadsAssumption, FS_Subset, FS_CardinalityType
  <2> QED
    BY <1>0, <2>1, <2>2, <2>3 DEF Wakeup, NoLostWakeup, StrandedAsleep
<1>13. ASSUME NEW t \in Threads, Reinit(t) PROVE Wakeup'
  <2>1. waiting' = {} /\ waiting = {} /\ stranded' = stranded
    BY <1>0, <1>13 DEF Reinit, Lifetime, history, waiting
  <2> QED
    BY <1>0, <2>1 DEF Wakeup, NoLostWakeup, StrandedAsleep
<1> QED
  BY NextCases, <1>1, <1>2, <1>3, <1>4, <1>5, <1>6, <1>7, <1>8, <1>9, <1>10,
     <1>11, <1>12, <1>13

(* No wakeup is lost, for every number of threads: a queued frame never    *)
(* lies beside sleepers of frame_queue_get without a woken thread that     *)
(* comes for it, except sleepers that an abort left behind.                *)
THEOREM WakeupCorrect == Spec => []NoLostWakeup
<1>1. Shape /\ Wakeup /\ [Next]_vars => Wakeup'
  BY WakeupStep
<1>2. Wakeup => NoLostWakeup
  BY DEF Wakeup
<1> QED
  BY InitWakeup, SpecShape, <1>1, <1>2, PTL DEF Spec

(* While the queue is aborted the only sleepers are those the abort did    *)
(* not signal; with one consumer there are none.                           *)
THEOREM StrandedCorrect == Spec => []StrandedAsleep
<1>1. Shape /\ Wakeup /\ [Next]_vars => Wakeup'
  BY WakeupStep
<1>2. Wakeup => StrandedAsleep
  BY DEF Wakeup
<1> QED
  BY InitWakeup, SpecShape, <1>1, <1>2, PTL DEF Spec

-----------------------------------------------------------------------------
(* The queue implements FrameChannel. *)

(* The frames of a list of nodes, as a sequence. *)
LEMMA FramesOfList ==
  ASSUME NEW l \in Seq(Nodes), NEW b,
         \A i \in 1..Len(l) : b[l[i]] \in Frame
  PROVE  LET q == [i \in 1..Len(l) |-> b[l[i]]]
         IN  /\ q \in Seq(Frame)
             /\ Len(q) = Len(l) /\ Len(l) \in Nat
             /\ \A i \in 1..Len(l) : q[i] = b[l[i]]
             /\ q = <<>> <=> l = <<>>
<1> DEFINE q == [i \in 1..Len(l) |-> b[l[i]]]
<1>1. Len(l) \in Nat /\ (l = <<>> <=> Len(l) = 0)
  BY EmptySeq, LenProperties
<1>2. q \in [1..Len(l) -> Frame]
  OBVIOUS
<1>3. q \in Seq(Frame)
  BY <1>1, <1>2, SeqDef
<1>4. Len(q) = Len(l)
  BY <1>1, <1>2, <1>3, LenProperties
<1>5. q = <<>> <=> Len(q) = 0
  BY <1>3, EmptySeq
<1> QED
  BY <1>1, <1>3, <1>4, <1>5

LEMMA QueuedFacts ==
  ASSUME Shape
  PROVE  /\ Queued \in Seq(Frame)
         /\ Len(Queued) = Len(list) /\ Len(list) \in Nat
         /\ \A i \in 1..Len(list) : Queued[i] = buffer[list[i]]
         /\ Queued = <<>> <=> list = <<>>
<1>1. list \in Seq(Nodes) /\ \A i \in 1..Len(list) : buffer[list[i]] \in Frame
  BY MaxFramesAssumption DEF Shape, TypeOK, Numbered, Frame
<1> QED
  BY <1>1, FramesOfList DEF Queued

LEMMA QueuedFactsNext ==
  ASSUME Shape'
  PROVE  /\ Queued' \in Seq(Frame)
         /\ Len(Queued') = Len(list')
         /\ \A i \in 1..Len(list') : Queued'[i] = buffer'[list'[i]]
         /\ Queued' = <<>> <=> list' = <<>>
<1>1. list' \in Seq(Nodes) /\ \A i \in 1..Len(list') : buffer'[list'[i]] \in Frame
  BY MaxFramesAssumption DEF Shape, TypeOK, Numbered, Frame
<1> QED
  BY <1>1, FramesOfList DEF Queued

LEMMA PutImplements ==
  ASSUME Shape, Shape', NEW t \in Threads, NEW n \in Nodes, Put(t, n)
  PROVE  Channel!Accept
<1>1. flushing = {} /\ flushing' = {}
  BY DEF Put, Link, Unlocked, Signal, flushing, waiting, Shape, TypeOK
<1>2. /\ list \in Seq(Nodes) /\ Len(list) \in Nat
      /\ Len(list') = Len(list) + 1
      /\ \A i \in 1..Len(list) : list'[i] = list[i] /\ list[i] \in heap /\ list[i] \in Nodes
      /\ list'[Len(list) + 1] = n
  <2>1. list \in Seq(Nodes) /\ list' = Append(list, n)
    BY DEF Put, Link, Shape, TypeOK
  <2>2. \A i \in 1..Len(list) : list[i] \in heap /\ list[i] \in Nodes
    BY <2>1, ElementOfSeq DEF Shape, ListShape
  <2> QED
    BY <2>1, <2>2, AppendFacts
<1>3. /\ offered \in Nat /\ offered + 1 \in Frame
      /\ offered' = offered + 1
      /\ buffer' = [buffer EXCEPT ![n] = offered + 1] /\ n \notin heap
      /\ buffer \in [Nodes -> 0..MaxFrames]
  BY MaxFramesAssumption DEF Put, Link, Shape, TypeOK, Frame
<1>4. /\ Queued \in Seq(Frame) /\ Len(Queued) = Len(list)
      /\ \A i \in 1..Len(list) : Queued[i] = buffer[list[i]]
  BY QueuedFacts
<1>5. /\ Queued' \in Seq(Frame) /\ Len(Queued') = Len(list')
      /\ \A i \in 1..Len(list') : Queued'[i] = buffer'[list'[i]]
  BY QueuedFactsNext
<1>6. /\ Append(Queued, offered + 1) \in Seq(Frame)
      /\ Len(Append(Queued, offered + 1)) = Len(list) + 1
      /\ \A i \in 1..Len(list) : Append(Queued, offered + 1)[i] = Queued[i]
      /\ Append(Queued, offered + 1)[Len(list) + 1] = offered + 1
  BY <1>3, <1>4, AppendProperties
<1>7. \A i \in 1..Len(Queued') : Queued'[i] = Append(Queued, offered + 1)[i]
  <2> SUFFICES ASSUME NEW i \in 1..Len(Queued')
               PROVE  Queued'[i] = Append(Queued, offered + 1)[i]
    OBVIOUS
  <2>1. CASE i = Len(list) + 1
    BY <1>2, <1>3, <1>5, <1>6, <2>1
  <2>2. CASE i \in 1..Len(list)
    <3>1. buffer'[list[i]] = buffer[list[i]]
      BY <1>2, <1>3, <2>2
    <3> QED
      BY <1>2, <1>4, <1>5, <1>6, <2>2, <3>1
  <2>3. i \in 1..(Len(list) + 1)
    BY <1>2, <1>5
  <2>4. i = Len(list) + 1 \/ i \in 1..Len(list)
    BY <1>2, <2>3
  <2> QED
    BY <2>1, <2>2, <2>4
<1>8. Queued' = Append(Queued, offered + 1)
  BY <1>2, <1>5, <1>6, <1>7, SeqEqual
<1>9. QueuedFrames' = Append(QueuedFrames, offered + 1) /\ FreedFrames' = FreedFrames
  BY <1>1, <1>8 DEF QueuedFrames, FreedFrames, Put, Link
<1> QED
  BY <1>9 DEF Channel!Accept, Put, Link

LEMMA GetImplements ==
  ASSUME Shape, Shape', NEW t \in Threads, GetFrame(t)
  PROVE  Channel!Receive
<1>1. flushing = {} /\ flushing' = {}
  BY HeadIsFirst DEF GetFrame, flushing, Shape, TypeOK
<1>2. /\ list \in Seq(Nodes) /\ list # <<>> /\ list' = Tail(list) /\ first_frame = list[1]
      /\ buffer' = buffer
  BY HeadIsFirst DEF GetFrame
<1>3. /\ Len(list) \in Nat /\ Len(list) > 0 /\ Len(list') = Len(list) - 1
      /\ \A i \in 1..(Len(list) - 1) : list'[i] = list[i + 1]
  BY <1>2, TailFacts
<1>4. /\ Queued \in Seq(Frame) /\ Len(Queued) = Len(list) /\ Queued # <<>>
      /\ \A i \in 1..Len(list) : Queued[i] = buffer[list[i]]
  BY <1>2, QueuedFacts
<1>5. /\ Queued' \in Seq(Frame) /\ Len(Queued') = Len(list')
      /\ \A i \in 1..Len(list') : Queued'[i] = buffer'[list'[i]]
  BY QueuedFactsNext
<1>6. /\ Tail(Queued) \in Seq(Frame) /\ Len(Tail(Queued)) = Len(list) - 1
      /\ \A i \in 1..(Len(list) - 1) : Tail(Queued)[i] = Queued[i + 1]
      /\ Head(Queued) = Queued[1]
  BY <1>4, HeadTailProperties
<1>7. \A i \in 1..Len(Queued') : Queued'[i] = Tail(Queued)[i]
  <2> SUFFICES ASSUME NEW i \in 1..Len(Queued') PROVE Queued'[i] = Tail(Queued)[i]
    OBVIOUS
  <2>1. i \in 1..(Len(list) - 1) /\ i + 1 \in 1..Len(list)
    BY <1>3, <1>5
  <2> QED
    BY <1>2, <1>3, <1>4, <1>5, <1>6, <2>1
<1>8. Queued' = Tail(Queued)
  BY <1>3, <1>5, <1>6, <1>7, SeqEqual
<1>9. Head(Queued) = buffer[first_frame]
  <2>1. 1 \in 1..Len(list)
    BY <1>3
  <2> QED
    BY <1>2, <1>4, <1>6, <2>1
<1>10. /\ QueuedFrames = Queued /\ QueuedFrames' = Queued'
       /\ FreedFrames' = FreedFrames
  BY <1>1 DEF QueuedFrames, FreedFrames, GetFrame
<1> QED
  BY <1>4, <1>8, <1>9, <1>10 DEF Channel!Receive, GetFrame

(* A step that keeps the frames on the list, whose threads neither start    *)
(* nor end a flush, is a step of the channel if the rest of it is.          *)
LEMMA SameFrames ==
  ASSUME UNCHANGED <<buffer, list, freed>>, flushing' = flushing
  PROVE  QueuedFrames' = QueuedFrames /\ FreedFrames' = FreedFrames
BY DEF QueuedFrames, FreedFrames, Queued

LEMMA FlushNodeStutters ==
  ASSUME Shape, NEW t \in Threads, FlushNode(t)
  PROVE  QueuedFrames' = QueuedFrames /\ FreedFrames' = FreedFrames
<1>1. flushing # {} /\ flushing' = flushing
  BY HeadIsCursor DEF FlushNode, flushing
<1>2. /\ list \in Seq(Nodes) /\ list # <<>> /\ list' = Tail(list) /\ cursor = list[1]
      /\ buffer' = buffer /\ freed' = freed \cup {buffer[cursor]}
  BY HeadIsCursor DEF FlushNode
<1>3. /\ Len(list) \in Nat /\ Len(list) > 0 /\ Len(list') = Len(list) - 1
      /\ \A i \in 1..(Len(list) - 1) : list'[i] = list[i + 1]
  BY <1>2, TailFacts
<1>4. {buffer[list[i]] : i \in 1..Len(list)}
        = {buffer'[list'[i]] : i \in 1..Len(list')} \cup {buffer[cursor]}
  <2>1. ASSUME NEW i \in 1..Len(list)
        PROVE  buffer[list[i]] \in {buffer'[list'[k]] : k \in 1..Len(list')} \cup {buffer[cursor]}
    <3>1. CASE i = 1
      BY <1>2, <3>1
    <3>2. CASE i # 1
      <4>1. i - 1 \in 1..Len(list') /\ list'[i - 1] = list[i]
        BY <1>3, <3>2
      <4> QED
        BY <1>2, <4>1
    <3> QED
      BY <3>1, <3>2
  <2>2. ASSUME NEW i \in 1..Len(list')
        PROVE  buffer'[list'[i]] \in {buffer[list[k]] : k \in 1..Len(list)}
    <3>1. i + 1 \in 1..Len(list) /\ list'[i] = list[i + 1]
      BY <1>3
    <3> QED
      BY <1>2, <3>1
  <2>3. buffer[cursor] \in {buffer[list[k]] : k \in 1..Len(list)}
    <3>1. 1 \in 1..Len(list)
      BY <1>3
    <3> QED
      BY <1>2, <3>1
  <2> QED
    BY <2>1, <2>2, <2>3
<1> QED
  BY <1>1, <1>2, <1>4 DEF QueuedFrames, FreedFrames

LEMMA StepImplements ==
  ASSUME Shape, Shape', [Next]_vars
  PROVE  [Channel!Next]_(Channel!vars)
<1> USE DEF Channel!Next, Channel!vars
<1>1. CASE UNCHANGED vars
  <2>1. flushing' = flushing /\ UNCHANGED <<buffer, list, freed, abort_request, offered, delivered>>
    BY <1>1 DEF vars, listVars, history, flushing
  <2> QED
    BY <2>1, SameFrames
<1>2. ASSUME NEW t \in Threads, PutFails(t) PROVE Channel!Next
  <2>1. flushing = {} /\ flushing' = {}
    BY <1>2 DEF PutFails, Unlocked, flushing
  <2>2. QueuedFrames' = QueuedFrames /\ FreedFrames' = FreedFrames \cup {offered + 1}
    BY <1>2, <2>1 DEF PutFails, listVars, QueuedFrames, FreedFrames, Queued
  <2> QED
    BY <1>2, <2>2 DEF PutFails, Channel!Reject
<1>3. ASSUME NEW t \in Threads, NEW n \in Nodes, Put(t, n) PROVE Channel!Next
  BY <1>3, PutImplements
<1>4. ASSUME NEW t \in Threads, GetAborted(t) PROVE UNCHANGED Channel!vars
  <2>1. flushing' = flushing
    BY <1>4 DEF GetAborted, AtGet, flushing, Shape, TypeOK
  <2> QED
    BY <1>4, <2>1, SameFrames DEF GetAborted, listVars, history
<1>5. ASSUME NEW t \in Threads, GetFrame(t) PROVE Channel!Next
  BY <1>5, GetImplements
<1>6. ASSUME NEW t \in Threads, GetWait(t) PROVE UNCHANGED Channel!vars
  <2>1. flushing' = flushing
    BY <1>6 DEF GetWait, AtGet, flushing, Shape, TypeOK
  <2> QED
    BY <1>6, <2>1, SameFrames DEF GetWait, listVars, history
<1>7. ASSUME NEW t \in Threads, SpuriousWakeup(t) PROVE UNCHANGED Channel!vars
  <2>1. flushing' = flushing
    BY <1>7 DEF SpuriousWakeup, flushing, Shape, TypeOK
  <2> QED
    BY <1>7, <2>1, SameFrames DEF SpuriousWakeup, listVars
<1>8. ASSUME NEW t \in Threads, Abort(t) PROVE Channel!Next
  <2>1. flushing' = flushing
    BY <1>8 DEF Abort, flushing, waiting, Shape, TypeOK
  <2>2. Channel!SetAborted(TRUE)
    BY <1>8, <2>1, SameFrames DEF Abort, listVars, Channel!SetAborted
  <2> QED
    BY <2>2
<1>9. ASSUME NEW t \in Threads, Start(t) PROVE Channel!Next
  <2>1. flushing' = flushing
    BY <1>9 DEF Start, flushing
  <2>2. Channel!SetAborted(FALSE)
    BY <1>9, <2>1, SameFrames DEF Start, listVars, history, Channel!SetAborted
  <2> QED
    BY <2>2
<1>10. ASSUME NEW t \in Threads, FlushLock(t) PROVE Channel!Next
  <2>1. flushing = {} /\ flushing' # {}
    BY <1>10 DEF FlushLock, Unlocked, flushing, Shape, TypeOK
  <2>2. QueuedFrames = Queued /\ QueuedFrames' = <<>>
    BY <2>1 DEF QueuedFrames
  <2>3. Channel!Elements(Queued) = {buffer[list[i]] : i \in 1..Len(list)}
    BY QueuedFacts DEF Channel!Elements
  <2>4. FreedFrames' = FreedFrames \cup Channel!Elements(QueuedFrames)
    BY <1>10, <2>1, <2>2, <2>3 DEF FreedFrames, FlushLock, listVars, history
  <2> QED
    BY <1>10, <2>2, <2>4 DEF Channel!Flush, FlushLock, history
<1>11. ASSUME NEW t \in Threads, FlushNode(t) PROVE UNCHANGED Channel!vars
  BY <1>11, FlushNodeStutters DEF FlushNode
<1>12. ASSUME NEW t \in Threads, FlushUnlock(t) PROVE UNCHANGED Channel!vars
  <2>1. flushing # {} /\ flushing' = {}
    BY <1>12 DEF FlushUnlock, flushing, Shape, OneFlusher, TypeOK
  <2>2. list' = <<>> /\ list = <<>> /\ Len(list) = 0
    <3>1. cursor = NULL
      BY <1>12 DEF FlushUnlock
    <3>2. list # <<>> => list[1] \in Nodes
      <4>1. list # <<>> => 1 \in 1..Len(list)
        BY EmptySeq DEF Shape, TypeOK
      <4> QED
        BY <4>1, ElementOfSeq DEF Shape, TypeOK
    <3> QED
      BY <1>12, <2>1, <3>1, <3>2, NullAssumption, EmptySeq DEF Shape, ListShape, head, FlushUnlock, history
  <2>3. Queued' = <<>>
    BY <2>2, QueuedFactsNext
  <2> QED
    BY <1>12, <2>1, <2>2, <2>3 DEF QueuedFrames, FreedFrames, FlushUnlock, history
<1>13. ASSUME NEW t \in Threads, Reinit(t) PROVE Channel!Next
  <2>1. flushing' = flushing
    BY <1>13 DEF Reinit, flushing
  <2>2. Channel!SetAborted(TRUE)
    BY <1>13, <2>1, SameFrames DEF Reinit, history, Channel!SetAborted
  <2> QED
    BY <2>2
<1> QED
  BY NextCases, <1>1, <1>2, <1>3, <1>4, <1>5, <1>6, <1>7, <1>8, <1>9, <1>10,
     <1>11, <1>12, <1>13

(* The list with its mutex and condition variable behaves like a FIFO that *)
(* is open or aborted and whose flush is atomic.                           *)
THEOREM QueueImplementsChannel == Spec => ImplementsChannel
<1>1. Init => Channel!Init
  <2>1. Init => flushing = {} /\ Queued = <<>>
    <3> SUFFICES ASSUME Init PROVE flushing = {} /\ Queued = <<>>
      OBVIOUS
    <3>1. Shape /\ list = <<>>
      BY InitShape DEF Init
    <3>2. flushing = {}
      BY DEF Init, flushing
    <3> QED
      BY <3>1, <3>2, QueuedFacts
  <2> QED
    BY <2>1 DEF Init, Channel!Init, QueuedFrames, FreedFrames
<1>2. Shape /\ Shape' /\ [Next]_vars => [Channel!Next]_(Channel!vars)
  BY StepImplements
<1> QED
  BY <1>1, <1>2, SpecShape, PTL DEF Spec, ImplementsChannel, Channel!Spec

-----------------------------------------------------------------------------
(* The elements of a sequence after an append and after a removal. *)
LEMMA ElementsOfAppend ==
  ASSUME NEW S, NEW s \in Seq(S), NEW e \in S
  PROVE  Channel!Elements(Append(s, e)) = Channel!Elements(s) \cup {e}
<1>1. Len(s) \in Nat
  BY LenProperties
<1>2. 1..(Len(s) + 1) = 1..Len(s) \cup {Len(s) + 1}
  BY <1>1
<1>3. /\ Len(Append(s, e)) = Len(s) + 1
      /\ \A i \in 1..Len(s) : Append(s, e)[i] = s[i]
      /\ Append(s, e)[Len(s) + 1] = e
  BY AppendProperties
<1>4. Channel!Elements(Append(s, e)) =
        {Append(s, e)[i] : i \in 1..Len(s) \cup {Len(s) + 1}}
  BY <1>2, <1>3 DEF Channel!Elements
<1> QED
  BY <1>3, <1>4 DEF Channel!Elements

LEMMA ElementsOfTail ==
  ASSUME NEW S, NEW s \in Seq(S), s # <<>>
  PROVE  /\ Channel!Elements(s) = Channel!Elements(Tail(s)) \cup {Head(s)}
         /\ Head(s) \in S
<1>1. Len(s) \in Nat \ {0}
  BY EmptySeq
<1>2. /\ Head(s) \in S /\ Head(s) = s[1]
      /\ Len(Tail(s)) = Len(s) - 1
      /\ \A i \in 1..Len(Tail(s)) : Tail(s)[i] = s[i + 1]
  BY HeadTailProperties
<1>3. ASSUME NEW x \in Channel!Elements(s)
      PROVE  x \in Channel!Elements(Tail(s)) \cup {Head(s)}
  <2>1. PICK i \in 1..Len(s) : x = s[i]
    BY DEF Channel!Elements
  <2>2. CASE i = 1
    BY <1>2, <2>1, <2>2
  <2>3. CASE i # 1
    <3>1. i - 1 \in 1..Len(Tail(s)) /\ Tail(s)[i - 1] = s[i]
      BY <1>1, <1>2, <2>3
    <3> QED
      BY <2>1, <3>1 DEF Channel!Elements
  <2> QED
    BY <2>2, <2>3
<1>4. Channel!Elements(Tail(s)) \subseteq Channel!Elements(s)
  <2> SUFFICES ASSUME NEW i \in 1..Len(Tail(s)) PROVE Tail(s)[i] \in Channel!Elements(s)
    BY DEF Channel!Elements
  <2>1. i + 1 \in 1..Len(s) /\ Tail(s)[i] = s[i + 1]
    BY <1>1, <1>2
  <2> QED
    BY <2>1 DEF Channel!Elements
<1>5. Head(s) \in Channel!Elements(s)
  BY <1>1, <1>2 DEF Channel!Elements
<1> QED
  BY <1>2, <1>3, <1>4, <1>5

-----------------------------------------------------------------------------
(* What every implementation of the channel keeps; the three properties    *)
(* are inductive together.                                                 *)
ChannelInv == Channel!TypeOK /\ Channel!Conservation /\ Channel!InOrder

LEMMA ChannelInit == Channel!Init => ChannelInv
<1>1. Len(<<>>) = 0 /\ <<>> \in Seq(Channel!Frame)
  BY EmptySeq
<1> QED
  BY <1>1, MaxFramesAssumption DEF Channel!Init, ChannelInv, Channel!TypeOK, Channel!Conservation,
     Channel!InOrder, Channel!Elements

LEMMA ChannelAccept ==
  ASSUME ChannelInv, Channel!Accept
  PROVE  ChannelInv'
<1> DEFINE new == offered + 1
<1>0. Channel!TypeOK /\ Channel!Conservation /\ Channel!InOrder
  BY DEF ChannelInv
<1>1. /\ QueuedFrames \in Seq(Channel!Frame) /\ new \in Channel!Frame
      /\ Len(QueuedFrames) \in Nat
      /\ QueuedFrames' = Append(QueuedFrames, new) /\ offered' = new /\ offered \in Nat
  BY <1>0, LenProperties, MaxFramesAssumption
     DEF Channel!TypeOK, Channel!Accept, Channel!Frame
<1>2. Channel!TypeOK'
  BY <1>0, <1>1, AppendProperties DEF Channel!TypeOK, Channel!Accept, Channel!Frame
<1>3. /\ Channel!Elements(QueuedFrames') = Channel!Elements(QueuedFrames) \cup {new}
      /\ 1..new = 1..offered \cup {new}
  BY <1>1, ElementsOfAppend
<1>4. Channel!Conservation'
  BY <1>0, <1>1, <1>3 DEF Channel!Conservation, Channel!Accept
<1>5. /\ Len(QueuedFrames') = Len(QueuedFrames) + 1
      /\ \A i \in 1..Len(QueuedFrames) : QueuedFrames'[i] = QueuedFrames[i]
      /\ QueuedFrames'[Len(QueuedFrames) + 1] = new
  BY <1>1, AppendProperties
<1>6. \A i \in 1..Len(QueuedFrames) : 
        QueuedFrames[i] \in 1..offered /\ QueuedFrames[i] < new
  BY <1>0, <1>1 DEF Channel!Conservation, Channel!Elements
<1>7. \A d \in delivered : d \in 1..offered /\ d < new
  BY <1>0, <1>1 DEF Channel!Conservation
<1>8. Channel!InOrder'
  <2>1. ASSUME NEW i \in 1..Len(QueuedFrames'), NEW j \in 1..Len(QueuedFrames'), i < j
        PROVE  QueuedFrames'[i] < QueuedFrames'[j]
    <3>1. i \in 1..Len(QueuedFrames)
      BY <1>1, <1>5, <2>1
    <3>2. CASE j = Len(QueuedFrames) + 1
      BY <1>5, <1>6, <3>1, <3>2
    <3>3. CASE j # Len(QueuedFrames) + 1
      BY <1>0, <1>1, <1>5, <2>1, <3>1, <3>3 DEF Channel!InOrder
    <3> QED
      BY <3>2, <3>3
  <2>2. ASSUME NEW d \in delivered', NEW i \in 1..Len(QueuedFrames')
        PROVE  d < QueuedFrames'[i]
    <3>1. d \in delivered
      BY DEF Channel!Accept
    <3>2. CASE i = Len(QueuedFrames) + 1
      BY <1>5, <1>7, <3>1, <3>2
    <3>3. CASE i # Len(QueuedFrames) + 1
      BY <1>0, <1>1, <1>5, <3>1, <3>3 DEF Channel!InOrder
    <3> QED
      BY <3>2, <3>3
  <2> QED
    BY <2>1, <2>2 DEF Channel!InOrder
<1> QED
  BY <1>2, <1>4, <1>8 DEF ChannelInv

LEMMA ChannelReceive ==
  ASSUME ChannelInv, Channel!Receive
  PROVE  ChannelInv'
<1>0. Channel!TypeOK /\ Channel!Conservation /\ Channel!InOrder
  BY DEF ChannelInv
<1>1. /\ QueuedFrames \in Seq(Channel!Frame) /\ QueuedFrames # <<>>
      /\ Len(QueuedFrames) \in Nat
      /\ Len(QueuedFrames) > 0
      /\ QueuedFrames' = Tail(QueuedFrames)
      /\ delivered' = delivered \cup {Head(QueuedFrames)}
  BY <1>0, EmptySeq DEF Channel!TypeOK, Channel!Receive
<1>2. /\ Head(QueuedFrames) = QueuedFrames[1] /\ Head(QueuedFrames) \in Channel!Frame
      /\ QueuedFrames' \in Seq(Channel!Frame)
      /\ Len(QueuedFrames') = Len(QueuedFrames) - 1
      /\ \A i \in 1..Len(QueuedFrames') : QueuedFrames'[i] = QueuedFrames[i + 1]
  BY <1>1, HeadTailProperties
<1>3. Channel!TypeOK'
  BY <1>0, <1>1, <1>2 DEF Channel!TypeOK, Channel!Receive
<1>4. Channel!Elements(QueuedFrames) =
        Channel!Elements(QueuedFrames') \cup {Head(QueuedFrames)}
  BY <1>1, ElementsOfTail
<1>5. \A i \in 1..Len(QueuedFrames') : Head(QueuedFrames) < QueuedFrames'[i]
  <2> SUFFICES ASSUME NEW i \in 1..Len(QueuedFrames')
               PROVE  Head(QueuedFrames) < QueuedFrames'[i]
    OBVIOUS
  <2>1. 1 \in 1..Len(QueuedFrames) /\ i + 1 \in 1..Len(QueuedFrames) /\ 1 < i + 1
    BY <1>1, <1>2
  <2>2. QueuedFrames[1] < QueuedFrames[i + 1]
    BY <1>0, <2>1 DEF Channel!InOrder
  <2> QED
    BY <1>2, <2>2
<1>6. Head(QueuedFrames) \notin Channel!Elements(QueuedFrames')
  BY <1>2, <1>5 DEF Channel!Elements, Channel!Frame
<1>7. Channel!Conservation'
  BY <1>0, <1>1, <1>4, <1>6 DEF Channel!Conservation, Channel!Receive
<1>8. Channel!InOrder'
  <2>1. ASSUME NEW i \in 1..Len(QueuedFrames'), NEW j \in 1..Len(QueuedFrames'), i < j
        PROVE  QueuedFrames'[i] < QueuedFrames'[j]
    <3>1. i + 1 \in 1..Len(QueuedFrames) /\ j + 1 \in 1..Len(QueuedFrames)
                                         /\ i + 1 < j + 1
      BY <1>1, <1>2, <2>1
    <3>2. QueuedFrames[i + 1] < QueuedFrames[j + 1]
      BY <1>0, <3>1 DEF Channel!InOrder
    <3> QED
      BY <1>2, <3>2
  <2>2. ASSUME NEW d \in delivered', NEW i \in 1..Len(QueuedFrames')
        PROVE  d < QueuedFrames'[i]
    <3>1. CASE d = Head(QueuedFrames)
      BY <1>5, <3>1
    <3>2. CASE d \in delivered
      <4>1. i + 1 \in 1..Len(QueuedFrames)
        BY <1>1, <1>2
      <4> QED
        BY <1>0, <1>2, <3>2, <4>1 DEF Channel!InOrder
    <3> QED
      BY <1>1, <3>1, <3>2
  <2> QED
    BY <2>1, <2>2 DEF Channel!InOrder
<1> QED
  BY <1>3, <1>7, <1>8 DEF ChannelInv

LEMMA ChannelStep ==
  ASSUME ChannelInv, [Channel!Next]_(Channel!vars)
  PROVE  ChannelInv'
<1>0. Channel!TypeOK /\ Channel!Conservation /\ Channel!InOrder
  BY DEF ChannelInv
<1>1. CASE UNCHANGED Channel!vars
  BY <1>0, <1>1 DEF Channel!vars, ChannelInv, Channel!TypeOK, Channel!Conservation,
     Channel!InOrder
<1>2. CASE Channel!Accept
  BY <1>2, ChannelAccept
<1>3. CASE Channel!Reject
  <2>1. offered + 1 \in Channel!Frame /\ offered \in Nat /\ offered' = offered + 1
    BY <1>0, <1>3, MaxFramesAssumption
       DEF Channel!TypeOK, Channel!Reject, Channel!Frame
  <2>2. 1..offered' = 1..offered \cup {offered + 1} /\ offered + 1 \notin 1..offered
    BY <2>1
  <2>3. Channel!TypeOK'
    BY <1>0, <1>3, <2>1 DEF Channel!TypeOK, Channel!Reject, Channel!Frame
  <2>4. Channel!Conservation'
    BY <1>0, <1>3, <2>2 DEF Channel!Conservation, Channel!Reject
  <2> QED
    BY <1>0, <1>3, <2>3, <2>4 DEF ChannelInv, Channel!InOrder, Channel!Reject
<1>4. CASE Channel!Receive
  BY <1>4, ChannelReceive
<1>5. CASE Channel!Flush
  <2>1. QueuedFrames' = <<>> /\ Len(QueuedFrames') = 0 /\ Channel!Elements(QueuedFrames') = {}
                             /\ QueuedFrames' \in Seq(Channel!Frame)
    BY <1>5, EmptySeq DEF Channel!Flush, Channel!Elements
  <2>2. Channel!Elements(QueuedFrames) \subseteq Channel!Frame
    BY <1>0, ElementOfSeq DEF Channel!TypeOK, Channel!Elements
  <2>3. Channel!TypeOK'
    BY <1>0, <1>5, <2>1, <2>2 DEF Channel!TypeOK, Channel!Flush
  <2>4. Channel!Conservation'
    BY <1>0, <1>5, <2>1 DEF Channel!Conservation, Channel!Flush
  <2> QED
    BY <2>1, <2>3, <2>4 DEF ChannelInv, Channel!InOrder
<1>6. ASSUME NEW a \in BOOLEAN, Channel!SetAborted(a) PROVE ChannelInv'
  BY <1>0, <1>6 DEF Channel!SetAborted, ChannelInv, Channel!TypeOK,
     Channel!Conservation, Channel!InOrder
<1> QED
  BY <1>1, <1>2, <1>3, <1>4, <1>5, <1>6 DEF Channel!Next

LEMMA ChannelSpec == Channel!Spec => []ChannelInv
BY ChannelInit, ChannelStep, PTL DEF Channel!Spec

(* No frame that was put is lost, handed out twice, or both handed out and *)
(* freed, whatever threads put, get, flush and abort at the same time.     *)
THEOREM ConservationCorrect == Spec => []Conservation
<1>1. ChannelInv => Conservation
  BY DEF ChannelInv, Conservation
<1> QED
  BY QueueImplementsChannel, ChannelSpec, <1>1, PTL DEF ImplementsChannel

(* Frames are handed out in the order in which they were put. *)
THEOREM InOrderCorrect == Spec => []InOrder
<1>1. ChannelInv => InOrder
  BY DEF ChannelInv, InOrder
<1> QED
  BY QueueImplementsChannel, ChannelSpec, <1>1, PTL DEF ImplementsChannel
=============================================================================
