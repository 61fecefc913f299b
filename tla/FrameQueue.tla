----------------------------- MODULE FrameQueue -----------------------------
(***************************************************************************)
(* src/framequeue.cpp: a linked list of frames with a mutex, a condition   *)
(* variable and an abort flag.  Any thread may call any operation.         *)
(*                                                                         *)
(* A critical section that runs straight through is one action: nobody     *)
(* else can see its middle.  Two operations are split.  frame_queue_get    *)
(* releases the mutex in pthread_cond_wait, so a thread in it is "waiting" *)
(* until it is signalled (or wakes spuriously, which pthreads allows) and  *)
(* "woken" until it has the mutex again.  frame_queue_flush walks the list *)
(* freeing node after node with the mutex held.                            *)
(*                                                                         *)
(* Frames are numbered in the order in which they are offered.             *)
(* list, offered, delivered, freed and stranded are history variables: no  *)
(* guard reads them, except that offered bounds the run.                   *)
(***************************************************************************)
EXTENDS Naturals, Sequences, FiniteSets

CONSTANTS
  Threads,      \* the threads that use the queue
  Nodes,        \* the addresses malloc may return for a MyAVFrameList
  NULL,
  MaxFrames     \* bound on the number of frames offered

ASSUME NullAssumption == NULL \notin Nodes
ASSUME MaxFramesAssumption == MaxFrames \in Nat
ASSUME ThreadsAssumption == IsFiniteSet(Threads)

VARIABLES
  first_frame, last_frame,  \* the ends of the list, or NULL
  next, buffer,             \* the fields of the nodes
  heap,                     \* the nodes that are allocated
  nb_packets,
  abort_request,
  live,                     \* between frame_queue_init and _destroy
  pc,                       \* where each thread is
  cursor,                   \* `frame' in frame_queue_flush
  list,                     \* history: the nodes in the order of their puts
  offered,                  \* history: how many frames were offered
  delivered,                \* history: the frames frame_queue_get returned
  freed,                    \* history: the frames the queue freed
  stranded                  \* history: waiters an abort left asleep

listVars == <<first_frame, last_frame, next, buffer, heap, nb_packets>>
history  == <<list, offered, delivered, freed, stranded>>
vars     == <<listVars, abort_request, live, pc, cursor, history>>

Frame == 1..MaxFrames

waiting  == {t \in Threads : pc[t] = "waiting"}
woken    == {t \in Threads : pc[t] = "woken"}
flushing == {t \in Threads : pc[t] \in {"flush", "destroy"}}

\* Mutant: frame_queue_flush without its pthread_mutex_lock.
UnlockedUnguarded == live

\* The mutex can be taken: no thread is inside the loop of frame_queue_flush.
Unlocked == live /\ flushing = {}

-----------------------------------------------------------------------------
(* frame_queue_init: everything zero, the queue aborted. *)
Init ==
  /\ first_frame = NULL /\ last_frame = NULL
  /\ next \in [Nodes -> {NULL}]
  /\ buffer = [n \in Nodes |-> 0]
  /\ heap = {}
  /\ nb_packets = 0
  /\ abort_request = TRUE
  /\ live = TRUE
  /\ pc = [t \in Threads |-> "run"]
  /\ cursor = NULL
  /\ list = <<>> /\ offered = 0
  /\ delivered = {} /\ freed = {} /\ stranded = {}

\* Mutant: signal only when the queue was empty.
SignalIfEmpty ==
  IF waiting = {} \/ first_frame # NULL
  THEN UNCHANGED <<pc, stranded>>
  ELSE \E w \in waiting : /\ pc' = [pc EXCEPT ![w] = "woken"]
                          /\ stranded' = stranded \ {w}

(* pthread_cond_signal wakes a waiter if there is one. *)
Signal ==
  IF waiting = {}
  THEN UNCHANGED <<pc, stranded>>
  ELSE \E w \in waiting : /\ pc' = [pc EXCEPT ![w] = "woken"]
                          /\ stranded' = stranded \ {w}

(* frame_queue_put on a queue that is aborted, or when malloc fails:       *)
(* frame_queue_put_private returns -1 and frame_queue_put frees the frame. *)
PutFails(t) ==
  /\ Unlocked /\ pc[t] = "run"
  /\ offered < MaxFrames
  /\ offered' = offered + 1
  /\ freed' = freed \cup {offered + 1}
  /\ UNCHANGED <<listVars, abort_request, live, pc, cursor, list, delivered, stranded>>

(* The new node becomes the tail of the list. *)
Link(n) ==
  /\ IF last_frame = NULL
     THEN /\ first_frame' = n
          /\ next' = [next EXCEPT ![n] = NULL]
     ELSE /\ next' = [next EXCEPT ![n] = NULL, ![last_frame] = n]
          /\ UNCHANGED first_frame
  /\ last_frame' = n
  /\ list' = Append(list, n)

(* frame_queue_put on an open queue: a new node goes to the end of the     *)
(* list and one waiter is signalled.                                       *)
Put(t, n) ==
  /\ Unlocked /\ pc[t] = "run"
  /\ offered < MaxFrames
  /\ ~abort_request
  /\ n \notin heap
  /\ heap' = heap \cup {n}
  /\ buffer' = [buffer EXCEPT ![n] = offered + 1]
  /\ Link(n)
  /\ nb_packets' = nb_packets + 1
  /\ Signal
  /\ offered' = offered + 1
  /\ UNCHANGED <<abort_request, live, cursor, delivered, freed>>

-----------------------------------------------------------------------------
\* A thread that calls frame_queue_get, or that pthread_cond_wait lets run.
AtGet(t) == Unlocked /\ pc[t] \in {"run", "woken"}

GetAborted(t) ==
  /\ AtGet(t)
  /\ abort_request
  /\ pc' = [pc EXCEPT ![t] = "run"]
  /\ UNCHANGED <<listVars, abort_request, live, cursor, history>>

GetFrame(t) ==
  /\ AtGet(t)
  /\ ~abort_request
  /\ first_frame # NULL
  /\ first_frame' = next[first_frame]
  /\ last_frame' = IF next[first_frame] = NULL THEN NULL ELSE last_frame
  /\ nb_packets' = nb_packets - 1
  /\ heap' = heap \ {first_frame}
  /\ pc' = [pc EXCEPT ![t] = "run"]
  /\ delivered' = delivered \cup {buffer[first_frame]}
  /\ list' = Tail(list)
  /\ UNCHANGED <<next, buffer, abort_request, live, cursor, offered, freed, stranded>>

(* With block = 0 an empty queue is reported at once; only a caller that   *)
(* has not waited can have passed block = 0.                               *)
GetNothing(t) ==
  /\ Unlocked /\ pc[t] = "run"
  /\ ~abort_request
  /\ first_frame = NULL
  /\ UNCHANGED vars

\* Mutant: an aborted queue is not looked at before the wait.
GetWaitAborted(t) ==
  /\ AtGet(t)
  /\ first_frame = NULL
  /\ pc' = [pc EXCEPT ![t] = "waiting"]
  /\ UNCHANGED <<listVars, abort_request, live, cursor, history>>

GetWait(t) ==
  /\ AtGet(t)
  /\ ~abort_request
  /\ first_frame = NULL
  /\ pc' = [pc EXCEPT ![t] = "waiting"]
  /\ UNCHANGED <<listVars, abort_request, live, cursor, history>>

(* pthread_cond_wait may return although nobody signalled. *)
SpuriousWakeup(t) ==
  /\ pc[t] = "waiting"
  /\ pc' = [pc EXCEPT ![t] = "woken"]
  /\ stranded' = stranded \ {t}
  /\ UNCHANGED <<listVars, abort_request, live, cursor, list, offered, delivered, freed>>

-----------------------------------------------------------------------------
(* frame_queue_abort sets the flag and signals one waiter. *)
Abort(t) ==
  /\ Unlocked /\ pc[t] = "run"
  /\ abort_request' = TRUE
  /\ \/ /\ waiting = {}
        /\ UNCHANGED <<pc, stranded>>
     \/ \E w \in waiting : /\ pc' = [pc EXCEPT ![w] = "woken"]
                           /\ stranded' = waiting \ {w}
  /\ UNCHANGED <<listVars, live, cursor, list, offered, delivered, freed>>

(* frame_queue_start opens the queue. *)
Start(t) ==
  /\ Unlocked /\ pc[t] = "run"
  /\ abort_request' = FALSE
  /\ UNCHANGED <<listVars, live, pc, cursor, history>>

(* frame_queue_flush, and frame_queue_destroy which begins with it, take   *)
(* the mutex.  Destroying a condition variable that has waiters is         *)
(* undefined: a caller of frame_queue_destroy must be the last user.       *)
FlushLock(t) ==
  /\ Unlocked /\ pc[t] = "run"
  /\ cursor' = first_frame
  /\ \/ pc' = [pc EXCEPT ![t] = "flush"]
     \/ /\ \A u \in Threads : pc[u] = "run"
        /\ pc' = [pc EXCEPT ![t] = "destroy"]
  /\ UNCHANGED <<listVars, abort_request, live, history>>

\* Mutant: the node is freed, the frame in it is not.
FlushNodeLeaks(t) ==
  /\ t \in flushing
  /\ cursor # NULL
  /\ cursor' = next[cursor]
  /\ heap' = heap \ {cursor}
  /\ list' = Tail(list)
  /\ UNCHANGED <<first_frame, last_frame, next, buffer, nb_packets,
                 abort_request, live, pc, offered, delivered, freed, stranded>>

(* One turn of the loop: free the frame and the node, go to the next. *)
FlushNode(t) ==
  /\ t \in flushing
  /\ cursor # NULL
  /\ cursor' = next[cursor]
  /\ freed' = freed \cup {buffer[cursor]}
  /\ heap' = heap \ {cursor}
  /\ list' = Tail(list)
  /\ UNCHANGED <<first_frame, last_frame, next, buffer, nb_packets,
                 abort_request, live, pc, offered, delivered, stranded>>

\* Mutant: last_frame is not reset after the loop.
FlushKeepsLast(t) ==
  /\ t \in flushing
  /\ cursor = NULL
  /\ first_frame' = NULL
  /\ nb_packets' = 0
  /\ live' = (pc[t] = "flush")
  /\ pc' = [pc EXCEPT ![t] = "run"]
  /\ UNCHANGED <<last_frame, next, buffer, heap, abort_request, cursor, history>>

(* The loop is over: reset the list and unlock; frame_queue_destroy then   *)
(* destroys the mutex and the condition variable.                          *)
FlushUnlock(t) ==
  /\ t \in flushing
  /\ cursor = NULL
  /\ first_frame' = NULL
  /\ last_frame' = NULL
  /\ nb_packets' = 0
  /\ live' = (pc[t] = "flush")
  /\ pc' = [pc EXCEPT ![t] = "run"]
  /\ UNCHANGED <<next, buffer, heap, abort_request, cursor, history>>

(* frame_queue_init on a queue that was destroyed. *)
Reinit(t) ==
  /\ ~live
  /\ first_frame' = NULL /\ last_frame' = NULL
  /\ nb_packets' = 0
  /\ abort_request' = TRUE
  /\ live' = TRUE
  /\ UNCHANGED <<next, buffer, heap, pc, cursor, history>>

-----------------------------------------------------------------------------
Get(t) == GetAborted(t) \/ GetFrame(t) \/ GetNothing(t) \/ GetWait(t)

Next ==
  \E t \in Threads :
    \/ PutFails(t)
    \/ \E n \in Nodes : Put(t, n)
    \/ GetAborted(t) \/ GetFrame(t) \/ GetNothing(t) \/ GetWait(t)
    \/ SpuriousWakeup(t)
    \/ Abort(t) \/ Start(t)
    \/ FlushLock(t) \/ FlushNode(t) \/ FlushUnlock(t)
    \/ Reinit(t)

Spec == Init /\ [][Next]_vars

(* A thread that holds the mutex or that was woken is scheduled in the     *)
(* end: it needs nothing from the others.  Nobody has to call anything,    *)
(* and no spurious wakeup is counted on.                                   *)
Fairness ==
  \A t \in Threads :
    /\ WF_vars(pc[t] = "woken" /\ Get(t))
    /\ WF_vars(FlushNode(t) \/ FlushUnlock(t))

FairSpec == Spec /\ Fairness

-----------------------------------------------------------------------------
TypeOK ==
  /\ first_frame \in Nodes \cup {NULL}
  /\ last_frame \in Nodes \cup {NULL}
  /\ next \in [Nodes -> Nodes \cup {NULL}]
  /\ buffer \in [Nodes -> 0..MaxFrames]
  /\ heap \subseteq Nodes
  /\ nb_packets \in Nat
  /\ abort_request \in BOOLEAN
  /\ live \in BOOLEAN
  /\ pc \in [Threads -> {"run", "waiting", "woken", "flush", "destroy"}]
  /\ cursor \in Nodes \cup {NULL}
  /\ list \in Seq(Nodes)
  /\ offered \in 0..MaxFrames
  /\ delivered \subseteq Frame
  /\ freed \subseteq Frame
  /\ stranded \subseteq Threads

(* The pointers form the list: from the head (the cursor while a flush     *)
(* eats the list) `next' visits the nodes in the order of their puts and   *)
(* ends in NULL, and the nodes on it are exactly the allocated ones, so    *)
(* the queue neither leaks a node nor follows a freed one.                 *)
head == IF flushing = {} THEN first_frame ELSE cursor

ListShape ==
  /\ heap = {list[i] : i \in 1..Len(list)}
  /\ \A i, j \in 1..Len(list) : list[i] = list[j] => i = j
  /\ \A i \in 1..Len(list) :
        next[list[i]] = IF i = Len(list) THEN NULL ELSE list[i + 1]
  /\ head = IF list = <<>> THEN NULL ELSE list[1]

(* Outside a flush the tail pointer and the counter agree with the list:   *)
(* frame_queue_count never lies to a caller.                               *)
EndsAgree ==
  flushing = {} =>
    /\ last_frame = IF list = <<>> THEN NULL ELSE list[Len(list)]
    /\ nb_packets = Len(list)

(* At most one thread is inside the loop of frame_queue_flush. *)
OneFlusher == \A t, u \in flushing : t = u

(* No wakeup is lost: while a thread sleeps in frame_queue_get that an     *)
(* abort did not leave behind, every queued frame has a woken thread that  *)
(* is on its way to take it.                                               *)
NoLostWakeup ==
  (flushing = {} /\ ~(waiting \subseteq stranded)) => Len(list) <= Cardinality(woken)

(* Waiters an abort left asleep are still asleep, and while the queue is   *)
(* aborted nobody else is.                                                 *)
StrandedAsleep ==
  /\ stranded \subseteq waiting
  /\ abort_request => waiting = stranded

-----------------------------------------------------------------------------
(* The queue implements FrameChannel.  A flush takes effect when it takes  *)
(* the mutex: from then on its frames count as freed.                      *)
Queued == [i \in 1..Len(list) |-> buffer[list[i]]]

QueuedFrames == IF flushing = {} THEN Queued ELSE <<>>
FreedFrames  == IF flushing = {} THEN freed
                ELSE freed \cup {buffer[list[i]] : i \in 1..Len(list)}

Channel == INSTANCE FrameChannel WITH
  chan <- QueuedFrames, aborted <- abort_request, freed <- FreedFrames

ImplementsChannel == Channel!Spec
Conservation      == Channel!Conservation
InOrder           == Channel!InOrder

-----------------------------------------------------------------------------
(* A frame that is queued while a thread sleeps in frame_queue_get (other  *)
(* than one an abort left behind) leaves the queue, unless the queue is    *)
(* aborted or nobody sleeps any longer: a blocked consumer is served.      *)
Sleeper == ~(waiting \subseteq stranded)
OnQueue(f) == \E i \in 1..Len(list) : buffer[list[i]] = f

BlockedConsumerServed ==
  \A f \in Frame :
    (Sleeper /\ OnQueue(f)) ~> (~OnQueue(f) \/ abort_request \/ ~Sleeper)

(* frame_queue_get, "return < 0 if aborted": on a queue that stays aborted *)
(* no thread stays inside frame_queue_get.                                 *)
AbortReturns ==
  \A t \in Threads : (abort_request /\ pc[t] = "waiting")
                        ~> (~abort_request \/ pc[t] # "waiting")
=============================================================================
