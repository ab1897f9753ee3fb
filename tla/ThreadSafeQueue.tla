-------------------------- MODULE ThreadSafeQueue --------------------------
(***************************************************************************)
(* lib/queue.c: the ring of MAX_SEGMENTS slots behind one mutex that       *)
(* carries every frame between two threads of the program (tx_queue of a   *)
(* TcpClient, event_queue of cloud_comm and of fkz9_comm).  A call runs in *)
(* the steps of the C code, so that the calls of all threads interleave    *)
(* wherever the mutex lets them.                                           *)
(*                                                                         *)
(* A frame is its bytes (abstracted to a value) and its length; memcpy     *)
(* moves the bytes into a slot of buffers and the length goes to the same  *)
(* slot of sizes, two separate stores.                                     *)
(***************************************************************************)
EXTENDS Integers, Sequences

CONSTANTS Producers,     \* threads that call enqueue
          Consumers,     \* threads that call dequeue
          Frames,        \* the frames the callers pass, [bytes, len]
          MAX_SEGMENTS,  \* slots of the ring
          SlotSize,      \* bytes of a slot, the argument of init_queue
          NoThread,      \* the mutex is free
          NoFrame        \* an argument buffer that holds no frame

Threads == Producers \union Consumers

ASSUME SegmentsAssumption == MAX_SEGMENTS \in Nat /\ MAX_SEGMENTS >= 2
ASSUME ThreadAssumption == NoThread \notin Threads
ASSUME FrameAssumption ==
    \A f \in Frames : f = [bytes |-> f.bytes, len |-> f.len]

(* The frames fit their slots.  enqueue does not test it: it copies a      *)
(* longer one past the end of the slot, which is undefined, and only the   *)
(* callers can prevent it.                                                 *)
ASSUME LengthAssumption ==
    /\ SlotSize \in Nat /\ SlotSize < 65536
    /\ \A f \in Frames : f.len \in 1 .. SlotSize

VARIABLES mutex,    \* q->mutex: its owner
          buffers,  \* q->buffers: the bytes in each slot
          sizes,    \* q->sizes: the length stored for each slot
          head,     \* q->head: the slot the next enqueue fills
          tail,     \* q->tail: the slot the next dequeue empties
          pc,       \* where each thread is inside a call
          data,     \* each thread's data and len arguments, as one frame
          ret       \* what each thread's last call returned

vars == <<mutex, buffers, sizes, head, tail, pc, data, ret>>

Slots == 0 .. MAX_SEGMENTS - 1

(* Definitions whose name ends in Bug are the mistakes that the properties *)
(* below rule out; no specification uses them.                             *)
SuccNoWrapBug(i) == i + 1

(* (q->head + 1) % MAX_SEGMENTS, and the same for tail. *)
Succ(i) == (i + 1) % MAX_SEGMENTS

(* The frame that slot i holds. *)
Stored(i) == [bytes |-> buffers[i], len |-> sizes[i]]

Init ==
    /\ mutex = NoThread
    /\ buffers = [i \in Slots |-> NoFrame]
    /\ sizes = [i \in Slots |-> 0]
    /\ head = 0
    /\ tail = 0
    /\ pc = [t \in Threads |-> "idle"]
    /\ data = [t \in Threads |-> NoFrame]
    /\ ret = [t \in Threads |-> 0]

Goto(t, from, to) == pc[t] = from /\ pc' = [pc EXCEPT ![t] = to]

(* pthread_mutex_lock returns: the mutex was free and is now t's. *)
Acquire(t) == mutex = NoThread /\ mutex' = t

(* pthread_mutex_unlock, then return rc. *)
ReleaseAndReturn(t, rc) ==
    /\ mutex' = NoThread
    /\ ret' = [ret EXCEPT ![t] = rc]

-----------------------------------------------------------------------------
(* enqueue *)

EnqCall(t, f) ==
    /\ Goto(t, "idle", "enq_lock")
    /\ data' = [data EXCEPT ![t] = f]
    /\ UNCHANGED <<mutex, buffers, sizes, head, tail, ret>>

EnqLock(t) ==
    /\ Goto(t, "enq_lock", "enq_test")
    /\ Acquire(t)
    /\ UNCHANGED <<buffers, sizes, head, tail, data, ret>>

(* The early return forgets the unlock. *)
EnqFullKeepsLockBug(t) ==
    /\ Goto(t, "enq_test", "idle")
    /\ Succ(head) = tail
    /\ ret' = [ret EXCEPT ![t] = -1]
    /\ UNCHANGED <<mutex, buffers, sizes, head, tail, data>>

(* next == q->tail: the ring is full; one slot always stays unused. *)
EnqFull(t) ==
    /\ Goto(t, "enq_test", "idle")
    /\ Succ(head) = tail
    /\ ReleaseAndReturn(t, -1)
    /\ UNCHANGED <<buffers, sizes, head, tail, data>>

(* memcpy, within the slot. *)
EnqCopy(t) ==
    /\ Goto(t, "enq_test", "enq_size")
    /\ Succ(head) # tail
    /\ buffers' = [buffers EXCEPT ![head] = data[t].bytes]
    /\ UNCHANGED <<mutex, sizes, head, tail, data, ret>>

(* sizes is an array of uint16_t, len a size_t. *)
U16(n) == n % 65536

EnqSize(t) ==
    /\ Goto(t, "enq_size", "enq_head")
    /\ sizes' = [sizes EXCEPT ![head] = U16(data[t].len)]
    /\ UNCHANGED <<mutex, buffers, head, tail, data, ret>>

EnqHead(t) ==
    /\ Goto(t, "enq_head", "idle")
    /\ head' = Succ(head)
    /\ ReleaseAndReturn(t, 0)
    /\ UNCHANGED <<buffers, sizes, tail, data>>

-----------------------------------------------------------------------------
(* dequeue *)

DeqCall(t) ==
    /\ Goto(t, "idle", "deq_lock")
    /\ data' = [data EXCEPT ![t] = NoFrame]
    /\ UNCHANGED <<mutex, buffers, sizes, head, tail, ret>>

DeqNoLockBug(t) ==
    /\ Goto(t, "deq_lock", "deq_test")
    /\ mutex' = t
    /\ UNCHANGED <<buffers, sizes, head, tail, data, ret>>

DeqLock(t) ==
    /\ Goto(t, "deq_lock", "deq_test")
    /\ Acquire(t)
    /\ UNCHANGED <<buffers, sizes, head, tail, data, ret>>

DeqEmpty(t) ==
    /\ Goto(t, "deq_test", "idle")
    /\ tail = head
    /\ ReleaseAndReturn(t, -1)
    /\ UNCHANGED <<buffers, sizes, head, tail, data>>

(* memcpy of sizes[tail] bytes out of the slot, and *len = sizes[tail]. *)
DeqCopy(t) ==
    /\ Goto(t, "deq_test", "deq_tail")
    /\ tail # head
    /\ data' = [data EXCEPT ![t] = Stored(tail)]
    /\ UNCHANGED <<mutex, buffers, sizes, head, tail, ret>>

(* The frame is handed over and stays queued. *)
DeqKeepsFrameBug(t) ==
    /\ Goto(t, "deq_tail", "idle")
    /\ ReleaseAndReturn(t, 0)
    /\ UNCHANGED <<buffers, sizes, head, tail, data>>

DeqTail(t) ==
    /\ Goto(t, "deq_tail", "idle")
    /\ tail' = Succ(tail)
    /\ ReleaseAndReturn(t, 0)
    /\ UNCHANGED <<buffers, sizes, head, data>>

-----------------------------------------------------------------------------

(* The steps of a call that has begun. *)
EnqStep(t) == EnqLock(t) \/ EnqFull(t) \/ EnqCopy(t) \/ EnqSize(t) \/ EnqHead(t)
DeqStep(t) == DeqLock(t) \/ DeqEmpty(t) \/ DeqCopy(t) \/ DeqTail(t)

Next ==
    \/ \E t \in Producers : EnqStep(t) \/ \E f \in Frames : EnqCall(t, f)
    \/ \E t \in Consumers : DeqStep(t) \/ DeqCall(t)

Spec == Init /\ [][Next]_vars

-----------------------------------------------------------------------------
(* Correctness *)

Inside == {"enq_test", "enq_size", "enq_head", "deq_test", "deq_tail"}

Bytes == {f.bytes : f \in Frames} \union {NoFrame}
Lengths == {f.len : f \in Frames} \union {0}

(* Every variable keeps the shape the C declarations give it. *)
TypeOK ==
    /\ mutex \in Threads \union {NoThread}
    /\ buffers \in [Slots -> Bytes]
    /\ sizes \in [Slots -> Lengths]
    /\ head \in Slots
    /\ tail \in Slots
    /\ pc \in [Threads -> {"idle", "enq_lock", "deq_lock"} \union Inside]
    /\ data \in [Threads -> [bytes : Bytes, len : Lengths] \union {NoFrame}]
    /\ ret \in [Threads -> {0, -1}]

(* The mutex does its work: a thread is between its lock and its unlock    *)
(* exactly while it owns q->mutex, so no two threads are there at once and *)
(* every return path, the early ones of lines 46 and 64 too, gives it back.*)
MutualExclusion == \A t \in Threads : pc[t] \in Inside <=> mutex = t

(* What an enqueue in progress has already stored is still in its slot,    *)
(* and the slot is still free, when it moves head; what a dequeue copied   *)
(* is still the oldest frame when it moves tail.  No other thread came     *)
(* between the two halves of enqueue (lines 50-52) or dequeue (68-70).     *)
CallsIntact ==
    \A t \in Threads :
        /\ pc[t] \in {"enq_size", "enq_head"} =>
              Succ(head) # tail /\ buffers[head] = data[t].bytes
        /\ pc[t] = "enq_head" => sizes[head] = data[t].len
        /\ pc[t] = "deq_tail" =>
              /\ tail # head
              /\ data[t] = Stored(tail)

(* An enqueue in progress has a caller's frame, and the buffer of a        *)
(* dequeue holds no frame before the copy.                                 *)
ArgumentsOK ==
    \A t \in Threads :
        /\ pc[t] \in {"enq_lock", "enq_test", "enq_size", "enq_head"} => data[t] \in Frames
        /\ pc[t] \in {"deq_lock", "deq_test"} => data[t] = NoFrame

(* The inductive invariant. *)
IInv == TypeOK /\ MutualExclusion /\ CallsIntact /\ ArgumentsOK

-----------------------------------------------------------------------------
(* The refinement: the frames between tail and head are the abstract       *)
(* queue, and a call takes effect when it moves head or tail or finds the  *)
(* ring full or empty.                                                     *)

(* How many slots from t up to, not including, h; the k-th slot from t. *)
Distance(h, t) == (h + MAX_SEGMENTS - t) % MAX_SEGMENTS
SlotAt(t, k) == (t + k - 1) % MAX_SEGMENTS

ItemsBar == [k \in 1 .. Distance(head, tail) |-> Stored(SlotAt(tail, k))]

KindBar(t) ==
    CASE pc[t] = "idle" -> "done"
      [] pc[t] \in {"deq_lock", "deq_test", "deq_tail"} -> "get"
      [] OTHER -> "put"

CallBar ==
    [t \in Threads |->
        [kind  |-> KindBar(t),
         frame |-> IF KindBar(t) = "get" THEN NoFrame ELSE data[t],
         rc    |-> IF KindBar(t) = "done" THEN ret[t] ELSE 0]]

Fifo == INSTANCE BoundedFifo WITH
            Capacity <- MAX_SEGMENTS - 1, items <- ItemsBar, call <- CallBar

(* enqueue and dequeue, called by any number of threads, behave as the     *)
(* operations of one bounded FIFO: nothing queued is lost, duplicated,     *)
(* reordered or torn, and -1 means full, or empty.                         *)
ImplementsFifo == Fifo!Spec

=============================================================================
