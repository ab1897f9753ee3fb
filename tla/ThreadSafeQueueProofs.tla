----------------------- MODULE ThreadSafeQueueProofs -----------------------
(***************************************************************************)
(* Proofs about lib/queue.c for any number of threads, any frames and any  *)
(* ring of at least two slots.                                             *)
(***************************************************************************)
EXTENDS ThreadSafeQueue, SequenceTheorems, TLAPS

-----------------------------------------------------------------------------
(* Index arithmetic of the ring. *)

(* The next index is again a slot: it is the index plus one, or wraps. *)
LEMMA SuccSlot ==
    ASSUME NEW i \in Slots
    PROVE  /\ Succ(i) \in Slots
           /\ Succ(i) = IF i = MAX_SEGMENTS - 1 THEN 0 ELSE i + 1
  BY SegmentsAssumption DEF Slots, Succ

(* A caller's frame is a well-formed argument. *)
LEMMA FrameType ==
    ASSUME NEW f \in Frames
    PROVE  f \in [bytes : Bytes, len : Lengths]
  BY FrameAssumption DEF Bytes, Lengths

(* The length of a frame that fits its slot survives in a uint16_t. *)
LEMMA LengthStored ==
    ASSUME ArgumentsOK, NEW t \in Threads, EnqSize(t)
    PROVE  sizes' = [sizes EXCEPT ![head] = data[t].len]
  <1>1. data[t] \in Frames
    BY DEF EnqSize, Goto, ArgumentsOK
  <1>2. data[t].len \in 1 .. SlotSize
    BY <1>1, LengthAssumption
  <1>3. U16(data[t].len) = data[t].len
    BY <1>2, LengthAssumption DEF U16
  <1> QED
    BY <1>3 DEF EnqSize

-----------------------------------------------------------------------------
(* The inductive invariant. *)

(* init_queue establishes the invariant: no call is in progress. *)
LEMMA InitInvariant == Init => IInv
  <1> SUFFICES ASSUME Init PROVE IInv
    OBVIOUS
  <1>1. TypeOK
    BY SegmentsAssumption DEF Init, TypeOK, Slots, Bytes, Lengths
  <1>2. MutualExclusion
    BY ThreadAssumption DEF Init, MutualExclusion, Inside
  <1>3. CallsIntact /\ ArgumentsOK
    BY DEF Init, CallsIntact, ArgumentsOK
  <1> QED BY <1>1, <1>2, <1>3 DEF IInv

(* Every step of the queue preserves the types. *)
LEMMA StepTypeOK ==
    ASSUME IInv, Next
    PROVE  TypeOK'
  <1> USE DEF IInv, TypeOK
  <1> head \in Slots /\ tail \in Slots
    OBVIOUS
  <1>a. Succ(head) \in Slots /\ Succ(tail) \in Slots
    BY SuccSlot
  <1>1. ASSUME NEW t \in Producers, NEW f \in Frames, EnqCall(t, f)
        PROVE  TypeOK'
    BY <1>1, FrameType DEF EnqCall, Goto, Threads, Inside
  <1>2. ASSUME NEW t \in Producers, EnqLock(t)
        PROVE  TypeOK'
    BY <1>2 DEF EnqLock, Goto, Acquire, Threads, Inside
  <1>3. ASSUME NEW t \in Producers, EnqFull(t)
        PROVE  TypeOK'
    BY <1>3 DEF EnqFull, Goto, ReleaseAndReturn, Threads, Inside
  <1>4. ASSUME NEW t \in Producers, EnqCopy(t)
        PROVE  TypeOK'
    <2>1. data[t] \in [bytes : Bytes, len : Lengths]
      BY <1>4, FrameType DEF EnqCopy, Goto, ArgumentsOK, Threads
    <2> QED BY <1>4, <2>1 DEF EnqCopy, Goto, Threads, Inside
  <1>5. ASSUME NEW t \in Producers, EnqSize(t)
        PROVE  TypeOK'
    <2>1. data[t] \in [bytes : Bytes, len : Lengths]
      BY <1>5, FrameType DEF EnqSize, Goto, ArgumentsOK, Threads
    <2>2. sizes' = [sizes EXCEPT ![head] = data[t].len]
      BY <1>5, LengthStored DEF Threads
    <2> QED BY <1>5, <2>1, <2>2 DEF EnqSize, Goto, Threads, Inside
  <1>6. ASSUME NEW t \in Producers, EnqHead(t)
        PROVE  TypeOK'
    BY <1>6, <1>a DEF EnqHead, Goto, ReleaseAndReturn, Threads, Inside
  <1>7. ASSUME NEW t \in Consumers, DeqCall(t)
        PROVE  TypeOK'
    BY <1>7 DEF DeqCall, Goto, Threads, Inside
  <1>8. ASSUME NEW t \in Consumers, DeqLock(t)
        PROVE  TypeOK'
    BY <1>8 DEF DeqLock, Goto, Acquire, Threads, Inside
  <1>9. ASSUME NEW t \in Consumers, DeqEmpty(t)
        PROVE  TypeOK'
    BY <1>9 DEF DeqEmpty, Goto, ReleaseAndReturn, Threads, Inside
  <1>10. ASSUME NEW t \in Consumers, DeqCopy(t)
         PROVE  TypeOK'
    BY <1>10 DEF DeqCopy, Stored, Goto, Threads, Inside
  <1>11. ASSUME NEW t \in Consumers, DeqTail(t)
         PROVE  TypeOK'
    BY <1>11, <1>a DEF DeqTail, Goto, ReleaseAndReturn, Threads, Inside
  <1> QED
    BY <1>1, <1>2, <1>3, <1>4, <1>5, <1>6, <1>7, <1>8, <1>9, <1>10, <1>11
       DEF Next, EnqStep, DeqStep

(* Only the owner of the mutex takes a step between lock and unlock. *)
LEMMA StepMutualExclusion ==
    ASSUME IInv, Next
    PROVE  MutualExclusion'
  <1> USE DEF IInv, TypeOK, MutualExclusion
  <1>1. ASSUME NEW t \in Producers, NEW f \in Frames, EnqCall(t, f)
        PROVE  MutualExclusion'
    BY <1>1 DEF EnqCall, Goto, Threads, Inside
  <1>2. ASSUME NEW t \in Producers, EnqLock(t)
        PROVE  MutualExclusion'
    BY <1>2, ThreadAssumption DEF EnqLock, Goto, Acquire, Threads, Inside
  <1>3. ASSUME NEW t \in Producers, EnqFull(t)
        PROVE  MutualExclusion'
    BY <1>3, ThreadAssumption DEF EnqFull, Goto, ReleaseAndReturn, Threads, Inside
  <1>4. ASSUME NEW t \in Producers, EnqCopy(t) \/ EnqSize(t)
        PROVE  MutualExclusion'
    BY <1>4 DEF EnqCopy, EnqSize, Goto, Threads, Inside
  <1>5. ASSUME NEW t \in Producers, EnqHead(t)
        PROVE  MutualExclusion'
    BY <1>5, ThreadAssumption DEF EnqHead, Goto, ReleaseAndReturn, Threads, Inside
  <1>6. ASSUME NEW t \in Consumers, DeqCall(t)
        PROVE  MutualExclusion'
    BY <1>6 DEF DeqCall, Goto, Threads, Inside
  <1>7. ASSUME NEW t \in Consumers, DeqLock(t)
        PROVE  MutualExclusion'
    BY <1>7, ThreadAssumption DEF DeqLock, Goto, Acquire, Threads, Inside
  <1>8. ASSUME NEW t \in Consumers, DeqEmpty(t)
        PROVE  MutualExclusion'
    BY <1>8, ThreadAssumption DEF DeqEmpty, Goto, ReleaseAndReturn, Threads, Inside
  <1>9. ASSUME NEW t \in Consumers, DeqCopy(t)
        PROVE  MutualExclusion'
    BY <1>9 DEF DeqCopy, Stored, Goto, Threads, Inside
  <1>10. ASSUME NEW t \in Consumers, DeqTail(t)
         PROVE  MutualExclusion'
    BY <1>10, ThreadAssumption DEF DeqTail, Goto, ReleaseAndReturn, Threads, Inside
  <1> QED
    BY <1>1, <1>2, <1>3, <1>4, <1>5, <1>6, <1>7, <1>8, <1>9, <1>10
       DEF Next, EnqStep, DeqStep

(* A call begun before the step of another thread is as it was: the other  *)
(* thread is outside the mutex or this one is.                             *)
LEMMA StepCallsIntact ==
    ASSUME IInv, Next
    PROVE  CallsIntact'
  <1> USE DEF IInv, TypeOK, MutualExclusion, CallsIntact, Stored
  <1>1. ASSUME NEW t \in Producers, NEW f \in Frames, EnqCall(t, f)
        PROVE  CallsIntact'
    BY <1>1 DEF EnqCall, Goto, Threads
  <1>2. ASSUME NEW t \in Producers, EnqLock(t) \/ EnqFull(t)
        PROVE  CallsIntact'
    BY <1>2 DEF EnqLock, EnqFull, Goto, Threads
  <1>3. ASSUME NEW t \in Producers, EnqCopy(t)
        PROVE  CallsIntact'
    BY <1>3 DEF EnqCopy, Goto, Threads, Inside
  <1>4. ASSUME NEW t \in Producers, EnqSize(t)
        PROVE  CallsIntact'
    <2>1. sizes' = [sizes EXCEPT ![head] = data[t].len]
      BY <1>4, LengthStored DEF Threads
    <2> QED BY <1>4, <2>1 DEF EnqSize, Goto, Threads, Inside
  <1>5. ASSUME NEW t \in Producers, EnqHead(t)
        PROVE  CallsIntact'
    BY <1>5 DEF EnqHead, Goto, Threads, Inside
  <1>6. ASSUME NEW t \in Consumers, DeqCall(t)
        PROVE  CallsIntact'
    BY <1>6 DEF DeqCall, Goto, Threads
  <1>7. ASSUME NEW t \in Consumers, DeqLock(t) \/ DeqEmpty(t)
        PROVE  CallsIntact'
    BY <1>7 DEF DeqLock, DeqEmpty, Goto, Threads
  <1>8. ASSUME NEW t \in Consumers, DeqCopy(t)
        PROVE  CallsIntact'
    BY <1>8 DEF DeqCopy, Stored, Goto, Threads, Inside
  <1>9. ASSUME NEW t \in Consumers, DeqTail(t)
        PROVE  CallsIntact'
    BY <1>9 DEF DeqTail, Goto, Threads, Inside
  <1> QED
    BY <1>1, <1>2, <1>3, <1>4, <1>5, <1>6, <1>7, <1>8, <1>9
       DEF Next, EnqStep, DeqStep

(* Only the call itself sets a caller's frame, and only the copy of        *)
(* dequeue fills the caller's buffer.                                      *)
LEMMA StepArgumentsOK ==
    ASSUME IInv, Next
    PROVE  ArgumentsOK'
  <1> USE DEF IInv, TypeOK, ArgumentsOK
  <1>1. ASSUME NEW t \in Producers, NEW f \in Frames, EnqCall(t, f)
        PROVE  ArgumentsOK'
    BY <1>1 DEF EnqCall, Goto, Threads
  <1>2. ASSUME NEW t \in Producers, EnqStep(t)
        PROVE  ArgumentsOK'
    BY <1>2 DEF EnqStep, EnqLock, EnqFull, EnqCopy, EnqSize, EnqHead, Goto, Threads
  <1>3. ASSUME NEW t \in Consumers, DeqStep(t) \/ DeqCall(t)
        PROVE  ArgumentsOK'
    BY <1>3 DEF DeqStep, DeqCall, DeqLock, DeqEmpty, DeqCopy, DeqTail, Goto, Threads
  <1> QED BY <1>1, <1>2, <1>3 DEF Next

(* Every statement of enqueue and dequeue preserves the invariant. *)
LEMMA StepInvariant == IInv /\ [Next]_vars => IInv'
  <1>1. ASSUME IInv, Next PROVE IInv'
    BY <1>1, StepTypeOK, StepMutualExclusion, StepCallsIntact, StepArgumentsOK
       DEF IInv
  <1>2. ASSUME IInv, UNCHANGED vars PROVE IInv'
    BY <1>2 DEF IInv, vars, TypeOK, MutualExclusion, CallsIntact, ArgumentsOK, Stored
  <1> QED BY <1>1, <1>2

(* The invariant holds throughout every execution of the queue. *)
LEMMA Invariance == Spec => []IInv
  BY InitInvariant, StepInvariant, PTL DEF Spec

(* Every variable keeps its shape, for any number of threads and slots. *)
THEOREM TypeCorrect == Spec => []TypeOK
  <1>1. IInv => TypeOK
    BY DEF IInv
  <1> QED BY <1>1, Invariance, PTL

(* At most one thread is between its lock and its unlock. *)
THEOREM OnlyOwnerInside == Spec => []MutualExclusion
  <1>1. IInv => MutualExclusion
    BY DEF IInv
  <1> QED BY <1>1, Invariance, PTL

(* No thread comes between the two halves of another thread's call. *)
THEOREM CallsStayIntact == Spec => []CallsIntact
  <1>1. IInv => CallsIntact
    BY DEF IInv
  <1> QED BY <1>1, Invariance, PTL

-----------------------------------------------------------------------------
(* The refinement. *)

(* The two index computations without the modulus. *)
LEMMA DistanceValue ==
    ASSUME NEW h \in Slots, NEW t \in Slots
    PROVE  Distance(h, t) = IF h >= t THEN h - t ELSE h + MAX_SEGMENTS - t
  BY SegmentsAssumption DEF Slots, Distance

(* The same for the slot that is the k-th one from t. *)
LEMMA SlotAtValue ==
    ASSUME NEW t \in Slots, NEW k \in 1 .. MAX_SEGMENTS
    PROVE  SlotAt(t, k) = IF t + k - 1 >= MAX_SEGMENTS
                          THEN t + k - 1 - MAX_SEGMENTS ELSE t + k - 1
  BY SegmentsAssumption DEF Slots, SlotAt

(* The distance between two slots, and when the ring is empty or full. *)
LEMMA DistanceFacts ==
    ASSUME NEW h \in Slots, NEW t \in Slots
    PROVE  /\ Distance(h, t) \in 0 .. MAX_SEGMENTS - 1
           /\ Distance(h, t) = 0 <=> h = t
           /\ Distance(h, t) = MAX_SEGMENTS - 1 <=> Succ(h) = t
           /\ Succ(h) # t => Distance(Succ(h), t) = Distance(h, t) + 1
           /\ h # t => Distance(h, Succ(t)) = Distance(h, t) - 1
  <1>1. Succ(h) \in Slots /\ Succ(t) \in Slots
    BY SuccSlot
  <1>2. /\ Succ(h) = IF h = MAX_SEGMENTS - 1 THEN 0 ELSE h + 1
        /\ Succ(t) = IF t = MAX_SEGMENTS - 1 THEN 0 ELSE t + 1
    BY SuccSlot
  <1>3. /\ Distance(h, t) = IF h >= t THEN h - t ELSE h + MAX_SEGMENTS - t
        /\ Distance(Succ(h), t) =
              IF Succ(h) >= t THEN Succ(h) - t ELSE Succ(h) + MAX_SEGMENTS - t
        /\ Distance(h, Succ(t)) =
              IF h >= Succ(t) THEN h - Succ(t) ELSE h + MAX_SEGMENTS - Succ(t)
    BY <1>1, DistanceValue
  <1> HIDE DEF Distance, Succ
  <1> QED BY <1>2, <1>3, SegmentsAssumption DEF Slots

(* The slots between t and h are distinct from h, the one after them is h, *)
(* and counting from the next slot shifts the index by one.                *)
LEMMA SlotFacts ==
    ASSUME NEW h \in Slots, NEW t \in Slots, NEW k \in 1 .. MAX_SEGMENTS - 1
    PROVE  /\ SlotAt(t, k) \in Slots
           /\ k <= Distance(h, t) => SlotAt(t, k) # h
           /\ k = Distance(h, t) + 1 => SlotAt(t, k) = h
           /\ SlotAt(Succ(t), k) = SlotAt(t, k + 1)
           /\ SlotAt(t, 1) = t
  <1>1. Succ(t) \in Slots /\ Succ(t) = IF t = MAX_SEGMENTS - 1 THEN 0 ELSE t + 1
    BY SuccSlot
  <1>2. k \in 1 .. MAX_SEGMENTS /\ k + 1 \in 1 .. MAX_SEGMENTS /\ 1 \in 1 .. MAX_SEGMENTS
    BY SegmentsAssumption
  <1>3. /\ SlotAt(t, k) = IF t + k - 1 >= MAX_SEGMENTS
                          THEN t + k - 1 - MAX_SEGMENTS ELSE t + k - 1
        /\ SlotAt(t, k + 1) = IF t + (k + 1) - 1 >= MAX_SEGMENTS
                          THEN t + (k + 1) - 1 - MAX_SEGMENTS ELSE t + (k + 1) - 1
        /\ SlotAt(Succ(t), k) = IF Succ(t) + k - 1 >= MAX_SEGMENTS
                          THEN Succ(t) + k - 1 - MAX_SEGMENTS ELSE Succ(t) + k - 1
        /\ SlotAt(t, 1) = IF t + 1 - 1 >= MAX_SEGMENTS
                          THEN t + 1 - 1 - MAX_SEGMENTS ELSE t + 1 - 1
    BY <1>1, <1>2, SlotAtValue
  <1>4. Distance(h, t) = IF h >= t THEN h - t ELSE h + MAX_SEGMENTS - t
    BY DistanceValue
  <1> QED BY <1>1, <1>3, <1>4, SegmentsAssumption DEF Slots

(* An empty ring is the empty queue. *)
LEMMA InitRefines == Init => Fifo!Init
  <1> SUFFICES ASSUME Init PROVE Fifo!Init
    OBVIOUS
  <1>1. ItemsBar = <<>>
    <2>1. 0 \in Slots
      BY SegmentsAssumption DEF Slots
    <2>2. Distance(head, tail) = 0
      BY <2>1, DistanceFacts DEF Init
    <2> QED BY <2>2 DEF ItemsBar
  <1>2. CallBar = [t \in Fifo!Threads |-> Fifo!Returned(NoFrame, 0)]
    BY DEF Init, CallBar, KindBar, Fifo!Threads, Threads, Fifo!Returned
  <1> QED BY <1>1, <1>2 DEF Fifo!Init

(* The abstract queue is a sequence of frames; its length is the distance. *)
LEMMA ItemsLength ==
    ASSUME TypeOK
    PROVE  /\ ItemsBar \in Seq([bytes : Bytes, len : Lengths])
           /\ Len(ItemsBar) = Distance(head, tail)
           /\ Distance(head, tail) \in 0 .. MAX_SEGMENTS - 1
  <1>1. Distance(head, tail) \in 0 .. MAX_SEGMENTS - 1
    BY DistanceFacts DEF TypeOK
  <1>2. \A k \in 1 .. Distance(head, tail) : SlotAt(tail, k) \in Slots
    <2> TAKE k \in 1 .. Distance(head, tail)
    <2>1. k \in 1 .. MAX_SEGMENTS - 1
      BY <1>1, SegmentsAssumption
    <2> QED BY <2>1, SlotFacts DEF TypeOK
  <1>3. \A i \in Slots : Stored(i) \in [bytes : Bytes, len : Lengths]
    BY DEF TypeOK, Stored
  <1>4. Distance(head, tail) \in Nat
    BY <1>1, SegmentsAssumption
  <1>5. ItemsBar \in [1 .. Distance(head, tail) -> [bytes : Bytes, len : Lengths]]
    BY <1>2, <1>3 DEF ItemsBar
  <1> HIDE DEF Distance, ItemsBar
  <1>6. ItemsBar \in Seq([bytes : Bytes, len : Lengths])
    BY ZenonT(60), <1>4, <1>5, SeqDef
  <1>7. DOMAIN ItemsBar = 1 .. Distance(head, tail)
    BY <1>5
  <1>8. Len(ItemsBar) = Distance(head, tail)
    BY <1>4, <1>6, <1>7, LenProperties
  <1> QED BY <1>1, <1>6, <1>8

(* A slot that is not between tail and head can be written unseen. *)
LEMMA WriteUnseen ==
    ASSUME TypeOK, UNCHANGED <<head, tail>>,
           \A i \in Slots \ {head} : Stored(i)' = Stored(i)
    PROVE  ItemsBar' = ItemsBar
  <1>1. Distance(head, tail) \in 0 .. MAX_SEGMENTS - 1
    BY DistanceFacts DEF TypeOK
  <1>2. ASSUME NEW k \in 1 .. Distance(head, tail)
        PROVE  Stored(SlotAt(tail, k))' = Stored(SlotAt(tail, k))
    <2>1. k \in 1 .. MAX_SEGMENTS - 1 /\ k <= Distance(head, tail)
      BY <1>1, SegmentsAssumption
    <2>2. SlotAt(tail, k) \in Slots \ {head}
      BY <2>1, SlotFacts DEF TypeOK
    <2>3. SlotAt(tail, k)' = SlotAt(tail, k)
      BY DEF SlotAt
    <2> QED BY <2>2, <2>3 DEF Stored
  <1>3. Distance(head, tail)' = Distance(head, tail)
    BY DEF Distance
  <1> QED BY <1>2, <1>3 DEF ItemsBar

(* Moving head past a filled slot appends the frame in it. *)
LEMMA HeadAppends ==
    ASSUME TypeOK, Succ(head) # tail, head' = Succ(head),
           UNCHANGED <<buffers, sizes, tail>>
    PROVE  /\ Len(ItemsBar) < MAX_SEGMENTS - 1
           /\ ItemsBar' = Append(ItemsBar, Stored(head))
  <1> DEFINE n == Distance(head, tail)
  <1>1. n \in 0 .. MAX_SEGMENTS - 1 /\ n # MAX_SEGMENTS - 1
    BY DistanceFacts DEF TypeOK
  <1>2. Distance(head, tail)' = n + 1
    <2>1. Distance(Succ(head), tail) = n + 1
      BY DistanceFacts DEF TypeOK
    <2> QED BY <2>1 DEF Distance
  <1>3. \A i \in Slots : Stored(i)' = Stored(i)
    BY DEF Stored
  <1>4. \A k \in 1 .. n + 1 : SlotAt(tail, k)' = SlotAt(tail, k)
    BY DEF SlotAt
  <1>5. SlotAt(tail, n + 1) = head
    <2>1. n + 1 \in 1 .. MAX_SEGMENTS - 1
      BY <1>1, SegmentsAssumption
    <2> QED BY <2>1, SlotFacts DEF TypeOK
  <1>6. ItemsBar' = [k \in 1 .. n + 1 |-> Stored(SlotAt(tail, k))]
    BY <1>2, <1>4 DEF ItemsBar, Stored
  <1>7. /\ ItemsBar \in Seq([bytes : Bytes, len : Lengths])
        /\ Len(ItemsBar) = n
    BY ItemsLength
  <1>8. ItemsBar = [k \in 1 .. n |-> Stored(SlotAt(tail, k))]
    BY DEF ItemsBar
  <1> HIDE DEF n, ItemsBar, Stored
  <1>9. n \in Nat /\ n < MAX_SEGMENTS - 1
    BY <1>1, SegmentsAssumption
  <1>10. Append(ItemsBar, Stored(head)) = [k \in 1 .. n + 1 |-> Stored(SlotAt(tail, k))]
    BY <1>5, <1>7, <1>8, <1>9
  <1> QED BY <1>6, <1>7, <1>9, <1>10

(* Moving tail drops the oldest frame. *)
LEMMA TailDrops ==
    ASSUME TypeOK, tail # head, tail' = Succ(tail),
           UNCHANGED <<buffers, sizes, head>>
    PROVE  /\ ItemsBar # <<>>
           /\ Head(ItemsBar) = Stored(tail)
           /\ ItemsBar' = Tail(ItemsBar)
  <1> DEFINE n == Distance(head, tail)
  <1>1. n \in 1 .. MAX_SEGMENTS - 1 /\ n \in Nat
    BY DistanceFacts, SegmentsAssumption DEF TypeOK
  <1>2. Distance(head, tail)' = n - 1
    <2>1. Distance(head, Succ(tail)) = n - 1
      BY DistanceFacts DEF TypeOK
    <2> QED BY <2>1 DEF Distance
  <1>3. ASSUME NEW k \in 1 .. n - 1
        PROVE  SlotAt(tail, k)' = SlotAt(tail, k + 1)
    <2>1. k \in 1 .. MAX_SEGMENTS - 1
      BY <1>1, SegmentsAssumption
    <2>2. SlotAt(Succ(tail), k) = SlotAt(tail, k + 1)
      BY <2>1, SlotFacts DEF TypeOK
    <2> QED BY <2>2 DEF SlotAt
  <1>4. ItemsBar' = [k \in 1 .. n - 1 |-> Stored(SlotAt(tail, k + 1))]
    BY <1>2, <1>3 DEF ItemsBar, Stored
  <1>5. SlotAt(tail, 1) = tail
    <2>1. 1 \in 1 .. MAX_SEGMENTS - 1
      BY SegmentsAssumption
    <2> QED BY <2>1, SlotFacts DEF TypeOK
  <1>6. /\ ItemsBar \in Seq([bytes : Bytes, len : Lengths])
        /\ Len(ItemsBar) = n
    BY ItemsLength
  <1>7. ItemsBar = [k \in 1 .. n |-> Stored(SlotAt(tail, k))]
    BY DEF ItemsBar
  <1> HIDE DEF n, ItemsBar, Stored
  <1>8. Head(ItemsBar) = Stored(tail) /\ ItemsBar # <<>>
    BY <1>1, <1>5, <1>6, <1>7
  <1>9. Tail(ItemsBar) = [k \in 1 .. n - 1 |-> Stored(SlotAt(tail, k + 1))]
    BY <1>1, <1>6, <1>7
  <1> QED BY <1>4, <1>8, <1>9

(* A step that keeps a call in progress is no step of the abstract queue. *)
LEMMA StepInsideStutters ==
    ASSUME IInv, NEW t \in Threads,
           EnqLock(t) \/ EnqCopy(t) \/ EnqSize(t) \/ DeqLock(t) \/ DeqCopy(t)
    PROVE  UNCHANGED Fifo!vars
  <1> USE DEF IInv
  <1>1. ItemsBar' = ItemsBar
    <2>1. CASE EnqCopy(t) \/ EnqSize(t)
      <3>1. ASSUME NEW i \in Slots \ {head} PROVE Stored(i)' = Stored(i)
        BY <2>1 DEF EnqCopy, EnqSize, Stored, TypeOK
      <3>2. UNCHANGED <<head, tail>>
        BY <2>1 DEF EnqCopy, EnqSize
      <3> QED BY <3>1, <3>2, WriteUnseen
    <2>2. CASE EnqLock(t) \/ DeqLock(t) \/ DeqCopy(t)
      BY <2>2 DEF EnqLock, DeqLock, DeqCopy, ItemsBar, Stored, Distance, SlotAt
    <2> QED BY <2>1, <2>2
  <1>2. ASSUME NEW u \in Threads
        PROVE  KindBar(u)' = KindBar(u)
    BY DEF EnqLock, EnqCopy, EnqSize, DeqLock, DeqCopy, Goto, KindBar, TypeOK
  <1>3. ASSUME NEW u \in Threads
        PROVE  /\ ret'[u] = ret[u]
               /\ KindBar(u) # "get" => data'[u] = data[u]
    BY DEF EnqLock, EnqCopy, EnqSize, DeqLock, DeqCopy, Goto, KindBar, TypeOK
  <1>4. CallBar' = CallBar
    BY <1>2, <1>3 DEF CallBar
  <1> QED BY <1>1, <1>4 DEF Fifo!vars

(* The ring seen as a queue does not move while head, tail and slots stay. *)
LEMMA ItemsStutter ==
    ASSUME UNCHANGED <<buffers, sizes, head, tail>>
    PROVE  ItemsBar' = ItemsBar
  BY DEF ItemsBar, Stored, Distance, SlotAt

(* Every step of the ring is a step of the abstract queue or a stutter. *)
LEMMA StepRefines == IInv /\ [Next]_vars => [Fifo!Next]_(Fifo!vars)
  <1> SUFFICES ASSUME IInv, [Next]_vars
               PROVE  Fifo!Next \/ UNCHANGED Fifo!vars
    BY DEF Fifo!vars
  <1> USE DEF IInv, TypeOK
  <1>0. /\ Len(ItemsBar) = Distance(head, tail)
        /\ ItemsBar \in Seq([bytes : Bytes, len : Lengths])
    BY ItemsLength
  <1>1. ASSUME NEW t \in Producers, NEW f \in Frames, EnqCall(t, f)
        PROVE  Fifo!BeginPut(t, f)
    <2>1. ItemsBar' = ItemsBar
      BY <1>1, ItemsStutter DEF EnqCall
    <2> QED BY <1>1, <2>1 DEF EnqCall, Goto, Fifo!BeginPut, CallBar, KindBar, Threads
  <1>2. ASSUME NEW t \in Producers, EnqFull(t)
        PROVE  Fifo!RefusePut(t)
    <2>1. ItemsBar' = ItemsBar
      BY <1>2, ItemsStutter DEF EnqFull
    <2>2. Len(ItemsBar) = MAX_SEGMENTS - 1
      BY <1>0, <1>2, DistanceFacts DEF EnqFull
    <2>3. CallBar[t].kind = "put"
      BY <1>2 DEF EnqFull, Goto, CallBar, KindBar, Threads
    <2>4. CallBar' = [CallBar EXCEPT ![t] = Fifo!Returned(CallBar[t].frame, -1)]
      BY <1>2 DEF EnqFull, Goto, ReleaseAndReturn, Fifo!Returned, CallBar, KindBar, Threads
    <2> QED BY <2>1, <2>2, <2>3, <2>4 DEF Fifo!RefusePut
  <1>3. ASSUME NEW t \in Producers, EnqHead(t)
        PROVE  Fifo!EndPut(t)
    <2>1. Succ(head) # tail /\ data[t] = Stored(head)
      <3>1. data[t] \in Frames
        BY <1>3 DEF EnqHead, Goto, ArgumentsOK, Threads
      <3>2. data[t].bytes = buffers[head] /\ data[t].len = sizes[head] /\ Succ(head) # tail
        BY <1>3 DEF EnqHead, Goto, CallsIntact, Threads
      <3> QED BY <3>1, <3>2, FrameAssumption DEF Stored
    <2>2. /\ Len(ItemsBar) < MAX_SEGMENTS - 1
          /\ ItemsBar' = Append(ItemsBar, data[t])
      BY <1>3, <2>1, HeadAppends DEF EnqHead
    <2>3. CallBar[t].kind = "put" /\ CallBar[t].frame = data[t]
      BY <1>3 DEF EnqHead, Goto, CallBar, KindBar, Threads
    <2>4. CallBar' = [CallBar EXCEPT ![t] = Fifo!Returned(CallBar[t].frame, 0)]
      BY <1>3 DEF EnqHead, Goto, ReleaseAndReturn, Fifo!Returned, CallBar, KindBar, Threads
    <2> QED BY <2>2, <2>3, <2>4 DEF Fifo!EndPut
  <1>4. ASSUME NEW t \in Consumers, DeqCall(t)
        PROVE  Fifo!BeginGet(t)
    <2>1. ItemsBar' = ItemsBar
      BY <1>4, ItemsStutter DEF DeqCall
    <2> QED BY <1>4, <2>1 DEF DeqCall, Goto, Fifo!BeginGet, CallBar, KindBar, Threads
  <1>5. ASSUME NEW t \in Consumers, DeqEmpty(t)
        PROVE  Fifo!RefuseGet(t)
    <2>1. ItemsBar' = ItemsBar
      BY <1>5, ItemsStutter DEF DeqEmpty
    <2>2. ItemsBar = <<>>
      BY <1>0, <1>5, DistanceFacts, EmptySeq DEF DeqEmpty
    <2>3. CallBar[t].kind = "get"
      BY <1>5 DEF DeqEmpty, Goto, CallBar, KindBar, Threads
    <2>4. CallBar' = [CallBar EXCEPT ![t] = Fifo!Returned(NoFrame, -1)]
      BY <1>5 DEF DeqEmpty, ArgumentsOK, Goto, ReleaseAndReturn, Fifo!Returned, CallBar, KindBar, Threads
    <2> QED BY <2>1, <2>2, <2>3, <2>4 DEF Fifo!RefuseGet
  <1>6. ASSUME NEW t \in Consumers, DeqTail(t)
        PROVE  Fifo!EndGet(t)
    <2>1. tail # head /\ data[t] = Stored(tail)
      BY <1>6 DEF DeqTail, Goto, CallsIntact, Threads
    <2>2. /\ ItemsBar # <<>>
          /\ Head(ItemsBar) = data[t]
          /\ ItemsBar' = Tail(ItemsBar)
      BY <1>6, <2>1, TailDrops DEF DeqTail
    <2>3. CallBar[t].kind = "get"
      BY <1>6 DEF DeqTail, Goto, CallBar, KindBar, Threads
    <2>4. CallBar' = [CallBar EXCEPT ![t] = Fifo!Returned(data[t], 0)]
      BY <1>6 DEF DeqTail, Goto, ReleaseAndReturn, Fifo!Returned, CallBar, KindBar, Threads
    <2> QED BY <2>2, <2>3, <2>4 DEF Fifo!EndGet
  <1>7. CASE UNCHANGED vars
    BY <1>7 DEF vars, Fifo!vars, ItemsBar, CallBar, KindBar, Stored, Distance, SlotAt
  <1> QED
    BY <1>1, <1>2, <1>3, <1>4, <1>5, <1>6, <1>7, StepInsideStutters
       DEF Next, EnqStep, DeqStep, Fifo!Next, Threads

(* The ring behind the mutex is a bounded FIFO, for any threads and size. *)
THEOREM QueueImplementsFifo == Spec => ImplementsFifo
  BY InitRefines, StepRefines, Invariance, PTL DEF Spec, ImplementsFifo, Fifo!Spec

=============================================================================
