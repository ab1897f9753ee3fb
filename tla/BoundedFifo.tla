---------------------------- MODULE BoundedFifo ----------------------------
(***************************************************************************)
(* What lib/queue.c promises its callers: a FIFO of at most Capacity       *)
(* frames.  A call is in progress between its Begin and its End action;    *)
(* End is the one instant at which the call takes effect, whatever the     *)
(* other threads do meanwhile.                                             *)
(***************************************************************************)
EXTENDS Integers, Sequences

CONSTANTS Producers,   \* threads that call enqueue
          Consumers,   \* threads that call dequeue
          Frames,      \* what is queued
          Capacity,    \* the most frames the queue ever holds
          NoFrame      \* "no frame handed over"

VARIABLES items,       \* the queued frames, oldest first
          call         \* per thread: its call in progress, or its last result

vars == <<items, call>>

Threads == Producers \union Consumers

Returned(frame, rc) == [kind |-> "done", frame |-> frame, rc |-> rc]

Init ==
    /\ items = <<>>
    /\ call = [t \in Threads |-> Returned(NoFrame, 0)]

(* enqueue is called with frame f. *)
BeginPut(t, f) ==
    /\ call[t].kind = "done"
    /\ call' = [call EXCEPT ![t] = [kind |-> "put", frame |-> f, rc |-> 0]]
    /\ UNCHANGED items

(* enqueue succeeds (returns 0): there was room. *)
EndPut(t) ==
    /\ call[t].kind = "put"
    /\ Len(items) < Capacity
    /\ items' = Append(items, call[t].frame)
    /\ call' = [call EXCEPT ![t] = Returned(call[t].frame, 0)]

(* enqueue fails (returns -1): there was no room at that instant. *)
RefusePut(t) ==
    /\ call[t].kind = "put"
    /\ Len(items) = Capacity
    /\ call' = [call EXCEPT ![t] = Returned(call[t].frame, -1)]
    /\ UNCHANGED items

(* dequeue is called. *)
BeginGet(t) ==
    /\ call[t].kind = "done"
    /\ call' = [call EXCEPT ![t] = [kind |-> "get", frame |-> NoFrame, rc |-> 0]]
    /\ UNCHANGED items

(* dequeue hands over the oldest frame (returns 0). *)
EndGet(t) ==
    /\ call[t].kind = "get"
    /\ items # <<>>
    /\ call' = [call EXCEPT ![t] = Returned(Head(items), 0)]
    /\ items' = Tail(items)

(* dequeue fails (returns -1): the queue was empty at that instant. *)
RefuseGet(t) ==
    /\ call[t].kind = "get"
    /\ items = <<>>
    /\ call' = [call EXCEPT ![t] = Returned(NoFrame, -1)]
    /\ UNCHANGED items

Next ==
    \/ \E t \in Producers :
          \/ \E f \in Frames : BeginPut(t, f)
          \/ EndPut(t)
          \/ RefusePut(t)
    \/ \E t \in Consumers :
          \/ BeginGet(t)
          \/ EndGet(t)
          \/ RefuseGet(t)

Spec == Init /\ [][Next]_vars

=============================================================================
