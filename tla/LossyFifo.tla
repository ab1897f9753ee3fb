----------------------------- MODULE LossyFifo -----------------------------
(***************************************************************************)
(* What a way through the gateway promises of the frames that take it:     *)
(* some may be lost, but those that come out come out in the order they    *)
(* went in, and each at most once.                                         *)
(***************************************************************************)
EXTENDS Naturals, Sequences

CONSTANT Unique \* the frames that are made once only

VARIABLES waiting, \* under way, oldest first
          out      \* came out so far

vars == <<waiting, out>>

Init == waiting = <<>> /\ out = <<>>

(* Any number of frames go in behind those under way; one that is made     *)
(* only once has not been seen before.                                     *)
Put ==
    /\ Len(waiting') >= Len(waiting)
    /\ SubSeq(waiting', 1, Len(waiting)) = waiting
    /\ \A i \in Len(waiting) + 1 .. Len(waiting') :
          waiting'[i] \in Unique =>
              /\ \A j \in 1 .. i - 1 : waiting'[j] # waiting'[i]
              /\ \A j \in DOMAIN out : out[j] # waiting'[i]
    /\ UNCHANGED out

(* The oldest comes out. *)
Deliver ==
    /\ waiting # <<>>
    /\ waiting' = Tail(waiting)
    /\ out' = Append(out, Head(waiting))

Lose ==
    /\ waiting # <<>>
    /\ waiting' = Tail(waiting)
    /\ UNCHANGED out

Next == Put \/ Deliver \/ Lose

Spec == Init /\ [][Next]_vars

=============================================================================
