-------------------------- MODULE TcpClientProofs --------------------------
(***************************************************************************)
(* Proofs about the connection to the cloud, for any number of attempts,   *)
(* of frames and of slots in tx_queue.                                     *)
(*                                                                         *)
(* As long as no thread overtakes another and no connection starts two     *)
(* timers (Orderly), there is one thing at a time that can lead to the     *)
(* next attempt: a thread that has not begun yet, one that is connecting,  *)
(* its connection, or the timer that its error started (Sockets,           *)
(* NextThread).  From that it follows that the two pointers are those of   *)
(* the one thread that uses them (Pointers, Unfreed) and that a send       *)
(* thread is over before the next one begins (Senders).                    *)
(***************************************************************************)
EXTENDS TcpClient, SequenceTheorems, TLAPS

(* A thread uses the pointers that it has set itself.                      *)
Pointers ==
    \A k \in Attempts :
        /\ cpc[k] \in {"newbev", "connect", "loop", "freebev", "freebase"} => base = k
        /\ cpc[k] \in {"connect", "loop", "freebev"} => bev = k /\ on[k] = k
        /\ cpc[k] = "loop" => loop[k] = k
        /\ on[k] \in {Null, k}

(* What is freed was the object of a thread that is done with it.          *)
Unfreed ==
    \A k \in Attempts :
        /\ k \in freed.base => cpc[k] = "done"
        /\ k \in freed.bev => cpc[k] \in {"freebase", "done"}

(* A connection lives in the loop of its thread, and after its error there *)
(* is one timer at most.                                                   *)
Sockets ==
    /\ \A k \in Attempts :
          /\ cpc[k] \in {"none", "start", "newbev", "connect"} => sock[k] = "none"
          /\ cpc[k] = "loop" => sock[k] \in {"connecting", "open", "failed"}
          /\ sock[k] \in {"connecting", "open"} => cpc[k] = "loop"
          /\ sock[k] = "open" => connected
          /\ timers[k] \in {0, 1}
          /\ timers[k] = 1 => cpc[k] = "loop" /\ sock[k] = "failed"
    /\ connected => \E k \in Attempts : sock[k] = "open"

(* A thread that is about to begin is all that is left of what can lead to *)
(* an attempt, or to sending.                                              *)
NextThread ==
    /\ \A k \in Attempts : cpc[k] = "none" <=> k > threads
    /\ \A k \in Attempts : cpc[k] = "start" =>
          \A j \in Attempts :
             /\ cpc[j] = "start" => j = k
             /\ cpc[j] \notin {"newbev", "connect"}
             /\ sock[j] \notin {"connecting", "open"}
             /\ timers[j] = 0

(* A send thread has the connection, or waits with its timer; it writes to *)
(* its own bufferevent.                                                    *)
Senders ==
    \A v \in Attempts :
        /\ spc[v] \in {"check", "write", "writing"} =>
              /\ cpc[v] = "loop"
              /\ sock[v] = "open" \/ (sock[v] = "failed" /\ timers[v] = 1)
        /\ spc[v] = "writing" => into[v] = v

(* Frames are in the order accepted, wherever they are.                    *)
InOrder ==
    /\ \A i \in DOMAIN queue : queue[i] <= accepted
    /\ \A i, j \in DOMAIN queue : i < j => queue[i] < queue[j]
    /\ \A i \in DOMAIN wire : wire[i] <= accepted
    /\ \A i, j \in DOMAIN wire : i < j => wire[i] < wire[j]
    /\ \A i \in DOMAIN wire : \A j \in DOMAIN queue : wire[i] < queue[j]
    /\ \A v \in Attempts : spc[v] \in {"write", "writing"} =>
          /\ hand[v] <= accepted
          /\ \A i \in DOMAIN wire : wire[i] < hand[v]
          /\ \A j \in DOMAIN queue : hand[v] < queue[j]

(* What a send thread writes is a frame.                                   *)
Holding == \A v \in Attempts : spc[v] \in {"write", "writing"} => hand[v] \in 1 .. MaxFrames

(* Nothing happens to the frames, or to the program, as long as no two     *)
(* threads were in one output buffer at once.                              *)
Unharmed == collided = {} => InOrder /\ ~dead

OneAtATime ==
    /\ Pointers /\ Unfreed /\ Sockets /\ NextThread /\ Senders
    /\ Unharmed

IInv ==
    /\ TypeOK /\ Holding
    /\ Orderly => OneAtATime

(* The values of the places of the threads and of the sockets.             *)
Places == {"none", "start", "newbev", "connect", "loop", "freebev", "freebase", "done"}
SockStates == {"none", "connecting", "open", "failed", "closed"}

(* What a send thread can be doing.                                        *)
Doings == {"none", "check", "write", "writing", "done"}

(* The tuples of variables.                                                *)
USE DEF pointers, events, sending, history, Doings

(* Numbers of attempts are not Null.                                       *)
LEMMA AttemptNumbers ==
    /\ Attempts \subseteq Nat /\ Null \notin Attempts /\ 1 \in Attempts
    /\ MaxAttempts \in Nat /\ MaxFrames \in Nat /\ QueueSize \in Nat
  BY ConstantAssumption DEF Attempts, Null

-----------------------------------------------------------------------------
(* The threads that connect keep the types, whatever the order of their    *)
(* steps.                                                                  *)
LEMMA TypeKeptByConn ==
    ASSUME TypeOK, Holding, NEW k \in Attempts, ConnStep(k)
    PROVE  TypeOK' /\ Holding'
<1> USE AttemptNumbers
<1>1. CASE NewBase(k)
  <2>1. /\ base' \in Attempts
        /\ cpc' \in [Attempts -> Places]
        /\ overtaken' \subseteq Attempts
        /\ UNCHANGED <<connected, recnt, bev, freed, threads, events, sending, dead, refused, twice,
                       collided>>
    BY <1>1 DEF TypeOK, NewBase, Places
  <2> QED
    BY <2>1 DEF TypeOK, Holding, Places
<1>2. CASE NewBev(k)
  <2>1. /\ bev' \in Attempts \union {Null} /\ dead' \in BOOLEAN
        /\ cpc' \in [Attempts -> Places]
        /\ on' \in [Attempts -> Attempts \union {Null}]
        /\ UNCHANGED <<connected, recnt, base, freed, threads, loop, sock, output, timers,
                       sending, history>>
    <3>1. CASE Dies(k, "newbev")
      BY <3>1 DEF TypeOK, Dies, Places
    <3>2. CASE ~Dies(k, "newbev")
      <4>1. /\ base \in Attempts /\ bev' = k
            /\ on' = [on EXCEPT ![k] = base]
            /\ cpc' = [cpc EXCEPT ![k] = "connect"]
            /\ UNCHANGED <<connected, recnt, base, freed, threads, loop, sock, output, timers,
                           sending, dead, history>>
        BY <1>2, <3>2 DEF TypeOK, NewBev, BaseUsable
      <4> QED
        BY <4>1 DEF TypeOK, Places
    <3> QED
      BY <3>1, <3>2
  <2> QED
    BY <2>1 DEF TypeOK, Holding, Places
<1>3. CASE Connect(k)
  <2>1. /\ dead' \in BOOLEAN
        /\ cpc' \in [Attempts -> Places]
        /\ loop' \in [Attempts -> Attempts \union {Null}]
        /\ sock' \in [Attempts -> SockStates]
        /\ UNCHANGED <<connected, recnt, pointers, freed, threads, on, output, timers,
                       sending, history>>
    <3>1. CASE Dies(k, "connect")
      BY <3>1 DEF TypeOK, Dies, Places, SockStates
    <3>2. CASE ~Dies(k, "connect")
      <4>1. /\ bev \in Attempts /\ base \in Attempts
            /\ sock' = [sock EXCEPT ![bev] = IF @ = "none" THEN "connecting" ELSE @]
            /\ \/ loop' = [loop EXCEPT ![k] = base] /\ cpc' = [cpc EXCEPT ![k] = "loop"]
               \/ cpc' = [cpc EXCEPT ![k] = "freebev"] /\ UNCHANGED loop
            /\ UNCHANGED <<connected, recnt, pointers, freed, threads, on, output, timers,
                           sending, dead, history>>
        BY <1>3, <3>2 DEF TypeOK, Connect, BevUsable, BaseUsable, Null
      <4>2. sock' \in [Attempts -> SockStates]
        BY <4>1 DEF TypeOK, SockStates
      <4>3. loop' \in [Attempts -> Attempts \union {Null}] /\ cpc' \in [Attempts -> Places]
        <5>1. CASE loop' = [loop EXCEPT ![k] = base] /\ cpc' = [cpc EXCEPT ![k] = "loop"]
          BY <4>1, <5>1 DEF TypeOK, Places
        <5>2. CASE cpc' = [cpc EXCEPT ![k] = "freebev"] /\ UNCHANGED loop
          BY <5>2 DEF TypeOK, Places
        <5> QED
          BY <4>1, <5>1, <5>2
      <4> QED
        BY <4>1, <4>2, <4>3 DEF TypeOK
    <3> QED
      BY <3>1, <3>2
  <2> QED
    BY <2>1 DEF TypeOK, Holding, Places, SockStates
<1>4. CASE Reconnect(k)
  <2>1. timers' \in [Attempts -> Nat]
    <3>1. /\ timers[loop[k]] > 0 /\ timers \in [Attempts -> Nat]
          /\ timers' = [timers EXCEPT ![loop[k]] = timers[loop[k]] - 1]
      BY <1>4 DEF TypeOK, Reconnect
    <3>2. CASE loop[k] \in Attempts
      <4>1. timers[loop[k]] \in Nat
        BY <3>1, <3>2
      <4>2. timers[loop[k]] - 1 \in Nat
        BY <3>1, <4>1
      <4> QED
        BY <3>1, <3>2, <4>2
    <3>3. CASE loop[k] \notin Attempts
      BY <3>1, <3>3
    <3> QED
      BY <3>2, <3>3
  <2>2. /\ recnt' \in 0 .. MaxRecnt
        /\ threads' \in Attempts
        /\ cpc' \in [Attempts -> Places]
    <3>1. CASE recnt < MaxRecnt
      <4>1. /\ recnt' = recnt + 1 /\ threads' = threads + 1 /\ threads < MaxAttempts
            /\ cpc' = [cpc EXCEPT ![threads + 1] = "start"]
        BY <1>4, <3>1 DEF Reconnect
      <4>2. cpc' \in [Attempts -> Places]
        BY <4>1 DEF TypeOK, Places
      <4> QED
        BY <3>1, <4>1, <4>2, ConstantAssumption DEF TypeOK, Attempts
    <3>2. CASE ~(recnt < MaxRecnt)
      BY <1>4, <3>2 DEF TypeOK, Reconnect, Places
    <3> QED
      BY <3>1, <3>2
  <2>3. UNCHANGED <<connected, pointers, freed, loop, on, sock, output, sending, dead, history>>
    BY <1>4 DEF Reconnect
  <2> QED
    BY <2>1, <2>2, <2>3 DEF TypeOK, Holding, Places
<1>5. CASE LoopEnds(k)
  <2>1. /\ cpc' \in [Attempts -> Places]
        /\ UNCHANGED <<connected, recnt, pointers, freed, threads, events, sending, dead, history>>
    BY <1>5 DEF TypeOK, LoopEnds, Places
  <2> QED
    BY <2>1 DEF TypeOK, Holding, Places
<1>6. CASE FreeBev(k)
  <2>1. /\ dead' \in BOOLEAN /\ bev' \in Attempts \union {Null}
        /\ freed' \in [base : SUBSET Attempts, bev : SUBSET Attempts]
        /\ cpc' \in [Attempts -> Places]
        /\ sock' \in [Attempts -> SockStates]
    <3>1. CASE BevUsable
      <4>1. /\ bev \in Attempts /\ bev' = Null /\ UNCHANGED dead
            /\ freed' = [freed EXCEPT !.bev = @ \union {bev}]
            /\ sock' = [sock EXCEPT ![bev] = "closed"]
            /\ cpc' = [cpc EXCEPT ![k] = "freebase"]
        BY <1>6, <3>1 DEF TypeOK, FreeBev, BevUsable
      <4> QED
        BY <4>1 DEF TypeOK, Places, SockStates
    <3>2. CASE ~BevUsable
      BY <1>6, <3>2 DEF TypeOK, FreeBev, Places, SockStates
    <3> QED
      BY <3>1, <3>2
  <2>2. UNCHANGED <<connected, recnt, base, threads, loop, on, output, timers, sending, history>>
    BY <1>6 DEF FreeBev
  <2> QED
    BY <2>1, <2>2 DEF TypeOK, Holding, Places, SockStates
<1>7. CASE FreeBase(k)
  <2>1. /\ dead' \in BOOLEAN /\ base' \in Attempts \union {Null}
        /\ freed' \in [base : SUBSET Attempts, bev : SUBSET Attempts]
        /\ cpc' \in [Attempts -> Places]
    BY <1>7 DEF TypeOK, FreeBase, Places
  <2>2. UNCHANGED <<connected, recnt, bev, threads, events, sending, history>>
    BY <1>7 DEF FreeBase
  <2> QED
    BY <2>1, <2>2 DEF TypeOK, Holding, Places
<1> QED
  BY <1>1, <1>2, <1>3, <1>4, <1>5, <1>6, <1>7 DEF ConnStep

(* So does the network.                                                    *)
LEMMA TypeKeptByNetwork ==
    ASSUME TypeOK, Holding, NEW k \in Attempts, Network(k)
    PROVE  TypeOK' /\ Holding'
<1> USE AttemptNumbers
<1>1. CASE ConnectRefused(k)
  <2>1. /\ dead' \in BOOLEAN
        /\ freed' \in [base : SUBSET Attempts, bev : SUBSET Attempts]
        /\ cpc' \in [Attempts -> Places]
        /\ sock' \in [Attempts -> SockStates]
        /\ refused' \subseteq Attempts
    BY <1>1 DEF TypeOK, ConnectRefused, BevUsable, BaseUsable, Places, SockStates
  <2>2. UNCHANGED <<connected, recnt, pointers, threads, loop, on, output, timers, sending,
                    overtaken, twice, collided>>
    BY <1>1 DEF ConnectRefused
  <2> QED
    BY <2>1, <2>2 DEF TypeOK, Holding, Places, SockStates
<1>2. ASSUME NEW v \in Attempts, Connected(k, v) PROVE TypeOK' /\ Holding'
  <2>1. /\ sock' \in [Attempts -> SockStates]
        /\ recnt' \in 0 .. MaxRecnt /\ connected' \in BOOLEAN
        /\ spc' \in [Attempts -> Doings]
        /\ \A w \in Attempts : spc'[w] \in {"write", "writing"} => spc[w] \in {"write", "writing"}
    <3>1. sock' \in [Attempts -> SockStates]
      BY <1>2 DEF TypeOK, Connected, SockStates
    <3>2. recnt' \in 0 .. MaxRecnt /\ connected' \in BOOLEAN
      BY <1>2, ConstantAssumption DEF Connected
    <3>3. /\ spc' = [spc EXCEPT ![v] = "check"] \/ spc' = spc
          /\ spc \in [Attempts -> Doings]
      BY <1>2 DEF TypeOK, Connected
    <3> QED
      BY <3>1, <3>2, <3>3
  <2>2. UNCHANGED <<pointers, freed, threads, cpc, loop, on, output, timers, hand, into,
                    queue, accepted, wire, dead, history>>
    BY <1>2 DEF Connected
  <2> QED
    BY <2>1, <2>2 DEF TypeOK, Holding, SockStates
<1>3. ASSUME ErrorEvent
      PROVE  /\ connected' \in BOOLEAN /\ dead' \in BOOLEAN
             /\ timers' \in [Attempts -> Nat]
             /\ UNCHANGED <<recnt, pointers, freed, threads, cpc, loop, on, sending, refused, overtaken>>
  <2>1. connected' \in BOOLEAN
    BY <1>3 DEF ErrorEvent
  <2>2. dead' \in BOOLEAN
    <3>1. CASE base = Null
      BY <1>3, <3>1 DEF TypeOK, ErrorEvent
    <3>2. CASE base # Null
      <4>1. dead' = (base \in freed.base)
        BY <1>3, <3>2, Zenon DEF ErrorEvent
      <4>2. (base \in freed.base) \in BOOLEAN
        OBVIOUS
      <4> QED
        BY <4>1, <4>2, Zenon
    <3> QED
      BY <3>1, <3>2
  <2>3. timers' \in [Attempts -> Nat]
    <3>1. /\ timers \in [Attempts -> Nat]
          /\ \/ timers' = timers
             \/ base \in Attempts /\ timers' = [timers EXCEPT ![base] = timers[base] + 1]
      BY <1>3 DEF TypeOK, ErrorEvent
    <3>2. base \in Attempts => timers[base] + 1 \in Nat
      BY <3>1
    <3> QED
      BY <3>1, <3>2
  <2> QED
    BY <1>3, <2>1, <2>2, <2>3 DEF ErrorEvent
<1>4. ASSUME NEW v \in Attempts, Error(k, v) PROVE TypeOK' /\ Holding'
  <2>1. /\ sock' \in [Attempts -> SockStates] /\ ErrorEvent
        /\ UNCHANGED <<output, twice, collided>>
    BY <1>4 DEF TypeOK, Error, SockStates
  <2>2. /\ connected' \in BOOLEAN /\ dead' \in BOOLEAN
        /\ timers' \in [Attempts -> Nat]
        /\ UNCHANGED <<recnt, pointers, freed, threads, cpc, loop, on, sending, refused, overtaken>>
    BY <1>3, <2>1
  <2> QED
    BY <2>1, <2>2 DEF TypeOK, Holding, SockStates
<1>5. ASSUME NEW v \in Attempts, WriteError(k, v) PROVE TypeOK' /\ Holding'
  <2>1. /\ output' \in [Attempts -> BOOLEAN] /\ twice' \subseteq Attempts
        /\ collided' \subseteq Attempts
        /\ ErrorEvent /\ UNCHANGED sock
    BY <1>5 DEF TypeOK, WriteError, LoopCollides
  <2>2. /\ connected' \in BOOLEAN /\ dead' \in BOOLEAN
        /\ timers' \in [Attempts -> Nat]
        /\ UNCHANGED <<recnt, pointers, freed, threads, cpc, loop, on, sending, refused, overtaken>>
    BY <1>3, <2>1
  <2> QED
    BY <2>1, <2>2 DEF TypeOK, Holding
<1>6. ASSUME NEW v \in Attempts, Drain(k, v) PROVE TypeOK' /\ Holding'
  <2>1. output' \in [Attempts -> BOOLEAN] /\ collided' \subseteq Attempts
    BY <1>6 DEF TypeOK, Drain, LoopCollides
  <2>2. UNCHANGED <<connected, recnt, pointers, freed, threads, cpc, loop, on, sock, timers,
                    sending, dead, refused, overtaken, twice>>
    BY <1>6 DEF Drain
  <2> QED
    BY <2>1, <2>2 DEF TypeOK, Holding
<1> QED
  BY <1>1, <1>2, <1>4, <1>5, <1>6 DEF Network

(* What tx_queue holds.                                                    *)
LEMMA Frames ==
    ASSUME TypeOK
    PROVE  /\ DOMAIN queue = 1 .. Len(queue) /\ Len(queue) \in Nat
           /\ \A i \in DOMAIN queue : queue[i] \in 1 .. MaxFrames
           /\ DOMAIN wire = 1 .. Len(wire) /\ Len(wire) \in Nat
           /\ \A i \in DOMAIN wire : wire[i] \in 1 .. MaxFrames
           /\ accepted \in Nat
<1>1. queue \in Seq(1 .. MaxFrames) /\ wire \in Seq(1 .. MaxFrames) /\ accepted \in 0 .. MaxFrames
  BY DEF TypeOK
<1>2. DOMAIN queue = 1 .. Len(queue) /\ Len(queue) \in Nat
  BY <1>1, LenProperties
<1>3. DOMAIN wire = 1 .. Len(wire) /\ Len(wire) \in Nat
  BY <1>1, LenProperties
<1>4. \A i \in 1 .. Len(queue) : queue[i] \in 1 .. MaxFrames
  BY <1>1, ElementOfSeq
<1>5. \A i \in 1 .. Len(wire) : wire[i] \in 1 .. MaxFrames
  BY <1>1, ElementOfSeq
<1> QED
  BY <1>1, <1>2, <1>3, <1>4, <1>5

(* A frame accepted is the last of the queue.                              *)
LEMMA SendAppends ==
    ASSUME TypeOK, Send
    PROVE  /\ queue' \in Seq(1 .. MaxFrames) /\ Len(queue') = Len(queue) + 1
           /\ DOMAIN queue' = 1 .. Len(queue) + 1
           /\ \A i \in DOMAIN queue : queue'[i] = queue[i]
           /\ queue'[Len(queue) + 1] = accepted'
           /\ accepted' = accepted + 1 /\ accepted' \in 1 .. MaxFrames
<1>1. /\ queue \in Seq(1 .. MaxFrames) /\ accepted' = accepted + 1
      /\ accepted' \in 1 .. MaxFrames /\ queue' = Append(queue, accepted')
  BY AttemptNumbers DEF TypeOK, Send
<1>2. /\ queue' \in Seq(1 .. MaxFrames) /\ Len(queue') = Len(queue) + 1
      /\ \A i \in 1 .. Len(queue) : queue'[i] = queue[i]
      /\ queue'[Len(queue) + 1] = accepted'
  BY <1>1, AppendProperties
<1> QED
  BY <1>1, <1>2, LenProperties

(* A send thread takes the first frame of the queue.                       *)
LEMMA TakesFirst ==
    ASSUME TypeOK, NEW v \in Attempts, SendTakes(v)
    PROVE  /\ 1 \in DOMAIN queue /\ hand' = [hand EXCEPT ![v] = queue[1]]
           /\ queue' \in Seq(1 .. MaxFrames) /\ Len(queue') = Len(queue) - 1
           /\ \A i \in DOMAIN queue' : /\ i + 1 \in DOMAIN queue /\ i \in Nat /\ 1 < i + 1
                                       /\ queue'[i] = queue[i + 1]
<1>1. queue \in Seq(1 .. MaxFrames) /\ queue # <<>>
  BY DEF TypeOK, SendTakes
<1>2. /\ Head(queue) = queue[1]
      /\ Tail(queue) \in Seq(1 .. MaxFrames) /\ Len(Tail(queue)) = Len(queue) - 1
      /\ \A i \in 1 .. Len(Tail(queue)) : Tail(queue)[i] = queue[i + 1]
      /\ Len(queue) \in Nat \ {0} /\ DOMAIN queue = 1 .. Len(queue)
  BY <1>1, HeadTailProperties, EmptySeq, LenProperties
<1>3. DOMAIN Tail(queue) = 1 .. Len(queue) - 1
  BY <1>2, LenProperties
<1> QED
  BY <1>2, <1>3 DEF SendTakes

(* A frame written is the last on the wire.                                *)
LEMMA WritesLast ==
    ASSUME TypeOK, NEW v \in Attempts, hand[v] \in 1 .. MaxFrames, wire' = Append(wire, hand[v])
    PROVE  /\ wire' \in Seq(1 .. MaxFrames)
           /\ DOMAIN wire' = 1 .. Len(wire) + 1
           /\ \A i \in DOMAIN wire : wire'[i] = wire[i]
           /\ wire'[Len(wire) + 1] = hand[v]
<1>1. wire \in Seq(1 .. MaxFrames)
  BY DEF TypeOK
<1>2. /\ wire' \in Seq(1 .. MaxFrames) /\ Len(wire') = Len(wire) + 1
      /\ \A i \in 1 .. Len(wire) : wire'[i] = wire[i]
      /\ wire'[Len(wire) + 1] = hand[v]
  BY <1>1, AppendProperties
<1> QED
  BY <1>1, <1>2, LenProperties

(* And so do the senders.                                                  *)
LEMMA TypeKeptBySenders ==
    ASSUME TypeOK, Holding, NEW v \in Attempts, Send \/ SendStep(v)
    PROVE  TypeOK' /\ Holding'
<1> USE AttemptNumbers
<1>1. CASE Send
  <2>1. /\ queue' \in Seq(1 .. MaxFrames) /\ Len(queue') <= QueueSize
        /\ accepted' \in 0 .. MaxFrames
    BY <1>1, SendAppends, Frames DEF Send
  <2>2. UNCHANGED <<connected, recnt, pointers, freed, threads, cpc, events, spc, hand, into,
                    wire, dead, history>>
    BY <1>1 DEF Send
  <2> QED
    BY <2>1, <2>2 DEF TypeOK, Holding
<1>2. CASE SendTakes(v)
  <2>1. /\ queue' \in Seq(1 .. MaxFrames) /\ Len(queue') <= QueueSize
        /\ queue[1] \in 1 .. MaxFrames
        /\ hand' = [hand EXCEPT ![v] = queue[1]]
    <3>1. /\ 1 \in DOMAIN queue /\ hand' = [hand EXCEPT ![v] = queue[1]]
          /\ queue' \in Seq(1 .. MaxFrames) /\ Len(queue') = Len(queue) - 1
      BY <1>2, TakesFirst
    <3>2. queue[1] \in 1 .. MaxFrames /\ Len(queue) \in Nat
      BY <3>1, Frames
    <3>3. Len(queue) <= QueueSize
      BY DEF TypeOK
    <3> QED
      BY <3>1, <3>2, <3>3
  <2>2. /\ spc' = [spc EXCEPT ![v] = "write"]
        /\ UNCHANGED <<connected, recnt, pointers, freed, threads, cpc, events, into, accepted,
                       wire, dead, history>>
    BY <1>2 DEF SendTakes
  <2>3. /\ hand' \in [Attempts -> 0 .. MaxFrames]
        /\ spc' \in [Attempts -> Doings]
        /\ \A w \in Attempts : w # v => spc'[w] = spc[w] /\ hand'[w] = hand[w]
        /\ hand'[v] \in 1 .. MaxFrames
    <3>1. hand \in [Attempts -> 0 .. MaxFrames] /\ queue[1] \in 0 .. MaxFrames
      <4>1. hand \in [Attempts -> 0 .. MaxFrames]
        BY DEF TypeOK
      <4>2. queue[1] \in 0 .. MaxFrames
        BY <2>1
      <4> QED
        BY <4>1, <4>2
    <3>2. spc \in [Attempts -> Doings]
      BY DEF TypeOK
    <3>3. /\ hand' \in [Attempts -> 0 .. MaxFrames] /\ hand'[v] = queue[1]
          /\ \A w \in Attempts : w # v => hand'[w] = hand[w]
      BY <2>1, <3>1
    <3>4. /\ spc' \in [Attempts -> Doings]
          /\ \A w \in Attempts : w # v => spc'[w] = spc[w]
      BY <2>2, <3>2
    <3> QED
      BY <2>1, <3>3, <3>4
  <2>4. Holding'
    BY <2>3 DEF Holding
  <2> QED
    BY <2>1, <2>2, <2>3, <2>4 DEF TypeOK
<1>3. CASE SendEnds(v)
  <2>1. /\ spc' = [spc EXCEPT ![v] = "done"]
        /\ UNCHANGED <<connected, recnt, pointers, freed, threads, cpc, events, hand, into,
                       queue, accepted, wire, dead, history>>
    BY <1>3 DEF SendEnds
  <2> QED
    BY <2>1 DEF TypeOK, Holding
<1>4. CASE WriteBegins(v)
  <2>1. UNCHANGED <<connected, recnt, pointers, freed, threads, cpc, events, hand, queue, accepted,
                    wire, refused, overtaken, twice>>
    BY <1>4 DEF WriteBegins
  <2>2. /\ into' \in [Attempts -> Attempts \union {Null}] /\ dead' \in BOOLEAN
        /\ spc' \in [Attempts -> Doings] /\ collided' \subseteq Attempts
        /\ \A w \in Attempts : spc'[w] \in {"write", "writing"} => spc[w] \in {"write", "writing"}
    <3>1. CASE BevUsable
      <4>1. /\ bev \in Attempts /\ UNCHANGED dead /\ spc[v] = "write"
            /\ into' = [into EXCEPT ![v] = bev]
            /\ spc' = [spc EXCEPT ![v] = "writing"]
            /\ collided' \subseteq collided \union {bev}
        BY <1>4, <3>1 DEF TypeOK, WriteBegins, BevUsable
      <4>2. into' \in [Attempts -> Attempts \union {Null}]
        BY <4>1 DEF TypeOK
      <4>3. /\ spc' \in [Attempts -> Doings]
            /\ \A w \in Attempts : w # v => spc'[w] = spc[w]
        BY <4>1 DEF TypeOK, Doings
      <4>4. dead' \in BOOLEAN /\ collided' \subseteq Attempts
        BY <4>1 DEF TypeOK
      <4> QED
        BY <4>1, <4>2, <4>3, <4>4
    <3>2. CASE ~BevUsable
      BY <1>4, <3>2 DEF TypeOK, WriteBegins, Doings
    <3> QED
      BY <3>1, <3>2
  <2> QED
    BY <2>1, <2>2 DEF TypeOK, Holding, Doings
<1>5. CASE WriteEnds(v)
  <2> DEFINE b == into[v]
             sent == Append(wire, hand[v])
  <2>1. UNCHANGED <<connected, recnt, pointers, freed, threads, cpc, loop, on, sock, timers,
                    queue, accepted, history>>
    BY <1>5 DEF WriteEnds
  <2>2. hand[v] \in 1 .. MaxFrames /\ wire \in Seq(1 .. MaxFrames)
    BY <1>5 DEF TypeOK, Holding, WriteEnds
  <2>3. sent \in Seq(1 .. MaxFrames) /\ Append(sent, hand[v]) \in Seq(1 .. MaxFrames)
    BY <2>2, AppendProperties
  <2>4. /\ wire' \in {wire, sent, Append(sent, hand[v])}
        /\ \E left \in BOOLEAN : output' \in {output, [output EXCEPT ![b] = left]}
        /\ dead' \in BOOLEAN
        /\ spc' = [spc EXCEPT ![v] = "check"]
        /\ hand' = [hand EXCEPT ![v] = 0]
        /\ into' = [into EXCEPT ![v] = Null]
    BY <1>5 DEF TypeOK, WriteEnds
  <2>5. wire' \in Seq(1 .. MaxFrames)
    BY <2>2, <2>3, <2>4
  <2> HIDE DEF b, sent
  <2>6. output' \in [Attempts -> BOOLEAN]
    BY <2>4 DEF TypeOK
  <2>7. hand' \in [Attempts -> 0 .. MaxFrames]
    BY <2>4 DEF TypeOK
  <2>8. /\ spc' \in [Attempts -> Doings] /\ spc'[v] = "check"
        /\ \A w \in Attempts : w # v => spc'[w] = spc[w] /\ hand'[w] = hand[w]
    BY <2>4 DEF TypeOK, Doings
  <2>9. into' \in [Attempts -> Attempts \union {Null}]
    BY <2>4 DEF TypeOK
  <2>10. Holding'
    BY <2>8 DEF Holding
  <2> QED
    BY <2>1, <2>4, <2>5, <2>6, <2>7, <2>8, <2>9, <2>10 DEF TypeOK, Doings
<1> QED
  BY <1>1, <1>2, <1>3, <1>4, <1>5 DEF SendStep

-----------------------------------------------------------------------------
(* One thing at a time: what the parts of the invariant say together.      *)

(* The shapes of what the steps change.                                    *)
LEMMA Shapes ==
    ASSUME TypeOK
    PROVE  /\ cpc \in [Attempts -> Places] /\ sock \in [Attempts -> SockStates]
           /\ timers \in [Attempts -> Nat] /\ loop \in [Attempts -> Attempts \union {Null}]
           /\ on \in [Attempts -> Attempts \union {Null}]
           /\ spc \in [Attempts -> Doings]
           /\ hand \in [Attempts -> 0 .. MaxFrames]
           /\ into \in [Attempts -> Attempts \union {Null}]
           /\ freed = [base |-> freed.base, bev |-> freed.bev]
           /\ freed.base \subseteq Attempts /\ freed.bev \subseteq Attempts
  BY DEF TypeOK, Places, SockStates

(* Only one thread has set the pointers and not done with them.            *)
LEMMA OneThread ==
    ASSUME OneAtATime, NEW j \in Attempts, NEW k \in Attempts,
           cpc[j] \in {"newbev", "connect", "loop", "freebev", "freebase"},
           cpc[k] \in {"newbev", "connect", "loop", "freebev", "freebase"}
    PROVE  j = k
  BY DEF OneAtATime, Pointers

(* Its objects are not freed.                                              *)
LEMMA ObjectsUsable ==
    ASSUME OneAtATime, NEW k \in Attempts
    PROVE  /\ cpc[k] \in {"newbev", "connect", "loop", "freebev", "freebase"} =>
                  base = k /\ BaseUsable
           /\ cpc[k] \in {"connect", "loop", "freebev"} => bev = k /\ BevUsable
  BY AttemptNumbers DEF OneAtATime, Pointers, Unfreed, BaseUsable, BevUsable

(* A loop handles the events of its own connection.                        *)
LEMMA OwnEvents ==
    ASSUME OneAtATime, NEW k \in Attempts, NEW v \in Attempts, Live(k, v)
    PROVE  v = k /\ cpc[k] = "loop"
<1>1. cpc[k] = "loop" /\ on[v] = loop[k]
  BY DEF Live
<1>2. loop[k] = k /\ on[v] \in {Null, v}
  BY <1>1 DEF OneAtATime, Pointers
<1> QED
  BY <1>1, <1>2, AttemptNumbers

(* A thread that has set the pointers is the only one to have an open      *)
(* connection; without one the client is not connected.                    *)
LEMMA OneConnection ==
    ASSUME OneAtATime, NEW k \in Attempts,
           cpc[k] \in {"newbev", "connect", "loop", "freebev", "freebase"}
    PROVE  /\ \A j \in Attempts : sock[j] \in {"connecting", "open"} => j = k
           /\ \A j \in Attempts : timers[j] = 1 => j = k
           /\ \A j \in Attempts : spc[j] \in {"check", "write", "writing"} => j = k
           /\ connected => sock[k] = "open"
<1>1. \A j \in Attempts : cpc[j] = "loop" => j = k
  BY OneThread
<1> QED
  BY <1>1 DEF OneAtATime, Sockets, Senders

(* The frames stay in order as long as no sender takes a step.             *)
LEMMA OrderUntouched ==
    ASSUME Unharmed, UNCHANGED <<hand, queue, accepted, wire>>,
           collided \subseteq collided', dead' => dead,
           \A v \in Attempts : spc'[v] \in {"write", "writing"} => spc[v] \in {"write", "writing"}
    PROVE  Unharmed'
  BY DEF Unharmed, InOrder

-----------------------------------------------------------------------------
(* The steps of a thread that connects *)

(* A thread that begins is alone.                                          *)
LEMMA NewBaseKeeps ==
    ASSUME TypeOK, OneAtATime, NEW k \in Attempts, NewBase(k), overtaken' = {}
    PROVE  OneAtATime'
<1>1. \A j \in Attempts \ {k} : cpc[j] \in {"none", "done"}
  BY DEF NewBase
<1>2. /\ cpc[k] = "start" /\ base' = k /\ cpc' = [cpc EXCEPT ![k] = "newbev"]
      /\ UNCHANGED <<connected, bev, freed, threads, loop, on, sock, timers, dead,
                     spc, hand, into, queue, accepted, wire, collided>>
  BY DEF NewBase
<1>3. /\ cpc'[k] = "newbev"
      /\ \A j \in Attempts \ {k} : cpc'[j] = cpc[j]
  BY <1>2, Shapes
<1>4. Pointers'
  BY <1>1, <1>2, <1>3 DEF OneAtATime, Pointers
<1>5. Unfreed'
  BY <1>1, <1>2, <1>3 DEF OneAtATime, Unfreed
<1>6. Sockets'
  BY <1>1, <1>2, <1>3 DEF OneAtATime, Sockets
<1>7. NextThread'
  BY <1>1, <1>2, <1>3 DEF OneAtATime, NextThread
<1>8. Senders'
  BY <1>1, <1>2, <1>3 DEF OneAtATime, Senders
<1>9. Unharmed'
  BY <1>2, OrderUntouched DEF OneAtATime
<1> QED
  BY <1>4, <1>5, <1>6, <1>7, <1>8, <1>9 DEF OneAtATime

(* It makes a bufferevent on its own base.                                 *)
LEMMA NewBevKeeps ==
    ASSUME TypeOK, OneAtATime, NEW k \in Attempts, NewBev(k)
    PROVE  OneAtATime'
<1>1. cpc[k] = "newbev"
  BY DEF NewBev, Dies
<1>2. base = k /\ BaseUsable
  BY <1>1, ObjectsUsable
<1>3. /\ bev' = k /\ on' = [on EXCEPT ![k] = k] /\ cpc' = [cpc EXCEPT ![k] = "connect"]
      /\ UNCHANGED <<connected, base, freed, threads, loop, sock, timers, dead,
                     spc, hand, into, queue, accepted, wire, collided>>
  BY <1>2 DEF NewBev
<1>4. /\ cpc'[k] = "connect" /\ on'[k] = k
      /\ \A j \in Attempts \ {k} : cpc'[j] = cpc[j] /\ on'[j] = on[j]
  BY <1>3, Shapes
<1>5. \A j \in Attempts \ {k} : cpc[j] \notin {"newbev", "connect", "loop", "freebev", "freebase"}
  BY <1>1, OneThread
<1>6. Pointers'
  BY <1>2, <1>3, <1>4, <1>5 DEF OneAtATime, Pointers
<1>7. Unfreed'
  BY <1>1, <1>3, <1>4 DEF OneAtATime, Unfreed
<1>8. Sockets'
  BY <1>1, <1>3, <1>4 DEF OneAtATime, Sockets
<1>9. NextThread'
  BY <1>1, <1>3, <1>4 DEF OneAtATime, NextThread
<1>10. Senders'
  BY <1>1, <1>3, <1>4 DEF OneAtATime, Senders
<1>11. Unharmed'
  BY <1>3, OrderUntouched DEF OneAtATime
<1> QED
  BY <1>6, <1>7, <1>8, <1>9, <1>10, <1>11 DEF OneAtATime

(* Nobody else dispatches its base.                                        *)
LEMMA NobodyElse ==
    ASSUME OneAtATime, NEW k \in Attempts, cpc[k] \in {"connect", "freebase"}
    PROVE  Dispatching(base) = {}
  BY OneThread DEF Dispatching

(* Its connection is the only one that is begun.                           *)
LEMMA ConnectKeeps ==
    ASSUME TypeOK, OneAtATime, NEW k \in Attempts, Connect(k)
    PROVE  OneAtATime'
<1>1. cpc[k] = "connect"
  BY DEF Connect, Dies
<1>2. base = k /\ BaseUsable /\ bev = k /\ BevUsable /\ Dispatching(base) = {}
  BY <1>1, ObjectsUsable, NobodyElse
<1>3. sock[k] = "none"
  BY <1>1 DEF OneAtATime, Sockets
<1>4. /\ sock' = [sock EXCEPT ![k] = "connecting"]
      /\ loop' = [loop EXCEPT ![k] = k] /\ cpc' = [cpc EXCEPT ![k] = "loop"]
      /\ UNCHANGED <<connected, base, bev, freed, threads, on, timers, dead,
                     spc, hand, into, queue, accepted, wire, collided>>
  BY <1>2, <1>3 DEF Connect
<1>5. /\ cpc'[k] = "loop" /\ loop'[k] = k /\ sock'[k] = "connecting"
      /\ \A j \in Attempts \ {k} : cpc'[j] = cpc[j] /\ loop'[j] = loop[j] /\ sock'[j] = sock[j]
  BY <1>4, Shapes
<1>6. Pointers'
  BY <1>1, <1>4, <1>5 DEF OneAtATime, Pointers
<1>7. Unfreed'
  BY <1>1, <1>4, <1>5 DEF OneAtATime, Unfreed
<1>8. Sockets'
  BY <1>1, <1>3, <1>4, <1>5 DEF OneAtATime, Sockets
<1>9. NextThread'
  BY <1>1, <1>4, <1>5 DEF OneAtATime, NextThread
<1>10. Senders'
  BY <1>1, <1>4, <1>5 DEF OneAtATime, Senders
<1>11. Unharmed'
  BY <1>4, OrderUntouched DEF OneAtATime
<1> QED
  BY <1>6, <1>7, <1>8, <1>9, <1>10, <1>11 DEF OneAtATime

(* An attempt that is refused frees its own objects.                       *)
LEMMA RefusedKeeps ==
    ASSUME TypeOK, OneAtATime, NEW k \in Attempts, ConnectRefused(k)
    PROVE  OneAtATime'
<1>1. cpc[k] = "connect"
  BY DEF ConnectRefused
<1>2. base = k /\ bev = k /\ Dispatching(base) = {}
  BY <1>1, ObjectsUsable, NobodyElse
<1>3. /\ freed' = [base |-> freed.base \union {k}, bev |-> freed.bev \union {k}]
      /\ sock' = [sock EXCEPT ![k] = "closed"] /\ cpc' = [cpc EXCEPT ![k] = "done"]
      /\ ~dead'
      /\ UNCHANGED <<connected, base, bev, threads, loop, on, timers,
                     spc, hand, into, queue, accepted, wire, collided>>
  BY <1>2 DEF ConnectRefused
<1>4. /\ cpc'[k] = "done" /\ sock'[k] = "closed"
      /\ \A j \in Attempts \ {k} : cpc'[j] = cpc[j] /\ sock'[j] = sock[j]
      /\ freed'.base = freed.base \union {k} /\ freed'.bev = freed.bev \union {k}
  BY <1>3, Shapes
<1>5. Pointers'
  BY <1>1, <1>3, <1>4 DEF OneAtATime, Pointers
<1>6. Unfreed'
  BY <1>1, <1>4 DEF OneAtATime, Unfreed
<1>7. Sockets'
  BY <1>1, <1>3, <1>4 DEF OneAtATime, Sockets
<1>8. NextThread'
  BY <1>1, <1>3, <1>4 DEF OneAtATime, NextThread
<1>9. Senders'
  BY <1>1, <1>3, <1>4 DEF OneAtATime, Senders
<1>10. Unharmed'
  BY <1>3, OrderUntouched DEF OneAtATime
<1> QED
  BY <1>3, <1>5, <1>6, <1>7, <1>8, <1>9, <1>10 DEF OneAtATime

(* A reconnect finds no sender and nothing else that could lead to another *)
(* attempt.                                                                *)
LEMMA ReconnectKeeps ==
    ASSUME TypeOK, OneAtATime, NEW k \in Attempts, Reconnect(k)
    PROVE  OneAtATime'
<1>1. cpc[k] = "loop" /\ loop[k] = k /\ timers[k] = 1 /\ sock[k] = "failed"
  <2>1. cpc[k] = "loop" /\ timers[loop[k]] > 0
    BY DEF Reconnect
  <2>2. loop[k] = k
    BY <2>1 DEF OneAtATime, Pointers
  <2> QED
    BY <2>1, <2>2 DEF OneAtATime, Sockets
<1>2. /\ ~connected
      /\ \A j \in Attempts : sock[j] \notin {"connecting", "open"}
      /\ \A j \in Attempts \ {k} : timers[j] # 1
  BY <1>1, OneConnection
<1>3. /\ SendersGone /\ timers' = [timers EXCEPT ![k] = timers[k] - 1]
      /\ UNCHANGED <<connected, base, bev, freed, loop, on, sock, dead,
                     spc, hand, into, queue, accepted, wire, collided>>
  BY <1>1, <1>2 DEF Reconnect
<1>4. timers'[k] = 0 /\ \A j \in Attempts \ {k} : timers'[j] = timers[j]
  BY <1>1, <1>3, Shapes
<1>5. \A j \in Attempts : timers'[j] = 0
  BY <1>2, <1>4 DEF OneAtATime, Sockets
<1>6. \A v \in Attempts : spc'[v] \notin {"check", "write", "writing"}
  BY <1>3 DEF SendersGone
<1>7. Senders' /\ Unharmed'
  BY <1>3, <1>6, OrderUntouched DEF OneAtATime, Senders
<1>8. CASE recnt < MaxRecnt
  <2>1. /\ threads' = threads + 1 /\ cpc' = [cpc EXCEPT ![threads + 1] = "start"]
        /\ threads < MaxAttempts
    BY <1>1, <1>8 DEF Reconnect
  <2>2. threads + 1 \in Attempts /\ threads \in Nat /\ Attempts \subseteq Nat
    BY <2>1, ConstantAssumption DEF TypeOK, Attempts
  <2>3. cpc[threads + 1] = "none"
    BY <2>2 DEF OneAtATime, NextThread
  <2>4. /\ cpc'[threads + 1] = "start"
        /\ \A j \in Attempts \ {threads + 1} : cpc'[j] = cpc[j]
    BY <2>1, <2>2, Shapes
  <2>5. \A j \in Attempts : cpc[j] # "start" /\ cpc[j] \notin {"newbev", "connect"}
    <3>1. \A j \in Attempts : cpc[j] # "start"
      BY <1>1 DEF OneAtATime, NextThread
    <3> QED
      BY <1>1, <3>1, OneThread
  <2>6. Pointers'
    BY <1>3, <2>4 DEF OneAtATime, Pointers
  <2>7. Unfreed'
    BY <1>3, <2>3, <2>4 DEF OneAtATime, Unfreed
  <2>8. Sockets'
    BY <1>2, <1>3, <1>5, <2>3, <2>4 DEF OneAtATime, Sockets
  <2>9. NextThread'
    <3>1. \A j \in Attempts : cpc'[j] = "none" <=> j > threads'
      BY <2>1, <2>2, <2>4 DEF OneAtATime, NextThread
    <3>2. \A j \in Attempts : cpc'[j] = "start" <=> j = threads + 1
      BY <2>4, <2>5
    <3>3. \A j \in Attempts : cpc'[j] \notin {"newbev", "connect"}
      BY <2>4, <2>5
    <3> QED
      BY <1>2, <1>3, <1>5, <3>1, <3>2, <3>3 DEF NextThread
  <2> QED
    BY <1>7, <2>6, <2>7, <2>8, <2>9 DEF OneAtATime
<1>9. CASE ~(recnt < MaxRecnt)
  <2>1. UNCHANGED <<threads, cpc>>
    BY <1>9 DEF Reconnect
  <2>2. Pointers' /\ Unfreed'
    BY <1>3, <2>1 DEF OneAtATime, Pointers, Unfreed
  <2>3. Sockets'
    BY <1>3, <1>5, <2>1 DEF OneAtATime, Sockets
  <2>4. NextThread'
    BY <1>3, <1>5, <2>1 DEF OneAtATime, NextThread
  <2> QED
    BY <1>7, <2>2, <2>3, <2>4 DEF OneAtATime
<1> QED
  BY <1>8, <1>9

(* A loop ends after its connection, its timer and its send thread.        *)
LEMMA LoopEndsKeeps ==
    ASSUME TypeOK, OneAtATime, NEW k \in Attempts, LoopEnds(k)
    PROVE  OneAtATime'
<1>1. /\ cpc[k] = "loop" /\ cpc' = [cpc EXCEPT ![k] = "freebev"]
      /\ UNCHANGED <<connected, base, bev, freed, threads, loop, on, sock, timers, dead,
                     spc, hand, into, queue, accepted, wire, collided>>
  BY DEF LoopEnds
<1>2. loop[k] = k /\ on[k] = k /\ k \notin freed.bev
  BY <1>1 DEF OneAtATime, Pointers, Unfreed
<1>3. timers[k] = 0 /\ sock[k] \notin {"connecting", "open"}
  BY <1>1, <1>2 DEF LoopEnds, Live
<1>4. cpc'[k] = "freebev" /\ \A j \in Attempts \ {k} : cpc'[j] = cpc[j]
  BY <1>1, Shapes
<1>5. Pointers'
  BY <1>1, <1>4 DEF OneAtATime, Pointers
<1>6. Unfreed'
  BY <1>1, <1>4 DEF OneAtATime, Unfreed
<1>7. Sockets'
  BY <1>1, <1>3, <1>4 DEF OneAtATime, Sockets
<1>8. NextThread'
  BY <1>1, <1>4 DEF OneAtATime, NextThread
<1>9. Senders'
  BY <1>1, <1>3, <1>4 DEF OneAtATime, Senders
<1>10. Unharmed'
  BY <1>1, OrderUntouched DEF OneAtATime
<1> QED
  BY <1>5, <1>6, <1>7, <1>8, <1>9, <1>10 DEF OneAtATime

(* It frees its own bufferevent,                                           *)
LEMMA FreeBevKeeps ==
    ASSUME TypeOK, OneAtATime, NEW k \in Attempts, FreeBev(k)
    PROVE  OneAtATime'
<1>1. cpc[k] = "freebev"
  BY DEF FreeBev
<1>2. base = k /\ bev = k /\ BevUsable
  BY <1>1, ObjectsUsable
<1>3. /\ freed' = [freed EXCEPT !.bev = @ \union {k}]
      /\ sock' = [sock EXCEPT ![k] = "closed"] /\ bev' = Null
      /\ cpc' = [cpc EXCEPT ![k] = "freebase"]
      /\ UNCHANGED <<connected, base, threads, loop, on, timers, dead,
                     spc, hand, into, queue, accepted, wire, collided>>
  BY <1>2 DEF FreeBev
<1>4. /\ cpc'[k] = "freebase" /\ sock'[k] = "closed"
      /\ \A j \in Attempts \ {k} : cpc'[j] = cpc[j] /\ sock'[j] = sock[j]
      /\ freed'.base = freed.base /\ freed'.bev = freed.bev \union {k}
  BY <1>3, Shapes
<1>5. \A j \in Attempts \ {k} : cpc[j] \notin {"newbev", "connect", "loop", "freebev", "freebase"}
  BY <1>1, OneThread
<1>6. Pointers'
  BY <1>2, <1>3, <1>4, <1>5 DEF OneAtATime, Pointers
<1>7. Unfreed'
  BY <1>1, <1>4 DEF OneAtATime, Unfreed
<1>8. Sockets'
  <2>1. ~connected
    BY <1>1, OneConnection DEF OneAtATime, Sockets
  <2> QED
    BY <1>1, <1>3, <1>4, <2>1 DEF OneAtATime, Sockets
<1>9. NextThread'
  BY <1>1, <1>3, <1>4 DEF OneAtATime, NextThread
<1>10. Senders'
  BY <1>1, <1>3, <1>4 DEF OneAtATime, Senders
<1>11. Unharmed'
  BY <1>3, OrderUntouched DEF OneAtATime
<1> QED
  BY <1>6, <1>7, <1>8, <1>9, <1>10, <1>11 DEF OneAtATime

(* and then its own base.                                                  *)
LEMMA FreeBaseKeeps ==
    ASSUME TypeOK, OneAtATime, NEW k \in Attempts, FreeBase(k)
    PROVE  OneAtATime'
<1>1. cpc[k] = "freebase"
  BY DEF FreeBase
<1>2. base = k /\ BaseUsable /\ Dispatching(base) = {}
  BY <1>1, ObjectsUsable, NobodyElse
<1>3. /\ freed' = [freed EXCEPT !.base = @ \union {k}]
      /\ ~dead' /\ base' = Null
      /\ cpc' = [cpc EXCEPT ![k] = "done"]
      /\ UNCHANGED <<connected, bev, threads, loop, on, sock, timers,
                     spc, hand, into, queue, accepted, wire, collided>>
  <2>1. {base} \ {Null} = {k}
    BY <1>2 DEF BaseUsable
  <2> QED
    BY <1>2, <2>1 DEF FreeBase, BaseUsable
<1>4. /\ cpc'[k] = "done"
      /\ \A j \in Attempts \ {k} : cpc'[j] = cpc[j]
      /\ freed'.base = freed.base \union {k} /\ freed'.bev = freed.bev
  BY <1>3, Shapes
<1>5. \A j \in Attempts \ {k} : cpc[j] \notin {"newbev", "connect", "loop", "freebev", "freebase"}
  BY <1>1, OneThread
<1>6. Pointers'
  BY <1>3, <1>4, <1>5 DEF OneAtATime, Pointers
<1>7. Unfreed'
  BY <1>1, <1>4 DEF OneAtATime, Unfreed
<1>8. Sockets'
  BY <1>1, <1>3, <1>4 DEF OneAtATime, Sockets
<1>9. NextThread'
  BY <1>1, <1>3, <1>4 DEF OneAtATime, NextThread
<1>10. Senders'
  BY <1>1, <1>3, <1>4 DEF OneAtATime, Senders
<1>11. Unharmed'
  BY <1>3, OrderUntouched DEF OneAtATime
<1> QED
  BY <1>3, <1>6, <1>7, <1>8, <1>9, <1>10, <1>11 DEF OneAtATime

-----------------------------------------------------------------------------
(* The events of a connection *)

(* A connection that comes up finds no send thread.                        *)
LEMMA ConnectedKeeps ==
    ASSUME TypeOK, OneAtATime, NEW k \in Attempts, NEW v \in Attempts, Connected(k, v)
    PROVE  OneAtATime'
<1>1. v = k /\ cpc[k] = "loop" /\ sock[k] = "connecting"
  BY OwnEvents DEF Connected
<1>2. ~connected
  BY <1>1, OneConnection
<1>3. /\ sock' = [sock EXCEPT ![k] = "open"] /\ connected'
      /\ spc' = [spc EXCEPT ![k] = "check"]
      /\ UNCHANGED <<base, bev, freed, threads, cpc, loop, on, timers, dead,
                     hand, into, queue, accepted, wire, collided>>
  BY <1>1, <1>2 DEF Connected
<1>4. /\ sock'[k] = "open" /\ spc'[k] = "check"
      /\ \A j \in Attempts \ {k} : sock'[j] = sock[j] /\ spc'[j] = spc[j]
  BY <1>3, Shapes
<1>5. Pointers'
  BY <1>3 DEF OneAtATime, Pointers
<1>6. Unfreed'
  BY <1>3 DEF OneAtATime, Unfreed
<1>7. Sockets'
  BY <1>1, <1>3, <1>4 DEF OneAtATime, Sockets
<1>8. NextThread'
  BY <1>1, <1>3, <1>4 DEF OneAtATime, NextThread
<1>9. Senders'
  BY <1>1, <1>3, <1>4 DEF OneAtATime, Senders
<1>10. Unharmed'
  BY <1>3, <1>4, OrderUntouched DEF OneAtATime
<1> QED
  BY <1>5, <1>6, <1>7, <1>8, <1>9, <1>10 DEF OneAtATime

(* An error starts the one timer, on the loop that reports it.             *)
LEMMA ErrorKeeps ==
    ASSUME TypeOK, OneAtATime, NEW k \in Attempts, NEW v \in Attempts, Error(k, v)
    PROVE  OneAtATime'
<1>1. v = k /\ cpc[k] = "loop" /\ sock[k] \in {"connecting", "open"}
  BY OwnEvents DEF Error
<1>2. base = k /\ BaseUsable
  BY <1>1, ObjectsUsable
<1>3. timers[k] = 0
  BY <1>1 DEF OneAtATime, Sockets
<1>4. /\ sock' = [sock EXCEPT ![k] = "failed"] /\ ~connected' /\ ~dead'
      /\ timers' = [timers EXCEPT ![k] = timers[k] + 1]
      /\ UNCHANGED <<base, bev, freed, threads, cpc, loop, on,
                     spc, hand, into, queue, accepted, wire, collided>>
  BY <1>1, <1>2 DEF Error, ErrorEvent, BaseUsable
<1>5. /\ sock'[k] = "failed" /\ timers'[k] = 1
      /\ \A j \in Attempts \ {k} : sock'[j] = sock[j] /\ timers'[j] = timers[j]
  BY <1>3, <1>4, Shapes
<1>6. \A j \in Attempts \ {k} : sock[j] \notin {"connecting", "open"}
  BY <1>1, OneConnection
<1>7. Pointers'
  BY <1>4 DEF OneAtATime, Pointers
<1>8. Unfreed'
  BY <1>4 DEF OneAtATime, Unfreed
<1>9. Sockets'
  BY <1>1, <1>4, <1>5, <1>6 DEF OneAtATime, Sockets
<1>10. NextThread'
  BY <1>1, <1>4, <1>5 DEF OneAtATime, NextThread
<1>11. Senders'
  BY <1>1, <1>4, <1>5 DEF OneAtATime, Senders
<1>12. Unharmed'
  BY <1>4, OrderUntouched DEF OneAtATime
<1> QED
  BY <1>4, <1>7, <1>8, <1>9, <1>10, <1>11, <1>12 DEF OneAtATime

(* What the socket takes changes nothing else, unless a send thread is in  *)
(* the buffer.                                                             *)
LEMMA DrainKeeps ==
    ASSUME TypeOK, OneAtATime, NEW k \in Attempts, NEW v \in Attempts, Drain(k, v)
    PROVE  OneAtATime'
<1>1. /\ UNCHANGED <<connected, base, bev, freed, threads, cpc, loop, on, sock, timers, dead,
                     spc, hand, into, queue, accepted, wire>>
      /\ collided \subseteq collided'
  BY DEF Drain, LoopCollides
<1>2. Pointers' /\ Unfreed' /\ Sockets' /\ NextThread' /\ Senders'
  BY <1>1 DEF OneAtATime, Pointers, Unfreed, Sockets, NextThread, Senders
<1>3. Unharmed'
  BY <1>1, OrderUntouched DEF OneAtATime
<1> QED
  BY <1>2, <1>3 DEF OneAtATime

-----------------------------------------------------------------------------
(* The frames on their way *)

(* What is accepted is later than all that is on its way or sent.          *)
LEMMA SendKeeps ==
    ASSUME TypeOK, OneAtATime, Send
    PROVE  OneAtATime'
<1>1. UNCHANGED <<connected, base, bev, freed, threads, cpc, loop, on, sock, timers, spc, hand,
                  into, wire, dead, collided>>
  BY DEF Send
<1>2. Pointers' /\ Unfreed' /\ Sockets' /\ NextThread' /\ Senders'
  BY <1>1 DEF OneAtATime, Pointers, Unfreed, Sockets, NextThread, Senders
<1>3. Unharmed'
  <2> SUFFICES ASSUME collided = {}, InOrder, ~dead PROVE InOrder'
    BY <1>1 DEF OneAtATime, Unharmed
  <2> DEFINE n == Len(queue)
  <2>1. /\ DOMAIN queue' = 1 .. n + 1 /\ queue'[n + 1] = accepted + 1
        /\ \A i \in 1 .. n : queue'[i] = queue[i]
        /\ DOMAIN queue = 1 .. n /\ n \in Nat /\ accepted \in Nat /\ accepted' = accepted + 1
    BY SendAppends, Frames
  <2>2. /\ \A i \in 1 .. n : queue[i] \in Nat /\ queue[i] <= accepted
        /\ \A i, j \in 1 .. n : i < j => queue[i] < queue[j]
        /\ \A i \in DOMAIN wire : wire[i] \in Nat /\ wire[i] <= accepted
    <3>1. /\ \A i \in 1 .. n : queue[i] <= accepted
          /\ \A i, j \in 1 .. n : i < j => queue[i] < queue[j]
          /\ \A i \in DOMAIN wire : wire[i] <= accepted
      BY <2>1 DEF InOrder
    <3>2. /\ \A i \in 1 .. n : queue[i] \in Nat
          /\ \A i \in DOMAIN wire : wire[i] \in Nat
      BY <2>1, Frames, AttemptNumbers
    <3> QED
      BY <3>1, <3>2
  <2>3. \A v \in Attempts : hand[v] \in Nat
    BY Shapes, AttemptNumbers
  <2> HIDE DEF n
  <2>4. \A i \in 1 .. n + 1 : i \in 1 .. n \/ i = n + 1
    BY <2>1
  <2>5. /\ \A i \in DOMAIN queue' : queue'[i] <= accepted'
        /\ \A i, j \in DOMAIN queue' : i < j => queue'[i] < queue'[j]
    BY <2>1, <2>2, <2>4
  <2>6. /\ \A i \in DOMAIN wire' : wire'[i] <= accepted'
        /\ \A i, j \in DOMAIN wire' : i < j => wire'[i] < wire'[j]
    BY <1>1, <2>1, <2>2 DEF InOrder
  <2>7. \A i \in DOMAIN wire' : \A j \in DOMAIN queue' : wire'[i] < queue'[j]
    BY <1>1, <2>1, <2>2, <2>4 DEF InOrder
  <2>8. \A v \in Attempts : spc'[v] \in {"write", "writing"} =>
          /\ hand'[v] <= accepted'
          /\ \A i \in DOMAIN wire' : wire'[i] < hand'[v]
          /\ \A j \in DOMAIN queue' : hand'[v] < queue'[j]
    BY <1>1, <2>1, <2>3, <2>4 DEF InOrder
  <2> QED
    BY <2>5, <2>6, <2>7, <2>8 DEF InOrder
<1> QED
  BY <1>2, <1>3 DEF OneAtATime

(* The first of the queue goes into the hand of the only sender.           *)
LEMMA TakesKeeps ==
    ASSUME TypeOK, OneAtATime, NEW v \in Attempts, SendTakes(v)
    PROVE  OneAtATime'
<1>1. /\ spc[v] = "check" /\ spc' = [spc EXCEPT ![v] = "write"]
      /\ UNCHANGED <<connected, base, bev, freed, threads, cpc, loop, on, sock, timers,
                     into, accepted, wire, dead, collided>>
  BY DEF SendTakes
<1>2. /\ 1 \in DOMAIN queue /\ hand' = [hand EXCEPT ![v] = queue[1]]
      /\ \A i \in DOMAIN queue' : /\ i + 1 \in DOMAIN queue /\ i \in Nat /\ 1 < i + 1
                                  /\ queue'[i] = queue[i + 1]
  BY TakesFirst
<1>3. /\ spc'[v] = "write" /\ hand'[v] = queue[1]
      /\ \A w \in Attempts \ {v} : spc'[w] = spc[w] /\ hand'[w] = hand[w]
  <2>1. queue[1] \in 0 .. MaxFrames
    BY <1>2, Frames
  <2> QED
    BY <1>1, <1>2, <2>1, Shapes
<1>4. Pointers' /\ Unfreed' /\ Sockets' /\ NextThread'
  BY <1>1 DEF OneAtATime, Pointers, Unfreed, Sockets, NextThread
<1>5. Senders'
  BY <1>1, <1>3 DEF OneAtATime, Senders
<1>6. Unharmed'
  <2> SUFFICES ASSUME collided = {}, InOrder, ~dead PROVE InOrder'
    BY <1>1 DEF OneAtATime, Unharmed
  <2>1. \A w \in Attempts \ {v} : spc'[w] \notin {"write", "writing"}
    <3>1. cpc[v] = "loop"
      BY <1>1 DEF OneAtATime, Senders
    <3> QED
      BY <1>3, <3>1, OneConnection
  <2>2. /\ \A i \in DOMAIN queue : queue[i] <= accepted
        /\ \A i, j \in DOMAIN queue : i < j => queue[i] < queue[j]
        /\ \A i \in DOMAIN wire : wire[i] <= accepted
        /\ \A i, j \in DOMAIN wire : i < j => wire[i] < wire[j]
        /\ \A i \in DOMAIN wire : \A j \in DOMAIN queue : wire[i] < queue[j]
    BY DEF InOrder
  <2>3. \A i, j \in DOMAIN queue' : i < j => queue'[i] < queue'[j]
    <3> SUFFICES ASSUME NEW i \in DOMAIN queue', NEW j \in DOMAIN queue', i < j
                 PROVE  queue'[i] < queue'[j]
      OBVIOUS
    <3>1. i + 1 \in DOMAIN queue /\ j + 1 \in DOMAIN queue /\ i + 1 < j + 1
      BY <1>2
    <3> QED
      BY <1>2, <2>2, <3>1
  <2>4. \A j \in DOMAIN queue' : hand'[v] < queue'[j]
    BY <1>2, <1>3, <2>2
  <2>5. /\ \A i \in DOMAIN queue' : queue'[i] <= accepted'
        /\ \A i \in DOMAIN wire' : \A j \in DOMAIN queue' : wire'[i] < queue'[j]
    BY <1>1, <1>2, <2>2
  <2>6. hand'[v] <= accepted' /\ \A i \in DOMAIN wire' : wire'[i] < hand'[v]
    BY <1>1, <1>2, <1>3, <2>2
  <2> QED
    BY <1>1, <2>1, <2>2, <2>3, <2>4, <2>5, <2>6 DEF InOrder
<1> QED
  BY <1>4, <1>5, <1>6 DEF OneAtATime

(* A send thread that ends leaves no frame behind in its hand.             *)
LEMMA EndsKeeps ==
    ASSUME TypeOK, OneAtATime, NEW v \in Attempts, SendEnds(v)
    PROVE  OneAtATime'
<1>1. /\ spc' = [spc EXCEPT ![v] = "done"]
      /\ UNCHANGED <<connected, base, bev, freed, threads, cpc, loop, on, sock, timers,
                     hand, into, queue, accepted, wire, dead, collided>>
  BY DEF SendEnds
<1>2. spc'[v] = "done" /\ \A w \in Attempts \ {v} : spc'[w] = spc[w]
  BY <1>1, Shapes
<1>3. Pointers' /\ Unfreed' /\ Sockets' /\ NextThread'
  BY <1>1 DEF OneAtATime, Pointers, Unfreed, Sockets, NextThread
<1>4. Senders'
  BY <1>1, <1>2 DEF OneAtATime, Senders
<1>5. Unharmed'
  BY <1>1, <1>2, OrderUntouched DEF OneAtATime
<1> QED
  BY <1>3, <1>4, <1>5 DEF OneAtATime

(* A send thread goes into its own buffer, with the frame in its hand.     *)
LEMMA BeginsKeeps ==
    ASSUME TypeOK, OneAtATime, NEW v \in Attempts, WriteBegins(v)
    PROVE  OneAtATime'
<1>1. spc[v] = "write" /\ cpc[v] = "loop"
  BY DEF OneAtATime, Senders, WriteBegins
<1>2. bev = v /\ BevUsable
  BY <1>1, ObjectsUsable
<1>3. /\ spc' = [spc EXCEPT ![v] = "writing"] /\ into' = [into EXCEPT ![v] = v]
      /\ collided \subseteq collided'
      /\ UNCHANGED <<connected, base, bev, freed, threads, cpc, loop, on, sock, timers,
                     hand, queue, accepted, wire, dead>>
  BY <1>2 DEF WriteBegins
<1>4. /\ spc'[v] = "writing" /\ into'[v] = v
      /\ \A w \in Attempts \ {v} : spc'[w] = spc[w] /\ into'[w] = into[w]
  BY <1>3, Shapes
<1>5. Pointers' /\ Unfreed' /\ Sockets' /\ NextThread'
  BY <1>3 DEF OneAtATime, Pointers, Unfreed, Sockets, NextThread
<1>6. Senders'
  BY <1>1, <1>3, <1>4 DEF OneAtATime, Senders
<1>7. Unharmed'
  BY <1>1, <1>3, <1>4, OrderUntouched DEF OneAtATime
<1> QED
  BY <1>5, <1>6, <1>7 DEF OneAtATime

(* What the sender holds is later than what was sent and earlier than      *)
(* what is queued, and is sent or lost.                                    *)
LEMMA EndsWriteKeeps ==
    ASSUME TypeOK, Holding, OneAtATime, NEW v \in Attempts, WriteEnds(v)
    PROVE  OneAtATime'
<1>1. /\ spc[v] = "writing" /\ cpc[v] = "loop" /\ hand[v] \in 1 .. MaxFrames
      /\ into[v] = v
  BY DEF OneAtATime, Senders, WriteEnds, Holding
<1>2. bev = v /\ BevUsable
  BY <1>1, ObjectsUsable
<1>3. /\ spc' = [spc EXCEPT ![v] = "check"] /\ hand' = [hand EXCEPT ![v] = 0]
      /\ into' = [into EXCEPT ![v] = Null]
      /\ collided = {} => /\ wire' = Append(wire, hand[v]) \/ wire' = wire
                          /\ UNCHANGED dead
      /\ UNCHANGED <<connected, base, bev, freed, threads, cpc, loop, on, sock, timers,
                     queue, accepted, collided>>
  BY <1>1, <1>2 DEF WriteEnds, BevUsable
<1>4. spc'[v] = "check" /\ \A w \in Attempts \ {v} : spc'[w] = spc[w] /\ into'[w] = into[w]
  BY <1>3, Shapes
<1>5. Pointers' /\ Unfreed' /\ Sockets' /\ NextThread'
  BY <1>3 DEF OneAtATime, Pointers, Unfreed, Sockets, NextThread
<1>6. Senders'
  BY <1>1, <1>3, <1>4 DEF OneAtATime, Senders
<1>7. Unharmed'
  <2> SUFFICES ASSUME collided = {}, InOrder, ~dead PROVE InOrder' /\ ~dead'
    BY <1>3 DEF OneAtATime, Unharmed
  <2>1. \A w \in Attempts : spc'[w] \notin {"write", "writing"}
    BY <1>1, <1>4, OneConnection
  <2>2. CASE wire' = wire
    BY <1>3, <2>1, <2>2 DEF InOrder
  <2>3. CASE wire' = Append(wire, hand[v])
    <3> DEFINE n == Len(wire)
    <3>1. /\ DOMAIN wire' = 1 .. n + 1 /\ wire'[n + 1] = hand[v]
          /\ \A i \in 1 .. n : wire'[i] = wire[i]
          /\ DOMAIN wire = 1 .. n /\ n \in Nat
      BY <1>1, <2>3, WritesLast, Frames
    <3>2. /\ hand[v] <= accepted
          /\ \A i \in 1 .. n : wire[i] < hand[v]
          /\ \A j \in DOMAIN queue : hand[v] < queue[j]
          /\ \A i \in 1 .. n : wire[i] <= accepted
          /\ \A i, j \in 1 .. n : i < j => wire[i] < wire[j]
          /\ \A i \in 1 .. n : \A j \in DOMAIN queue : wire[i] < queue[j]
      BY <1>1, <3>1 DEF InOrder
    <3> HIDE DEF n
    <3>3. \A i \in 1 .. n + 1 : i \in 1 .. n \/ i = n + 1
      BY <3>1
    <3>4. /\ \A i \in DOMAIN wire' : wire'[i] <= accepted'
          /\ \A i, j \in DOMAIN wire' : i < j => wire'[i] < wire'[j]
      BY <1>3, <3>1, <3>2, <3>3
    <3>5. \A i \in DOMAIN wire' : \A j \in DOMAIN queue' : wire'[i] < queue'[j]
      BY <1>3, <3>1, <3>2, <3>3
    <3> QED
      BY <1>3, <2>1, <3>4, <3>5 DEF InOrder
  <2> QED
    BY <1>3, <2>2, <2>3
<1> QED
  BY <1>5, <1>6, <1>7 DEF OneAtATime

-----------------------------------------------------------------------------
(* The invariant *)

(* It holds at the start.                                                  *)
LEMMA InitInvariant ==
    Init => IInv
<1> SUFFICES ASSUME Init PROVE IInv
  OBVIOUS
<1> USE AttemptNumbers
<1>1. TypeOK
  <2>1. queue \in Seq(1 .. MaxFrames) /\ Len(queue) = 0 /\ wire \in Seq(1 .. MaxFrames)
    BY EmptySeq DEF Init
  <2>2. /\ recnt = 0 /\ connected = FALSE /\ dead = FALSE /\ base = Null /\ bev = Null
        /\ freed \in [base : SUBSET Attempts, bev : SUBSET Attempts]
        /\ threads = 1 /\ accepted = 0 /\ refused = {} /\ overtaken = {} /\ twice = {}
        /\ collided = {}
    BY DEF Init
  <2>3. /\ cpc \in [Attempts -> Places] /\ sock \in [Attempts -> SockStates]
        /\ spc \in [Attempts -> Doings]
    BY DEF Init, Places, SockStates
  <2>4. /\ loop \in [Attempts -> Attempts \union {Null}]
        /\ on \in [Attempts -> Attempts \union {Null}]
        /\ output \in [Attempts -> BOOLEAN] /\ timers \in [Attempts -> Nat]
        /\ hand \in [Attempts -> 0 .. MaxFrames]
        /\ into \in [Attempts -> Attempts \union {Null}]
    BY DEF Init
  <2> QED
    <3>1. /\ connected \in BOOLEAN /\ dead \in BOOLEAN
          /\ base \in Attempts \union {Null} /\ bev \in Attempts \union {Null}
          /\ threads \in Attempts
          /\ refused \subseteq Attempts /\ overtaken \subseteq Attempts
          /\ twice \subseteq Attempts /\ collided \subseteq Attempts
      BY <2>2
    <3>2. /\ recnt \in 0 .. MaxRecnt /\ accepted \in 0 .. MaxFrames
          /\ Len(queue) <= QueueSize
      BY <2>1, <2>2, ConstantAssumption
    <3> QED
      BY <2>1, <2>2, <2>3, <2>4, <3>1, <3>2 DEF TypeOK, Places, SockStates
<1>2. Holding
  BY DEF Init, Holding
<1>3. Pointers /\ Unfreed /\ Sockets /\ Senders
  BY DEF Init, Pointers, Unfreed, Sockets, Senders
<1>4. NextThread
  BY DEF Init, NextThread, Attempts
<1>5. Unharmed
  BY EmptySeq DEF Init, InOrder, Unharmed
<1> QED
  BY <1>1, <1>2, <1>3, <1>4, <1>5 DEF Init, IInv, OneAtATime

(* What makes a run disorderly is not forgotten.                           *)
LEMMA OrderlyBefore ==
    ASSUME Next, Orderly'
    PROVE  Orderly /\ overtaken' = {} /\ twice' = {}
<1> DEFINE Kept == overtaken \subseteq overtaken' /\ twice \subseteq twice'
<1>1. Kept
  <2>1. CASE Send
    BY <2>1 DEF Send
  <2>2. ASSUME NEW k \in Attempts, ConnStep(k) PROVE Kept
    BY <2>2 DEF ConnStep, NewBase, NewBev, Connect, Reconnect, LoopEnds, FreeBev, FreeBase, Dies
  <2>3. ASSUME NEW k \in Attempts, SendStep(k) PROVE Kept
    BY <2>3 DEF SendStep, SendTakes, SendEnds, WriteBegins, WriteEnds
  <2>4. ASSUME NEW k \in Attempts, Network(k) PROVE Kept
    BY <2>4 DEF Network, ConnectRefused, Connected, Error, WriteError, Drain, ErrorEvent
  <2> QED
    BY <2>1, <2>2, <2>3, <2>4 DEF Next
<1> QED
  BY <1>1 DEF Orderly

(* Every step keeps it.                                                    *)
LEMMA StepInvariant ==
    IInv /\ [Next]_vars => IInv'
<1> SUFFICES ASSUME IInv, [Next]_vars PROVE IInv'
  OBVIOUS
<1>1. CASE UNCHANGED vars
  <2>1. TypeOK => TypeOK'
    BY <1>1 DEF TypeOK, vars
  <2>2. (Holding => Holding') /\ (Orderly' => Orderly)
    BY <1>1 DEF Holding, Orderly, vars
  <2>3. Pointers /\ Unfreed => Pointers' /\ Unfreed'
    BY <1>1 DEF Pointers, Unfreed, vars
  <2>4. Sockets /\ NextThread => Sockets' /\ NextThread'
    BY <1>1 DEF Sockets, NextThread, vars
  <2>5. Senders /\ Unharmed => Senders' /\ Unharmed'
    BY <1>1 DEF Senders, Unharmed, InOrder, vars
  <2> QED
    BY <2>1, <2>2, <2>3, <2>4, <2>5 DEF IInv, OneAtATime
<1>2. CASE Next
  <2>1. TypeOK' /\ Holding'
    <3>1. TypeOK /\ Holding
      BY DEF IInv
    <3>2. CASE Send
      BY <3>1, <3>2, AttemptNumbers, TypeKeptBySenders
    <3>3. ASSUME NEW k \in Attempts, ConnStep(k) PROVE TypeOK' /\ Holding'
      BY <3>1, <3>3, TypeKeptByConn
    <3>4. ASSUME NEW k \in Attempts, SendStep(k) PROVE TypeOK' /\ Holding'
      BY <3>1, <3>4, TypeKeptBySenders
    <3>5. ASSUME NEW k \in Attempts, Network(k) PROVE TypeOK' /\ Holding'
      BY <3>1, <3>5, TypeKeptByNetwork
    <3> QED
      BY <1>2, <3>2, <3>3, <3>4, <3>5 DEF Next
  <2>2. ASSUME Orderly' PROVE OneAtATime'
    <3>1. TypeOK /\ Holding /\ OneAtATime /\ overtaken' = {} /\ twice' = {}
      BY <1>2, <2>2, OrderlyBefore DEF IInv
    <3>2. CASE Send
      BY <3>1, <3>2, SendKeeps
    <3>3. ASSUME NEW k \in Attempts, ConnStep(k) PROVE OneAtATime'
      BY <3>1, <3>3, NewBaseKeeps, NewBevKeeps, ConnectKeeps, ReconnectKeeps, LoopEndsKeeps,
         FreeBevKeeps, FreeBaseKeeps DEF ConnStep
    <3>4. ASSUME NEW k \in Attempts, SendStep(k) PROVE OneAtATime'
      BY <3>1, <3>4, TakesKeeps, EndsKeeps, BeginsKeeps, EndsWriteKeeps DEF SendStep
    <3>5. ASSUME NEW k \in Attempts, Network(k) PROVE OneAtATime'
      <4>1. ASSUME NEW v \in Attempts, WriteError(k, v) PROVE FALSE
        BY <3>1, <4>1 DEF WriteError
      <4> QED
        BY <3>1, <3>5, <4>1, RefusedKeeps, ConnectedKeeps, ErrorKeeps, DrainKeeps
           DEF Network
    <3> QED
      BY <1>2, <3>2, <3>3, <3>4, <3>5 DEF Next
  <2> QED
    BY <2>1, <2>2 DEF IInv
<1> QED
  BY <1>1, <1>2

(* The inductive invariant of the connection to the cloud.                 *)
THEOREM Invariant == Spec => []IInv
  BY InitInvariant, StepInvariant, PTL DEF Spec

(* Every variable keeps its shape, and tx_queue never outgrows its slots,  *)
(* whether or not something went wrong.                                    *)
THEOREM TypeCorrect == Spec => []TypeOK
<1>1. IInv => TypeOK
  BY DEF IInv
<1> QED
  BY <1>1, Invariant, PTL

(* As long as no thread overtakes another and no connection fails twice,   *)
(* reconnecting (tcp_client_reconnect, tcp_client_connect_entry) uses      *)
(* nothing that was freed, and never has two connections or two send       *)
(* threads; the program dies only if the send thread and the loop's thread *)
(* were in one output buffer at once (bufferevent_write without a lock).   *)
THEOREM OrderlyStaysSafe == Spec => []OrderlyIsSafe
<1>1. IInv => OrderlyIsSafe
  <2> SUFFICES ASSUME IInv, Orderly PROVE OrderlyIsSafe
    BY DEF OrderlyIsSafe
  <2>1. OneAtATime
    BY DEF IInv
  <2>2. \A v, w \in Attempts : sock[v] = "open" /\ sock[w] = "open" => v = w
    BY <2>1, OneThread DEF OneAtATime, Sockets
  <2>3. \A v, w \in Attempts :
            spc[v] \in {"check", "write", "writing"} /\ spc[w] \in {"check", "write", "writing"}
                => v = w
    BY <2>1, OneThread DEF OneAtATime, Senders
  <2>4. \A v \in Attempts : spc[v] = "writing" => into[v] = bev /\ into[v] \notin freed.bev
    BY <2>1, ObjectsUsable DEF OneAtATime, Senders, BevUsable
  <2> QED
    BY <2>1, <2>2, <2>3, <2>4 DEF OrderlyIsSafe, OneAtATime, Unharmed
<1> QED
  BY <1>1, Invariant, PTL

(* If neither has happened and no buffer was shared, the send threads, one *)
(* after the other, give the frames to their connections in the order in   *)
(* which tcp_client_send accepted them.                                    *)
THEOREM SentStaysInOrder == Spec => []SentInOrder
<1>1. IInv => SentInOrder
  BY DEF IInv, OneAtATime, Unharmed, InOrder, SentInOrder
<1> QED
  BY <1>1, Invariant, PTL

=============================================================================
