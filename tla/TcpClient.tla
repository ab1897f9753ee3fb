----------------------------- MODULE TcpClient -----------------------------
(***************************************************************************)
(* The connection to the cloud: net/tcp_client.c over libevent.            *)
(*                                                                         *)
(* Each attempt to connect is a thread of its own, which makes an event    *)
(* base and a bufferevent, dispatches the base's events until none is left *)
(* and frees both.  The thread of an attempt and its two objects have the  *)
(* attempt's number; client->base and client->bev hold the number of the   *)
(* object they point to, or Null.  An error event starts a 3 s timer on    *)
(* the base, and the timer starts the thread of the next attempt.  A       *)
(* connection that comes up starts a thread that sends what is queued.     *)
(*                                                                         *)
(* The use of a null pointer or of a freed object ends the program.        *)
(*                                                                         *)
(* The bufferevent is made without BEV_OPT_THREADSAFE (92): nothing keeps  *)
(* the send thread's bufferevent_write (136) and the loop thread's write   *)
(* to the socket out of the same output buffer.  A call of                 *)
(* bufferevent_write is therefore two steps, WriteBegins and WriteEnds,    *)
(* and what happens to a buffer that two threads were in at once is left   *)
(* open.  libevent's part is modelled from how the code uses it.           *)
(***************************************************************************)
EXTENDS Naturals, Sequences, SequencesExt

CONSTANTS MaxAttempts, \* bound: threads that connect
          MaxRecnt,    \* max_recnt_att
          MaxFrames,   \* bound: frames given to send
          QueueSize    \* frames tx_queue can hold

ASSUME ConstantAssumption ==
    /\ MaxAttempts \in Nat \ {0} /\ MaxRecnt \in Nat
    /\ MaxFrames \in Nat /\ QueueSize \in Nat \ {0}

Attempts == 1 .. MaxAttempts
Null == 0

VARIABLES connected, \* client->is_connected
          recnt,     \* client->recnt_att
          base, bev, \* client->base, client->bev
          freed,     \* [base, bev |-> the objects that were freed]
          threads,   \* attempts begun
          cpc,       \* per attempt: where its thread is
          loop,      \*   the base it dispatches
          on,        \* per bufferevent: its base
          sock,      \*   its socket
          output,    \*   whether its output buffer holds something
          timers,    \* per base: reconnect timers that run
          spc, hand, \* per attempt: the send thread it started; the frame it took
          into,      \*   the bufferevent it is writing to, or Null
          queue,     \* tx_queue
          accepted,  \* frames accepted by send so far
          wire,      \* frames given to an open connection, in order
          dead       \* the program has ended by undefined behaviour

(* What went wrong; read by the properties only. *)
VARIABLES refused,   \* attempts that failed inside bufferevent_socket_connect
          overtaken, \* attempts that began before the last one had cleaned up
          twice,     \* connections that reported a second error
          collided   \* bufferevents that two threads were in at once

pointers == <<base, bev>>
events == <<loop, on, sock, output, timers>>
sending == <<spc, hand, into, queue, accepted, wire>>
history == <<refused, overtaken, twice, collided>>
vars == <<connected, recnt, pointers, freed, threads, cpc, events, sending, dead, history>>

BaseUsable == base # Null /\ base \notin freed.base
BevUsable == bev # Null /\ bev \notin freed.bev

(* The step of thread k at from is undefined. *)
Dies(k, from) ==
    /\ cpc[k] = from
    /\ dead' = TRUE
    /\ UNCHANGED <<connected, recnt, pointers, freed, threads, cpc, events, sending, history>>

Init ==
    /\ connected = FALSE /\ recnt = 0
    /\ base = Null /\ bev = Null
    /\ freed = [base |-> {}, bev |-> {}]
    /\ threads = 1
    /\ cpc = [k \in Attempts |-> IF k = 1 THEN "start" ELSE "none"]
    /\ loop = [k \in Attempts |-> Null]
    /\ on = [k \in Attempts |-> Null]
    /\ sock = [k \in Attempts |-> "none"]
    /\ output = [k \in Attempts |-> FALSE]
    /\ timers = [k \in Attempts |-> 0]
    /\ spc = [k \in Attempts |-> "none"]
    /\ hand = [k \in Attempts |-> 0]
    /\ into = [k \in Attempts |-> Null]
    /\ queue = <<>> /\ accepted = 0 /\ wire = <<>>
    /\ dead = FALSE
    /\ refused = {} /\ overtaken = {} /\ twice = {} /\ collided = {}

-----------------------------------------------------------------------------
(* tcp_client_connect_entry, before the loop *)

NewBase(k) ==
    /\ cpc[k] = "start"
    /\ base' = k
    /\ cpc' = [cpc EXCEPT ![k] = "newbev"]
    /\ overtaken' = IF \E j \in Attempts \ {k} : cpc[j] \notin {"none", "done"}
                    THEN overtaken \union {k} ELSE overtaken
    /\ UNCHANGED <<connected, recnt, bev, freed, threads, events, sending, dead, refused, twice,
                   collided>>

NewBev(k) ==
    \/ /\ cpc[k] = "newbev" /\ BaseUsable
       /\ bev' = k
       /\ on' = [on EXCEPT ![k] = base]
       /\ cpc' = [cpc EXCEPT ![k] = "connect"]
       /\ UNCHANGED <<connected, recnt, base, freed, threads, loop, sock, output, timers,
                      sending, dead, history>>
    \/ ~BaseUsable /\ Dies(k, "newbev")

Dispatching(b) == {j \in Attempts : cpc[j] = "loop" /\ loop[j] = b}

(* bufferevent_socket_connect begins, then the loop: event_base_dispatch   *)
(* returns at once if another thread dispatches the base already.          *)
Connect(k) ==
    \/ /\ cpc[k] = "connect" /\ BevUsable /\ BaseUsable
       /\ sock' = [sock EXCEPT ![bev] = IF @ = "none" THEN "connecting" ELSE @]
       /\ IF Dispatching(base) = {}
          THEN /\ loop' = [loop EXCEPT ![k] = base]
               /\ cpc' = [cpc EXCEPT ![k] = "loop"]
          ELSE /\ cpc' = [cpc EXCEPT ![k] = "freebev"]
               /\ UNCHANGED loop
       /\ UNCHANGED <<connected, recnt, pointers, freed, threads, on, output, timers,
                      sending, dead, history>>
    \/ ~(BevUsable /\ BaseUsable) /\ Dies(k, "connect")

(* It fails at once: both objects are freed, the pointers stay, the thread *)
(* ends (107-112).                                                         *)
ConnectRefused(k) ==
    /\ cpc[k] = "connect" /\ BevUsable /\ BaseUsable
    /\ freed' = [base |-> freed.base \union {base}, bev |-> freed.bev \union {bev}]
    /\ sock' = [sock EXCEPT ![bev] = "closed"]
    /\ cpc' = [cpc EXCEPT ![k] = "done"]
    /\ dead' = (Dispatching(base) # {})
    /\ refused' = refused \union {k}
    /\ UNCHANGED <<connected, recnt, pointers, threads, loop, on, output, timers, sending,
                   overtaken, twice, collided>>

-----------------------------------------------------------------------------
(* Events, in the thread k that dispatches the bufferevent's base *)

Live(k, v) ==
    /\ cpc[k] = "loop" /\ on[v] = loop[k]
    /\ v \notin freed.bev

Connected(k, v) ==
    /\ Live(k, v) /\ sock[v] = "connecting"
    /\ sock' = [sock EXCEPT ![v] = "open"]
    /\ recnt' = 0
    /\ connected' = TRUE
    /\ spc' = IF connected THEN spc ELSE [spc EXCEPT ![v] = "check"]
    /\ UNCHANGED <<pointers, freed, threads, cpc, loop, on, output, timers, hand, into,
                   queue, accepted, wire, dead, history>>

(* The else branch of tcp_client_event_cb: the timer goes to client->base, *)
(* whose loop need not be the one that reports the error.                  *)
ErrorEvent ==
    /\ connected' = FALSE
    /\ IF base = Null
       THEN UNCHANGED <<timers, dead>>
       ELSE /\ timers' = [timers EXCEPT ![base] = @ + 1]
            /\ dead' = (base \in freed.base)
    /\ UNCHANGED <<recnt, pointers, freed, threads, cpc, loop, on, sending, refused, overtaken>>

(* Nobody listens, or the peer closes or resets the connection. *)
ErrorWithoutTimerBug(k, v) ==
    /\ Live(k, v) /\ sock[v] \in {"connecting", "open"}
    /\ sock' = [sock EXCEPT ![v] = "failed"]
    /\ connected' = FALSE
    /\ UNCHANGED <<recnt, pointers, freed, threads, cpc, loop, on, output, timers, sending,
                   dead, history>>

Error(k, v) ==
    /\ Live(k, v) /\ sock[v] \in {"connecting", "open"}
    /\ sock' = [sock EXCEPT ![v] = "failed"]
    /\ ErrorEvent
    /\ UNCHANGED <<output, twice, collided>>

(* The loop's thread goes into the output buffer of v while some send      *)
(* thread is in it.                                                        *)
LoopCollides(v) == collided' = IF \E w \in Attempts : into[w] = v
                               THEN collided \union {v} ELSE collided

(* The read and the write of a connection fail each with an event of its   *)
(* own, if there is something to write: what was left when the connection  *)
(* failed, or a frame written after that.                                  *)
WriteError(k, v) ==
    /\ Live(k, v) /\ sock[v] = "failed" /\ output[v]
    /\ output' = [output EXCEPT ![v] = FALSE]
    /\ twice' = twice \union {v}
    /\ LoopCollides(v)
    /\ ErrorEvent
    /\ UNCHANGED sock

(* The socket takes what is in the output buffer. *)
Drain(k, v) ==
    /\ Live(k, v) /\ sock[v] = "open" /\ output[v]
    /\ output' = [output EXCEPT ![v] = FALSE]
    /\ LoopCollides(v)
    /\ UNCHANGED <<connected, recnt, pointers, freed, threads, cpc, loop, on, sock, timers,
                   sending, dead, refused, overtaken, twice>>

SendersGone == \A v \in Attempts : spc[v] \in {"none", "done"}

(* The timer is {0, 0}: it fires before the send thread notices anything. *)
ReconnectAtOnceBug(k) ==
    LET b == loop[k] IN
      /\ cpc[k] = "loop" /\ timers[b] > 0
      /\ threads < MaxAttempts
      /\ timers' = [timers EXCEPT ![b] = @ - 1]
      /\ IF recnt < MaxRecnt
         THEN /\ recnt' = recnt + 1
              /\ threads' = threads + 1
              /\ cpc' = [cpc EXCEPT ![threads + 1] = "start"]
         ELSE UNCHANGED <<recnt, threads, cpc>>
      /\ UNCHANGED <<connected, pointers, freed, loop, on, sock, output, sending, dead, history>>

(* tcp_client_reconnect.  Timing assumption: within the timer's 3 s the    *)
(* send thread has seen that the connection is gone.                       *)
Reconnect(k) ==
    LET b == loop[k] IN
      /\ cpc[k] = "loop" /\ timers[b] > 0
      /\ connected \/ SendersGone
      /\ threads < MaxAttempts
      /\ timers' = [timers EXCEPT ![b] = @ - 1]
      /\ IF recnt < MaxRecnt
         THEN /\ recnt' = recnt + 1
              /\ threads' = threads + 1
              /\ cpc' = [cpc EXCEPT ![threads + 1] = "start"]
         ELSE UNCHANGED <<recnt, threads, cpc>>
      /\ UNCHANGED <<connected, pointers, freed, loop, on, sock, output, sending, dead, history>>

(* event_base_dispatch returns when nothing is pending. *)
LoopEnds(k) ==
    /\ cpc[k] = "loop"
    /\ timers[loop[k]] = 0
    /\ \A v \in Attempts : Live(k, v) =>
          sock[v] \notin {"connecting", "open"} /\ ~output[v]
    /\ cpc' = [cpc EXCEPT ![k] = "freebev"]
    /\ UNCHANGED <<connected, recnt, pointers, freed, threads, events, sending, dead, history>>

(* Lines 118-119: whatever client->bev points to by now. *)
FreeBev(k) ==
    /\ cpc[k] = "freebev"
    /\ IF BevUsable
       THEN /\ freed' = [freed EXCEPT !.bev = @ \union {bev}]
            /\ sock' = [sock EXCEPT ![bev] = "closed"]
            /\ bev' = Null
            /\ cpc' = [cpc EXCEPT ![k] = "freebase"]
            /\ UNCHANGED dead
       ELSE dead' = TRUE /\ UNCHANGED <<freed, sock, bev, cpc>>
    /\ UNCHANGED <<connected, recnt, base, threads, loop, on, output, timers, sending, history>>

(* Lines 120-121; event_base_free accepts a null pointer. *)
FreeBase(k) ==
    /\ cpc[k] = "freebase"
    /\ freed' = [freed EXCEPT !.base = @ \union ({base} \ {Null})]
    /\ dead' = (base \in freed.base \/ Dispatching(base) # {})
    /\ base' = Null
    /\ cpc' = [cpc EXCEPT ![k] = "done"]
    /\ UNCHANGED <<connected, recnt, bev, threads, events, sending, history>>

-----------------------------------------------------------------------------
(* Sending *)

(* Nobody looks whether there is a free slot. *)
SendOverrunsBug ==
    /\ connected
    /\ accepted < MaxFrames
    /\ accepted' = accepted + 1
    /\ queue' = Append(queue, accepted')
    /\ UNCHANGED <<connected, recnt, pointers, freed, threads, cpc, events, spc, hand, into,
                   wire, dead, history>>

(* tcp_client_send: without a connection the frame is dropped, with a full *)
(* queue it is refused; neither changes anything.                          *)
Send ==
    /\ connected
    /\ accepted < MaxFrames
    /\ Len(queue) < QueueSize
    /\ accepted' = accepted + 1
    /\ queue' = Append(queue, accepted')
    /\ UNCHANGED <<connected, recnt, pointers, freed, threads, cpc, events, spc, hand, into,
                   wire, dead, history>>

(* The frame is sent but stays in the queue. *)
SendTakesCopyBug(v) ==
    /\ spc[v] = "check" /\ connected
    /\ queue # <<>>
    /\ Len(wire) < MaxFrames
    /\ hand' = [hand EXCEPT ![v] = Head(queue)]
    /\ spc' = [spc EXCEPT ![v] = "write"]
    /\ UNCHANGED <<connected, recnt, pointers, freed, threads, cpc, events, into, queue,
                   accepted, wire, dead, history>>

(* Send thread v: the test of is_connected, and dequeue. *)
SendTakes(v) ==
    /\ spc[v] = "check" /\ connected
    /\ queue # <<>>
    /\ hand' = [hand EXCEPT ![v] = Head(queue)]
    /\ queue' = Tail(queue)
    /\ spc' = [spc EXCEPT ![v] = "write"]
    /\ UNCHANGED <<connected, recnt, pointers, freed, threads, cpc, events, into, accepted,
                   wire, dead, history>>

SendEnds(v) ==
    /\ spc[v] = "check" /\ ~connected
    /\ spc' = [spc EXCEPT ![v] = "done"]
    /\ UNCHANGED <<connected, recnt, pointers, freed, threads, cpc, events, hand, into,
                   queue, accepted, wire, dead, history>>

(* Line 136, up to the call: the pointer as it is by now.  Two send        *)
(* threads may meet in one buffer as well.                                 *)
WriteBegins(v) ==
    /\ spc[v] = "write"
    /\ IF BevUsable
       THEN /\ into' = [into EXCEPT ![v] = bev]
            /\ spc' = [spc EXCEPT ![v] = "writing"]
            /\ collided' = IF \E w \in Attempts : into[w] = bev
                           THEN collided \union {bev} ELSE collided
            /\ UNCHANGED dead
       ELSE dead' = TRUE /\ UNCHANGED <<into, spc, collided>>
    /\ UNCHANGED <<connected, recnt, pointers, freed, threads, cpc, events, hand, queue, accepted,
                   wire, refused, overtaken, twice>>

(* bufferevent_write: what a connection that has failed is given is lost.  *)
(* In a buffer that another thread was in, the frame may get lost or       *)
(* doubled, or the program may die.                                        *)
WriteEnds(v) ==
    /\ spc[v] = "writing"
    /\ LET b == into[v]
           sent == Append(wire, hand[v])
       IN  \/ /\ b \notin freed.bev \union collided
              /\ wire' = IF sock[b] = "open" THEN sent ELSE wire
              /\ output' = [output EXCEPT ![b] = TRUE]
              /\ UNCHANGED dead
           \/ /\ b \in collided \ freed.bev
              /\ wire' \in {wire, sent, Append(sent, hand[v])}
              /\ \E left \in BOOLEAN : output' = [output EXCEPT ![b] = left]
              /\ dead' \in BOOLEAN
           \/ /\ b \in freed.bev
              /\ dead' = TRUE /\ UNCHANGED <<wire, output>>
    /\ spc' = [spc EXCEPT ![v] = "check"]
    /\ hand' = [hand EXCEPT ![v] = 0]
    /\ into' = [into EXCEPT ![v] = Null]
    /\ UNCHANGED <<connected, recnt, pointers, freed, threads, cpc, loop, on, sock, timers,
                   queue, accepted, history>>

ConnStep(k) ==
    \/ NewBase(k) \/ NewBev(k) \/ Connect(k) \/ Reconnect(k) \/ LoopEnds(k)
    \/ FreeBev(k) \/ FreeBase(k)
SendStep(v) == SendTakes(v) \/ SendEnds(v) \/ WriteBegins(v) \/ WriteEnds(v)
Network(k) ==
    \/ ConnectRefused(k)
    \/ \E v \in Attempts : Connected(k, v) \/ Error(k, v) \/ WriteError(k, v) \/ Drain(k, v)

Next == ~dead /\ (Send \/ \E k \in Attempts : ConnStep(k) \/ SendStep(k) \/ Network(k))

Spec == Init /\ [][Next]_vars

(* Threads run, and the kernel answers a connection attempt or gives up.   *)
FairSpec ==
    /\ Spec
    /\ \A k \in Attempts :
         /\ WF_vars(~dead /\ ConnStep(k))
         /\ WF_vars(~dead /\ SendStep(k))
         /\ \A v \in Attempts : WF_vars(~dead /\ sock[v] = "connecting"
                                          /\ (Connected(k, v) \/ Error(k, v)))

-----------------------------------------------------------------------------
(* Correctness *)

(* Every variable keeps its shape; tx_queue never outgrows its slots.      *)
TypeOK ==
    /\ connected \in BOOLEAN /\ dead \in BOOLEAN
    /\ recnt \in 0 .. MaxRecnt
    /\ base \in Attempts \union {Null} /\ bev \in Attempts \union {Null}
    /\ freed \in [base : SUBSET Attempts, bev : SUBSET Attempts]
    /\ threads \in Attempts
    /\ cpc \in [Attempts -> {"none", "start", "newbev", "connect", "loop", "freebev",
                             "freebase", "done"}]
    /\ loop \in [Attempts -> Attempts \union {Null}]
    /\ on \in [Attempts -> Attempts \union {Null}]
    /\ sock \in [Attempts -> {"none", "connecting", "open", "failed", "closed"}]
    /\ output \in [Attempts -> BOOLEAN]
    /\ timers \in [Attempts -> Nat]
    /\ spc \in [Attempts -> {"none", "check", "write", "writing", "done"}]
    /\ hand \in [Attempts -> 0 .. MaxFrames]
    /\ into \in [Attempts -> Attempts \union {Null}]
    /\ queue \in Seq(1 .. MaxFrames) /\ Len(queue) <= QueueSize
    /\ accepted \in 0 .. MaxFrames
    /\ wire \in Seq(1 .. MaxFrames)
    /\ refused \subseteq Attempts /\ overtaken \subseteq Attempts
    /\ twice \subseteq Attempts /\ collided \subseteq Attempts

(* No new thread got to set the pointers before the old one had used them  *)
(* for the last time, and no connection started two timers.                *)
Orderly == overtaken = {} /\ twice = {}

(* Reconnecting is safe but for those two: without them there is one       *)
(* connection and one send thread at a time, and nothing that was freed is *)
(* used.  What is left to die of is the output buffer that the send        *)
(* thread and the loop's thread were in at once.                           *)
OrderlyIsSafe ==
    Orderly =>
        /\ dead => collided # {}
        /\ \A v, w \in Attempts :
              sock[v] = "open" /\ sock[w] = "open" => v = w
        /\ \A v, w \in Attempts :
              spc[v] \in {"check", "write", "writing"} /\ spc[w] \in {"check", "write", "writing"}
                  => v = w
        /\ \A v \in Attempts : spc[v] = "writing" => into[v] = bev /\ into[v] \notin freed.bev

(* Frames go out in the order they were accepted and each at most once,    *)
(* those left over from a lost connection before those of the next; unless *)
(* two threads were in one output buffer at once.                          *)
SentInOrder ==
    Orderly /\ collided = {} =>
        \A i, j \in DOMAIN wire : i < j => wire[i] < wire[j]

(* A client that is not connected gets connected, until the attempts are   *)
(* used up (the maximum, or the bound), except when an attempt failed      *)
(* inside bufferevent_socket_connect or the program died.                  *)
KeepsConnecting ==
    ~connected ~> \/ connected \/ recnt = MaxRecnt \/ threads = MaxAttempts
                  \/ refused # {} \/ ~Orderly \/ dead

=============================================================================
