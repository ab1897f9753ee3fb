---------------------------- MODULE Fkz9Forward ----------------------------
(***************************************************************************)
(* From the FKZ9 to the cloud: services/fkz9_comm.c over                   *)
(* net/mqtt_client.c, up to the transmit queue of net/tcp_client.c.        *)
(*                                                                         *)
(* Paho's receive thread runs the callbacks of the MQTT client one after   *)
(* the other.  A payload that is one frame goes to event_queue, from where *)
(* the event thread sends it on; the frames of a longer payload go to the  *)
(* cloud at once, one by one, with the client's lock held.  The timer      *)
(* thread subscribes and then asks the FKZ9 for a sign of life every 3 s.  *)
(*                                                                         *)
(* The two queues are the FIFOs ThreadSafeQueue is proved to be.  The lock *)
(* is held from one step to the next only while frames of a long payload   *)
(* are sent.  The broker and Paho are modelled from how the code uses them.*)
(***************************************************************************)
EXTENDS Naturals, Sequences

CONSTANTS MaxMessages, \* bound: payloads from the FKZ9, sign of life apart
          MaxParts,    \* bound: frames in a long payload
          MaxLosses,   \* bound: losses of each of the two connections
          QueueSize    \* frames event_queue and tx_queue can hold

ASSUME ConstantAssumption ==
    /\ MaxMessages \in Nat /\ MaxParts \in Nat /\ MaxLosses \in Nat
    /\ QueueSize \in Nat \ {0}

Topics == {"4G", "5G"}

(* How a frame gets to the cloud connection: through event_queue, straight *)
(* out of the callback, or as the device's introduction.                   *)
Ways == {"single", "batch", "device"}

(* "heavy" is a frame whose bytes add up to 0x8000 or more (modulo 2^16). *)
Frame(kind, id, part) == [kind |-> kind, id |-> id, part |-> part]
HeartbeatResp == Frame("heartbeat", 0, 0)
DevInfo == Frame("device", 0, 0)
Empty == Frame("empty", 0, 0)
Singles == {Frame(k, id, 0) : k \in {"light", "heavy"}, id \in 1 .. MaxMessages}
Parts == {Frame("part", id, p) : id \in 1 .. MaxMessages, p \in 1 .. MaxParts}
EventFrames == Singles \union {HeartbeatResp}
Frames == EventFrames \union Parts \union {DevInfo, Empty}

Payload(id, n) == [p \in 1 .. n |-> Frame("part", id, p)]

VARIABLES link,       \* Paho's connection to the broker; "lost" until the callback ran
          subs,       \* topics the broker has subscriptions for
          asked,      \* topics whose subscription is on its way
          transit,    \* signs of life under way: request (comes back too), response
          is_conn,    \* mqtt client->is_conn
          messages,   \* payloads received so far
          ppc,        \* Paho's receive thread: idle, or inside on_message_cb,
                      \*   with a long payload or with one that has no end
          payload,    \* the long payload it is sending ...
          index,      \* ... and how many of its frames it is done with
          event_queue,
          taken,      \* event thread: the frame it took and has yet to handle
          is_init,
          tpc,        \* timer thread: where it is
          tcp_up,     \* tcp client->is_connected
          tx_queue

(* What happened; read by the guards of the bounds and by the properties. *)
VARIABLES lost,    \* losses of each connection
          refused, \* a subscription was refused, by Paho or the broker
          cut,     \* the cloud connection was down while the payload was sent
          out      \* frames accepted for the cloud, by the way they took

mqtt == <<link, subs, asked, transit, is_conn>>
paho == <<ppc, payload, index, messages>>
event == <<taken, is_init>>
cloud == <<tcp_up, tx_queue>>
history == <<lost, refused, cut, out>>
vars == <<mqtt, paho, event_queue, event, tpc, cloud, history>>

Locked == ppc # "idle"

Init ==
    /\ link = "connecting" /\ transit = {} /\ is_conn = FALSE
    /\ subs \in {{}, Topics}  \* kept by the broker from an earlier session, or not
    /\ asked = {}
    /\ messages = 0 /\ ppc = "idle" /\ payload = <<>> /\ index = 0
    /\ event_queue = <<>>
    /\ taken = <<>> /\ is_init = FALSE
    /\ tpc = "wait"
    /\ tcp_up \in BOOLEAN /\ tx_queue = <<>>
    /\ lost = [link |-> 0, tcp |-> 0] /\ refused = FALSE /\ cut = FALSE
    /\ out = [way \in Ways |-> <<>>]

-----------------------------------------------------------------------------
(* tcp_client_send: without a connection the frame is dropped and 0        *)
(* returned; with one, only a full queue is an error.                      *)

TxFull == tcp_up /\ Len(tx_queue) = QueueSize

TcpSend(way, frame) ==
    IF tcp_up /\ ~TxFull
    THEN /\ tx_queue' = Append(tx_queue, frame)
         /\ out' = [out EXCEPT ![way] = Append(@, frame)]
    ELSE UNCHANGED <<tx_queue, out>>

(* tcp_client_send_entry takes a frame.  Whether it is still written to    *)
(* the socket is TcpClient's matter.                                       *)
SendTakes ==
    /\ tcp_up /\ tx_queue # <<>>
    /\ tx_queue' = Tail(tx_queue)
    /\ UNCHANGED <<mqtt, paho, event_queue, event, tpc, tcp_up, history>>

TcpLost ==
    /\ tcp_up /\ lost.tcp < MaxLosses
    /\ tcp_up' = FALSE
    /\ lost' = [lost EXCEPT !.tcp = @ + 1]
    /\ cut' = (ppc = "batch")
    /\ UNCHANGED <<mqtt, paho, event_queue, event, tpc, tx_queue, refused, out>>

TcpConnected ==
    /\ ~tcp_up
    /\ tcp_up' = TRUE
    /\ UNCHANGED <<mqtt, paho, event_queue, event, tpc, tx_queue, history>>

-----------------------------------------------------------------------------
(* The connection to the broker *)

(* Paho calls onSuccess for the first connection and may not call it when  *)
(* it has reconnected by itself.                                           *)
on_connect_success ==
    /\ link = "connecting" /\ ~Locked
    /\ link' = "up"
    /\ is_conn' \in IF lost.link = 0 THEN {TRUE} ELSE {TRUE, is_conn}
    /\ UNCHANGED <<subs, asked, transit, paho, event_queue, event, tpc, cloud, history>>

(* A first attempt that fails is not repeated. *)
on_connect_failure ==
    /\ link = "connecting" /\ lost.link = 0 /\ ~Locked
    /\ link' = "off"
    /\ is_conn' = FALSE
    /\ UNCHANGED <<subs, asked, transit, paho, event_queue, event, tpc, cloud, history>>

(* What Paho was asked for and has not sent yet it may keep or drop. *)
LinkLost ==
    /\ link = "up" /\ lost.link < MaxLosses
    /\ link' = "lost"
    /\ lost' = [lost EXCEPT !.link = @ + 1]
    /\ asked' \in {asked, {}}
    /\ UNCHANGED <<subs, transit, is_conn, paho, event_queue, event, tpc, cloud,
                   refused, cut, out>>

ConnectionLostKeepsFlagBug ==
    /\ link = "lost" /\ ~Locked
    /\ link' = "connecting"
    /\ UNCHANGED <<is_conn, subs, asked, transit, paho, event_queue, event, tpc, cloud, history>>

connection_lost_cb ==
    /\ link = "lost" /\ ~Locked
    /\ link' = "connecting"
    /\ is_conn' = FALSE
    /\ UNCHANGED <<subs, asked, transit, paho, event_queue, event, tpc, cloud, history>>

-----------------------------------------------------------------------------
(* message_arrived_cb and on_message_cb: all but the long payloads are one *)
(* step.  The end of the callback sets is_conn.                            *)

Arrives == link = "up" /\ subs # {} /\ ~Locked

(* The client's own request, which its topic matches too, is left alone. *)
OnRequest ==
    /\ Arrives /\ "4G" \in subs /\ "request" \in transit
    /\ transit' = transit \ {"request"}
    /\ is_conn' = TRUE
    /\ UNCHANGED <<link, subs, asked, paho, event_queue, event, tpc, cloud, history>>

OnSingleOverrunsBug(frame) ==
    /\ event_queue' = Append(event_queue, frame)
    /\ is_conn' = TRUE
    /\ UNCHANGED <<link, subs, asked, ppc, payload, index, event, tpc, cloud, history>>

(* A payload of one frame: enqueue, whose result is ignored. *)
OnSingle(frame) ==
    /\ event_queue' = IF Len(event_queue) < QueueSize THEN Append(event_queue, frame)
                                                      ELSE event_queue
    /\ is_conn' = TRUE
    /\ UNCHANGED <<link, subs, asked, ppc, payload, index, event, tpc, cloud, history>>

OnResponse ==
    /\ Arrives /\ "response" \in transit
    /\ transit' = transit \ {"response"}
    /\ UNCHANGED messages
    /\ OnSingle(HeartbeatResp)

OnFrame(kind) ==
    /\ Arrives /\ messages < MaxMessages
    /\ messages' = messages + 1
    /\ UNCHANGED transit
    /\ OnSingle(Frame(kind, messages + 1, 0))

(* A payload longer than its first frame says is sent in pieces of the     *)
(* length the first frame says, which are the frames if all are as long.   *)
OnLong(n) ==
    /\ Arrives /\ messages < MaxMessages
    /\ messages' = messages + 1
    /\ ppc' = "batch"
    /\ payload' = Payload(messages + 1, n)
    /\ index' = 0
    /\ cut' = ~tcp_up
    /\ UNCHANGED <<mqtt, event_queue, event, tpc, cloud, lost, refused, out>>

SendPartGivesUpBug ==
    /\ ppc = "batch" /\ index < Len(payload)
    /\ TcpSend("batch", payload[index + 1])
    /\ index' = index + 1
    /\ UNCHANGED <<mqtt, ppc, payload, messages, event_queue, event, tpc, tcp_up,
                   lost, refused, cut>>

SendPartInsistsBug ==
    /\ ppc = "batch" /\ index < Len(payload)
    /\ tcp_up /\ ~TxFull
    /\ TcpSend("batch", payload[index + 1])
    /\ index' = index + 1
    /\ UNCHANGED <<mqtt, ppc, payload, messages, event_queue, event, tpc, tcp_up,
                   lost, refused, cut>>

(* The inner loop of on_message_cb ends when send returns 0: it retries    *)
(* while the queue is full.                                                *)
SendPart ==
    /\ ppc = "batch" /\ index < Len(payload)
    /\ ~TxFull
    /\ TcpSend("batch", payload[index + 1])
    /\ index' = index + 1
    /\ UNCHANGED <<mqtt, ppc, payload, messages, event_queue, event, tpc, tcp_up,
                   lost, refused, cut>>

EndLong ==
    /\ ppc = "batch" /\ index = Len(payload)
    /\ ppc' = "idle" /\ payload' = <<>> /\ index' = 0 /\ cut' = FALSE
    /\ is_conn' = TRUE
    /\ UNCHANGED <<link, subs, asked, transit, messages, event_queue, event, tpc, cloud,
                   lost, refused, out>>

(* A payload whose first frame says that its length is 0: index stays      *)
(* where it is, and the loop has no end.                                   *)
OnEndless ==
    /\ Arrives /\ messages < MaxMessages
    /\ messages' = messages + 1
    /\ ppc' = "endless"
    /\ UNCHANGED <<mqtt, payload, index, event_queue, event, tpc, cloud, history>>

(* It fills the queue with frames of no bytes. *)
SendEmpty ==
    /\ ppc = "endless"
    /\ tcp_up /\ ~TxFull
    /\ tx_queue' = Append(tx_queue, Empty)
    /\ UNCHANGED <<mqtt, paho, event_queue, event, tpc, tcp_up, history>>

-----------------------------------------------------------------------------
(* fkz9_event_task_entry *)

DequeueKeepsBug ==
    /\ taken = <<>> /\ event_queue # <<>>
    /\ taken' = <<Head(event_queue)>>
    /\ UNCHANGED <<event_queue, mqtt, paho, is_init, tpc, cloud, history>>

Dequeue ==
    /\ taken = <<>> /\ event_queue # <<>>
    /\ taken' = <<Head(event_queue)>>
    /\ event_queue' = Tail(event_queue)
    /\ UNCHANGED <<mqtt, paho, is_init, tpc, cloud, history>>

Handles(kind) == taken # <<>> /\ taken[1].kind = kind /\ taken' = <<>>

(* The checksum is compared as a signed number of 16 bits. *)
Discard ==
    /\ Handles("heavy")
    /\ UNCHANGED <<mqtt, paho, event_queue, is_init, tpc, cloud, history>>

HeartbeatRespForgetsBug ==
    /\ Handles("heartbeat")
    /\ IF is_init THEN UNCHANGED <<tx_queue, out>> ELSE TcpSend("device", DevInfo)
    /\ UNCHANGED <<is_init, mqtt, paho, event_queue, tpc, tcp_up, lost, refused, cut>>

(* fkz9_heartbeat_resp_entry: the first sign of life makes the gateway     *)
(* introduce the device to the cloud.                                      *)
HeartbeatRespEntry ==
    /\ Handles("heartbeat")
    /\ IF is_init THEN UNCHANGED <<tx_queue, out>> ELSE TcpSend("device", DevInfo)
    /\ is_init' = TRUE
    /\ UNCHANGED <<mqtt, paho, event_queue, tpc, tcp_up, lost, refused, cut>>

(* fkz9_msg_fw_to_cloud_entry: the result of send is ignored. *)
MsgFwToCloud ==
    /\ Handles("light")
    /\ TcpSend("single", taken[1])
    /\ UNCHANGED <<mqtt, paho, event_queue, is_init, tpc, tcp_up, lost, refused, cut>>

-----------------------------------------------------------------------------
(* fkz9_timer_task_entry *)

WaitOnceBug ==
    /\ tpc = "wait"
    /\ tpc' = "sub4G"
    /\ UNCHANGED <<mqtt, paho, event_queue, event, cloud, history>>

Wait ==
    /\ tpc = "wait"
    /\ tpc' = IF is_conn THEN "sub4G" ELSE "wait"
    /\ UNCHANGED <<mqtt, paho, event_queue, event, cloud, history>>

(* mqtt_subscribe: nothing is done without is_conn, Paho may refuse (the   *)
(* qos is read from a variable of fkz9_comm_init that no longer exists),   *)
(* and the result is ignored; otherwise Paho passes it on in its own time. *)
Subscribe(at, topic, next) ==
    /\ tpc = at /\ ~Locked
    /\ tpc' = next
    /\ \E ok \in BOOLEAN :
          /\ asked' = IF is_conn /\ link = "up" /\ ok THEN asked \union {topic} ELSE asked
          /\ refused' = (refused \/ ~ok)
    /\ UNCHANGED <<link, subs, transit, is_conn, paho, event_queue, event, cloud, lost, cut, out>>

(* on_subscribe_success, on_subscribe_failure: they only write to the log. *)
Subscribed(topic) ==
    /\ link = "up" /\ topic \in asked
    /\ asked' = asked \ {topic}
    /\ \/ subs' = subs \union {topic} /\ UNCHANGED refused
       \/ refused' = TRUE /\ UNCHANGED subs
    /\ UNCHANGED <<link, transit, is_conn, paho, event_queue, event, tpc, cloud, lost, cut, out>>

(* heartbeat_req_task_cb publishes; what comes of it is the request back   *)
(* and the answer of the FKZ9.                                             *)
HeartbeatReq ==
    /\ tpc = "loop" /\ ~Locked
    /\ transit' = IF is_conn /\ link = "up" THEN {"request", "response"} ELSE transit
    /\ UNCHANGED <<link, subs, asked, is_conn, paho, event_queue, event, tpc, cloud, history>>

-----------------------------------------------------------------------------
Connections ==
    SendTakes \/ TcpLost \/ TcpConnected
    \/ on_connect_success \/ on_connect_failure \/ LinkLost \/ connection_lost_cb
    \/ \E topic \in Topics : Subscribed(topic)

Callbacks ==
    \/ OnRequest \/ OnResponse
    \/ \E kind \in {"light", "heavy"} : OnFrame(kind)
    \/ \E n \in 1 .. MaxParts : OnLong(n)
    \/ SendPart \/ EndLong \/ OnEndless \/ SendEmpty

EventThread == Dequeue \/ Discard \/ HeartbeatRespEntry \/ MsgFwToCloud

TimerThread ==
    \/ Wait \/ HeartbeatReq
    \/ Subscribe("sub4G", "4G", "sub5G") \/ Subscribe("sub5G", "5G", "loop")

Next == Connections \/ Callbacks \/ EventThread \/ TimerThread

Spec == Init /\ [][Next]_vars

(* The threads that move frames on run; nothing is assumed of the networks. *)
FairSpec == Spec /\ WF_vars(SendTakes) /\ WF_vars(SendPart) /\ WF_vars(EndLong)

-----------------------------------------------------------------------------
(* Properties *)

(* The values the variables take; the queues keep their bounds             *)
(* (lib/queue.c:44).                                                       *)
TypeOK ==
    /\ link \in {"off", "connecting", "up", "lost"}
    /\ subs \subseteq Topics /\ asked \subseteq Topics
    /\ transit \subseteq {"request", "response"}
    /\ is_conn \in BOOLEAN
    /\ messages \in 0 .. MaxMessages
    /\ ppc \in {"idle", "batch", "endless"}
    /\ payload \in Seq(Parts) /\ index \in 0 .. Len(payload)
    /\ event_queue \in Seq(EventFrames) /\ Len(event_queue) <= QueueSize
    /\ taken \in Seq(EventFrames) /\ Len(taken) <= 1
    /\ is_init \in BOOLEAN
    /\ tpc \in {"wait", "sub4G", "sub5G", "loop"}
    /\ tcp_up \in BOOLEAN
    /\ tx_queue \in Seq(Frames) /\ Len(tx_queue) <= QueueSize
    /\ lost \in [link : 0 .. MaxLosses, tcp : 0 .. MaxLosses]
    /\ refused \in BOOLEAN /\ cut \in BOOLEAN
    /\ out \in [Ways -> Seq(Frames)]

(* Each of the two ways a frame can take from the MQTT callback to the     *)
(* transmit queue, through event_queue or straight (fkz9_comm.c:219-232),  *)
(* is a lossy FIFO: no interleaving of callback, event thread and lost     *)
(* connections doubles a frame or lets it overtake one on the same way     *)
(* (answers to signs of life are all alike, the other frames are not).     *)
EventWaiting == taken \o event_queue
LongWaiting == SubSeq(payload, index + 1, Len(payload))

EventWay == INSTANCE LossyFifo WITH Unique <- Singles, waiting <- EventWaiting, out <- out["single"]
LongWay == INSTANCE LossyFifo WITH Unique <- Parts, waiting <- LongWaiting, out <- out["batch"]

WaysKeepOrder == EventWay!Spec /\ LongWay!Spec

(* Of a long payload no frame is missing when the callback ends, unless    *)
(* the cloud connection was down meanwhile: a full queue delays, it does   *)
(* not lose (fkz9_comm.c:222-227).                                         *)
LongPayloadWhole ==
    [][Locked /\ ~Locked' /\ ~cut =>
           \A p \in DOMAIN payload : \E i \in DOMAIN out["batch"] : out["batch"][i] = payload[p]]_vars

(* The device is introduced at most once, however many signs of life there *)
(* are under way (fkz9_comm.c:77-80).                                      *)
DevInfoOnce == Len(out["device"]) <= IF is_init THEN 1 ELSE 0

(* is_conn is never true without a connection, or one whose loss Paho has  *)
(* yet to report; the flag may be false with a connection, until a message *)
(* comes in (mqtt_client.c:10-66).                                         *)
FlagMeansLink == is_conn => link \in {"up", "lost"}

(* Waiting for is_conn before subscribing (fkz9_comm.c:313-316) is enough: *)
(* unless the connection has been lost or a subscription refused, the      *)
(* broker has both subscriptions, or they are on their way to it, once the *)
(* timer thread enters its loop.                                           *)
SubscribedUnlessLost ==
    tpc = "loop" /\ lost.link = 0 /\ ~refused => subs \union asked = Topics

(* The callback gives the MQTT client's lock back, also while the cloud    *)
(* connection is down or its queue is full (fkz9_comm.c:221-229), unless   *)
(* the length in the payload's first frame is 0.                           *)
CallbackReturns == Locked ~> ~Locked \/ ppc = "endless"

=============================================================================
