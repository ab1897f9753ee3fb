------------------------- MODULE Fkz9ForwardProofs -------------------------
(***************************************************************************)
(* Proofs about the way of the FKZ9's messages to the cloud, for any       *)
(* number and length of payloads, any size of the queues and any number of *)
(* lost connections.                                                       *)
(***************************************************************************)
EXTENDS Fkz9Forward, SequenceTheorems, TLAPS

(* What makes the properties inductive: while the callback runs Paho does  *)
(* not report a loss, and until the first loss is_conn stays true once the *)
(* timer thread has seen it so.                                            *)
LinkIntact ==
    /\ Locked => link \in {"up", "lost"}
    /\ link = "lost" => lost.link # 0

SubscribedSoFar ==
    lost.link = 0 /\ tpc # "wait" =>
        /\ is_conn
        /\ ~refused /\ tpc \in {"sub5G", "loop"} => "4G" \in subs \union asked
        /\ ~refused /\ tpc = "loop" => "5G" \in subs \union asked

(* Only while a long payload is sent is there one. *)
PayloadIntact == ppc # "batch" => payload = <<>> /\ index = 0

IInv ==
    /\ TypeOK
    /\ LinkIntact /\ FlagMeansLink /\ SubscribedSoFar
    /\ DevInfoOnce
    /\ PayloadIntact

-----------------------------------------------------------------------------
(* Types *)

(* Taking the oldest frame off a queue. *)
LEMMA TakeOldest ==
    ASSUME NEW S, NEW q \in Seq(S), q # <<>>
    PROVE  /\ Head(q) \in S
           /\ Tail(q) \in Seq(S)
           /\ Len(q) \in Nat /\ Len(q) > 0 /\ Len(Tail(q)) = Len(q) - 1
  BY HeadTailProperties, EmptySeq

(* The n frames of a payload are a sequence of n parts. *)
LEMMA PayloadType ==
    ASSUME NEW id \in 1 .. MaxMessages, NEW n \in 1 .. MaxParts
    PROVE  Payload(id, n) \in Seq(Parts) /\ Len(Payload(id, n)) = n
  <1>1. \A p \in 1 .. n : Frame("part", id, p) \in Parts
    BY ConstantAssumption DEF Parts
  <1>2. Payload(id, n) \in [1 .. n -> Parts]
    BY <1>1 DEF Payload
  <1> QED BY <1>2, ConstantAssumption

(* A frame has the kind, number and part it was made with. *)
LEMMA FrameFields ==
    ASSUME NEW k, NEW id, NEW p
    PROVE  Frame(k, id, p).kind = k /\ Frame(k, id, p).id = id /\ Frame(k, id, p).part = p
  BY DEF Frame

(* The frames of each kind are frames. *)
LEMMA FrameTypes ==
    /\ HeartbeatResp \in EventFrames
    /\ \A kind \in {"light", "heavy"}, id \in 1 .. MaxMessages : Frame(kind, id, 0) \in EventFrames
    /\ EventFrames \subseteq Frames /\ Parts \subseteq Frames /\ DevInfo \in Frames
    /\ Empty \in Frames
  BY DEF EventFrames, Frames, Singles

(* tcp_client_send keeps the transmit queue within its bound, and gives    *)
(* the cloud one frame or none.                                            *)
LEMMA TcpSendType ==
    ASSUME TypeOK, NEW way \in Ways, NEW frame \in Frames,
           TcpSend(way, frame)
    PROVE  /\ tx_queue' \in Seq(Frames) /\ Len(tx_queue') <= QueueSize
           /\ out' \in [Ways -> Seq(Frames)]
           /\ out'[way] \in {out[way], Append(out[way], frame)}
           /\ \A other \in Ways \ {way} : out'[other] = out[other]
  <1> USE DEF TypeOK, TcpSend, TxFull
  <1>1. CASE tcp_up /\ ~TxFull
    <2>1. Len(tx_queue) < QueueSize
      BY <1>1, ConstantAssumption
    <2>2. tx_queue' = Append(tx_queue, frame) /\ out' = [out EXCEPT ![way] = Append(@, frame)]
      BY <1>1
    <2> QED BY <2>1, <2>2, ConstantAssumption
  <1>2. CASE ~(tcp_up /\ ~TxFull)
    BY <1>2
  <1> QED BY <1>1, <1>2

(* fkz9_comm_init establishes the invariant. *)
LEMMA InitInvariant == Init => IInv
  <1> SUFFICES ASSUME Init PROVE IInv
    OBVIOUS
  <1>1. payload \in Seq(Parts) /\ event_queue \in Seq(EventFrames) /\ taken \in Seq(EventFrames)
        /\ tx_queue \in Seq(Frames) /\ out \in [Ways -> Seq(Frames)]
    BY DEF Init
  <1>2. Len(payload) = 0 /\ Len(event_queue) = 0 /\ Len(taken) = 0 /\ Len(tx_queue) = 0
    BY DEF Init
  <1>6. lost \in [link : 0 .. MaxLosses, tcp : 0 .. MaxLosses]
    BY ConstantAssumption DEF Init
  <1>7. /\ subs \subseteq Topics /\ asked \subseteq Topics /\ transit \subseteq {"request", "response"}
        /\ is_conn \in BOOLEAN /\ is_init \in BOOLEAN /\ tcp_up \in BOOLEAN
        /\ refused \in BOOLEAN /\ cut \in BOOLEAN
    BY DEF Init
  <1>8. /\ messages \in 0 .. MaxMessages /\ index \in 0 .. Len(payload)
        /\ Len(event_queue) <= QueueSize /\ Len(taken) <= 1 /\ Len(tx_queue) <= QueueSize
    BY <1>2, ConstantAssumption DEF Init
  <1>5. TypeOK
    BY <1>1, <1>6, <1>7, <1>8 DEF Init, TypeOK
  <1>3. LinkIntact /\ FlagMeansLink /\ SubscribedSoFar /\ PayloadIntact
    BY DEF Init, LinkIntact, Locked, FlagMeansLink, SubscribedSoFar, PayloadIntact
  <1>4. DevInfoOnce
    BY DEF Init, DevInfoOnce, Ways
  <1> QED BY <1>5, <1>3, <1>4 DEF IInv

(* The types after each step of the connections. *)
LEMMA ConnectionsTypeOK ==
    ASSUME IInv, Connections
    PROVE  TypeOK'
  <1> USE DEF IInv, TypeOK, mqtt, paho, event, cloud, history
  <1>1. CASE SendTakes
    <2>1. tx_queue' \in Seq(Frames) /\ Len(tx_queue') <= QueueSize
      BY <1>1, TakeOldest, ConstantAssumption DEF SendTakes
    <2> QED BY <1>1, <2>1 DEF SendTakes
  <1>2. CASE TcpLost
    <2>0. lost.tcp + 1 \in 0 .. MaxLosses
      BY <1>2, ConstantAssumption DEF TcpLost
    <2>1. lost' \in [link : 0 .. MaxLosses, tcp : 0 .. MaxLosses]
      BY <1>2, <2>0 DEF TcpLost
    <2> QED BY <1>2, <2>1 DEF TcpLost, Locked
  <1>3. CASE TcpConnected
    BY <1>3 DEF TcpConnected
  <1>4. CASE on_connect_success
    BY <1>4 DEF on_connect_success
  <1>5. CASE on_connect_failure
    BY <1>5 DEF on_connect_failure
  <1>6. CASE LinkLost
    <2>0. lost.link + 1 \in 0 .. MaxLosses
      BY <1>6, ConstantAssumption DEF LinkLost
    <2>1. lost' \in [link : 0 .. MaxLosses, tcp : 0 .. MaxLosses]
      BY <1>6, <2>0 DEF LinkLost
    <2> QED BY <1>6, <2>1 DEF LinkLost
  <1>7. CASE connection_lost_cb
    BY <1>7 DEF connection_lost_cb
  <1>8. ASSUME NEW topic \in Topics, Subscribed(topic)
        PROVE  TypeOK'
    BY <1>8 DEF Subscribed
  <1> QED BY <1>1, <1>2, <1>3, <1>4, <1>5, <1>6, <1>7, <1>8 DEF Connections

(* A frame given to event_queue leaves it within its bound. *)
LEMMA OnSingleTypeOK ==
    ASSUME IInv, NEW frame \in EventFrames, OnSingle(frame),
           transit' \subseteq transit, messages' \in 0 .. MaxMessages
    PROVE  TypeOK'
  <1> USE DEF IInv, TypeOK
  <1>1. event_queue' \in Seq(EventFrames) /\ Len(event_queue') <= QueueSize
    <2>1. CASE Len(event_queue) < QueueSize
      BY <2>1, ConstantAssumption DEF OnSingle
    <2>2. CASE ~(Len(event_queue) < QueueSize)
      BY <2>2 DEF OnSingle
    <2> QED BY <2>1, <2>2
  <1> QED BY <1>1 DEF OnSingle, event, cloud, history

(* The types after each step of the callback. *)
LEMMA CallbacksTypeOK ==
    ASSUME IInv, Callbacks
    PROVE  TypeOK'
  <1> USE DEF IInv, TypeOK
  <1>1. CASE OnRequest
    BY <1>1 DEF OnRequest, paho, event, cloud, history
  <1>2. CASE OnResponse
    BY <1>2, FrameTypes, OnSingleTypeOK DEF OnResponse
  <1>3. ASSUME NEW kind \in {"light", "heavy"}, OnFrame(kind)
        PROVE  TypeOK'
    <2>1. messages + 1 \in 1 .. MaxMessages /\ messages' = messages + 1
      BY <1>3, ConstantAssumption DEF OnFrame
    <2>2. Frame(kind, messages + 1, 0) \in EventFrames
      BY <2>1, FrameTypes
    <2> QED BY <1>3, <2>1, <2>2, OnSingleTypeOK DEF OnFrame
  <1>4. ASSUME NEW n \in 1 .. MaxParts, OnLong(n)
        PROVE  TypeOK'
    <2>1. messages + 1 \in 1 .. MaxMessages /\ messages' = messages + 1
      BY <1>4, ConstantAssumption DEF OnLong
    <2>2. payload' \in Seq(Parts) /\ Len(payload') \in Nat
      BY <1>4, <2>1, PayloadType, ConstantAssumption DEF OnLong
    <2> QED BY <1>4, <2>1, <2>2 DEF OnLong, mqtt, event, cloud
  <1>5. CASE SendPart
    <2>1. payload[index + 1] \in Frames
      BY <1>5, FrameTypes DEF SendPart
    <2>2. TcpSend("batch", payload[index + 1])
      BY <1>5 DEF SendPart
    <2>3. /\ tx_queue' \in Seq(Frames) /\ Len(tx_queue') <= QueueSize
          /\ out' \in [Ways -> Seq(Frames)]
      BY <2>1, <2>2, TcpSendType DEF Ways
    <2> QED BY <1>5, <2>3 DEF SendPart, mqtt, event
  <1>6. CASE EndLong
    <2>1. payload' \in Seq(Parts) /\ index' \in 0 .. Len(payload')
      BY <1>6 DEF EndLong
    <2> QED BY <1>6, <2>1 DEF EndLong, event, cloud
  <1>7. CASE OnEndless
    <2>1. messages' \in 0 .. MaxMessages
      BY <1>7, ConstantAssumption DEF OnEndless
    <2> QED BY <1>7, <2>1 DEF OnEndless, mqtt, event, cloud, history
  <1>8. CASE SendEmpty
    <2>1. tx_queue' \in Seq(Frames) /\ Len(tx_queue') <= QueueSize
      BY <1>8, FrameTypes, ConstantAssumption DEF SendEmpty, TxFull
    <2> QED BY <1>8, <2>1 DEF SendEmpty, mqtt, paho, event, history
  <1> QED BY <1>1, <1>2, <1>3, <1>4, <1>5, <1>6, <1>7, <1>8 DEF Callbacks

(* The types after each step of the event thread. *)
LEMMA EventThreadTypeOK ==
    ASSUME IInv, EventThread
    PROVE  TypeOK'
  <1> USE DEF IInv, TypeOK
  <1>1. CASE Dequeue
    <2>1. /\ taken' \in Seq(EventFrames) /\ Len(taken') <= 1
          /\ event_queue' \in Seq(EventFrames) /\ Len(event_queue') <= QueueSize
      <3>1. event_queue # <<>> /\ taken' = <<Head(event_queue)>> /\ event_queue' = Tail(event_queue)
        BY <1>1 DEF Dequeue
      <3>2. /\ Head(event_queue) \in EventFrames
            /\ Tail(event_queue) \in Seq(EventFrames) /\ Len(Tail(event_queue)) <= QueueSize
        BY <3>1, TakeOldest, ConstantAssumption
      <3> QED BY <3>1, <3>2
    <2> QED BY <1>1, <2>1 DEF Dequeue, mqtt, paho, cloud, history
  <1>2. CASE Discard
    BY <1>2 DEF Discard, Handles, mqtt, paho, cloud, history
  <1>3. CASE HeartbeatRespEntry
    <2>1. /\ tx_queue' \in Seq(Frames) /\ Len(tx_queue') <= QueueSize
          /\ out' \in [Ways -> Seq(Frames)]
      BY <1>3, TcpSendType, FrameTypes DEF HeartbeatRespEntry, Ways
    <2> QED BY <1>3, <2>1 DEF HeartbeatRespEntry, Handles, mqtt, paho
  <1>4. CASE MsgFwToCloud
    <2>1. taken[1] \in Frames
      BY <1>4, FrameTypes DEF MsgFwToCloud, Handles
    <2>2. /\ tx_queue' \in Seq(Frames) /\ Len(tx_queue') <= QueueSize
          /\ out' \in [Ways -> Seq(Frames)]
      BY <1>4, <2>1, TcpSendType DEF MsgFwToCloud, Ways
    <2> QED BY <1>4, <2>2 DEF MsgFwToCloud, Handles, mqtt, paho
  <1> QED BY <1>1, <1>2, <1>3, <1>4 DEF EventThread

(* The types after each step of the timer thread. *)
LEMMA TimerThreadTypeOK ==
    ASSUME IInv, TimerThread
    PROVE  TypeOK'
  <1> USE DEF IInv, TypeOK, paho, event, cloud, history
  <1>1. CASE Wait
    BY <1>1 DEF Wait, mqtt
  <1>2. ASSUME NEW at, NEW topic \in Topics, NEW next \in {"sub5G", "loop"},
               Subscribe(at, topic, next)
        PROVE  TypeOK'
    BY <1>2 DEF Subscribe
  <1>3. CASE HeartbeatReq
    BY <1>3 DEF HeartbeatReq
  <1> QED BY <1>1, <1>2, <1>3 DEF TimerThread, Topics

-----------------------------------------------------------------------------
(* The other parts of the invariant *)

(* Every step keeps what is known of the connection to the broker: only    *)
(* the callbacks outside on_message_cb lower is_conn, and only after a     *)
(* loss.                                                                   *)
LEMMA StepLink ==
    ASSUME IInv, Next
    PROVE  LinkIntact' /\ FlagMeansLink' /\ SubscribedSoFar'
  <1> USE DEF IInv, LinkIntact, FlagMeansLink, SubscribedSoFar, Locked
  <1>0. lost.link \in Nat /\ lost.tcp \in Nat /\ ppc \in {"idle", "batch", "endless"}
        /\ is_conn \in BOOLEAN /\ refused \in BOOLEAN
    BY DEF TypeOK
  <1>1. CASE Connections
    <2>1. CASE SendTakes
      BY <2>1 DEF SendTakes, mqtt, paho, history
    <2>2. CASE TcpLost
      <3>1. lost'.link = lost.link
        BY <2>2 DEF TcpLost, TypeOK
      <3> QED BY <2>2, <3>1 DEF TcpLost, mqtt, paho
    <2>3. CASE TcpConnected
      BY <2>3 DEF TcpConnected, mqtt, paho, history
    <2>4. CASE on_connect_success
      BY <1>0, <2>4 DEF on_connect_success, paho, history
    <2>5. CASE on_connect_failure
      BY <2>5 DEF on_connect_failure, paho, history
    <2>6. CASE LinkLost
      <3>1. lost'.link = lost.link + 1
        BY <2>6 DEF LinkLost, TypeOK
      <3> QED BY <1>0, <2>6, <3>1 DEF LinkLost, paho
    <2>7. CASE connection_lost_cb
      BY <2>7 DEF connection_lost_cb, paho, history
    <2>8. ASSUME NEW topic \in Topics, Subscribed(topic)
          PROVE  LinkIntact' /\ FlagMeansLink' /\ SubscribedSoFar'
      BY <1>0, <2>8 DEF Subscribed, paho
    <2> QED BY <1>1, <2>1, <2>2, <2>3, <2>4, <2>5, <2>6, <2>7, <2>8 DEF Connections
  <1>2. CASE Callbacks
    <2>1. CASE OnRequest
      BY <2>1 DEF OnRequest, Arrives, paho, history
    <2>2. CASE OnResponse
      BY <2>2 DEF OnResponse, OnSingle, Arrives, history
    <2>3. ASSUME NEW kind \in {"light", "heavy"}, OnFrame(kind)
          PROVE  LinkIntact' /\ FlagMeansLink' /\ SubscribedSoFar'
      BY <2>3 DEF OnFrame, OnSingle, Arrives, history
    <2>4. ASSUME NEW n \in 1 .. MaxParts, OnLong(n)
          PROVE  LinkIntact' /\ FlagMeansLink' /\ SubscribedSoFar'
      BY <2>4 DEF OnLong, Arrives, mqtt
    <2>5. CASE SendPart
      BY <2>5 DEF SendPart, mqtt
    <2>6. CASE EndLong
      BY <2>6 DEF EndLong
    <2>7. CASE OnEndless
      BY <2>7 DEF OnEndless, Arrives, mqtt, history
    <2>8. CASE SendEmpty
      BY <2>8 DEF SendEmpty, mqtt, paho, history
    <2> QED BY <1>2, <2>1, <2>2, <2>3, <2>4, <2>5, <2>6, <2>7, <2>8 DEF Callbacks
  <1>3. CASE EventThread
    BY <1>3 DEF EventThread, Dequeue, Discard, HeartbeatRespEntry, MsgFwToCloud,
                mqtt, paho, history
  <1>4. CASE TimerThread
    <2>1. CASE Wait
      BY <1>0, <2>1 DEF Wait, mqtt, paho, history
    <2>2. CASE Subscribe("sub4G", "4G", "sub5G")
      BY <1>0, <2>2 DEF Subscribe, paho
    <2>3. CASE Subscribe("sub5G", "5G", "loop")
      BY <1>0, <2>3 DEF Subscribe, paho
    <2>4. CASE HeartbeatReq
      BY <2>4 DEF HeartbeatReq, paho, history
    <2> QED BY <1>4, <2>1, <2>2, <2>3, <2>4 DEF TimerThread
  <1> QED BY <1>1, <1>2, <1>3, <1>4 DEF Next

(* Only HeartbeatRespEntry sends the device's introduction, and not again. *)
LEMMA StepDevInfo ==
    ASSUME IInv, Next
    PROVE  DevInfoOnce'
  <1> USE DEF IInv, DevInfoOnce
  <1>0. TypeOK /\ "device" \in Ways /\ "batch" \in Ways /\ "single" \in Ways
    BY DEF Ways
  <1>1. CASE SendPart
    <2>1. TcpSend("batch", payload[index + 1]) /\ is_init' = is_init
      BY <1>1 DEF SendPart, event
    <2>2. out'["device"] = out["device"]
      BY <1>0, <2>1 DEF TcpSend, TypeOK
    <2> QED BY <2>1, <2>2
  <1>2. CASE MsgFwToCloud
    <2>1. TcpSend("single", taken[1]) /\ is_init' = is_init
      BY <1>2 DEF MsgFwToCloud
    <2>2. out'["device"] = out["device"]
      BY <1>0, <2>1 DEF TcpSend, TypeOK
    <2> QED BY <2>1, <2>2
  <1>3. CASE HeartbeatRespEntry
    <2>0. is_init' = TRUE
      BY <1>3 DEF HeartbeatRespEntry
    <2>1. CASE is_init
      <3>1. out' = out
        BY <1>3, <2>1 DEF HeartbeatRespEntry
      <3> QED BY <2>0, <2>1, <3>1
    <2>2. CASE ~is_init
      <3>1. TcpSend("device", DevInfo)
        BY <1>3, <2>2 DEF HeartbeatRespEntry
      <3>2. out["device"] \in Seq(Frames) /\ Len(out["device"]) = 0
        BY <1>0, <2>2 DEF TypeOK
      <3>3. out'["device"] \in {out["device"], Append(out["device"], DevInfo)}
        BY <1>0, <3>1 DEF TcpSend, TypeOK
      <3> QED BY <2>0, <3>2, <3>3
    <2> QED BY <2>1, <2>2
  <1>4. CASE ~SendPart /\ ~MsgFwToCloud /\ ~HeartbeatRespEntry
    <2>1. out' = out /\ is_init' = is_init
      BY <1>4 DEF Next, Connections, Callbacks, EventThread, TimerThread, SendTakes, TcpLost,
         TcpConnected, on_connect_success, on_connect_failure, LinkLost, connection_lost_cb,
         OnRequest, OnResponse, OnFrame, OnSingle, OnLong, EndLong, OnEndless, SendEmpty, Dequeue,
         Discard, Wait, Subscribe, Subscribed, HeartbeatReq, event, history
    <2> QED BY <2>1
  <1> QED BY <1>1, <1>2, <1>3, <1>4

(* The payload is there exactly as long as the callback runs. *)
LEMMA StepPayload ==
    ASSUME IInv, Next
    PROVE  PayloadIntact'
  <1> USE DEF IInv, PayloadIntact, Locked
  <1>1. CASE Callbacks
    BY <1>1 DEF Callbacks, Arrives, OnRequest, OnResponse, OnFrame, OnSingle, OnLong, SendPart,
                EndLong, OnEndless, SendEmpty, paho
  <1>2. CASE Connections \/ EventThread \/ TimerThread
    BY <1>2 DEF Connections, EventThread, TimerThread, SendTakes, TcpLost,
       TcpConnected, on_connect_success, on_connect_failure, LinkLost, connection_lost_cb,
       Dequeue, Discard, HeartbeatRespEntry, MsgFwToCloud, Wait, Subscribe, Subscribed,
       HeartbeatReq, paho
  <1> QED BY <1>1, <1>2 DEF Next

(* The invariant is inductive. *)
LEMMA StepInvariant == IInv /\ [Next]_vars => IInv'
  <1> SUFFICES ASSUME IInv, [Next]_vars PROVE IInv'
    OBVIOUS
  <1>1. CASE Next
    <2>1. TypeOK'
      BY <1>1, ConnectionsTypeOK, CallbacksTypeOK, EventThreadTypeOK, TimerThreadTypeOK DEF Next
    <2> QED BY <1>1, <2>1, StepLink, StepDevInfo, StepPayload DEF IInv
  <1>2. CASE UNCHANGED vars
    BY <1>2 DEF IInv, TypeOK, LinkIntact, FlagMeansLink, SubscribedSoFar, DevInfoOnce,
                PayloadIntact, Locked, vars, mqtt, paho, event, cloud, history
  <1> QED BY <1>1, <1>2

(* So it always holds. *)
LEMMA InvariantHolds == Spec => []IInv
  BY InitInvariant, StepInvariant, PTL DEF Spec

-----------------------------------------------------------------------------
(* The safety theorems *)

(* The variables keep their types and the queues their bounds              *)
(* (lib/queue.c:44), for queues of any size.                               *)
THEOREM TypeCorrect == Spec => []TypeOK
  <1>1. IInv => TypeOK
    BY DEF IInv
  <1> QED BY <1>1, InvariantHolds, PTL

(* is_conn is true only with a connection or one whose loss is yet to be   *)
(* reported (mqtt_client.c:10-66).                                         *)
THEOREM FlagIsTrue == Spec => []FlagMeansLink
  <1>1. IInv => FlagMeansLink
    BY DEF IInv
  <1> QED BY <1>1, InvariantHolds, PTL

(* Until the first loss the wait of fkz9_comm.c:313-316 guarantees both    *)
(* subscriptions.                                                          *)
THEOREM SubscriptionsMade == Spec => []SubscribedUnlessLost
  <1>1. IInv => SubscribedUnlessLost
    BY DEF IInv, TypeOK, SubscribedSoFar, SubscribedUnlessLost, Topics
  <1> QED BY <1>1, InvariantHolds, PTL

(* The device is introduced to the cloud at most once (fkz9_comm.c:77-80). *)
THEOREM IntroducedOnce == Spec => []DevInfoOnce
  <1>1. IInv => DevInfoOnce
    BY DEF IInv
  <1> QED BY <1>1, InvariantHolds, PTL

-----------------------------------------------------------------------------
(* Long payloads *)

(* As long as the connection was not down since the callback began, every  *)
(* frame it is done with has been accepted.                                *)
LongIntact ==
    ppc = "batch" /\ ~cut =>
        /\ tcp_up
        /\ \A p \in 1 .. index :
              \E i \in DOMAIN out["batch"] : out["batch"][i] = payload[p]

(* Only SendPart moves index, and only when the frame was accepted.        *)
LEMMA StepLongIntact ==
    ASSUME IInv, LongIntact, Next
    PROVE  LongIntact'
  <1>0. TypeOK /\ "device" \in Ways /\ "batch" \in Ways /\ "single" \in Ways
    BY DEF IInv, Ways
  <1>1. CASE SendPart
    <2> SUFFICES ASSUME (ppc = "batch")', ~cut'
                 PROVE  tcp_up' /\ \A p \in 1 .. index' :
                            \E i \in DOMAIN out["batch"]' : out["batch"]'[i] = payload'[p]
      BY DEF LongIntact
    <2>1. /\ ppc = "batch" /\ ~cut /\ tcp_up' = tcp_up /\ payload' = payload /\ index' = index + 1
          /\ TcpSend("batch", payload[index + 1]) /\ ~TxFull
      BY <1>1 DEF SendPart
    <2>2. tcp_up /\ \A p \in 1 .. index :
              \E i \in DOMAIN out["batch"] : out["batch"][i] = payload[p]
      BY <2>1 DEF LongIntact
    <2>3. out["batch"]' = Append(out["batch"], payload[index + 1])
      BY <1>0, <2>1, <2>2 DEF TcpSend, TypeOK
    <2>4. out["batch"] \in Seq(Frames) /\ index \in Nat
      BY <1>0 DEF TypeOK
    <2>5. ASSUME NEW p \in 1 .. index + 1
          PROVE  \E i \in DOMAIN out["batch"]' : out["batch"]'[i] = payload[p]
      <3>1. CASE p = index + 1
        <4>1. Len(out["batch"]) + 1 \in DOMAIN out["batch"]'
          BY <2>3, <2>4
        <4>2. out["batch"]'[Len(out["batch"]) + 1] = payload[p]
          BY <2>3, <2>4, <3>1
        <4> QED BY <4>1, <4>2
      <3>2. CASE p # index + 1
        <4>1. p \in 1 .. index
          BY <2>4, <3>2
        <4>2. PICK i \in DOMAIN out["batch"] : out["batch"][i] = payload[p]
          BY <2>2, <4>1
        <4>3. i \in DOMAIN out["batch"]' /\ out["batch"]'[i] = out["batch"][i]
          BY <2>3, <2>4
        <4> QED BY <4>2, <4>3
      <3> QED BY <3>1, <3>2
    <2> QED BY <2>1, <2>2, <2>5
  <1>2. CASE HeartbeatRespEntry \/ MsgFwToCloud
    <2>1. out'["batch"] = out["batch"]
      <3>1. CASE HeartbeatRespEntry
        BY <1>0, <3>1 DEF HeartbeatRespEntry, TcpSend, TypeOK
      <3>2. CASE MsgFwToCloud
        BY <1>0, <3>2 DEF MsgFwToCloud, TcpSend, TypeOK
      <3> QED BY <1>2, <3>1, <3>2
    <2>2. UNCHANGED <<paho, tcp_up, cut>>
      BY <1>2 DEF HeartbeatRespEntry, MsgFwToCloud
    <2> QED BY <2>1, <2>2 DEF LongIntact, paho
  <1>3. ASSUME NEW n \in 1 .. MaxParts, OnLong(n)
        PROVE  LongIntact'
    <2>1. index' = 0 /\ cut' = ~tcp_up /\ tcp_up' = tcp_up
      BY <1>3 DEF OnLong, cloud
    <2>2. 1 .. index' = {}
      BY <2>1
    <2> QED BY <1>0, <2>1, <2>2 DEF LongIntact, TypeOK
  <1>4. CASE EndLong
    BY <1>4 DEF EndLong, LongIntact
  <1>5. CASE TcpLost \/ TcpConnected
    BY <1>5 DEF TcpLost, TcpConnected, LongIntact, paho, history
  <1>6. CASE \/ SendTakes \/ on_connect_success \/ on_connect_failure \/ LinkLost
             \/ connection_lost_cb \/ OnRequest \/ OnResponse
             \/ \E kind \in {"light", "heavy"} : OnFrame(kind)
             \/ Dequeue \/ Discard \/ TimerThread
             \/ \E topic \in Topics : Subscribed(topic)
    <2>1. UNCHANGED <<ppc, payload, index, tcp_up, cut, out>>
      BY <1>6 DEF SendTakes, on_connect_success, on_connect_failure, LinkLost, connection_lost_cb,
         OnRequest, OnResponse, OnFrame, OnSingle, Dequeue, Discard, TimerThread, Wait, Subscribe,
         Subscribed, HeartbeatReq, paho, cloud, history
    <2> QED BY <2>1 DEF LongIntact
  <1>7. CASE OnEndless \/ SendEmpty
    BY <1>7 DEF OnEndless, SendEmpty, Arrives, Locked, LongIntact, paho, cloud, history
  <1> QED BY <1>1, <1>2, <1>3, <1>4, <1>5, <1>6, <1>7 DEF Next, Connections, Callbacks, EventThread

(* Only EndLong ends the callback, with all frames done.                   *)
LEMMA StepLongWhole ==
    ASSUME IInv, LongIntact, [Next]_vars, Locked, ~Locked', ~cut
    PROVE  \A p \in DOMAIN payload : \E i \in DOMAIN out["batch"] : out["batch"][i] = payload[p]
  <1>1. EndLong
    BY DEF Arrives, OnEndless, SendEmpty, Subscribed, Locked, Next, Connections, Callbacks, EventThread, TimerThread, SendTakes, TcpLost,
       TcpConnected, on_connect_success, on_connect_failure, LinkLost, connection_lost_cb,
       OnRequest, OnResponse, OnFrame, OnSingle, OnLong, SendPart, Dequeue, Discard,
       HeartbeatRespEntry, MsgFwToCloud, Wait, Subscribe, HeartbeatReq, vars, paho
  <1>2. ppc = "batch"
    BY <1>1 DEF EndLong
  <1>3. DOMAIN payload = 1 .. index
    BY <1>1 DEF EndLong, IInv, TypeOK
  <1> QED BY <1>2, <1>3 DEF LongIntact

(* A payload of any length loses no frame to a full queue of any size: if  *)
(* the cloud connection stays up while it is sent all its frames are       *)
(* accepted (fkz9_comm.c:221-229).                                         *)
THEOREM LongPayloadsWhole == Spec => LongPayloadWhole
  <1>1. Init => LongIntact
    BY DEF Init, LongIntact, Locked
  <1>2. IInv /\ LongIntact /\ [Next]_vars => LongIntact'
    <2>1. ASSUME LongIntact, UNCHANGED vars PROVE LongIntact'
      BY <2>1 DEF LongIntact, Locked, vars, paho, cloud, history
    <2> QED BY <2>1, StepLongIntact
  <1>3. IInv /\ LongIntact /\ [Next]_vars =>
          [Locked /\ ~Locked' /\ ~cut =>
             \A p \in DOMAIN payload : \E i \in DOMAIN out["batch"] : out["batch"][i] = payload[p]]_vars
    BY StepLongWhole
  <1> QED BY <1>1, <1>2, <1>3, InvariantHolds, PTL DEF Spec, LongPayloadWhole

-----------------------------------------------------------------------------
(* The refinement *)

(* Every frame under way or accepted has the number of a payload received  *)
(* already, so that the frames of the next payload are new.                *)
Known(q) == \A i \in DOMAIN q : q[i].id <= messages

IdsKnown ==
    /\ Known(taken) /\ Known(event_queue) /\ Known(payload)
    /\ Known(out["single"]) /\ Known(out["batch"])

(* Sequences stay known as payloads are counted, when their head is taken  *)
(* off, and when a known frame is appended.                                *)
LEMMA KnownGrows ==
    ASSUME NEW n \in Nat, NEW m \in Nat, n <= m, NEW q \in Seq(Frames),
           \A i \in DOMAIN q : q[i].id <= n
    PROVE  /\ \A i \in DOMAIN q : q[i].id <= m
           /\ q # <<>> => /\ \A i \in DOMAIN Tail(q) : Tail(q)[i].id <= m
                          /\ Head(q).id <= m
           /\ \A f \in Frames : f.id <= m => \A i \in DOMAIN Append(q, f) : Append(q, f)[i].id <= m
  <1>1. \A f \in Frames : f.id \in Nat
    BY ConstantAssumption DEF Frames, EventFrames, Singles, Parts, HeartbeatResp, DevInfo, Empty, Frame
  <1>2. \A i \in DOMAIN q : q[i].id <= m
    <2> TAKE i \in DOMAIN q
    <2>1. q[i] \in Frames
      OBVIOUS
    <2> QED BY <1>1, <2>1
  <1>3. ASSUME q # <<>> PROVE \A i \in DOMAIN Tail(q) : Tail(q)[i].id <= m
    <2> TAKE i \in DOMAIN Tail(q)
    <2>1. i + 1 \in DOMAIN q /\ Tail(q)[i] = q[i + 1]
      BY <1>3
    <2> QED BY <1>2, <2>1
  <1>4. ASSUME q # <<>> PROVE Head(q).id <= m
    BY <1>2, <1>4
  <1>5. ASSUME NEW f \in Frames, f.id <= m
        PROVE  \A i \in DOMAIN Append(q, f) : Append(q, f)[i].id <= m
    <2> TAKE i \in DOMAIN Append(q, f)
    <2>1. CASE i \in DOMAIN q
      BY <1>2, <2>1
    <2>2. CASE i \notin DOMAIN q
      BY <1>5, <2>2
    <2> QED BY <2>1, <2>2
  <1> QED BY <1>2, <1>3, <1>4, <1>5

(* No step makes a frame with a number that is yet to come. *)
LEMMA StepIdsKnown ==
    ASSUME IInv, IdsKnown, Next
    PROVE  IdsKnown'
  <1>0. /\ TypeOK /\ messages \in Nat
        /\ "device" \in Ways /\ "batch" \in Ways /\ "single" \in Ways
        /\ taken \in Seq(Frames) /\ event_queue \in Seq(Frames) /\ payload \in Seq(Frames)
        /\ out["single"] \in Seq(Frames) /\ out["batch"] \in Seq(Frames)
    BY FrameTypes DEF IInv, Ways, TypeOK
  <1>1. ASSUME NEW f \in EventFrames, OnSingle(f), f.id <= messages',
               messages' \in Nat, messages <= messages'
        PROVE  IdsKnown'
    <2>1. UNCHANGED <<taken, payload, out>>
      BY <1>1 DEF OnSingle, event, history
    <2>2. event_queue' \in {event_queue, Append(event_queue, f)}
      BY <1>1 DEF OnSingle
    <2>3. f \in Frames
      BY <1>1, FrameTypes
    <2> QED BY <1>0, <1>1, <2>1, <2>2, <2>3, KnownGrows DEF IdsKnown, Known
  <1>2. CASE OnResponse
    <2>1. HeartbeatResp \in EventFrames /\ HeartbeatResp.id = 0
      BY FrameTypes DEF HeartbeatResp, Frame
    <2> QED BY <1>0, <1>1, <1>2, <2>1 DEF OnResponse
  <1>3. ASSUME NEW kind \in {"light", "heavy"}, OnFrame(kind)
        PROVE  IdsKnown'
    <2>1. messages' = messages + 1 /\ messages + 1 \in 1 .. MaxMessages
      BY <1>0, <1>3, ConstantAssumption DEF OnFrame
    <2>2. Frame(kind, messages + 1, 0) \in EventFrames
      BY <2>1, FrameTypes
    <2>3. Frame(kind, messages + 1, 0).id = messages + 1
      BY DEF Frame
    <2> QED BY <1>0, <1>1, <1>3, <2>1, <2>2, <2>3 DEF OnFrame
  <1>4. ASSUME NEW n \in 1 .. MaxParts, OnLong(n)
        PROVE  IdsKnown'
    <2>1. messages' = messages + 1 /\ UNCHANGED <<taken, event_queue, out>>
          /\ payload' = Payload(messages + 1, n)
      BY <1>4 DEF OnLong, event
    <2>2. \A i \in DOMAIN payload' : payload'[i].id = messages + 1
      BY <2>1 DEF Payload, Frame
    <2>3. Known(payload)'
      BY <1>0, <2>1, <2>2 DEF Known
    <2>4. \A q \in Seq(Frames) : Known(q) => \A i \in DOMAIN q : q[i].id <= messages + 1
      <3> SUFFICES ASSUME NEW q \in Seq(Frames), Known(q)
                   PROVE  \A i \in DOMAIN q : q[i].id <= messages + 1
        OBVIOUS
      <3>1. messages + 1 \in Nat /\ messages <= messages + 1
        BY <1>0
      <3>2. \A i \in DOMAIN q : q[i].id <= messages
        BY DEF Known
      <3> QED BY <1>0, <3>1, <3>2, KnownGrows
    <2>5. Known(taken)' /\ Known(event_queue)'
      BY <1>0, <2>1, <2>4 DEF IdsKnown, Known
    <2>6. Known(out["single"])' /\ Known(out["batch"])'
      BY <1>0, <2>1, <2>4 DEF IdsKnown, Known
    <2> QED BY <2>3, <2>5, <2>6 DEF IdsKnown
  <1>5. CASE SendPart
    <2>1. /\ UNCHANGED <<messages, taken, event_queue, payload>>
          /\ payload[index + 1] \in Frames /\ payload[index + 1].id <= messages
          /\ TcpSend("batch", payload[index + 1])
      BY <1>0, <1>5 DEF SendPart, event, TypeOK, IdsKnown, Known
    <2>2. /\ out'["single"] = out["single"]
          /\ out'["batch"] \in {out["batch"], Append(out["batch"], payload[index + 1])}
      BY <1>0, <2>1 DEF TcpSend, TypeOK
    <2>3. \A i \in DOMAIN out'["batch"] : out'["batch"][i].id <= messages
      <3>1. \A i \in DOMAIN Append(out["batch"], payload[index + 1]) :
                Append(out["batch"], payload[index + 1])[i].id <= messages
        BY SMTT(60), <1>0, <2>1, KnownGrows DEF IdsKnown, Known
      <3> QED BY <2>2, <3>1 DEF IdsKnown, Known
    <2> QED BY <2>1, <2>2, <2>3 DEF IdsKnown, Known
  <1>6. CASE EndLong
    BY <1>6 DEF EndLong, event, IdsKnown, Known
  <1>7. CASE Dequeue
    <2>1. /\ UNCHANGED <<messages, payload, out>>
          /\ event_queue # <<>> /\ event_queue' = Tail(event_queue)
          /\ taken' = <<Head(event_queue)>>
      BY <1>7 DEF Dequeue, paho, history
    <2>2. Known(event_queue)' /\ Head(event_queue).id <= messages
      BY <1>0, <2>1, KnownGrows DEF IdsKnown, Known
    <2>3. Known(taken)'
      BY <2>1, <2>2 DEF Known
    <2> QED BY <2>1, <2>2, <2>3 DEF IdsKnown, Known
  <1>8. CASE Discard
    BY <1>8 DEF Discard, Handles, IdsKnown, Known, paho, history
  <1>9. CASE HeartbeatRespEntry
    <2>1. UNCHANGED <<messages, event_queue, payload>> /\ taken' = <<>>
      BY <1>9 DEF HeartbeatRespEntry, Handles, paho
    <2>2. out'["single"] = out["single"] /\ out'["batch"] = out["batch"]
      BY <1>0, <1>9 DEF HeartbeatRespEntry, TcpSend, TypeOK
    <2> QED BY <2>1, <2>2 DEF IdsKnown, Known
  <1>10. CASE MsgFwToCloud
    <2>1. /\ UNCHANGED <<messages, event_queue, payload>> /\ taken' = <<>>
          /\ taken[1] \in Frames /\ taken[1].id <= messages
          /\ TcpSend("single", taken[1])
      BY <1>0, <1>10 DEF MsgFwToCloud, Handles, paho, IdsKnown, Known
    <2>2. /\ out'["batch"] = out["batch"]
          /\ out'["single"] \in {out["single"], Append(out["single"], taken[1])}
      BY <1>0, <2>1 DEF TcpSend, TypeOK
    <2>3. \A i \in DOMAIN out'["single"] : out'["single"][i].id <= messages
      <3>1. \A i \in DOMAIN Append(out["single"], taken[1]) :
                Append(out["single"], taken[1])[i].id <= messages
        BY <1>0, <2>1, KnownGrows DEF IdsKnown, Known
      <3> QED BY <2>2, <3>1 DEF IdsKnown, Known
    <2> QED BY <2>1, <2>2, <2>3 DEF IdsKnown, Known
  <1>11. CASE Connections \/ OnRequest \/ SendEmpty \/ TimerThread
    <2>1. UNCHANGED <<messages, taken, event_queue, payload, out>>
      BY <1>11 DEF Connections, SendTakes, TcpLost, TcpConnected, on_connect_success,
         on_connect_failure, LinkLost, connection_lost_cb, OnRequest, SendEmpty, TimerThread, Wait,
         Subscribe, Subscribed, HeartbeatReq, paho, event, history
    <2> QED BY <2>1 DEF IdsKnown, Known
  <1>12. CASE OnEndless
    <2>1. /\ UNCHANGED <<taken, event_queue, payload, out>>
          /\ messages' = messages + 1
      BY <1>12 DEF OnEndless, event, history
    <2>2. messages' \in Nat /\ messages <= messages'
      BY <1>0, <2>1
    <2>3. \A q \in Seq(Frames) : Known(q) => \A i \in DOMAIN q : q[i].id <= messages'
      <3> SUFFICES ASSUME NEW q \in Seq(Frames), Known(q)
                   PROVE  \A i \in DOMAIN q : q[i].id <= messages'
        OBVIOUS
      <3>1. \A i \in DOMAIN q : q[i].id <= messages
        BY DEF Known
      <3> QED BY <1>0, <2>2, <3>1, KnownGrows
    <2> QED BY <1>0, <2>1, <2>3 DEF IdsKnown, Known
  <1> QED BY <1>2, <1>3, <1>4, <1>5, <1>6, <1>7, <1>8, <1>9, <1>10, <1>11, <1>12
          DEF Next, Callbacks, EventThread

(* Handling the frame taken leaves the queue. *)
LEMMA TakenFirst ==
    ASSUME NEW S, NEW q \in Seq(S), NEW x \in S
    PROVE  <<x>> \o q # <<>> /\ Head(<<x>> \o q) = x /\ Tail(<<x>> \o q) = q
  <1>1. <<x>> \o q \in Seq(S) /\ Len(<<x>> \o q) = 1 + Len(q) /\ (<<x>> \o q)[1] = x
    OBVIOUS
  <1>2. Tail(<<x>> \o q) \in Seq(S) /\ Len(Tail(<<x>> \o q)) = Len(q)
    BY <1>1
  <1>3. \A i \in 1 .. Len(q) : Tail(<<x>> \o q)[i] = q[i]
    BY <1>1, <1>2
  <1>4. Tail(<<x>> \o q) = q
    BY <1>2, <1>3, SeqEqual
  <1> QED BY <1>1, <1>4

(* The event thread holds no more than one frame. *)
LEMMA OneFrame ==
    ASSUME NEW S, NEW q \in Seq(S), q # <<>>, Len(q) <= 1
    PROVE  q = <<q[1]>> /\ q[1] \in S
  <1>1. Len(q) = 1
    <2>1. Len(q) \in Nat /\ Len(q) # 0
      BY EmptySeq
    <2> QED BY <2>1
  <1>2. q[1] \in S
    BY <1>1
  <1>3. <<q[1]>> \in Seq(S) /\ Len(<<q[1]>>) = 1 /\ <<q[1]>>[1] = q[1]
    BY <1>2
  <1>4. q = <<q[1]>>
    BY <1>1, <1>3, SeqEqual
  <1> QED BY <1>2, <1>4

(* A frame dequeued is still in front of the others. *)
LEMMA TakenAgain ==
    ASSUME NEW S, NEW q \in Seq(S), q # <<>>
    PROVE  <<Head(q)>> \o Tail(q) = q
  <1>1. /\ <<Head(q)>> \o Tail(q) \in Seq(S) /\ Len(<<Head(q)>> \o Tail(q)) = Len(q)
        /\ \A i \in 1 .. Len(q) : (<<Head(q)>> \o Tail(q))[i] = q[i]
    OBVIOUS
  <1> QED BY <1>1, SeqEqual

(* What sending one frame does to the rest of the payload. *)
LEMMA RestFirst ==
    ASSUME NEW S, NEW p \in Seq(S), NEW i \in Nat, i < Len(p)
    PROVE  /\ SubSeq(p, i + 1, Len(p)) # <<>>
           /\ Head(SubSeq(p, i + 1, Len(p))) = p[i + 1]
           /\ Tail(SubSeq(p, i + 1, Len(p))) = SubSeq(p, i + 2, Len(p))
  <1> DEFINE rest == SubSeq(p, i + 1, Len(p))
             less == SubSeq(p, i + 2, Len(p))
  <1>1. /\ rest \in Seq(S) /\ Len(rest) = Len(p) - i
        /\ \A j \in 1 .. Len(p) - i : rest[j] = p[i + j]
    OBVIOUS
  <1>2. /\ less \in Seq(S) /\ Len(less) = Len(p) - i - 1
        /\ \A j \in 1 .. Len(p) - i - 1 : less[j] = p[i + 1 + j]
    OBVIOUS
  <1>3. Len(p) - i \in Nat \ {0}
    OBVIOUS
  <1> HIDE DEF rest, less
  <1>4. rest # <<>> /\ Head(rest) = p[i + 1]
    BY <1>1, <1>3
  <1>5. Tail(rest) \in Seq(S) /\ Len(Tail(rest)) = Len(p) - i - 1
    BY <1>1, <1>3, <1>4, HeadTailProperties
  <1>6. \A j \in 1 .. Len(p) - i - 1 : Tail(rest)[j] = p[i + 1 + j]
    <2> TAKE j \in 1 .. Len(p) - i - 1
    <2>1. Tail(rest)[j] = rest[j + 1]
      BY <1>1, <1>3, <1>4, <1>5, HeadTailProperties
    <2>2. j + 1 \in 1 .. Len(p) - i /\ i + (j + 1) = i + 1 + j
      BY <1>3
    <2> QED BY <1>1, <2>1, <2>2
  <1>7. Tail(rest) = less
    BY <1>2, <1>5, <1>6, SeqEqual
  <1> QED BY <1>4, <1>7 DEF rest, less

(* Every step is one of the event way's, or none of it. *)
LEMMA StepEventWay ==
    ASSUME IInv, IdsKnown, Next
    PROVE  [EventWay!Next]_(EventWay!vars)
  <1> USE DEF EventWay!vars, EventWay!Next
  <1>0. /\ TypeOK /\ messages \in Nat
        /\ "device" \in Ways /\ "batch" \in Ways /\ "single" \in Ways
        /\ taken \in Seq(EventFrames) /\ Len(taken) <= 1 /\ event_queue \in Seq(EventFrames)
    BY DEF IInv, Ways, TypeOK
  <1>11. EventWaiting \in Seq(EventFrames)
    BY <1>0 DEF EventWaiting
  <1>1. ASSUME NEW f \in EventFrames, OnSingle(f), f \in Singles => f.id > messages
        PROVE  [EventWay!Next]_(EventWay!vars)
    <2>1. taken' = taken /\ out' = out
      BY <1>1 DEF OnSingle, event, history
    <2>2. CASE event_queue' = event_queue
      BY <2>1, <2>2 DEF EventWaiting
    <2>3. CASE event_queue' = Append(event_queue, f)
      <3>1. EventWaiting' = Append(EventWaiting, f)
        BY <1>0, <2>1, <2>3 DEF EventWaiting
      <3>2. /\ Len(EventWaiting') = Len(EventWaiting) + 1
            /\ SubSeq(EventWaiting', 1, Len(EventWaiting)) = EventWaiting
            /\ EventWaiting'[Len(EventWaiting) + 1] = f
            /\ \A j \in 1 .. Len(EventWaiting) : EventWaiting'[j] = EventWaiting[j]
        BY <1>0, <1>11, <3>1
      <3>3. \A j \in 1 .. Len(EventWaiting) : EventWaiting[j].id <= messages
        BY <1>0, <1>11 DEF EventWaiting, IdsKnown, Known
      <3>4. \A j \in DOMAIN out["single"] : out["single"][j].id <= messages
        BY DEF IdsKnown, Known
      <3>5. ASSUME f \in Singles
            PROVE  /\ \A j \in 1 .. Len(EventWaiting) : EventWaiting'[j] # f
                   /\ \A j \in DOMAIN out["single"] : out["single"][j] # f
        <4>1. f.id \in Nat /\ f.id > messages
          BY <1>1, <3>5, ConstantAssumption DEF Singles, Frame
        <4>2. ~(f.id <= messages)
          BY <1>0, <4>1
        <4> QED BY <3>2, <3>3, <3>4, <4>2
      <3>6. EventWay!Put
        BY <1>0, <1>11, <2>1, <3>2, <3>5 DEF EventWay!Put
      <3> QED BY <3>6
    <2> QED BY <1>1, <2>2, <2>3 DEF OnSingle
  <1>2. CASE OnResponse
    <2>1. HeartbeatResp \in EventFrames /\ HeartbeatResp \notin Singles
      <3>1. HeartbeatResp.kind = "heartbeat"
        BY FrameFields DEF HeartbeatResp
      <3>2. \A f \in Singles : f.kind \in {"light", "heavy"}
        BY FrameFields DEF Singles
      <3> QED BY <3>1, <3>2, FrameTypes
    <2> QED BY <1>1, <1>2, <2>1 DEF OnResponse
  <1>3. ASSUME NEW kind \in {"light", "heavy"}, OnFrame(kind)
        PROVE  [EventWay!Next]_(EventWay!vars)
    <2>1. messages + 1 \in 1 .. MaxMessages
      BY <1>0, <1>3, ConstantAssumption DEF OnFrame
    <2>2. Frame(kind, messages + 1, 0) \in EventFrames
      BY <2>1, FrameTypes
    <2>3. Frame(kind, messages + 1, 0).id > messages
      BY <1>0 DEF Frame
    <2> QED BY <1>1, <1>3, <2>2, <2>3 DEF OnFrame
  <1>4. CASE Dequeue
    <2>1. /\ taken = <<>> /\ event_queue # <<>> /\ out' = out
          /\ taken' = <<Head(event_queue)>> /\ event_queue' = Tail(event_queue)
      BY <1>4 DEF Dequeue, history
    <2>2. EventWaiting = event_queue /\ EventWaiting' = event_queue
      BY <1>0, <2>1, TakenAgain DEF EventWaiting
    <2> QED BY <2>1, <2>2
  <1>5. ASSUME taken # <<>>, taken' = <<>>, event_queue' = event_queue,
               out'["single"] \in {out["single"], Append(out["single"], taken[1])}
        PROVE  EventWay!Next
    <2>1. taken = <<taken[1]>> /\ taken[1] \in EventFrames
      BY <1>0, <1>5, OneFrame
    <2>2. /\ EventWaiting # <<>> /\ Head(EventWaiting) = taken[1]
          /\ EventWaiting' = Tail(EventWaiting)
      <3>1. EventWaiting = <<taken[1]>> \o event_queue
        BY <2>1 DEF EventWaiting
      <3>2. EventWaiting' = event_queue
        BY <1>0, <1>5 DEF EventWaiting
      <3> QED BY <1>0, <2>1, <3>1, <3>2, TakenFirst
    <2> QED BY <1>5, <2>2 DEF EventWay!Deliver, EventWay!Lose
  <1>6. CASE Discard
    BY <1>5, <1>6 DEF Discard, Handles, history
  <1>7. CASE HeartbeatRespEntry
    <2>1. out'["single"] = out["single"]
      BY <1>0, <1>7 DEF HeartbeatRespEntry, TcpSend, TypeOK
    <2> QED BY <1>5, <1>7, <2>1 DEF HeartbeatRespEntry, Handles
  <1>8. CASE MsgFwToCloud
    <2>1. out'["single"] \in {out["single"], Append(out["single"], taken[1])}
      BY <1>0, <1>8 DEF MsgFwToCloud, TcpSend, TypeOK
    <2> QED BY <1>5, <1>8, <2>1 DEF MsgFwToCloud, Handles
  <1>9. CASE SendPart
    <2>1. UNCHANGED <<taken, event_queue>> /\ TcpSend("batch", payload[index + 1])
      BY <1>9 DEF SendPart, event
    <2>2. out'["single"] = out["single"]
      BY <1>0, <2>1 DEF TcpSend, TypeOK
    <2> QED BY <2>1, <2>2 DEF EventWaiting
  <1>10. CASE \/ Connections \/ OnRequest \/ EndLong \/ OnEndless \/ SendEmpty \/ TimerThread
              \/ \E n \in 1 .. MaxParts : OnLong(n)
    <2>1. UNCHANGED <<taken, event_queue, out>>
      BY <1>10 DEF Connections, SendTakes, TcpLost, TcpConnected, on_connect_success,
         on_connect_failure, LinkLost, connection_lost_cb, OnRequest, OnLong, EndLong, OnEndless,
         SendEmpty, TimerThread, Wait, Subscribe, Subscribed, HeartbeatReq, event, history
    <2> QED BY <2>1 DEF EventWaiting
  <1> QED BY <1>2, <1>3, <1>4, <1>6, <1>7, <1>8, <1>9, <1>10 DEF Next, Callbacks, EventThread

(* Every step is one of the straight way's, or none of it. *)
LEMMA StepLongWay ==
    ASSUME IInv, IdsKnown, Next
    PROVE  [LongWay!Next]_(LongWay!vars)
  <1> USE DEF LongWay!vars, LongWay!Next
  <1>0. /\ TypeOK /\ PayloadIntact /\ messages \in Nat
        /\ "device" \in Ways /\ "batch" \in Ways /\ "single" \in Ways
        /\ payload \in Seq(Parts) /\ index \in Nat /\ index <= Len(payload)
    BY DEF IInv, Ways, TypeOK
  <1>1. ASSUME NEW n \in 1 .. MaxParts, OnLong(n)
        PROVE  LongWay!Put
    <2>1. /\ payload = <<>> /\ index = 0 /\ index' = 0 /\ out' = out
          /\ payload' = Payload(messages + 1, n)
      BY <1>0, <1>1 DEF OnLong, Arrives, Locked, PayloadIntact
    <2>2. messages + 1 \in 1 .. MaxMessages
      BY <1>0, <1>1, ConstantAssumption DEF OnLong
    <2>3. payload' \in Seq(Parts) /\ Len(payload') = n /\ n \in Nat
      BY <2>1, <2>2, PayloadType, ConstantAssumption
    <2>4. LongWaiting = <<>> /\ LongWaiting' = payload'
      BY <2>1, <2>3 DEF LongWaiting
    <2>5. \A i \in 1 .. n : payload'[i] = Frame("part", messages + 1, i)
      BY <2>1 DEF Payload
    <2>6. ASSUME NEW i \in 1 .. n
          PROVE  /\ \A j \in 1 .. i - 1 : payload'[j] # payload'[i]
                 /\ \A j \in DOMAIN out["batch"] : out["batch"][j] # payload'[i]
      <3>1. payload'[i].id = messages + 1 /\ payload'[i].part = i
        BY <2>5, FrameFields
      <3>2. ASSUME NEW j \in 1 .. i - 1 PROVE payload'[j] # payload'[i]
        <4>1. j \in 1 .. n /\ j # i
          BY <2>3
        <4>2. payload'[j].part = j
          BY <2>5, <4>1, FrameFields
        <4> QED BY <3>1, <4>1, <4>2
      <3>3. ASSUME NEW j \in DOMAIN out["batch"] PROVE out["batch"][j] # payload'[i]
        <4>1. out["batch"][j].id <= messages
          BY DEF IdsKnown, Known
        <4>2. ~(messages + 1 <= messages)
          BY <1>0
        <4> QED BY <3>1, <4>1, <4>2
      <3> QED BY <3>2, <3>3
    <2>7. /\ Len(LongWaiting) = 0 /\ SubSeq(LongWaiting', 1, 0) = <<>>
          /\ Len(LongWaiting') = n
      BY <2>3, <2>4
    <2> QED BY <2>1, <2>3, <2>4, <2>6, <2>7 DEF LongWay!Put
  <1>2. CASE SendPart
    <2>1. /\ payload' = payload /\ index' = index + 1 /\ index < Len(payload)
          /\ TcpSend("batch", payload[index + 1])
      BY <1>0, <1>2 DEF SendPart
    <2>2. out'["batch"] \in {out["batch"], Append(out["batch"], payload[index + 1])}
      BY <1>0, <2>1 DEF TcpSend, TypeOK
    <2>3. /\ LongWaiting # <<>> /\ Head(LongWaiting) = payload[index + 1]
          /\ Tail(LongWaiting) = SubSeq(payload, index + 2, Len(payload))
      BY <1>0, <2>1, RestFirst DEF LongWaiting
    <2>4. LongWaiting' = Tail(LongWaiting)
      <3>1. index + 1 + 1 = index + 2
        BY <1>0
      <3> QED BY <2>1, <2>3, <3>1 DEF LongWaiting
    <2> QED BY <2>2, <2>3, <2>4 DEF LongWay!Deliver, LongWay!Lose
  <1>3. CASE EndLong
    <2>1. index = Len(payload) /\ payload' = <<>> /\ index' = 0 /\ out' = out
      BY <1>3 DEF EndLong
    <2>2. LongWaiting = <<>> /\ LongWaiting' = <<>>
      BY <1>0, <2>1 DEF LongWaiting
    <2> QED BY <2>1, <2>2
  <1>4. CASE HeartbeatRespEntry \/ MsgFwToCloud
    <2>1. out'["batch"] = out["batch"]
      <3>1. CASE HeartbeatRespEntry
        BY <1>0, <3>1 DEF HeartbeatRespEntry, TcpSend, TypeOK
      <3>2. CASE MsgFwToCloud
        BY <1>0, <3>2 DEF MsgFwToCloud, TcpSend, TypeOK
      <3> QED BY <1>4, <3>1, <3>2
    <2>2. UNCHANGED <<payload, index>>
      BY <1>4 DEF HeartbeatRespEntry, MsgFwToCloud, paho
    <2> QED BY <2>1, <2>2 DEF LongWaiting
  <1>5. CASE \/ Connections \/ OnRequest \/ OnResponse \/ TimerThread \/ Dequeue \/ Discard
             \/ \E kind \in {"light", "heavy"} : OnFrame(kind)
             \/ OnEndless \/ SendEmpty
    <2>1. UNCHANGED <<payload, index, out>>
      BY <1>5 DEF Connections, SendTakes, TcpLost, TcpConnected, on_connect_success,
         on_connect_failure, LinkLost, connection_lost_cb, OnRequest, OnResponse, OnFrame, OnSingle,
         OnEndless, SendEmpty, TimerThread, Wait, Subscribe, Subscribed, HeartbeatReq, Dequeue,
         Discard, paho, history
    <2> QED BY <2>1 DEF LongWaiting
  <1> QED BY <1>1, <1>2, <1>3, <1>4, <1>5 DEF Next, Callbacks, EventThread

(* Whatever the threads and connections do, frames that take the same way  *)
(* to the cloud connection are accepted in the order they came in, each at *)
(* most once (fkz9_comm.c:219-232).                                        *)
THEOREM WaysAreLossyFifos == Spec => WaysKeepOrder
  <1>1. Init => IdsKnown /\ EventWay!Init /\ LongWay!Init
    BY DEF Init, IdsKnown, Known, EventWay!Init, LongWay!Init, EventWaiting, LongWaiting, Ways
  <1>2. IInv /\ IdsKnown /\ [Next]_vars => IdsKnown'
    <2>1. ASSUME IdsKnown, UNCHANGED vars PROVE IdsKnown'
      BY <2>1 DEF IdsKnown, Known, vars, paho, event, history
    <2> QED BY <2>1, StepIdsKnown
  <1>3. IInv /\ IdsKnown /\ [Next]_vars =>
          [EventWay!Next]_(EventWay!vars) /\ [LongWay!Next]_(LongWay!vars)
    <2>1. ASSUME UNCHANGED vars
          PROVE  UNCHANGED EventWay!vars /\ UNCHANGED LongWay!vars
      BY <2>1 DEF vars, paho, event, history, EventWay!vars, LongWay!vars, EventWaiting, LongWaiting
    <2> QED BY <2>1, StepEventWay, StepLongWay
  <1> QED BY <1>1, <1>2, <1>3, InvariantHolds, PTL
          DEF Spec, WaysKeepOrder, EventWay!Spec, LongWay!Spec

=============================================================================
