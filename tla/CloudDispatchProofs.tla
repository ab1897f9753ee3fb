------------------------ MODULE CloudDispatchProofs ------------------------
(***************************************************************************)
(* Proofs about the requests from the cloud, for any frames and signs, any *)
(* sizes of the queue and of a read, and any number of requests.           *)
(*                                                                         *)
(* What the proofs rest on is that the heads of requests are in the order  *)
(* sent wherever they are (InOrder), and that the position at which the    *)
(* last search in the table ended is that of the last request as long as   *)
(* all could be served, and the end of the table ever after (Searched).    *)
(***************************************************************************)
EXTENDS CloudDispatch, SequenceTheorems, TLAPS

Sent(p) == p.req \in 1 .. Len(sent)
IsHead(p) == p.part = "head"

(* A head is followed by its tail; reads take it apart only later.         *)
HeadsHaveTails ==
    /\ \A i \in DOMAIN stream : Sent(stream[i])
    /\ \A i \in DOMAIN stream : IsHead(stream[i]) =>
          /\ i + 1 \in DOMAIN stream
          /\ stream[i + 1] = TailOf(stream[i].req)

(* What dequeue returns begins with a part of a request that was sent.     *)
PiecesBegin == \A i \in DOMAIN queue : queue[i] # <<>> /\ Sent(queue[i][1])

(* Heads in stream and queue, and what was accepted, are in the order sent. *)
InOrder ==
    /\ \A i, j \in DOMAIN stream :
          i < j /\ IsHead(stream[i]) /\ IsHead(stream[j]) => stream[i].req < stream[j].req
    /\ \A i, j \in DOMAIN queue :
          i < j /\ IsHead(queue[i][1]) /\ IsHead(queue[j][1]) => queue[i][1].req < queue[j][1].req
    /\ \A i \in DOMAIN queue : \A j \in DOMAIN stream :
          IsHead(queue[i][1]) /\ IsHead(stream[j]) => queue[i][1].req < stream[j].req
    /\ \A i, j \in DOMAIN accepted : i < j => accepted[i] < accepted[j]
    /\ \A i \in DOMAIN accepted : \A j \in DOMAIN queue :
          IsHead(queue[j][1]) => accepted[i] < queue[j][1].req
    /\ \A i \in DOMAIN accepted : \A j \in DOMAIN stream :
          IsHead(stream[j]) => accepted[i] < stream[j].req

(* Requests accepted whose search in the table is over.                    *)
Done == IF epc = "scan" THEN Len(accepted) - 1 ELSE Len(accepted)

(* The event thread is at the request it accepted last.                    *)
AtLast ==
    /\ \A i \in DOMAIN accepted : accepted[i] <= Len(sent)
    /\ epc # "idle" => accepted # <<>> /\ Current = accepted[Len(accepted)]

(* The place in the table of the sign of each frame, 0 for one nobody      *)
(* registered, and what ServedPrefix says in terms of it.                  *)
Place == [f \in Frames |-> IF \E p \in DOMAIN Table : Table[p].sign = Sign[f]
                           THEN CHOOSE p \in DOMAIN Table : Table[p].sign = Sign[f]
                           ELSE 0]
PlaceOf(i) == Place[sent[accepted[i]]]
Fits(i) ==
    /\ \A j \in 1 .. i : PlaceOf(j) # 0
    /\ \A j, k \in 1 .. i : j < k => PlaceOf(j) <= PlaceOf(k)

Searched ==
    /\ \A n \in DOMAIN handled : \E i \in 1 .. Done : handled[n] = accepted[i]
    /\ \A i \in 1 .. Done : accepted[i] \in ToSet(handled) <=> Fits(i)
    /\ Fits(Done) => start = IF Done = 0 THEN 1 ELSE PlaceOf(Done)
    /\ ~Fits(Done) => start = End
    /\ \A i, j \in DOMAIN handled : i < j => handled[i] < handled[j]

(* The wave file of a request that is answered now is on the server.       *)
Earned == epc = "respond" => Current \in uploaded

IInv ==
    /\ TypeOK
    /\ HeadsHaveTails /\ PiecesBegin /\ InOrder
    /\ AtLast /\ Searched
    /\ WholeFramesAccepted
    /\ Earned /\ AnswersAreEarned
-----------------------------------------------------------------------------
(* A read takes k parts from the front of the stream.                      *)
LEMMA ReadTakes ==
    ASSUME NEW S, NEW s \in Seq(S), NEW k \in 1 .. Len(s)
    PROVE  /\ SubSeq(s, 1, k) \in Seq(S) /\ Len(SubSeq(s, 1, k)) = k
           /\ \A i \in 1 .. k : SubSeq(s, 1, k)[i] = s[i]
           /\ SubSeq(s, k + 1, Len(s)) \in Seq(S)
           /\ Len(SubSeq(s, k + 1, Len(s))) = Len(s) - k
           /\ \A i \in 1 .. Len(s) - k : SubSeq(s, k + 1, Len(s))[i] = s[i + k]
<1>1. Len(s) \in Nat /\ k \in Int /\ 1 \in Int /\ k + 1 \in Int /\ Len(s) \in Int
  BY LenProperties
<1>2. /\ \A i \in 1 .. k : s[i] \in S
      /\ \A i \in k + 1 .. Len(s) : s[i] \in S
  BY <1>1, ElementOfSeq
<1>3. /\ SubSeq(s, 1, k) \in Seq(S) /\ Len(SubSeq(s, 1, k)) = k
      /\ \A i \in 1 .. k : SubSeq(s, 1, k)[i] = s[i]
  <2>1. /\ SubSeq(s, 1, k) \in Seq(S)
        /\ Len(SubSeq(s, 1, k)) = IF 1 <= k THEN k - 1 + 1 ELSE 0
        /\ \A i \in 1 .. k - 1 + 1 : SubSeq(s, 1, k)[i] = s[1 + i - 1]
    BY <1>1, <1>2, SubSeqProperties
  <2> QED
    BY <1>1, <2>1
<1>4. /\ SubSeq(s, k + 1, Len(s)) \in Seq(S)
      /\ Len(SubSeq(s, k + 1, Len(s))) = Len(s) - k
      /\ \A i \in 1 .. Len(s) - k : SubSeq(s, k + 1, Len(s))[i] = s[i + k]
  <2>1. /\ SubSeq(s, k + 1, Len(s)) \in Seq(S)
        /\ Len(SubSeq(s, k + 1, Len(s))) = IF k + 1 <= Len(s) THEN Len(s) - (k + 1) + 1 ELSE 0
        /\ \A i \in 1 .. Len(s) - (k + 1) + 1 : SubSeq(s, k + 1, Len(s))[i] = s[k + 1 + i - 1]
    BY <1>1, <1>2, SubSeqProperties
  <2> QED
    BY <1>1, <2>1
<1> QED
  BY <1>3, <1>4

(* What the sequences hold.                                                *)
LEMMA Contents ==
    ASSUME TypeOK
    PROVE  /\ DOMAIN stream = 1 .. Len(stream) /\ Len(stream) \in Nat
           /\ \A i \in DOMAIN stream : stream[i] \in Parts
           /\ DOMAIN queue = 1 .. Len(queue) /\ Len(queue) \in Nat
           /\ \A i \in DOMAIN queue : queue[i] \in Seq(Parts)
           /\ DOMAIN accepted = 1 .. Len(accepted) /\ Len(accepted) \in Nat
           /\ \A i \in DOMAIN accepted : accepted[i] \in 1 .. MaxSent
           /\ DOMAIN handled = 1 .. Len(handled) /\ Len(handled) \in Nat
           /\ DOMAIN sent = 1 .. Len(sent) /\ Len(sent) \in Nat
           /\ \A i \in DOMAIN sent : sent[i] \in Frames
<1> USE DEF TypeOK
<1>1. /\ stream \in Seq(Parts) /\ queue \in Seq(Seq(Parts)) /\ sent \in Seq(Frames)
      /\ accepted \in Seq(1 .. MaxSent) /\ handled \in Seq(1 .. MaxSent)
  OBVIOUS
<1> QED
  BY <1>1, LenProperties, ElementOfSeq

-----------------------------------------------------------------------------
(* The table of handlers *)

(* No sign is registered twice.                                            *)
LEMMA SignsDiffer ==
    /\ DOMAIN Table = 1 .. 12 /\ Len(Table) = 12 /\ End = 13
    /\ \A p, q \in DOMAIN Table : Table[p].sign = Table[q].sign => p = q
<1>1. DOMAIN Table = 1 .. 12 /\ Len(Table) = 12
  BY DEF Table
<1>2. /\ Table[1].sign = 174 /\ Table[2].sign = 145 /\ Table[3].sign = 114
      /\ Table[4].sign = 89 /\ Table[5].sign = 130 /\ Table[6].sign = 132
      /\ Table[7].sign = 135 /\ Table[8].sign = 147 /\ Table[9].sign = 156
      /\ Table[10].sign = 158 /\ Table[11].sign = 108 /\ Table[12].sign = 110
  BY DEF Table
<1>3. \A p \in 1 .. 12 : \/ p = 1 \/ p = 2 \/ p = 3 \/ p = 4 \/ p = 5 \/ p = 6
                         \/ p = 7 \/ p = 8 \/ p = 9 \/ p = 10 \/ p = 11 \/ p = 12
  OBVIOUS
<1>4. \A p, q \in 1 .. 12 : Table[p].sign = Table[q].sign => p = q
  BY <1>2, <1>3
<1> QED
  BY <1>1, <1>4 DEF End

(* So there is one place at most for each.                                 *)
LEMMA OnePlace ==
    ASSUME NEW f \in Frames
    PROVE  /\ Place[f] \in 0 .. 12
           /\ \A p \in DOMAIN Table : Table[p].sign = Sign[f] <=> p = Place[f]
<1>1. CASE \E p \in DOMAIN Table : Table[p].sign = Sign[f]
  <2>1. Place[f] = CHOOSE p \in DOMAIN Table : Table[p].sign = Sign[f]
    BY <1>1 DEF Place
  <2>2. Place[f] \in DOMAIN Table /\ Table[Place[f]].sign = Sign[f]
    BY <1>1, <2>1
  <2> QED
    BY <2>2, SignsDiffer
<1>2. CASE ~\E p \in DOMAIN Table : Table[p].sign = Sign[f]
  BY <1>2, SignsDiffer DEF Place
<1> QED
  BY <1>1, <1>2

(* The least element of a set of one.                                      *)
LEMMA MinOfOne == \A p \in Nat : Min({p}) = p
  BY DEF Min

(* Positions of a request that was sent.                                   *)
LEMMA PositionsAre ==
    ASSUME TypeOK, NEW n \in 1 .. Len(sent)
    PROVE  /\ Positions(n) # {} <=> Place[sent[n]] # 0
           /\ Positions(n) # {} => Min(Positions(n)) = Place[sent[n]]
<1> DEFINE p == Place[sent[n]]
<1>1. sent[n] \in Frames
  BY Contents
<1>2. p \in 0 .. 12 /\ \A q \in DOMAIN Table : Table[q].sign = Sign[sent[n]] <=> q = p
  BY <1>1, OnePlace
<1> HIDE DEF p
<1>3. Positions(n) = {q \in 1 .. 12 : q = p}
  BY <1>2, SignsDiffer DEF Positions, SignOf
<1>4. CASE p = 0
  BY <1>3, <1>4 DEF p
<1>5. CASE p # 0
  <2>1. Positions(n) = {p}
    BY <1>2, <1>3, <1>5
  <2> QED
    BY <1>2, <1>5, <2>1, MinOfOne DEF p
<1> QED
  BY <1>4, <1>5

(* ServedPrefix in terms of places.                                        *)
LEMMA PrefixFits ==
    ASSUME TypeOK, AtLast
    PROVE  \A i \in DOMAIN accepted : ServedPrefix(i) <=> Fits(i)
<1> SUFFICES ASSUME NEW i \in DOMAIN accepted PROVE ServedPrefix(i) <=> Fits(i)
  OBVIOUS
<1>1. \A j \in 1 .. i : accepted[j] \in 1 .. Len(sent)
  BY Contents DEF AtLast
<1>2. \A j \in 1 .. i :
         /\ Positions(accepted[j]) # {} <=> PlaceOf(j) # 0
         /\ Positions(accepted[j]) # {} => Min(Positions(accepted[j])) = PlaceOf(j)
  BY <1>1, PositionsAre DEF PlaceOf
<1> QED
  BY <1>2 DEF ServedPrefix, Fits

(* What the search for the current request finds.                          *)
LEMMA SearchFinds ==
    ASSUME TypeOK, Current \in 1 .. Len(sent)
    PROVE  LET p == Place[sent[Current]] IN
           /\ p \in 0 .. 12 /\ start \in 1 .. 13
           /\ Hits # {} <=> p >= start
           /\ Hits # {} => Min(Hits) = p
<1> DEFINE p == Place[sent[Current]]
<1>1. sent[Current] \in Frames /\ start \in 1 .. 13
  BY Contents, SignsDiffer DEF TypeOK
<1>2. p \in 0 .. 12 /\ \A q \in DOMAIN Table : Table[q].sign = Sign[sent[Current]] <=> q = p
  BY <1>1, OnePlace
<1> HIDE DEF p
<1>3. Hits = {q \in start .. 12 : q = p}
  BY SMTT(60), <1>1, <1>2, SignsDiffer DEF Hits, SignOf
<1>4. Hits # {} <=> p >= start
  BY <1>1, <1>2, <1>3
<1>5. Hits # {} => Hits = {p}
  BY <1>3
<1> QED
  BY <1>1, <1>2, <1>4, <1>5, MinOfOne DEF p

-----------------------------------------------------------------------------
(* What dequeue leaves, and what it puts into the buffer.                  *)
LEMMA Dequeued ==
    ASSUME IInv, queue # <<>>
    PROVE  /\ 1 \in DOMAIN queue /\ Head(queue) = queue[1]
           /\ Tail(queue) \in Seq(Seq(Parts)) /\ Len(Tail(queue)) <= QueueSize
           /\ \A i \in DOMAIN Tail(queue) :
                 i + 1 \in DOMAIN queue /\ i + 1 # 1 /\ i \in Nat /\ Tail(queue)[i] = queue[i + 1]
           /\ \A i \in DOMAIN queue : i = 1 \/ i - 1 \in DOMAIN Tail(queue)
           /\ queue[1][1] \in Parts /\ Sent(queue[1][1])
           /\ Overlaid(queue[1]) \in [1 .. 2 -> Parts \union {Junk}]
           /\ Overlaid(queue[1])[1] = queue[1][1]
<1>1. queue \in Seq(Seq(Parts)) /\ Len(queue) <= QueueSize /\ Len(queue) \in Nat
      /\ QueueSize \in Nat /\ DOMAIN queue = 1 .. Len(queue)
  BY SizeAssumption, LenProperties DEF IInv, TypeOK
<1>2. /\ Tail(queue) \in Seq(Seq(Parts)) /\ Len(Tail(queue)) = Len(queue) - 1
      /\ \A i \in 1 .. Len(Tail(queue)) : Tail(queue)[i] = queue[i + 1]
      /\ Len(queue) \in Nat \ {0}
  BY <1>1, HeadTailProperties, EmptySeq
<1>3. /\ 1 \in DOMAIN queue /\ Head(queue) = queue[1] /\ Len(Tail(queue)) <= QueueSize
      /\ \A i \in DOMAIN Tail(queue) :
            i + 1 \in DOMAIN queue /\ i + 1 # 1 /\ i \in Nat /\ Tail(queue)[i] = queue[i + 1]
      /\ \A i \in DOMAIN queue : i = 1 \/ i - 1 \in DOMAIN Tail(queue)
  <2>1. DOMAIN Tail(queue) = 1 .. Len(queue) - 1
    BY <1>2, LenProperties
  <2> QED
    BY <1>1, <1>2, <2>1
<1>4. queue[1] \in Seq(Parts) /\ queue[1] # <<>> /\ Sent(queue[1][1])
  BY <1>1, <1>3, ElementOfSeq DEF IInv, PiecesBegin
<1>5. Len(queue[1]) \in Nat \ {0} /\ \A i \in 1 .. Len(queue[1]) : queue[1][i] \in Parts
  BY <1>4, EmptySeq, ElementOfSeq
<1>6. buf[2] \in Parts \union {Junk}
  BY DEF IInv, TypeOK
<1>7. /\ Overlaid(queue[1]) \in [1 .. 2 -> Parts \union {Junk}]
      /\ Overlaid(queue[1])[1] = queue[1][1]
  BY <1>5, <1>6 DEF Overlaid
<1> QED
  BY <1>1, <1>2, <1>3, <1>4, <1>5, <1>7

(* Steps that leave the heads and what was accepted where they are, or     *)
(* lose what is in the stream.                                             *)
LEMMA OrderKept ==
    ASSUME IInv, UNCHANGED <<queue, sent, accepted, alone>>,
           stream' = stream \/ stream' = <<>>
    PROVE  HeadsHaveTails' /\ PiecesBegin' /\ InOrder' /\ WholeFramesAccepted'
<1> USE DEF IInv, HeadsHaveTails, PiecesBegin, InOrder, WholeFramesAccepted, Sent, IsHead
<1>1. CASE stream' = stream
  BY <1>1
<1>2. CASE stream' = <<>>
  <2>1. DOMAIN stream' = {}
    BY <1>2
  <2> QED
    BY <2>1
<1> QED
  BY <1>1, <1>2

(* Steps of the event thread after the search in the table, and steps      *)
(* others take meanwhile.                                                  *)
LEMMA SearchKept ==
    ASSUME IInv, UNCHANGED <<buf, sent, accepted, handled, start>>,
           epc' = epc \/ (epc \notin {"idle", "scan"} /\ epc' # "scan")
    PROVE  AtLast' /\ Searched'
<1>1. AtLast'
  BY DEF IInv, AtLast, Current
<1>2. Done' = Done /\ \A i : (Fits(i)' <=> Fits(i)) /\ PlaceOf(i)' = PlaceOf(i)
  BY DEF Done, Fits, PlaceOf
<1>3. Searched'
  BY <1>2 DEF IInv, Searched, ToSet
<1> QED
  BY <1>1, <1>3

-----------------------------------------------------------------------------
(* The connection comes up. *)
LEMMA StepConnect ==
    ASSUME IInv, Connect, UNCHANGED broken
    PROVE  IInv'
<1> USE DEF Connect, thread, history
<1>1. TypeOK'
  BY DEF IInv, TypeOK
<1>2. Earned' /\ AnswersAreEarned'
  BY DEF IInv, Earned, AnswersAreEarned, Current
<1> QED
  BY <1>1, <1>2, OrderKept, SearchKept DEF IInv

(* The connection is lost, and the stream with it. *)
LEMMA StepDisconnect ==
    ASSUME IInv, Disconnect, UNCHANGED broken
    PROVE  IInv'
<1> USE DEF Disconnect, thread, history
<1>1. TypeOK'
  BY EmptySeq DEF IInv, TypeOK
<1>2. Earned' /\ AnswersAreEarned'
  BY DEF IInv, Earned, AnswersAreEarned, Current
<1> QED
  BY <1>1, <1>2, OrderKept, SearchKept DEF IInv

(* The current request is one that was accepted.                           *)
LEMMA CurrentRequest ==
    ASSUME IInv, epc # "idle"
    PROVE  /\ Len(accepted) \in DOMAIN accepted /\ Len(accepted) \in Nat \ {0}
           /\ Current = accepted[Len(accepted)]
           /\ Current \in 1 .. Len(sent) /\ Current \in 1 .. MaxSent
<1>1. accepted # <<>> /\ accepted \in Seq(1 .. MaxSent)
  BY DEF IInv, AtLast, TypeOK
<1>2. Len(accepted) \in Nat \ {0}
  BY <1>1, EmptySeq
<1> QED
  BY <1>1, <1>2, Contents DEF IInv, AtLast

(* The frame goes to the FKZ9. *)
LEMMA StepPublish ==
    ASSUME IInv, Publish, UNCHANGED broken
    PROVE  IInv'
<1> USE DEF Publish, history
<1>1. TypeOK'
  BY CurrentRequest DEF IInv, TypeOK
<1>2. Earned' /\ AnswersAreEarned'
  BY DEF IInv, Earned, AnswersAreEarned
<1> QED
  BY <1>1, <1>2, OrderKept, SearchKept DEF IInv

(* The wave file comes from the FKZ9, or not. *)
LEMMA StepFetch ==
    ASSUME IInv, Fetch, UNCHANGED broken
    PROVE  IInv'
<1> USE DEF Fetch, history
<1>1. TypeOK'
  BY CurrentRequest, Contents DEF IInv, TypeOK
<1>2. Earned' /\ AnswersAreEarned'
  BY DEF IInv, Earned, AnswersAreEarned
<1> QED
  BY <1>1, <1>2, OrderKept, SearchKept DEF IInv

(* Only an upload that succeeded leads to the response. *)
LEMMA StepUpload ==
    ASSUME IInv, Upload, UNCHANGED broken
    PROVE  IInv'
<1> USE DEF Upload
<1>1. TypeOK'
  BY CurrentRequest DEF IInv, TypeOK
<1>2. Earned' /\ AnswersAreEarned'
  BY DEF IInv, Earned, AnswersAreEarned, Current
<1> QED
  BY <1>1, <1>2, OrderKept, SearchKept DEF IInv

(* The response is that of an upload that succeeded. *)
LEMMA StepRespond ==
    ASSUME IInv, Respond, UNCHANGED broken
    PROVE  IInv'
<1> USE DEF Respond, history
<1>1. TypeOK'
  BY CurrentRequest DEF IInv, TypeOK
<1>2. Earned' /\ AnswersAreEarned'
  BY DEF IInv, Earned, AnswersAreEarned
<1> QED
  BY <1>1, <1>2, OrderKept, SearchKept DEF IInv

(* Requests that were accepted keep their places in the table.             *)
LEMMA PlacesKept ==
    ASSUME IInv,
           \A i \in DOMAIN sent : sent'[i] = sent[i],
           \A i \in DOMAIN accepted : accepted'[i] = accepted[i]
    PROVE  /\ \A i \in 1 .. Len(accepted) : PlaceOf(i)' = PlaceOf(i)
           /\ \A i \in 0 .. Len(accepted) : Fits(i)' <=> Fits(i)
<1>1. \A i \in 1 .. Len(accepted) : accepted[i] \in DOMAIN sent
  BY Contents DEF IInv, AtLast
<1>2. \A i \in 1 .. Len(accepted) : PlaceOf(i)' = PlaceOf(i)
  BY <1>1, Contents DEF PlaceOf, IInv
<1>3. ASSUME NEW i \in 0 .. Len(accepted)
      PROVE  Fits(i)' <=> Fits(i)
  <2>1. \A j \in 1 .. i : j \in 1 .. Len(accepted)
    BY Contents DEF IInv
  <2> QED
    BY <1>2, <2>1 DEF Fits
<1> QED
  BY <1>2, <1>3

(* A frame sent last is behind all others.                                 *)
LEMMA StepCloudSends ==
    ASSUME IInv, NEW f \in Frames, CloudSends(f), UNCHANGED broken
    PROVE  IInv'
<1> DEFINE n == Len(sent) + 1
           L == Len(stream)
<1>1. /\ sent' \in Seq(Frames) /\ Len(sent') = n /\ n \in 1 .. MaxSent
      /\ \A i \in DOMAIN sent : sent'[i] = sent[i]
      /\ L \in Nat /\ n \in Nat /\ DOMAIN stream = 1 .. L
  <2>1. sent \in Seq(Frames) /\ Len(sent) < MaxSent /\ sent' = Append(sent, f)
    BY DEF IInv, TypeOK, CloudSends
  <2>2. DOMAIN sent = 1 .. Len(sent) /\ Len(sent) \in Nat /\ L \in Nat /\ DOMAIN stream = 1 .. L
    BY Contents DEF IInv
  <2> QED
    BY <2>1, <2>2, AppendProperties, SizeAssumption
<1>2. /\ stream' \in Seq(Parts) /\ Len(stream') = L + 2
      /\ \A i \in 1 .. L : stream'[i] = stream[i]
      /\ stream'[L + 1] = HeadOf(n) /\ stream'[L + 2] = TailOf(n)
  <2>1. <<HeadOf(n), TailOf(n)>> \in Seq(Parts) /\ stream \in Seq(Parts)
    BY <1>1 DEF Parts, HeadOf, TailOf, IInv, TypeOK
  <2>2. stream' = stream \o <<HeadOf(n), TailOf(n)>>
    BY <1>1 DEF CloudSends
  <2> HIDE DEF n
  <2> QED
    BY <1>1, <2>1, <2>2
<1>3. DOMAIN stream' = 1 .. L + 2
  BY <1>2, LenProperties
<1> HIDE DEF L, n
<1>4. TypeOK'
  BY <1>1, <1>2 DEF IInv, TypeOK, CloudSends, thread
<1>5. \A i \in DOMAIN stream' :
         \/ i \in 1 .. L /\ i \in DOMAIN stream /\ stream'[i] = stream[i]
         \/ i = L + 1 /\ stream'[i].req = n /\ IsHead(stream'[i])
         \/ i = L + 2 /\ stream'[i].req = n /\ ~IsHead(stream'[i])
  BY <1>1, <1>2, <1>3 DEF HeadOf, TailOf, IsHead
<1>6. /\ \A p : Sent(p) => Sent(p)' /\ p.req < n
      /\ \A p : p.req = n => Sent(p)'
  BY <1>1 DEF Sent, n
<1>7. HeadsHaveTails'
  <2>1. \A i \in DOMAIN stream' : stream'[i].req \in 1 .. Len(sent')
    <3>1. \A i \in DOMAIN stream : stream[i].req \in 1 .. Len(sent')
      BY <1>6 DEF IInv, HeadsHaveTails, Sent
    <3> QED
      BY <1>1, <1>5, <3>1
  <2>2. ASSUME NEW i \in DOMAIN stream', IsHead(stream'[i])
        PROVE  i + 1 \in DOMAIN stream' /\ stream'[i + 1] = TailOf(stream'[i].req)
    <3>1. CASE i \in 1 .. L /\ stream'[i] = stream[i]
      <4>1. i + 1 \in DOMAIN stream /\ stream[i + 1] = TailOf(stream[i].req)
        BY <1>1, <2>2, <3>1 DEF IInv, HeadsHaveTails
      <4> QED
        BY <1>1, <1>2, <1>3, <3>1, <4>1
    <3>2. CASE i = L + 1 /\ stream'[i].req = n
      BY <1>1, <1>2, <1>3, <3>2
    <3> QED
      BY <1>5, <2>2, <3>1, <3>2
  <2> QED
    BY <2>1, <2>2 DEF HeadsHaveTails, IsHead, Sent
<1>8. UNCHANGED <<queue, accepted, alone, handled, buf, epc, start, uploaded, tx>>
  BY DEF CloudSends, thread
<1>9. PiecesBegin'
  BY <1>6, <1>8 DEF IInv, PiecesBegin, Sent
<1>10. InOrder'
  <2>1. \A i, j \in DOMAIN stream' :
           i < j /\ IsHead(stream'[i]) /\ IsHead(stream'[j]) => stream'[i].req < stream'[j].req
    <3>1. \A i \in 1 .. L : i \in DOMAIN stream /\ stream[i].req < n
      BY <1>1, <1>6 DEF IInv, HeadsHaveTails
    <3> QED
      BY <1>1, <1>5, <3>1 DEF IInv, InOrder
  <2>2. \A i \in DOMAIN queue : queue[i][1].req < n
    BY <1>6 DEF IInv, PiecesBegin
  <2>3. \A i \in DOMAIN queue : \A j \in DOMAIN stream' :
           IsHead(queue[i][1]) /\ IsHead(stream'[j]) => queue[i][1].req < stream'[j].req
    BY <1>5, <2>2 DEF IInv, InOrder
  <2>4. \A i \in DOMAIN accepted : accepted[i] < n
    BY <1>1, Contents DEF n, IInv, AtLast
  <2>5. \A i \in DOMAIN accepted : \A j \in DOMAIN stream' :
           IsHead(stream'[j]) => accepted[i] < stream'[j].req
    BY <1>5, <2>4 DEF IInv, InOrder
  <2> QED
    BY <1>8, <2>1, <2>3, <2>5 DEF IInv, InOrder, IsHead
<1>11. AtLast'
  BY <1>1, <1>8, Contents DEF n, IInv, AtLast, Current
<1>12. Searched'
  <2>1. /\ \A i \in 1 .. Len(accepted) : PlaceOf(i)' = PlaceOf(i)
        /\ \A i \in 0 .. Len(accepted) : Fits(i)' <=> Fits(i)
    BY <1>1, <1>8, PlacesKept
  <2>2. Done' = Done /\ Done \in 0 .. Len(accepted)
    <3>1. epc # "idle" => Len(accepted) \in Nat \ {0}
      BY CurrentRequest
    <3> QED
      BY <1>8, <3>1, Contents DEF Done, IInv
  <2>3. /\ Fits(Done)' <=> Fits(Done)
        /\ Done # 0 => PlaceOf(Done)' = PlaceOf(Done)
        /\ \A i \in 1 .. Done : Fits(i)' <=> Fits(i)
    <3>1. (Done # 0 => Done \in 1 .. Len(accepted)) /\ \A i \in 1 .. Done : i \in 0 .. Len(accepted)
      BY <2>2, Contents DEF IInv
    <3>2. Fits(Done)' <=> Fits(Done)
      BY <2>1, <2>2 DEF Fits, PlaceOf
    <3>3. Done # 0 => PlaceOf(Done)' = PlaceOf(Done)
      BY <2>1, <2>2, <3>1 DEF PlaceOf
    <3> QED
      BY <2>1, <3>1, <3>2, <3>3
  <2> QED
    BY <1>8, <2>2, <2>3 DEF IInv, Searched, ToSet
<1>13. WholeFramesAccepted' /\ Earned' /\ AnswersAreEarned'
  BY <1>8 DEF IInv, WholeFramesAccepted, Earned, AnswersAreEarned, Current
<1> QED
  BY <1>4, <1>7, <1>9, <1>10, <1>11, <1>12, <1>13 DEF IInv

(* A read takes parts off the front of the stream, and the piece they make *)
(* is queued last or dropped.                                              *)
LEMMA StepReceive ==
    ASSUME IInv, Receive, UNCHANGED broken
    PROVE  IInv'
<1> DEFINE L == Len(stream)
           Q == Len(queue)
<1>1. PICK k \in 1 .. MaxRead :
        /\ k <= Len(stream)
        /\ stream' = SubSeq(stream, k + 1, Len(stream))
        /\ LET piece == SubSeq(stream, 1, k) IN
             IF Len(queue) < QueueSize
             THEN /\ k <= SlotParts
                  /\ queue' = Append(queue, piece)
                  /\ alone' = IF IsWhole(piece) THEN alone \union {piece[1].req} ELSE alone
             ELSE UNCHANGED <<queue, alone>>
        /\ UNCHANGED <<link, thread, fkz9, tx, sent, accepted, handled, uploaded>>
  BY DEF Receive
<1> DEFINE piece == SubSeq(stream, 1, k)
<1>2. /\ stream \in Seq(Parts) /\ queue \in Seq(Seq(Parts)) /\ k \in Nat /\ k >= 1
      /\ L \in Nat /\ Q \in Nat /\ DOMAIN stream = 1 .. L /\ DOMAIN queue = 1 .. Q
      /\ k \in 1 .. L /\ QueueSize \in Nat
  BY <1>1, Contents, SizeAssumption DEF IInv, TypeOK
<1>3. /\ piece \in Seq(Parts) /\ Len(piece) = k
      /\ \A i \in 1 .. k : piece[i] = stream[i]
      /\ stream' \in Seq(Parts) /\ Len(stream') = L - k
      /\ \A i \in 1 .. L - k : stream'[i] = stream[i + k]
  <2>1. stream \in Seq(Parts) /\ k \in 1 .. Len(stream)
    BY <1>2
  <2>2. stream' = SubSeq(stream, k + 1, Len(stream))
    BY <1>1
  <2> QED
    BY <2>1, <2>2, ReadTakes
<1>4. /\ DOMAIN stream' = 1 .. L - k /\ piece # <<>> /\ piece[1] = stream[1]
      /\ \A i \in DOMAIN stream' : /\ i + k \in DOMAIN stream /\ 1 < i + k
                                   /\ stream'[i] = stream[i + k]
  <2>1. DOMAIN stream' = 1 .. L - k
    <3>1. stream' \in Seq(Parts) /\ Len(stream') = L - k
      BY <1>3
    <3> QED
      BY <3>1, LenProperties
  <2>2. piece # <<>> /\ piece[1] = stream[1]
    <3>1. /\ piece \in Seq(Parts) /\ Len(piece) = k /\ k >= 1 /\ k \in Nat
          /\ \A i \in 1 .. k : piece[i] = stream[i]
      BY <1>2, <1>3
    <3> HIDE DEF piece
    <3> QED
      BY <3>1, EmptySeq
  <2>3. \A i \in 1 .. L - k : i + k \in 1 .. L /\ 1 < i + k
    BY <1>2
  <2>4. /\ \A i \in 1 .. L - k : stream'[i] = stream[i + k]
        /\ DOMAIN stream = 1 .. L
    BY <1>2, <1>3
  <2> HIDE DEF L, piece
  <2> QED
    BY <2>1, <2>2, <2>3, <2>4
<1>5. UNCHANGED <<sent, accepted, handled, buf, epc, start, uploaded, tx, link, files, fkz9>>
  BY <1>1 DEF thread
<1>6. \/ /\ Q < QueueSize
         /\ queue' = Append(queue, piece)
         /\ alone' = IF IsWhole(piece) THEN alone \union {piece[1].req} ELSE alone
      \/ UNCHANGED <<queue, alone>>
  BY <1>1
<1> HIDE DEF L, Q, piece
<1>7. Q < QueueSize /\ queue' = Append(queue, piece) =>
         /\ queue' \in Seq(Seq(Parts)) /\ Len(queue') = Q + 1 /\ DOMAIN queue' = 1 .. Q + 1
         /\ \A i \in DOMAIN queue : i \in DOMAIN queue' /\ queue'[i] = queue[i]
         /\ \A i \in DOMAIN queue' : i \in DOMAIN queue \/ i = Q + 1
         /\ queue'[Q + 1] = piece
  <2> SUFFICES ASSUME queue' = Append(queue, piece)
               PROVE  /\ queue' \in Seq(Seq(Parts)) /\ Len(queue') = Q + 1
                      /\ DOMAIN queue' = 1 .. Q + 1
                      /\ \A i \in DOMAIN queue : i \in DOMAIN queue' /\ queue'[i] = queue[i]
                      /\ \A i \in DOMAIN queue' : i \in DOMAIN queue \/ i = Q + 1
                      /\ queue'[Q + 1] = piece
    OBVIOUS
  <2>1. /\ queue' \in Seq(Seq(Parts)) /\ Len(queue') = Len(queue) + 1
        /\ \A i \in 1 .. Len(queue) : queue'[i] = queue[i]
        /\ queue'[Len(queue) + 1] = piece
    BY <1>2, <1>3, AppendProperties
  <2>2. DOMAIN queue' = 1 .. Q + 1
    BY <2>1, LenProperties DEF Q
  <2> QED
    BY <1>2, <2>1, <2>2 DEF Q
<1>8. 1 \in DOMAIN stream /\ stream[1] \in Parts /\ Sent(stream[1])
  BY <1>2, Contents DEF IInv, HeadsHaveTails
<1>9. IsWhole(piece) => piece = <<HeadOf(piece[1].req), TailOf(piece[1].req)>>
  <2> SUFFICES ASSUME IsWhole(piece)
               PROVE  piece = <<HeadOf(piece[1].req), TailOf(piece[1].req)>>
    OBVIOUS
  <2>1. k = 2 /\ IsHead(stream[1])
    BY <1>3, <1>4 DEF IsWhole, IsHead
  <2>2. stream[2] = TailOf(stream[1].req)
    BY <1>8, <2>1 DEF IInv, HeadsHaveTails
  <2>3. stream[1] = HeadOf(stream[1].req)
    BY <1>8, <2>1 DEF Parts, HeadOf, IsHead
  <2>4. piece[2] = stream[2] /\ piece \in Seq(Parts) /\ Len(piece) = 2
    BY <1>3, <2>1
  <2> QED
    BY <1>4, <2>2, <2>3, <2>4
<1>10. TypeOK'
  <2>1. queue' \in Seq(Seq(Parts)) /\ Len(queue') <= QueueSize
    <3>1. Len(queue) = Q /\ Q <= QueueSize
      BY DEF IInv, TypeOK, Q
    <3> QED
      BY <1>2, <1>6, <1>7, <3>1
  <2>2. alone' \subseteq 1 .. MaxSent
    <3>1. alone \subseteq 1 .. MaxSent
      BY DEF IInv, TypeOK
    <3>2. piece[1].req \in 1 .. MaxSent
      BY <1>4, <1>8 DEF Parts
    <3> HIDE DEF IInv
    <3> QED
      BY <1>6, <3>1, <3>2
  <2> QED
    BY <1>3, <1>5, <2>1, <2>2 DEF IInv, TypeOK
<1>11. HeadsHaveTails'
  <2>1. \A i \in DOMAIN stream' : stream'[i].req \in 1 .. Len(sent)
    BY <1>4 DEF IInv, HeadsHaveTails, Sent
  <2>2. ASSUME NEW i \in DOMAIN stream', IsHead(stream'[i])
        PROVE  i + 1 \in DOMAIN stream' /\ stream'[i + 1] = TailOf(stream'[i].req)
    <3>1. /\ i + k \in DOMAIN stream /\ IsHead(stream[i + k]) /\ i \in Nat
          /\ stream'[i] = stream[i + k]
      BY <1>2, <1>4, <2>2
    <3>2. i + k + 1 \in DOMAIN stream /\ stream[i + k + 1] = TailOf(stream[i + k].req)
      BY <3>1 DEF IInv, HeadsHaveTails
    <3>3. i + 1 \in DOMAIN stream' /\ (i + 1) + k = i + k + 1
      BY <1>2, <1>4, <3>1, <3>2
    <3>4. stream'[i + 1] = stream[(i + 1) + k]
      BY <1>4, <3>3
    <3> QED
      BY <3>1, <3>2, <3>3, <3>4
  <2> QED
    BY <1>5, <2>1, <2>2 DEF HeadsHaveTails, IsHead, Sent
<1>12. PiecesBegin'
  BY <1>4, <1>5, <1>6, <1>7, <1>8 DEF IInv, PiecesBegin, Sent
<1>13. InOrder'
  <2>1. \A i, j \in DOMAIN stream' :
           i < j /\ IsHead(stream'[i]) /\ IsHead(stream'[j]) => stream'[i].req < stream'[j].req
    <3>1. \A i, j \in DOMAIN stream' : i < j => i + k < j + k
      BY <1>2, <1>4
    <3> QED
      BY <1>4, <3>1 DEF IInv, InOrder
  <2>2. \A j \in DOMAIN stream' :
           IsHead(stream[1]) /\ IsHead(stream'[j]) => stream[1].req < stream'[j].req
    BY <1>4, <1>8 DEF IInv, InOrder
  <2>3. /\ \A i \in DOMAIN queue : \A j \in DOMAIN stream' :
              IsHead(queue[i][1]) /\ IsHead(stream'[j]) => queue[i][1].req < stream'[j].req
        /\ \A i \in DOMAIN accepted : \A j \in DOMAIN stream' :
              IsHead(stream'[j]) => accepted[i] < stream'[j].req
        /\ \A i \in DOMAIN queue :
              IsHead(queue[i][1]) /\ IsHead(stream[1]) => queue[i][1].req < stream[1].req
        /\ \A i \in DOMAIN accepted : IsHead(stream[1]) => accepted[i] < stream[1].req
    BY <1>4, <1>8 DEF IInv, InOrder
  <2>4. CASE UNCHANGED <<queue, alone>>
    BY <1>5, <2>1, <2>3, <2>4 DEF IInv, InOrder, IsHead
  <2>5. CASE Q < QueueSize /\ queue' = Append(queue, piece)
    <3>1. \A i, j \in DOMAIN queue' :
             i < j /\ IsHead(queue'[i][1]) /\ IsHead(queue'[j][1])
             => queue'[i][1].req < queue'[j][1].req
      <4>1. \A i \in DOMAIN queue' : i <= Q + 1 /\ i \in Nat
        BY <1>2, <1>7, <2>5
      <4>2. \A i \in DOMAIN queue' :
               \/ i \in DOMAIN queue /\ queue'[i] = queue[i]
               \/ i = Q + 1 /\ queue'[i][1] = stream[1]
        BY <1>4, <1>7, <2>5
      <4>3. \A i, j \in DOMAIN queue' : i < j => i # Q + 1
        BY <1>2, <4>1
      <4>4. \A i, j \in DOMAIN queue :
               i < j /\ IsHead(queue[i][1]) /\ IsHead(queue[j][1])
               => queue[i][1].req < queue[j][1].req
        BY DEF IInv, InOrder
      <4> HIDE DEF IInv
      <4> QED
        BY <2>3, <4>2, <4>3, <4>4
    <3>2. \A i \in DOMAIN queue' : \A j \in DOMAIN stream' :
             IsHead(queue'[i][1]) /\ IsHead(stream'[j]) => queue'[i][1].req < stream'[j].req
      <4>1. \A i \in DOMAIN queue' :
               \/ i \in DOMAIN queue /\ queue'[i] = queue[i]
               \/ i = Q + 1 /\ queue'[i][1] = stream[1]
        BY <1>4, <1>7, <2>5
      <4> QED
        BY <2>2, <2>3, <4>1
    <3>3. \A i \in DOMAIN accepted : \A j \in DOMAIN queue' :
             IsHead(queue'[j][1]) => accepted[i] < queue'[j][1].req
      BY <1>4, <1>7, <2>3, <2>5 DEF IInv, InOrder
    <3>4. \A i, j \in DOMAIN accepted : i < j => accepted[i] < accepted[j]
      BY DEF IInv, InOrder
    <3> QED
      BY <1>5, <2>1, <2>3, <3>1, <3>2, <3>3, <3>4 DEF InOrder, IsHead
  <2> QED
    BY <1>6, <2>4, <2>5
<1>14. AtLast' /\ Searched'
  BY <1>5, SearchKept
<1>15. WholeFramesAccepted'
  <2>1. CASE UNCHANGED <<queue, alone>>
    BY <1>5, <2>1 DEF IInv, WholeFramesAccepted
  <2>2. CASE /\ Q < QueueSize
             /\ queue' = Append(queue, piece)
             /\ alone' = IF IsWhole(piece) THEN alone \union {piece[1].req} ELSE alone
    <3>1. ASSUME NEW n \in alone'
          PROVE  n \in ToSet(accepted) \/ \E i \in DOMAIN queue' : queue'[i] = <<HeadOf(n), TailOf(n)>>
      <4>1. CASE n \in alone
        BY <1>7, <2>2, <4>1 DEF IInv, WholeFramesAccepted
      <4>2. CASE n \notin alone
        <5>1. IsWhole(piece) /\ n = piece[1].req
          BY <2>2, <3>1, <4>2
        <5>2. Q + 1 \in DOMAIN queue' /\ queue'[Q + 1] = piece
          BY <1>2, <1>7, <2>2
        <5> QED
          BY <1>9, <5>1, <5>2
      <4> QED
        BY <4>1, <4>2
    <3> QED
      BY <1>5, <3>1 DEF WholeFramesAccepted, ToSet
  <2> QED
    BY <1>6, <2>1, <2>2
<1>16. Earned' /\ AnswersAreEarned'
  BY <1>5 DEF IInv, Earned, AnswersAreEarned, Current
<1> QED
  BY <1>10, <1>11, <1>12, <1>13, <1>14, <1>15, <1>16 DEF IInv

(* Taking a piece off event_queue leaves the rest in order.                *)
LEMMA RestInOrder ==
    ASSUME IInv, queue # <<>>, queue' = Tail(queue), UNCHANGED <<stream, sent>>
    PROVE  /\ HeadsHaveTails' /\ PiecesBegin'
           /\ \A i, j \in DOMAIN queue' :
                 i < j /\ IsHead(queue'[i][1]) /\ IsHead(queue'[j][1])
                 => queue'[i][1].req < queue'[j][1].req
           /\ \A i \in DOMAIN queue' : \A j \in DOMAIN stream :
                 IsHead(queue'[i][1]) /\ IsHead(stream[j]) => queue'[i][1].req < stream[j].req
           /\ \A i \in DOMAIN accepted : \A j \in DOMAIN queue' :
                 IsHead(queue'[j][1]) => accepted[i] < queue'[j][1].req
           /\ IsHead(queue[1][1]) =>
                 \A j \in DOMAIN queue' :
                    IsHead(queue'[j][1]) => queue[1][1].req < queue'[j][1].req
<1>1. /\ 1 \in DOMAIN queue
      /\ \A i \in DOMAIN queue' : /\ i + 1 \in DOMAIN queue /\ i + 1 # 1 /\ i \in Nat
                                  /\ queue'[i] = queue[i + 1]
  BY Dequeued
<1>2. \A i, j \in DOMAIN queue' : 1 < i + 1 /\ (i < j => i + 1 < j + 1)
  BY <1>1
<1>3. HeadsHaveTails'
  BY DEF IInv, HeadsHaveTails, Sent, IsHead
<1>4. PiecesBegin'
  BY <1>1 DEF IInv, PiecesBegin, Sent
<1> QED
  BY <1>1, <1>2, <1>3, <1>4 DEF IInv, InOrder

(* A piece that is not a frame, with what the buffer holds, is forgotten.  *)
LEMMA StepReject ==
    ASSUME IInv, Reject, UNCHANGED broken
    PROVE  IInv'
<1>1. /\ epc = "idle" /\ queue # <<>> /\ queue' = Tail(queue)
      /\ ~IsFrame(Overlaid(Head(queue))) /\ buf' = Overlaid(Head(queue))
      /\ UNCHANGED <<link, stream, epc, start, files, fkz9, tx>>
      /\ UNCHANGED <<sent, alone, accepted, handled, uploaded>>
  BY DEF Reject, history
<1>2. TypeOK'
  BY <1>1, Dequeued DEF IInv, TypeOK
<1>3. HeadsHaveTails' /\ PiecesBegin' /\ InOrder'
  BY <1>1, RestInOrder DEF IInv, InOrder, IsHead
<1>4. AtLast'
  BY <1>1 DEF IInv, AtLast
<1>5. Searched'
  <2>1. Done' = Done /\ \A i : (Fits(i)' <=> Fits(i)) /\ PlaceOf(i)' = PlaceOf(i)
    BY <1>1 DEF Done, Fits, PlaceOf
  <2> QED
    BY <1>1, <2>1 DEF IInv, Searched, ToSet
<1>6. WholeFramesAccepted'
  <2>1. ASSUME NEW n \in alone, NEW i \in DOMAIN queue, queue[i] = <<HeadOf(n), TailOf(n)>>
        PROVE  \E j \in DOMAIN queue' : queue'[j] = <<HeadOf(n), TailOf(n)>>
    <3>1. i # 1
      <4>1. ASSUME queue[1] = <<HeadOf(n), TailOf(n)>> PROVE IsFrame(Overlaid(Head(queue)))
        BY <1>1, <4>1, Dequeued DEF IsFrame, Overlaid, HeadOf, TailOf
      <4> QED
        BY <1>1, <2>1, <4>1
    <3>2. i - 1 \in DOMAIN queue' /\ i \in Nat
      BY <1>1, <3>1, Dequeued, Contents DEF IInv
    <3>3. queue'[i - 1] = queue[(i - 1) + 1] /\ (i - 1) + 1 = i
      BY <1>1, <3>2, Dequeued
    <3> QED
      BY <2>1, <3>2, <3>3
  <2> QED
    BY <1>1, <2>1 DEF IInv, WholeFramesAccepted, ToSet
<1>7. Earned' /\ AnswersAreEarned'
  BY <1>1 DEF IInv, Earned, AnswersAreEarned
<1> QED
  BY <1>2, <1>3, <1>4, <1>5, <1>6, <1>7 DEF IInv

(* A frame that is accepted was sent after all that were accepted.         *)
LEMMA StepAccept ==
    ASSUME IInv, Accept, UNCHANGED broken
    PROVE  IInv'
<1> DEFINE q == queue[1][1].req
           A == Len(accepted)
<1>1. /\ epc = "idle" /\ epc' = "scan" /\ queue # <<>> /\ queue' = Tail(queue)
      /\ IsFrame(Overlaid(queue[1])) /\ buf' = Overlaid(queue[1])
      /\ accepted' = Append(accepted, q)
      /\ UNCHANGED <<link, stream, start, files, fkz9, tx, sent, alone, handled, uploaded>>
  BY Dequeued DEF Accept
<1>2. /\ IsHead(queue[1][1]) /\ q \in 1 .. Len(sent) /\ q \in 1 .. MaxSent /\ buf'[1].req = q
      /\ 1 \in DOMAIN queue
  BY <1>1, Dequeued DEF IsFrame, IsHead, Sent, Parts
<1>3. /\ accepted' \in Seq(1 .. MaxSent) /\ Len(accepted') = A + 1 /\ A \in Nat
      /\ DOMAIN accepted = 1 .. A /\ DOMAIN accepted' = 1 .. A + 1
      /\ \A i \in DOMAIN accepted : i \in DOMAIN accepted' /\ accepted'[i] = accepted[i]
      /\ A + 1 \in DOMAIN accepted' /\ accepted'[A + 1] = q
      /\ \A i \in DOMAIN accepted' : i \in DOMAIN accepted \/ i = A + 1
  <2>1. accepted \in Seq(1 .. MaxSent) /\ q \in 1 .. MaxSent
    BY <1>2 DEF IInv, TypeOK
  <2> HIDE DEF q
  <2>2. /\ accepted' \in Seq(1 .. MaxSent) /\ Len(accepted') = A + 1 /\ A \in Nat
        /\ \A i \in 1 .. A : accepted'[i] = accepted[i]
        /\ accepted'[A + 1] = q
    BY <1>1, <2>1, AppendProperties, LenProperties
  <2>3. DOMAIN accepted = 1 .. A /\ DOMAIN accepted' = 1 .. A + 1
    BY <2>1, <2>2, LenProperties
  <2> QED
    BY <2>2, <2>3
<1> HIDE DEF q, A
<1>4. TypeOK'
  BY <1>1, <1>3, Dequeued DEF IInv, TypeOK
<1>5. /\ \A i \in DOMAIN accepted : accepted[i] < q
      /\ \A j \in DOMAIN stream : IsHead(stream[j]) => q < stream[j].req
      /\ \A j \in DOMAIN queue' : IsHead(queue'[j][1]) => q < queue'[j][1].req
  BY <1>1, <1>2, RestInOrder DEF IInv, InOrder, q
<1>6. HeadsHaveTails' /\ PiecesBegin' /\ InOrder'
  <2>1. \A i, j \in DOMAIN accepted' : i < j => accepted'[i] < accepted'[j]
    <3>1. \A i, j \in DOMAIN accepted' : i < j => i \in DOMAIN accepted
      BY <1>3
    <3> QED
      BY <1>3, <1>5, <3>1 DEF IInv, InOrder
  <2>2. /\ \A i \in DOMAIN accepted' : \A j \in DOMAIN queue' :
              IsHead(queue'[j][1]) => accepted'[i] < queue'[j][1].req
        /\ \A i \in DOMAIN accepted' : \A j \in DOMAIN stream :
              IsHead(stream[j]) => accepted'[i] < stream[j].req
    BY <1>1, <1>3, <1>5, RestInOrder DEF IInv, InOrder
  <2> QED
    BY <1>1, <2>1, <2>2, RestInOrder DEF IInv, InOrder, IsHead
<1>7. AtLast'
  <2>1. accepted' # <<>>
    BY <1>3, EmptySeq
  <2>2. \A i \in DOMAIN accepted' : accepted'[i] <= Len(sent')
    BY <1>1, <1>2, <1>3 DEF IInv, AtLast
  <2> QED
    BY <1>2, <1>3, <2>1, <2>2 DEF AtLast, Current
<1>8. Searched'
  <2>1. Done' = A /\ Done = A
    BY <1>1, <1>3 DEF Done, A
  <2>2. /\ \A i \in 1 .. A : PlaceOf(i)' = PlaceOf(i)
        /\ \A i \in 0 .. A : Fits(i)' <=> Fits(i)
    BY <1>1, <1>3, PlacesKept DEF A
  <2>3. /\ Fits(Done)' <=> Fits(Done)
        /\ Done # 0 => PlaceOf(Done)' = PlaceOf(Done)
    BY <1>3, <2>1, <2>2 DEF Fits, PlaceOf
  <2>4. \A i \in 1 .. A : accepted'[i] = accepted[i]
    BY <1>3
  <2>5. \A i \in 1 .. A : i \in 0 .. A
    BY <1>3
  <2>6. /\ \A n \in DOMAIN handled : \E i \in 1 .. A : handled[n] = accepted[i]
        /\ \A i \in 1 .. A : accepted[i] \in ToSet(handled) <=> Fits(i)
        /\ \A i, j \in DOMAIN handled : i < j => handled[i] < handled[j]
    BY <2>1 DEF IInv, Searched
  <2>7. /\ Fits(Done) => start = IF Done = 0 THEN 1 ELSE PlaceOf(Done)
        /\ ~Fits(Done) => start = End
    BY DEF IInv, Searched
  <2>8. handled' = handled /\ start' = start
    BY <1>1
  <2>9. \A n \in DOMAIN handled' : \E i \in 1 .. Done' : handled'[n] = accepted'[i]
    BY <2>1, <2>4, <2>6, <2>8
  <2>10. \A i \in 1 .. Done' : accepted'[i] \in ToSet(handled)' <=> Fits(i)'
    BY <2>1, <2>2, <2>4, <2>5, <2>6, <2>8 DEF ToSet
  <2>11. /\ Fits(Done)' => start' = IF Done' = 0 THEN 1 ELSE PlaceOf(Done)'
         /\ ~Fits(Done)' => start' = End
    BY <2>1, <2>3, <2>7, <2>8
  <2>12. \A i, j \in DOMAIN handled' : i < j => handled'[i] < handled'[j]
    BY <2>6, <2>8
  <2> QED
    BY <2>9, <2>10, <2>11, <2>12 DEF Searched
<1>9. WholeFramesAccepted'
  <2>1. ASSUME NEW n \in alone, NEW i \in DOMAIN queue, queue[i] = <<HeadOf(n), TailOf(n)>>
        PROVE  \/ n \in ToSet(accepted')
               \/ \E j \in DOMAIN queue' : queue'[j] = <<HeadOf(n), TailOf(n)>>
    <3>1. CASE i = 1
      <4>1. queue[1][1] = HeadOf(n)
        BY <2>1, <3>1
      <4>2. q = n
        BY <4>1 DEF HeadOf, q
      <4> QED
        BY <1>3, <4>2 DEF ToSet
    <3>2. CASE i # 1
      <4>1. i - 1 \in DOMAIN queue' /\ i \in Nat
        BY <1>1, <3>2, Dequeued, Contents DEF IInv
      <4>2. queue'[i - 1] = queue[(i - 1) + 1] /\ (i - 1) + 1 = i
        BY <1>1, <4>1, Dequeued
      <4> QED
        BY <2>1, <4>1, <4>2
    <3> QED
      BY <3>1, <3>2
  <2>2. ToSet(accepted) \subseteq ToSet(accepted')
    BY <1>3 DEF ToSet
  <2> QED
    BY <1>1, <2>1, <2>2 DEF IInv, WholeFramesAccepted
<1>10. Earned' /\ AnswersAreEarned'
  BY <1>1 DEF IInv, Earned, AnswersAreEarned
<1> QED
  BY <1>4, <1>6, <1>7, <1>8, <1>9, <1>10 DEF IInv

(* The places of what was accepted.                                        *)
LEMMA PlacesAre ==
    ASSUME IInv
    PROVE  \A i \in 1 .. Len(accepted) : PlaceOf(i) \in 0 .. 12
<1> SUFFICES ASSUME NEW i \in 1 .. Len(accepted)
             PROVE  PlaceOf(i) \in 0 .. 12
  OBVIOUS
<1>1. accepted[i] \in 1 .. Len(sent)
  BY Contents DEF IInv, AtLast
<1>2. sent[accepted[i]] \in Frames
  BY <1>1, Contents DEF IInv
<1> QED
  BY <1>2, OnePlace DEF PlaceOf

(* The search serves the current request exactly if it comes after all     *)
(* requests before it in the table, and none of them failed.               *)
LEMMA SearchDecides ==
    ASSUME IInv, epc = "scan"
    PROVE  /\ Done = Len(accepted) - 1 /\ Done \in 0 .. Len(accepted)
           /\ Hits # {} <=> Fits(Len(accepted))
           /\ Hits # {} => /\ Min(Hits) = PlaceOf(Len(accepted))
                           /\ PlaceOf(Len(accepted)) \in 1 .. 12
           /\ \A i \in 1 .. Done : accepted[i] < Current
<1> DEFINE A == Len(accepted)
           p == PlaceOf(A)
<1>1. /\ A \in Nat \ {0} /\ A \in DOMAIN accepted /\ Current = accepted[A]
      /\ Current \in 1 .. Len(sent) /\ DOMAIN accepted = 1 .. A
  BY CurrentRequest, Contents DEF IInv
<1>2. Done = A - 1 /\ Done \in 0 .. A
  BY <1>1 DEF Done
<1>3. /\ p \in 0 .. 12 /\ start \in 1 .. 13
      /\ Hits # {} <=> p >= start
      /\ Hits # {} => Min(Hits) = p
  BY <1>1, SearchFinds DEF IInv, PlaceOf
<1>4. \A i \in 1 .. A : PlaceOf(i) \in 0 .. 12
  BY PlacesAre
<1>5. /\ Fits(Done) => start = IF Done = 0 THEN 1 ELSE PlaceOf(Done)
      /\ ~Fits(Done) => start = 13
  BY SignsDiffer DEF IInv, Searched
<1> HIDE DEF A
<1>6. p >= start <=> Fits(A)
  <2>1. ASSUME p >= start PROVE Fits(A)
    <3>1. Fits(Done) /\ start = IF Done = 0 THEN 1 ELSE PlaceOf(Done)
      BY <1>3, <1>5, <2>1
    <3>2. ASSUME NEW j \in 1 .. A PROVE PlaceOf(j) # 0 /\ PlaceOf(j) <= p
      <4>1. CASE j = A
        BY <1>1, <1>3, <2>1, <4>1
      <4>2. CASE j # A
        <5>1. j \in 1 .. Done /\ Done \in 1 .. Done /\ Done # 0 /\ j <= Done
          BY <1>1, <1>2, <4>2
        <5>2. PlaceOf(j) # 0 /\ PlaceOf(j) <= PlaceOf(Done)
          <6>1. j < Done \/ j = Done
            BY <1>2, <5>1
          <6> QED
            BY <1>1, <1>2, <1>4, <3>1, <5>1, <6>1 DEF Fits
        <5>3. PlaceOf(Done) = start /\ start <= p
          BY <1>3, <2>1, <3>1, <5>1
        <5>4. PlaceOf(j) \in 0 .. 12
          BY <1>4
        <5> QED
          BY <1>3, <5>2, <5>3, <5>4
      <4> QED
        BY <4>1, <4>2
    <3>3. ASSUME NEW j \in 1 .. A, NEW k \in 1 .. A, j < k PROVE PlaceOf(j) <= PlaceOf(k)
      <4>1. CASE k = A
        BY <3>2, <4>1
      <4>2. CASE k # A
        <5>1. j \in 1 .. Done /\ k \in 1 .. Done
          BY <1>1, <1>2, <3>3, <4>2
        <5> QED
          BY <3>1, <3>3, <5>1 DEF Fits
      <4> QED
        BY <4>1, <4>2
    <3> QED
      BY <3>2, <3>3 DEF Fits
  <2>2. ASSUME Fits(A) PROVE p >= start
    <3>1. A \in 1 .. A /\ \A j \in 1 .. Done : j \in 1 .. A /\ j < A
      BY <1>1, <1>2
    <3>2. Fits(Done)
      BY <2>2, <3>1 DEF Fits
    <3>3. p # 0
      BY <2>2, <3>1 DEF Fits
    <3>4. CASE Done = 0
      BY <1>3, <1>5, <3>2, <3>3, <3>4
    <3>5. CASE Done # 0
      <4>1. Done \in 1 .. A /\ Done < A
        BY <1>1, <1>2, <3>5
      <4>2. PlaceOf(Done) <= p
        BY <2>2, <3>1, <4>1 DEF Fits
      <4>3. start = PlaceOf(Done)
        BY <1>5, <3>2, <3>5
      <4> QED
        BY <1>3, <4>2, <4>3
    <3> QED
      BY <3>4, <3>5
  <2> QED
    BY <2>1, <2>2
<1>7. \A i \in 1 .. Done : accepted[i] < Current
  <2>1. \A i \in 1 .. Done : i \in DOMAIN accepted /\ i < A
    BY <1>1, <1>2
  <2> QED
    BY <1>1, <2>1 DEF IInv, InOrder
<1> QED
  BY <1>2, <1>3, <1>6, <1>7 DEF A

(* The search finds the entry of the request, which is behind all that     *)
(* were served.                                                            *)
LEMMA StepMatch ==
    ASSUME IInv, Match, UNCHANGED broken
    PROVE  IInv'
<1> DEFINE A == Len(accepted)
           H == Len(handled)
<1>1. /\ epc = "scan" /\ Hits # {} /\ start' = Min(Hits)
      /\ epc' \in {"fetch", "publish"}
      /\ handled' = Append(handled, Current)
      /\ UNCHANGED <<link, stream, queue, buf, files, fkz9, tx, sent, alone, accepted, uploaded>>
  BY DEF Match
<1>2. /\ A \in Nat \ {0} /\ A \in DOMAIN accepted /\ Current = accepted[A]
      /\ Current \in 1 .. MaxSent /\ DOMAIN accepted = 1 .. A
  BY <1>1, CurrentRequest, Contents DEF IInv
<1>3. /\ Done = A - 1 /\ Done \in 0 .. A /\ Done' = A
      /\ Fits(A) /\ start' = PlaceOf(A) /\ PlaceOf(A) \in 1 .. 12
      /\ \A i \in 1 .. Done : accepted[i] < Current
  BY <1>1, SearchDecides DEF Done
<1>4. /\ handled' \in Seq(1 .. MaxSent) /\ H \in Nat
      /\ DOMAIN handled = 1 .. H /\ DOMAIN handled' = 1 .. H + 1
      /\ \A i \in 1 .. H : handled'[i] = handled[i]
      /\ handled'[H + 1] = Current
  <2>1. handled \in Seq(1 .. MaxSent)
    BY DEF IInv, TypeOK
  <2>2. /\ handled' \in Seq(1 .. MaxSent) /\ Len(handled') = H + 1 /\ H \in Nat
        /\ \A i \in 1 .. H : handled'[i] = handled[i]
        /\ handled'[H + 1] = Current
    BY <1>1, <1>2, <2>1, AppendProperties, LenProperties
  <2> QED
    BY <2>1, <2>2, LenProperties
<1> HIDE DEF A, H
<1>5. TypeOK'
  BY SMTT(60), <1>1, <1>3, <1>4, SignsDiffer DEF IInv, TypeOK
<1>6. HeadsHaveTails' /\ PiecesBegin' /\ InOrder' /\ WholeFramesAccepted'
  BY <1>1, OrderKept
<1>7. AtLast'
  BY <1>1 DEF IInv, AtLast, Current
<1>8. Searched'
  <2>1. \A i : (Fits(i)' <=> Fits(i)) /\ PlaceOf(i)' = PlaceOf(i)
    BY <1>1 DEF Fits, PlaceOf
  <2>2. /\ \A n \in 1 .. H : \E i \in 1 .. Done : handled[n] = accepted[i]
        /\ \A i \in 1 .. Done : accepted[i] \in ToSet(handled) <=> Fits(i)
        /\ \A i, j \in 1 .. H : i < j => handled[i] < handled[j]
    BY <1>4 DEF IInv, Searched
  <2>3. \A i \in 1 .. A : i \in 1 .. Done \/ i = A
    BY <1>2, <1>3
  <2>4. 1 .. Done \subseteq 1 .. A /\ A \in 1 .. A /\ H + 1 \in 1 .. H + 1
        /\ \A n \in 1 .. H + 1 : n \in 1 .. H \/ n = H + 1
    BY <1>2, <1>3, <1>4
  <2>5. \A n \in 1 .. H + 1 : \E i \in 1 .. A : handled'[n] = accepted[i]
    BY <1>2, <1>4, <2>2, <2>4
  <2>6. \A x : x \in ToSet(handled') <=> x \in ToSet(handled) \/ x = Current
    BY <1>4, <2>4 DEF ToSet
  <2>7. \A i \in 1 .. A : accepted[i] \in ToSet(handled') <=> Fits(i)
    <3>1. \A i \in 1 .. Done : accepted[i] # Current
      BY <1>2, <1>3, <2>4
    <3> QED
      BY <1>2, <1>3, <2>2, <2>3, <2>6, <3>1
  <2>8. \A i, j \in 1 .. H + 1 : i < j => handled'[i] < handled'[j]
    <3>1. \A i, j \in 1 .. H + 1 : i < j => i \in 1 .. H
      BY <1>4
    <3>2. \A i \in 1 .. H : handled[i] < Current
      BY <1>3, <2>2
    <3> QED
      BY <1>4, <2>2, <2>4, <3>1, <3>2
  <2>9. /\ Fits(Done)' <=> Fits(A)
        /\ PlaceOf(Done)' = PlaceOf(A)
    BY <1>1, <1>3 DEF Fits, PlaceOf
  <2>10. /\ \A n \in DOMAIN handled' : \E i \in 1 .. Done' : handled'[n] = accepted'[i]
         /\ \A i, j \in DOMAIN handled' : i < j => handled'[i] < handled'[j]
    BY <1>1, <1>3, <1>4, <2>5, <2>8
  <2>11. \A i \in 1 .. Done' : accepted'[i] \in ToSet(handled)' <=> Fits(i)'
    BY <1>1, <1>3, <2>1, <2>7 DEF ToSet
  <2>12. /\ Fits(Done)' => start' = IF Done' = 0 THEN 1 ELSE PlaceOf(Done)'
         /\ ~Fits(Done)' => start' = End
    BY <1>2, <1>3, <2>9
  <2> QED
    BY <2>10, <2>11, <2>12 DEF Searched
<1>9. Earned' /\ AnswersAreEarned'
  BY <1>1 DEF IInv, Earned, AnswersAreEarned
<1> QED
  BY <1>5, <1>6, <1>7, <1>8, <1>9 DEF IInv

(* The search runs to the end of the table, where it stays.                *)
LEMMA StepNoMatch ==
    ASSUME IInv, NoMatch, UNCHANGED broken
    PROVE  IInv'
<1> DEFINE A == Len(accepted)
<1>1. /\ epc = "scan" /\ Hits = {} /\ start' = End /\ epc' = "idle"
      /\ UNCHANGED <<link, stream, queue, buf, files, fkz9, tx>>
      /\ UNCHANGED <<sent, alone, accepted, handled, uploaded>>
  BY DEF NoMatch, history
<1>2. A \in Nat \ {0} /\ Current = accepted[A]
  BY <1>1, CurrentRequest
<1>3. /\ Done = A - 1 /\ Done \in 0 .. A /\ Done' = A /\ ~Fits(A)
      /\ \A i \in 1 .. Done : accepted[i] < Current
  BY <1>1, SearchDecides DEF Done
<1> HIDE DEF A
<1>4. TypeOK'
  <2>1. start' \in 1 .. End /\ TypeOK
    BY <1>1, SignsDiffer DEF IInv
  <2> QED
    BY <1>1, <2>1 DEF TypeOK
<1>5. HeadsHaveTails' /\ PiecesBegin' /\ InOrder' /\ WholeFramesAccepted'
  BY <1>1, OrderKept
<1>6. AtLast'
  BY <1>1 DEF IInv, AtLast, Current
<1>7. Searched'
  <2>1. \A i : Fits(i)' <=> Fits(i)
    BY <1>1 DEF Fits, PlaceOf
  <2>2. /\ \A n \in DOMAIN handled : \E i \in 1 .. Done : handled[n] = accepted[i]
        /\ \A i \in 1 .. Done : accepted[i] \in ToSet(handled) <=> Fits(i)
        /\ \A i, j \in DOMAIN handled : i < j => handled[i] < handled[j]
    BY DEF IInv, Searched
  <2>3. 1 .. Done \subseteq 1 .. A /\ \A i \in 1 .. A : i \in 1 .. Done \/ i = A
    BY <1>2, <1>3
  <2>4. accepted[A] \notin ToSet(handled)
    <3>1. \A i \in 1 .. Done : accepted[i] # accepted[A]
      <4>1. \A i \in 1 .. Done : accepted[i] \in Nat
        <5>1. DOMAIN accepted = 1 .. A /\ \A i \in DOMAIN accepted : accepted[i] \in 1 .. MaxSent
          BY Contents DEF A, IInv
        <5> QED
          BY <2>3, <5>1
      <4> QED
        BY <1>2, <1>3, <4>1
    <3> QED
      BY <2>2, <3>1 DEF ToSet
  <2>5. \A i \in 1 .. A : accepted[i] \in ToSet(handled) <=> Fits(i)
    BY <1>3, <2>2, <2>3, <2>4
  <2>6. ~Fits(Done)'
    BY <1>1, <1>3 DEF Fits, PlaceOf
  <2>7. \A n \in DOMAIN handled' : \E i \in 1 .. Done' : handled'[n] = accepted'[i]
    BY <1>1, <1>3, <2>2, <2>3
  <2>8. \A i \in 1 .. Done' : accepted'[i] \in ToSet(handled)' <=> Fits(i)'
    BY <1>1, <1>3, <2>1, <2>5 DEF ToSet
  <2>9. \A i, j \in DOMAIN handled' : i < j => handled'[i] < handled'[j]
    BY <1>1, <2>2
  <2> QED
    BY <1>1, <2>6, <2>7, <2>8, <2>9 DEF Searched
<1>8. Earned' /\ AnswersAreEarned'
  BY <1>1 DEF IInv, Earned, AnswersAreEarned
<1> QED
  BY <1>4, <1>5, <1>6, <1>7, <1>8 DEF IInv

-----------------------------------------------------------------------------
(* Nothing was sent yet. *)
LEMMA InitInvariant ==
    ASSUME Init
    PROVE  IInv
<1>1. \A S : <<>> \in Seq(S) /\ Len(<<>>) = 0 /\ DOMAIN <<>> = {}
  BY EmptySeq
<1>2. /\ stream = <<>> /\ queue = <<>> /\ accepted = <<>> /\ handled = <<>> /\ sent = <<>>
      /\ alone = {} /\ uploaded = {} /\ tx = {} /\ fkz9 = {} /\ files = {}
      /\ epc = "idle" /\ start = 1 /\ link = FALSE /\ buf = <<Junk, Junk>> /\ broken = "no"
  BY DEF Init
<1>3. TypeOK
  <2>1. start \in 1 .. End
    BY <1>2, SignsDiffer
  <2>2. buf \in [1 .. 2 -> Parts \union {Junk}]
    BY <1>2
  <2>3. /\ stream \in Seq(Parts) /\ queue \in Seq(Seq(Parts)) /\ sent \in Seq(Frames)
        /\ accepted \in Seq(1 .. MaxSent) /\ handled \in Seq(1 .. MaxSent)
    BY <1>1, <1>2
  <2>4. Len(queue) = 0 /\ Len(sent) = 0
    BY <1>1, <1>2
  <2>5. Len(queue) <= QueueSize /\ Len(sent) <= MaxSent
    BY <2>4, SizeAssumption
  <2> QED
    BY <1>2, <2>1, <2>2, <2>3, <2>5 DEF TypeOK
<1>4. HeadsHaveTails /\ PiecesBegin /\ InOrder /\ AtLast /\ WholeFramesAccepted
  BY <1>1, <1>2 DEF HeadsHaveTails, PiecesBegin, InOrder, AtLast, WholeFramesAccepted
<1>5. Searched
  <2>1. Done = 0
    BY <1>1, <1>2 DEF Done
  <2>2. Fits(Done)
    BY <2>1 DEF Fits
  <2> QED
    BY <1>1, <1>2, <2>1, <2>2 DEF Searched
<1>6. Earned /\ AnswersAreEarned
  BY <1>2 DEF Earned, AnswersAreEarned
<1> QED
  BY <1>3, <1>4, <1>5, <1>6 DEF IInv

(* Nothing moves in a step that breaks the program, nor in a stutter.      *)
LEMMA NothingMoves ==
    ASSUME IInv, UNCHANGED <<link, stream, queue, thread, fkz9, tx, history>>,
           broken' \in {"no", "slot", "length", "read"}
    PROVE  IInv'
<1>1. UNCHANGED <<link, stream, queue, epc, buf, start, files, fkz9, tx>>
      /\ UNCHANGED <<sent, alone, accepted, handled, uploaded>>
  BY DEF thread, history
<1>2. TypeOK'
  <2>1. /\ broken' \in {"no", "slot", "length", "read"} /\ TypeOK
    BY DEF IInv
  <2> QED
    BY <1>1, <2>1 DEF TypeOK
<1>3. Earned' /\ AnswersAreEarned'
  BY <1>1 DEF IInv, Earned, AnswersAreEarned, Current
<1> QED
  BY <1>1, <1>2, <1>3, OrderKept, SearchKept DEF IInv

(* Every step of the specification. *)
LEMMA StepInvariant ==
    ASSUME IInv, [Next]_vars
    PROVE  IInv'
<1>1. CASE UNCHANGED vars
  <2>1. UNCHANGED <<link, stream, queue, thread, fkz9, tx, history>> /\ broken' = broken
    BY <1>1 DEF vars
  <2>2. broken \in {"no", "slot", "length", "read"}
    BY DEF IInv, TypeOK
  <2> QED
    BY <2>1, <2>2, NothingMoves
<1>2. CASE Handling /\ UNCHANGED broken
  BY <1>2, StepReject, StepAccept, StepMatch, StepNoMatch, StepPublish, StepFetch,
     StepUpload, StepRespond DEF Handling
<1>3. CASE Arriving /\ UNCHANGED broken
  BY <1>3, StepConnect, StepDisconnect, StepReceive, StepCloudSends DEF Arriving
<1>4. CASE Overrun \/ Misread \/ FetchReadsPast
  BY <1>4, NothingMoves DEF Overrun, Misread, FetchReadsPast
<1> QED
  BY <1>1, <1>2, <1>3, <1>4 DEF Next, EventStep

(* The inductive invariant holds in every state. *)
THEOREM Invariant == Spec => []IInv
<1>1. Init => IInv
  BY InitInvariant
<1>2. IInv /\ [Next]_vars => IInv'
  BY StepInvariant
<1> QED
  BY <1>1, <1>2, PTL DEF Spec

(* Type correctness, for any frames, signs and sizes. *)
THEOREM TypeCorrect == Spec => []TypeOK
<1>1. IInv => TypeOK
  BY DEF IInv
<1> QED
  BY <1>1, Invariant, PTL

(* A request that a read returned alone, and event_queue had room for, is  *)
(* never lost (proc_message_cb, cloud_event_task_entry).                   *)
THEOREM WholeFramesKept == Spec => []WholeFramesAccepted
<1>1. IInv => WholeFramesAccepted
  BY DEF IInv
<1> QED
  BY <1>1, Invariant, PTL

(* Requests are served in the order sent and once at most: those up to the *)
(* first one that the search in the table, which starts where the last one *)
(* ended, does not find (cloud_event_task_entry).                          *)
THEOREM ServesInOrder == Spec => []ServesOrderedPrefix
<1>1. ASSUME IInv PROVE ServesOrderedPrefix
  <2>1. \A i, j \in DOMAIN handled : i < j => handled[i] < handled[j]
    BY <1>1 DEF IInv, Searched
  <2>2. ASSUME epc = "idle", NEW i \in DOMAIN accepted
        PROVE  accepted[i] \in ToSet(handled) <=> ServedPrefix(i)
    <3>1. Done = Len(accepted) /\ i \in 1 .. Done
      BY <1>1, <2>2, Contents DEF Done, IInv
    <3>2. accepted[i] \in ToSet(handled) <=> Fits(i)
      BY <1>1, <3>1 DEF IInv, Searched
    <3> QED
      BY <1>1, <3>2, PrefixFits DEF IInv
  <2> QED
    BY <2>1, <2>2 DEF ServesOrderedPrefix
<1> QED
  BY <1>1, Invariant, PTL

(* The cloud is told that a wave file is there only after its upload       *)
(* succeeded (func_wave_file_req).                                         *)
THEOREM AnswersEarned == Spec => []AnswersAreEarned
<1>1. IInv => AnswersAreEarned
  BY DEF IInv
<1> QED
  BY <1>1, Invariant, PTL
=============================================================================
