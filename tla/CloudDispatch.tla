--------------------------- MODULE CloudDispatch ---------------------------
(***************************************************************************)
(* Requests from the cloud: services/cloud_comm.c, proc_message_cb and     *)
(* cloud_event_task_entry, with the handlers they are registered with in   *)
(* cloud_comm.c and fkz9_comm.c.                                           *)
(*                                                                         *)
(* The cloud writes frames on a TCP connection.  The connection's thread   *)
(* queues whatever one read returns, and the event thread takes each       *)
(* queued piece for one frame: it copies it over the start of a buffer     *)
(* that is never cleared, checks header and checksum, looks the sign up in *)
(* the table of handlers and runs the handler.                             *)
(*                                                                         *)
(* A frame is two parts, its head and its tail with the checksum, so that  *)
(* a read may return part of a frame or several frames; the checksum is    *)
(* taken to tell the frames of the model apart.                            *)
(*                                                                         *)
(* Where the code reads or writes past the end of a buffer nothing is      *)
(* known of what follows: the program is broken, and its model stops.      *)
(***************************************************************************)
EXTENDS Naturals, Sequences, FiniteSets, SequencesExt, FiniteSetsExt

CONSTANTS Frames,    \* contents of frames
          Sign,      \* the sign of each of them
          QueueSize, \* frames event_queue can hold (MAX_SEGMENTS - 1)
          SlotParts, \* parts of frames a slot of event_queue holds
          MaxSent,   \* bound: frames the cloud sends
          MaxRead    \* bound: parts of frames one read returns

ASSUME SignAssumption == Sign \in [Frames -> 0 .. 255]
ASSUME SizeAssumption ==
    /\ QueueSize \in Nat \ {0} /\ SlotParts \in Nat
    /\ MaxSent \in Nat /\ MaxRead \in Nat

VARIABLES link,     \* client->is_connected
          stream,   \* parts of frames on their way
          queue,    \* event_queue
          epc,      \* the event thread: where it is
          buf,      \*   the first two parts of its buffer
          start,    \*   its position in the table of handlers
          files,    \* wave files under /upload
          fkz9,     \* requests published to the FKZ9
          tx,       \* requests whose response was given to the connection
          broken    \* what left the bounds of a buffer, or "no"

(* What happened; read by the properties only.  A request is its index in  *)
(* sent.                                                                   *)
VARIABLES sent,      \* the frames the cloud sent
          alone,     \* requests that were queued as a piece of their own
          accepted,  \* requests that passed the checks, in that order
          handled,   \* requests given to a handler, in that order
          uploaded   \* requests whose wave file reached the FTP server

thread == <<epc, buf, start, files>>
history == <<sent, alone, accepted, handled, uploaded>>
vars == <<link, stream, queue, thread, fkz9, tx, broken, history>>

Junk == [part |-> "junk", req |-> 0]
HeadOf(n) == [part |-> "head", req |-> n]
TailOf(n) == [part |-> "tail", req |-> n]
Parts == [part : {"head", "tail"}, req : 1 .. MaxSent]

(* The section message_processing, in the order the linker collects it:    *)
(* cloud_comm.o, then fkz9_comm.o.                                         *)
Table == <<
    [sign |-> 174, entry |-> "wave_file"],
    [sign |-> 145, entry |-> "can"],  [sign |-> 114, entry |-> "conf"],
    [sign |-> 89, entry |-> "conf"],  [sign |-> 130, entry |-> "conf"],
    [sign |-> 132, entry |-> "can"],  [sign |-> 135, entry |-> "can"],
    [sign |-> 147, entry |-> "conf"], [sign |-> 156, entry |-> "can"],
    [sign |-> 158, entry |-> "can"],
    [sign |-> 108, entry |-> "algorithms"], [sign |-> 110, entry |-> "algorithms"] >>

End == Len(Table) + 1

SignOf(n) == Sign[sent[n]]
Current == buf[1].req

Init ==
    /\ link = FALSE
    /\ stream = <<>> /\ queue = <<>>
    /\ epc = "idle"
    /\ buf = <<Junk, Junk>>
    /\ start = 1
    /\ files = {}
    /\ fkz9 = {} /\ tx = {}
    /\ broken = "no"
    /\ sent = <<>> /\ alone = {} /\ accepted = <<>> /\ handled = <<>> /\ uploaded = {}

-----------------------------------------------------------------------------
(* The cloud and the connection *)

Connect ==
    /\ ~link
    /\ link' = TRUE
    /\ UNCHANGED <<stream, queue, thread, fkz9, tx, history>>

(* What was on its way is lost. *)
Disconnect ==
    /\ link
    /\ link' = FALSE
    /\ stream' = <<>>
    /\ UNCHANGED <<queue, thread, fkz9, tx, history>>

CloudSends(f) ==
    /\ link
    /\ Len(sent) < MaxSent
    /\ sent' = Append(sent, f)
    /\ stream' = stream \o <<HeadOf(Len(sent')), TailOf(Len(sent'))>>
    /\ UNCHANGED <<link, queue, thread, fkz9, tx, alone, accepted, handled, uploaded>>

IsWhole(piece) == Len(piece) = 2 /\ piece[1].part = "head"

(* A full queue drops its oldest piece instead of the new one. *)
ReceiveEvictsBug ==
    \E k \in 1 .. MaxRead :
        /\ k <= Len(stream)
        /\ stream' = SubSeq(stream, k + 1, Len(stream))
        /\ LET piece == SubSeq(stream, 1, k)
               room  == IF Len(queue) < QueueSize THEN queue ELSE Tail(queue)
           IN  /\ queue' = Append(room, piece)
               /\ alone' = IF IsWhole(piece) THEN alone \union {piece[1].req} ELSE alone
        /\ UNCHANGED <<link, thread, fkz9, tx, sent, accepted, handled, uploaded>>

(* Nobody looks whether there is a free slot. *)
ReceiveOverrunsBug ==
    \E k \in 1 .. MaxRead :
        /\ k <= Len(stream)
        /\ stream' = SubSeq(stream, k + 1, Len(stream))
        /\ queue' = Append(queue, SubSeq(stream, 1, k))
        /\ UNCHANGED <<link, thread, fkz9, tx, history>>

(* tcp_client_read_cb and proc_message_cb: what one read returns becomes   *)
(* one element of event_queue, or is dropped if that is full.              *)
Receive ==
    \E k \in 1 .. MaxRead :
        /\ k <= Len(stream)
        /\ stream' = SubSeq(stream, k + 1, Len(stream))
        /\ LET piece == SubSeq(stream, 1, k) IN
             IF Len(queue) < QueueSize
             THEN /\ k <= SlotParts
                  /\ queue' = Append(queue, piece)
                  /\ alone' = IF IsWhole(piece) THEN alone \union {piece[1].req} ELSE alone
             ELSE UNCHANGED <<queue, alone>>
        /\ UNCHANGED <<link, thread, fkz9, tx, sent, accepted, handled, uploaded>>

(* A read returns up to 1024 bytes, and enqueue copies them all into a     *)
(* slot of 256.                                                            *)
Overrun ==
    /\ Len(queue) < QueueSize
    /\ \E k \in 1 .. MaxRead : SlotParts < k /\ k <= Len(stream)
    /\ broken' = "slot"
    /\ UNCHANGED <<link, stream, queue, thread, fkz9, tx, history>>

-----------------------------------------------------------------------------
(* The event thread *)

(* dequeue copies the piece over the start of the buffer. *)
Overlaid(piece) ==
    <<piece[1], IF Len(piece) > 1 THEN piece[2] ELSE buf[2]>>

(* The header of a frame, and a checksum that is this frame's. *)
IsFrame(b) ==
    /\ b[1].part = "head"
    /\ b[2].part = "tail"
    /\ sent[b[1].req] = sent[b[2].req]

Reject ==
    /\ epc = "idle" /\ queue # <<>>
    /\ ~IsFrame(Overlaid(Head(queue)))
    /\ queue' = Tail(queue)
    /\ buf' = Overlaid(Head(queue))
    /\ UNCHANGED <<link, stream, epc, start, files, fkz9, tx, history>>

(* The checksum is formed before the header is looked at, over as many     *)
(* bytes as its length says: any number if the piece begins elsewhere.     *)
Misread ==
    /\ epc = "idle" /\ queue # <<>>
    /\ Head(queue)[1].part # "head"
    /\ broken' = "length"
    /\ UNCHANGED <<link, stream, queue, thread, fkz9, tx, history>>

Accept ==
    /\ epc = "idle" /\ queue # <<>>
    /\ IsFrame(Overlaid(Head(queue)))
    /\ queue' = Tail(queue)
    /\ buf' = Overlaid(Head(queue))
    /\ accepted' = Append(accepted, Head(queue)[1].req)
    /\ epc' = "scan"
    /\ UNCHANGED <<link, stream, start, files, fkz9, tx, sent, alone, handled, uploaded>>

(* for (; start != end; start++): the first entry with this sign, from     *)
(* where the last search ended.                                            *)
Hits == {i \in start .. Len(Table) : Table[i].sign = SignOf(Current)}

(* No break after the handler: the search goes on behind the entry. *)
MatchNoBreakBug ==
    /\ epc = "scan" /\ Hits # {}
    /\ start' = Min(Hits) + 1
    /\ epc' = IF Table[Min(Hits)].entry = "wave_file" THEN "fetch" ELSE "publish"
    /\ handled' = Append(handled, Current)
    /\ UNCHANGED <<link, stream, queue, buf, files, fkz9, tx, sent, alone, accepted, uploaded>>

Match ==
    /\ epc = "scan" /\ Hits # {}
    /\ start' = Min(Hits)
    /\ epc' = IF Table[start'].entry = "wave_file" THEN "fetch" ELSE "publish"
    /\ handled' = Append(handled, Current)
    /\ UNCHANGED <<link, stream, queue, buf, files, fkz9, tx, sent, alone, accepted, uploaded>>

(* The search does not move on from an entry that does not match. *)
NoMatchStaysBug ==
    /\ epc = "scan" /\ Hits = {}
    /\ UNCHANGED <<link, stream, queue, epc, buf, start, files, fkz9, tx, history>>

NoMatch ==
    /\ epc = "scan" /\ Hits = {}
    /\ start' = End
    /\ epc' = "idle"
    /\ UNCHANGED <<link, stream, queue, buf, files, fkz9, tx, history>>

(* cloud_to_can_entry, cloud_to_conf_entry, cloud_to_algorithms_entry: the *)
(* frame goes to the FKZ9, if MQTT is connected; there is no response.     *)
(* The MQTT client's lock may never become free (Fkz9Forward).             *)
Publish ==
    /\ epc = "publish"
    /\ \/ epc' = "idle" /\ fkz9' \in {fkz9, fkz9 \union {Current}}
       \/ epc' = "stuck" /\ UNCHANGED fkz9
    /\ UNCHANGED <<link, stream, queue, buf, start, files, tx, history>>

(* func_wave_file_req: ssh to the FKZ9 for the file.  ssh has no timeout,  *)
(* and the loop that reads the file takes an error for data: it may go on  *)
(* for ever, or end and leave a garbled file as if it were the file        *)
(* (SshClient's Download; the contents of files are not followed here), *)
Fetch ==
    /\ epc = "fetch"
    /\ \/ epc' = "upload" /\ files' = files \union {sent[Current]}
       \/ epc' \in {"idle", "stuck"} /\ UNCHANGED files
    /\ UNCHANGED <<link, stream, queue, buf, start, fkz9, tx, history>>

(* or read far past its buffer when it writes that "data" (line 154). *)
FetchReadsPast ==
    /\ epc = "fetch"
    /\ broken' = "read"
    /\ UNCHANGED <<link, stream, queue, thread, fkz9, tx, history>>

(* The result of ftp_upload is ignored. *)
UploadIgnoredBug ==
    /\ epc = "upload"
    /\ epc' = "respond"
    /\ files' = {}
    /\ uploaded' \in {uploaded, uploaded \union {Current}}
    /\ UNCHANGED <<link, stream, queue, buf, start, fkz9, tx, sent, alone, accepted, handled>>

(* ftp_upload, and rm -rf /upload if it succeeded. *)
Upload ==
    /\ epc = "upload"
    /\ \/ /\ epc' = "respond"
          /\ files' = {}
          /\ uploaded' = uploaded \union {Current}
       \/ epc' = "idle" /\ UNCHANGED <<files, uploaded>>
    /\ UNCHANGED <<link, stream, queue, buf, start, fkz9, tx, sent, alone, accepted, handled>>

(* func_wave_file_resp: without a connection, send does nothing. *)
Respond ==
    /\ epc = "respond"
    /\ epc' = "idle"
    /\ tx' = IF link THEN tx \union {Current} ELSE tx
    /\ UNCHANGED <<link, stream, queue, buf, start, files, fkz9, history>>

Handling ==
    \/ Reject \/ Accept \/ Match \/ NoMatch \/ Publish
    \/ Fetch \/ Upload \/ Respond

Arriving ==
    \/ Connect \/ Disconnect \/ Receive
    \/ \E f \in Frames : CloudSends(f)

EventStep ==
    /\ broken = "no"
    /\ \/ Handling /\ UNCHANGED broken
       \/ Misread \/ FetchReadsPast

Next ==
    \/ EventStep
    \/ /\ broken = "no"
       /\ \/ Arriving /\ UNCHANGED broken
          \/ Overrun

Spec == Init /\ [][Next]_vars

(* The event thread spins on dequeue for as long as it runs, and ftp_upload*)
(* returns: libcurl gives up a transfer that stays slow for 20 s.          *)
FairSpec == Spec /\ WF_vars(EventStep)

-----------------------------------------------------------------------------
(* Correctness *)

(* Every variable keeps its shape; the queue never outgrows its slots and  *)
(* start never leaves the table's section.                                 *)
TypeOK ==
    /\ link \in BOOLEAN
    /\ stream \in Seq(Parts)
    /\ queue \in Seq(Seq(Parts)) /\ Len(queue) <= QueueSize
    /\ epc \in {"idle", "scan", "publish", "fetch", "upload", "respond",
               "stuck"}
    /\ buf \in [1 .. 2 -> Parts \union {Junk}]
    /\ start \in 1 .. End
    /\ files \subseteq Frames
    /\ fkz9 \subseteq 1 .. MaxSent /\ tx \subseteq 1 .. MaxSent
    /\ sent \in Seq(Frames) /\ Len(sent) <= MaxSent
    /\ alone \subseteq 1 .. MaxSent /\ uploaded \subseteq 1 .. MaxSent
    /\ accepted \in Seq(1 .. MaxSent) /\ handled \in Seq(1 .. MaxSent)
    /\ broken \in {"no", "slot", "length", "read"}

(* A request that arrived in a read of its own while the queue had room    *)
(* is not lost: it waits in the queue or was accepted.                     *)
WholeFramesAccepted ==
    \A n \in alone :
        \/ n \in ToSet(accepted)
        \/ \E i \in DOMAIN queue : queue[i] = <<HeadOf(n), TailOf(n)>>

Positions(n) == {i \in DOMAIN Table : Table[i].sign = SignOf(n)}

(* However reads cut the stream and whatever an older frame left in the    *)
(* buffer, requests are acted on in the order sent and each at most once:  *)
(* exactly those up to the first one that is unknown or stands in the      *)
(* table before one that was acted on earlier.                             *)
ServedPrefix(i) ==
    /\ \A j \in 1 .. i : Positions(accepted[j]) # {}
    /\ \A j, k \in 1 .. i :
          j < k => Min(Positions(accepted[j])) <= Min(Positions(accepted[k]))
ServesOrderedPrefix ==
    /\ \A i, j \in DOMAIN handled : i < j => handled[i] < handled[j]
    /\ epc = "idle" =>
        \A i \in DOMAIN accepted : accepted[i] \in ToSet(handled) <=> ServedPrefix(i)

(* The cloud is told that a wave file is there only after what was fetched *)
(* for that request was uploaded.                                          *)
AnswersAreEarned == tx \subseteq uploaded

(* No request keeps the event thread from the next one, whatever fails     *)
(* while it is handled, except in one of two ways: it waits for ever, for  *)
(* ssh or for the MQTT client's lock, or the program is broken.            *)
ReturnsToQueue == epc # "idle" ~> epc \in {"idle", "stuck"} \/ broken # "no"

(* "0x91 ..." (fkz9_comm.c:174) and the comments after it say which        *)
(* messages the server sends and the device serves: each of them that      *)
(* arrives intact is given to its handler.                                 *)
RegisteredIsHandled ==
    epc = "idle" =>
        \A n \in ToSet(accepted) : Positions(n) # {} => n \in ToSet(handled)

=============================================================================
