-------------------------------- MODULE LaneTo --------------------------------
(***************************************************************************)
(* hal/lane_to.c and nav_data_msg_task_cb of cloud_comm.c: each second the *)
(* timer thread reads what the receiver has sent, over a socket of gpsd or *)
(* else over the serial port, takes the first complete solution out of it  *)
(* into sg_data, and sends sg_data to the cloud, new or not.               *)
(*                                                                         *)
(* The receiver sends, epoch by epoch, a sentence $PBSOL, here in two      *)
(* parts: "P" with the fields up to some point and "F" with the others;    *)
(* then "G", the sentence GNGGA; "other" sentences may come in between.  A *)
(* part is an item <<kind, epoch>>.                                        *)
(***************************************************************************)
EXTENDS SerialPort, FiniteSetsExt

CONSTANTS NavLen,     \* length of buffer[4096]
          LineLen,    \* what the kernel keeps of a line that is not read
          MaxEpoch    \* bound: epochs the receiver sends

ASSUME LaneAssumption == NavLen \in 1 .. MaxCount /\ LineLen \in Nat /\ MaxEpoch \in Nat \ {0}

VARIABLES lpc,       \* "off", "sock", "uart": laneTo_init; "idle"; the tick:
                     \* "reading" the port, "blocked" in read of the socket; "closed"
          via,       \* where data come from
          sock,      \* ctx->sockfd
          running,   \* ctx->running
          emitted,   \* receiver: parts sent so far
          early,     \* sg_data: epoch of the fields in P
          late,      \* sg_data: epoch of the fields in F
          sent       \* the last frame sent to the cloud: <<early, late>>

laneVars == <<lpc, via, sock, running, emitted, early, late, sent>>
sgVars == <<early, late, sent>>

LaneTypeOK ==
    /\ lpc \in {"off", "sock", "uart", "idle", "reading", "blocked", "closed"}
    /\ via \in {"none", "socket", "uart"}
    /\ sock \in {"none", "open", "closed"} /\ running \in BOOLEAN
    /\ emitted \in 0 .. 3 * MaxEpoch
    /\ {early, late, sent[1], sent[2]} \subseteq 0 .. MaxEpoch

LaneInit ==
    /\ lpc \in {"off", "sock"} /\ via = "none" /\ sock = "none" /\ running = FALSE
    /\ emitted \in 0 .. 2
    /\ early = 0 /\ late = 0 /\ sent = <<0, 0>>

-----------------------------------------------------------------------------
(* The receiver *)

Part(n) == << <<"P", "F", "G">>[(n % 3) + 1], (n \div 3) + 1 >>

(* A line that nobody reads loses what comes; a socket makes gpsd wait.    *)
ReceiverSends ==
    /\ via # "none" /\ lpc # "closed" /\ ~hung
    /\ emitted < 3 * MaxEpoch
    /\ Len(line) < LineLen \/ via = "uart"
    /\ emitted' = emitted + 1
    /\ line' = IF Len(line) < LineLen THEN Append(line, Part(emitted)) ELSE line
    /\ UNCHANGED <<port, hung, readVars, buf, lpc, via, sock, running, sgVars>>

(* A sentence the code does not look for.  While one waits to be read      *)
(* another would be read with it.  Over the socket, where one read takes   *)
(* what there is, such sentences change nothing and are left out.          *)
ReceiverTalks ==
    /\ via = "uart" /\ lpc # "closed" /\ ~hung
    /\ emitted < 3 * MaxEpoch /\ emitted % 3 # 1 /\ line = <<>>
    /\ line' = << <<"other", (emitted \div 3) + 1>> >>
    /\ UNCHANGED <<port, hung, readVars, buf, laneVars>>

(* gpsd closes the connection, the receiver is unplugged.                  *)
ReceiverLeaves ==
    /\ via # "none" /\ lpc # "closed" /\ ~hung
    /\ hung' = TRUE
    /\ UNCHANGED <<port, line, readVars, buf, laneVars>>

-----------------------------------------------------------------------------
(* laneTo_init and laneTo_uninit *)

(* init_shm_data_sock *)
ConnectSock ==
    /\ lpc = "sock"
    /\ \/ /\ sock' = "open" /\ via' = "socket" /\ running' = TRUE /\ lpc' = "idle"
       \/ /\ lpc' = "uart" /\ UNCHANGED <<sock, via, running>>
    /\ UNCHANGED <<serialVars, emitted, sgVars>>

(* Nobody looks at what laneTo_init returns: the ticks go on without it.   *)
OpenReceiver ==
    /\ lpc = "uart"
    /\ \E r \in OpenResults :
          /\ OpenPort(r)
          /\ running' = (r = "ok")
          /\ via' = IF r = "ok" THEN "uart" ELSE "none"
    /\ lpc' = "idle"
    /\ UNCHANGED <<lineVars, readVars, buf, sock, emitted, sgVars>>

(* laneTo_uninit does not wait for the timer thread. *)
UninitEarlyBug ==
    /\ lpc \in {"idle", "reading"}
    /\ lpc' = "closed" /\ running' = FALSE
    /\ port' = IF via = "uart" THEN "closed" ELSE port
    /\ sock' = IF sock = "open" THEN "closed" ELSE sock
    /\ UNCHANGED <<lineVars, readVars, buf, via, emitted, sgVars>>

(* laneTo_uninit, when the timer thread has been joined.                   *)
Uninit ==
    /\ lpc = "idle"
    /\ lpc' = "closed" /\ running' = FALSE
    /\ port' = IF via = "uart" THEN "closed" ELSE port
    /\ sock' = IF sock = "open" THEN "closed" ELSE sock
    /\ UNCHANGED <<lineVars, readVars, buf, via, emitted, sgVars>>

-----------------------------------------------------------------------------
(* nav_data_msg_task_cb *)

Places(b, kind) == {i \in DOMAIN b : b[i][1] = kind}

(* sg_data is cleared before each tick. *)
ParseClearsBug(b) ==
    LET start == Min(Places(b, "P"))
        end == Min(Places(b, "G"))
        ps == {i \in Places(b, "P") : i < end}
        whole == {i \in ps : i + 1 < end /\ b[i + 1][1] = "F"}
    IN  IF Places(b, "P") # {} /\ Places(b, "G") # {} /\ end > start
        THEN /\ early' = b[Max(ps)][2]
             /\ late' = IF whole = {} THEN 0 ELSE b[Max(whole) + 1][2]
        ELSE early' = 0 /\ late' = 0

(* strstr of the first PBSOL and of the first GNGGA; if they are in this   *)
(* order, each PBSOL between them is parsed, by sg_data_parse, as far as   *)
(* it goes.  A cut sentence leaves the other fields as they were.          *)
Parse(b) ==
    LET start == Min(Places(b, "P"))
        end == Min(Places(b, "G"))
        ps == {i \in Places(b, "P") : i < end}
        whole == {i \in ps : i + 1 < end /\ b[i + 1][1] = "F"}
    IN  IF Places(b, "P") # {} /\ Places(b, "G") # {} /\ end > start
        THEN /\ early' = b[Max(ps)][2]
             /\ late' = IF whole = {} THEN late ELSE b[Max(whole) + 1][2]
        ELSE UNCHANGED <<early, late>>

(* The frame goes out, whatever is in sg_data. *)
SendFrame == sent' = <<early', late'>> /\ lpc' = "idle"

Tick ==
    /\ lpc = "idle"
    /\ IF ~running
       THEN UNCHANGED <<early, late, readVars, buf>> /\ SendFrame
       ELSE IF via = "uart"
       THEN lpc' = "reading" /\ ReadStart(NavLen, buf) /\ UNCHANGED sgVars
       ELSE lpc' = "blocked" /\ UNCHANGED <<sgVars, readVars, buf>>
    /\ UNCHANGED <<port, lineVars, via, sock, running, emitted>>

(* read of the socket waits for data or for its end. *)
ReadSock ==
    /\ lpc = "blocked" /\ (line # <<>> \/ hung)
    /\ LET n == Least(NavLen, Len(line))
       IN  /\ line' = SubSeq(line, n + 1, Len(line))
           /\ Parse(SubSeq(line, 1, n))
    /\ SendFrame
    /\ UNCHANGED <<port, hung, readVars, buf, via, sock, running, emitted>>

ReadingPort ==
    /\ lpc = "reading" /\ ReadStep
    /\ UNCHANGED laneVars

(* bytes_read > 0; -1 leaves sg_data as it was. *)
ReadPort ==
    /\ lpc = "reading" /\ rpc = "back"
    /\ rpc' = "idle" /\ t' = 0
    /\ IF t # Word - 1 THEN Parse(SubSeq(buf, 1, t)) ELSE UNCHANGED <<early, late>>
    /\ SendFrame
    /\ UNCHANGED <<port, lineVars, count, buf, via, sock, running, emitted>>

LaneProgram == ConnectSock \/ OpenReceiver \/ Tick \/ ReadSock \/ ReadingPort \/ ReadPort
LaneStep == LaneProgram \/ Uninit \/ ReceiverSends \/ ReceiverTalks \/ ReceiverLeaves

-----------------------------------------------------------------------------
(* Properties *)

(* No frame is older than the one before it, in either part, although the  *)
(* read over the serial port writes over its own buffer; and a frame with  *)
(* fields of two epochs comes from a serial line only: over the socket a   *)
(* solution is taken whole or not at all.                                  *)
FramesInOrder ==
    [][ /\ sent'[1] >= sent[1] /\ sent'[2] >= sent[2]
        /\ sent'[1] # sent'[2] => via = "uart" ]_sent

(* A tick returns, so that the thread's other timers run and it can be     *)
(* joined.  Over the serial port one that does not return has a receiver   *)
(* that never falls silent, and is no faster than the loop that takes one  *)
(* from what it has read for each read of nothing (serial.c:68-75).  Over  *)
(* the socket, which is read without a timeout, a tick returns once        *)
(* anything or its end has come (lane_to.c:472).                           *)
TickReturns ==
    /\ <>[](lpc = "reading") => []<>(line # <<>>)
    /\ lpc = "blocked" /\ (line # <<>> \/ hung) ~> lpc = "idle"
=============================================================================
