----------------------------- MODULE LifeCycle -----------------------------
(***************************************************************************)
(* How the program starts and stops: main.c with the init and uninit       *)
(* functions of services/cloud_comm.c and services/fkz9_comm.c, the create *)
(* and destroy functions of net/tcp_client.c and net/mqtt_client.c, and    *)
(* what the ten threads do with the contexts these set up and take down.   *)
(*                                                                         *)
(* Every thread but main's is reduced to its life and to its uses of the   *)
(* two global pointers and of the TCP client; what it does otherwise is in *)
(* the other modules.  A use of a null pointer, of the freed client or of  *)
(* its freed bufferevent ends the program.  A call that has no timeout may *)
(* never return: it leaves its thread "blocked".  The timer callbacks that *)
(* use gp_cloud_comm_ctx (after 30 and 60 s) are taken to come after the   *)
(* few statements that set it.                                             *)
(***************************************************************************)
EXTENDS Naturals

CONSTANT MaxRecnt \* max_recnt_att of the TCP client

ASSUME MaxRecntAssumption == MaxRecnt \in Nat

VARIABLES mpc,          \* main's thread: the step it is about to take
          running,      \* cloud ctx->running
          is_running,   \* fkz9 ctx->is_running
          gp            \* which of gp_cloud_comm_ctx, gp_fkz9_comm_ctx are set

VARIABLES thread,       \* the life of each worker thread
          broken,       \* timer threads whose event loop was told to break
          request,      \* a request waits in the cloud's event_queue
          message       \* a message waits in the FKZ9's event_queue

VARIABLES client,       \* the TCP client: none, live, freed
          is_connected,
          conn,         \* its newest connection thread
          send,         \* its newest send thread; "write": it has a frame in its hand
          recnt_att

VARIABLES paho,         \* Paho's receive thread; "batch": it sends a long payload, and
                        \* "blocked": it does so for ever
          is_conn

(* What happened; read by the properties only. *)
VARIABLES disconnected, \* tcp_client_disconnect stopped the connection
          early,        \* the FKZ9's event thread found is_running not yet set
          dead          \* what the program died of using

main == <<mpc, running, is_running, gp>>
work == <<thread, broken, request, message>>
tcp == <<client, is_connected, conn, send, recnt_att>>
mqtt == <<paho, is_conn>>
history == <<disconnected, early, dead>>
vars == <<main, work, tcp, mqtt, history>>

CloudThreads == {"timer", "event", "download"}
Fkz9Threads == {"ftimer", "fevent"}
Threads == CloudThreads \union Fkz9Threads

Init ==
    /\ mpc = "modem" /\ running = FALSE /\ is_running = FALSE /\ gp = {}
    /\ thread = [t \in Threads |-> "none"] /\ broken = {}
    /\ request = FALSE /\ message = FALSE
    /\ client = "none" /\ is_connected = FALSE /\ conn = "none" /\ send = "none"
    /\ recnt_att = 0
    /\ paho = "none" /\ is_conn = FALSE
    /\ disconnected = FALSE /\ early = FALSE /\ dead = "nothing"

Dies(of) ==
    /\ dead' = of
    /\ UNCHANGED <<main, work, tcp, mqtt, disconnected, early>>

-----------------------------------------------------------------------------
(* clound_comm_init *)

(* Without a modem the rest of clound_comm_init is skipped, and main goes  *)
(* on with the FKZ9.                                                       *)
InitModem ==
    /\ mpc = "modem"
    /\ mpc' \in {"create", "mqtt"}
    /\ UNCHANGED <<running, is_running, gp, work, tcp, mqtt, history>>

(* The queue, the lists, tcp_client_create and connect; running is set     *)
(* before any thread that reads it exists.                                 *)
CreateClient ==
    /\ mpc = "create"
    /\ mpc' = "timer"
    /\ running' = TRUE
    /\ client' = "live" /\ conn' = "connecting"
    /\ UNCHANGED <<is_running, gp, work, is_connected, send, recnt_att, mqtt, history>>

(* pthread_create *)
Start(at, t, next) ==
    /\ mpc = at
    /\ mpc' = next
    /\ thread' = [thread EXCEPT ![t] = "start"]
    /\ UNCHANGED <<running, is_running, gp, broken, request, message, tcp, mqtt, history>>

StartCloudThreads ==
    \/ Start("timer", "timer", "event")
    \/ Start("event", "event", "download")
    \/ Start("download", "download", "set_cloud")

SetCloud ==
    /\ mpc = "set_cloud"
    /\ mpc' = "mqtt"
    /\ gp' = gp \union {"cloud"}
    /\ UNCHANGED <<running, is_running, work, tcp, mqtt, history>>

-----------------------------------------------------------------------------
(* fkz9_comm_init *)

(* mqtt_client_create, whose failure ends the function, and connect: from  *)
(* here on Paho may call back.                                             *)
CreateMqtt ==
    /\ mpc = "mqtt"
    /\ \/ mpc' = "ftimer" /\ paho' = "idle"
       \/ mpc' = "serve" /\ UNCHANGED paho
    /\ UNCHANGED <<running, is_running, gp, work, tcp, is_conn, history>>

(* The threads start before the flag the event thread ends on is set. *)
StartFkz9Threads ==
    \/ Start("ftimer", "ftimer", "fevent")
    \/ Start("fevent", "fevent", "set_running")

SetRunning ==
    /\ mpc = "set_running"
    /\ mpc' = "set_fkz9"
    /\ is_running' = TRUE
    /\ UNCHANGED <<running, gp, work, tcp, mqtt, history>>

SetFkz9 ==
    /\ mpc = "set_fkz9"
    /\ mpc' = "serve"
    /\ gp' = gp \union {"fkz9"}
    /\ UNCHANGED <<running, is_running, work, tcp, mqtt, history>>

(* The thread of event_task_entry gets SIGINT or SIGTERM and ends; main    *)
(* has joined it.                                                          *)
Signal ==
    /\ mpc = "serve"
    /\ mpc' = "stop_cloud"
    /\ UNCHANGED <<running, is_running, gp, work, tcp, mqtt, history>>

-----------------------------------------------------------------------------
(* clound_comm_uninit.  event_base_loopbreak does nothing to a base that   *)
(* does not exist yet or whose loop has not begun.                         *)

LoopBreak(t) == broken' = IF thread[t] = "loop" THEN broken \union {t} ELSE broken

StopCloudUnbrokenBug ==
    /\ mpc = "stop_cloud"
    /\ running' = FALSE
    /\ mpc' = IF running THEN "join_timer" ELSE "stop_fkz9"
    /\ UNCHANGED <<broken, is_running, gp, thread, request, message, tcp, mqtt, history>>

StopCloud ==
    /\ mpc = "stop_cloud"
    /\ running' = FALSE
    /\ IF running
       THEN mpc' = "join_timer" /\ LoopBreak("timer")
       ELSE mpc' = "stop_fkz9" /\ UNCHANGED broken
    /\ UNCHANGED <<is_running, gp, thread, request, message, tcp, mqtt, history>>

JoinNotWaitingBug(at, t, next) ==
    /\ mpc = at
    /\ mpc' = next
    /\ UNCHANGED <<running, is_running, gp, work, tcp, mqtt, history>>

Join(at, t, next) ==
    /\ mpc = at /\ thread[t] = "ended"
    /\ mpc' = next
    /\ UNCHANGED <<running, is_running, gp, work, tcp, mqtt, history>>

JoinCloudThreads ==
    \/ Join("join_timer", "timer", "join_event")
    \/ Join("join_event", "event", "join_download")
    \/ Join("join_download", "download", "if_connected")

(* A client that is not connected at this moment is not stopped. *)
IfConnected ==
    /\ mpc = "if_connected"
    /\ mpc' = IF is_connected THEN "disconnect" ELSE "destroy"
    /\ UNCHANGED <<running, is_running, gp, work, tcp, mqtt, history>>

DisconnectNotJoiningBug ==
    /\ mpc = "disconnect"
    /\ mpc' = "destroy"
    /\ is_connected' = FALSE
    /\ conn' = IF is_connected THEN "broken" ELSE conn
    /\ disconnected' = is_connected
    /\ UNCHANGED <<running, is_running, gp, work, client, send, recnt_att, mqtt, early, dead>>

(* tcp_client_disconnect tests again, then stops both threads. *)
Disconnect ==
    /\ mpc = "disconnect"
    /\ mpc' = IF is_connected THEN "join_conn" ELSE "destroy"
    /\ is_connected' = FALSE
    /\ conn' = IF is_connected THEN "broken" ELSE conn
    /\ disconnected' = is_connected
    /\ UNCHANGED <<running, is_running, gp, work, client, send, recnt_att, mqtt, early, dead>>

JoinTcpThreads ==
    /\ \/ mpc = "join_conn" /\ conn = "ended" /\ mpc' = "join_send"
       \/ mpc = "join_send" /\ send = "ended" /\ mpc' = "destroy"
    /\ UNCHANGED <<running, is_running, gp, work, tcp, mqtt, history>>

(* tcp_client_destroy *)
DestroyClient ==
    /\ mpc = "destroy"
    /\ mpc' = "clean"
    /\ client' = "freed"
    /\ UNCHANGED <<running, is_running, gp, work, is_connected, conn, send, recnt_att, mqtt,
                   history>>

(* laneTo_uninit, fx650_uninit, clean_queue, and the end of the context. *)
ForgetCloud ==
    /\ mpc = "clean"
    /\ mpc' = "stop_fkz9"
    /\ gp' = gp \ {"cloud"}
    /\ UNCHANGED <<running, is_running, work, tcp, mqtt, history>>

-----------------------------------------------------------------------------
(* fkz9_comm_uninit and the end of main *)

StopFkz9 ==
    /\ mpc = "stop_fkz9"
    /\ is_running' = FALSE
    /\ IF is_running
       THEN mpc' = "join_ftimer" /\ LoopBreak("ftimer")
       ELSE mpc' = "exit" /\ UNCHANGED broken
    /\ UNCHANGED <<running, gp, thread, request, message, tcp, mqtt, history>>

JoinFkz9Threads ==
    \/ Join("join_ftimer", "ftimer", "join_fevent")
    \/ Join("join_fevent", "fevent", "destroy_mqtt")

(* mqtt_client_destroy takes the client's lock; MQTTAsync_destroy ends     *)
(* Paho's threads.                                                         *)
DestroyMqtt ==
    /\ mpc = "destroy_mqtt" /\ paho = "idle"
    /\ mpc' = "exit"
    /\ paho' = "stopped"
    /\ gp' = gp \ {"fkz9"}
    /\ UNCHANGED <<running, is_running, work, tcp, is_conn, history>>

-----------------------------------------------------------------------------
(* The threads of the TCP client, by what they need of it *)

Connected ==
    /\ conn = "connecting" /\ client = "live"
    /\ conn' = "up"
    /\ is_connected' = TRUE
    /\ send' = "run"
    /\ recnt_att' = 0
    /\ UNCHANGED <<client, main, work, mqtt, history>>

(* An error event starts the timer of 3 s; an error of                     *)
(* bufferevent_socket_connect itself just ends the thread.                 *)
NotConnected ==
    /\ client = "live"
    /\ \/ conn = "connecting" /\ conn' \in {"pause", "ended"}
       \/ conn = "up" /\ conn' = "pause"
    /\ is_connected' = FALSE
    /\ UNCHANGED <<client, send, recnt_att, main, work, mqtt, history>>

RetryUncountedBug ==
    /\ conn = "pause" /\ client = "live" /\ send \notin {"run", "write"} /\ mpc # "disconnect"
    /\ conn' = "connecting" /\ recnt_att' = recnt_att + 1
    /\ UNCHANGED <<client, is_connected, send, main, work, mqtt, history>>

(* 3 s are longer than the send thread takes to see is_connected, and than *)
(* main takes from one test of it to the next.                             *)
Retry ==
    /\ conn = "pause" /\ client = "live" /\ send \notin {"run", "write"} /\ mpc # "disconnect"
    /\ IF recnt_att < MaxRecnt
       THEN conn' = "connecting" /\ recnt_att' = recnt_att + 1
       ELSE conn' = "ended" /\ UNCHANGED recnt_att
    /\ UNCHANGED <<client, is_connected, send, main, work, mqtt, history>>

(* The broken loop returns, and the thread frees the bufferevent and its   *)
(* base before it ends (118-121).                                          *)
ConnEnds ==
    /\ conn = "broken"
    /\ conn' = "ended"
    /\ UNCHANGED <<client, is_connected, send, recnt_att, main, work, mqtt, history>>

(* The test of is_connected, and dequeue (131-135). *)
SendTakes ==
    /\ send = "run" /\ client = "live" /\ is_connected
    /\ send' = "write"
    /\ UNCHANGED <<client, is_connected, conn, recnt_att, main, work, mqtt, history>>

(* A write that does not ask for the connection any more: the bufferevent  *)
(* is gone if the connection's thread has ended (136).                     *)
SendWrites ==
    /\ send = "write" /\ client = "live"
    /\ IF conn # "ended"
       THEN /\ send' = "run"
            /\ UNCHANGED <<client, is_connected, conn, recnt_att, main, work, mqtt, history>>
       ELSE Dies("bev")

SendEnds ==
    /\ send = "run" /\ client = "live" /\ ~is_connected
    /\ send' = "ended"
    /\ UNCHANGED <<client, is_connected, conn, recnt_att, main, work, mqtt, history>>

TcpUsesFreed ==
    /\ client = "freed"
    /\ conn \in {"connecting", "up", "pause", "broken"} \/ send \in {"run", "write"}
    /\ Dies("client")

(* tcp_client_read_cb and proc_message_cb *)
RequestArrives ==
    /\ conn = "up" /\ client = "live"
    /\ IF "cloud" \in gp
       THEN request' = TRUE /\ UNCHANGED <<main, thread, broken, message, tcp, mqtt, history>>
       ELSE Dies("gp_cloud_comm_ctx")

-----------------------------------------------------------------------------
(* The worker threads *)

Goto(t, pc) == thread' = [thread EXCEPT ![t] = pc]

(* Calls without a timeout: the timer callbacks read gpsd's socket         *)
(* (lane_to.c:472), post over HTTP and run a script over ssh; a request    *)
(* for the wave file and a download use ssh as well.                       *)
Blocks ==
    /\ \E call \in {<<"timer", "loop">>, <<"event", "handle">>, <<"download", "start">>} :
          thread[call[1]] = call[2] /\ Goto(call[1], "blocked")
    /\ UNCHANGED <<broken, request, message, main, tcp, mqtt, history>>

(* cloud_timer_task_entry and the end of fkz9_timer_task_entry: a loop     *)
(* that ends only when it is broken, between two callbacks.                *)
TimerThread ==
    /\ \/ thread["timer"] = "start" /\ Goto("timer", "loop")
       \/ \E t \in {"timer", "ftimer"} : thread[t] = "loop" /\ t \in broken /\ Goto(t, "ended")
    /\ UNCHANGED <<broken, request, message, main, tcp, mqtt, history>>

(* fkz9_timer_task_entry: nothing but is_conn ends the wait before its loop. *)
Fkz9TimerWaits ==
    /\ thread["ftimer"] = "start" /\ is_conn /\ paho = "idle"
    /\ Goto("ftimer", "loop")
    /\ UNCHANGED <<broken, request, message, main, tcp, mqtt, history>>

DownloadEnds ==
    /\ thread["download"] = "start" /\ ~running
    /\ Goto("download", "ended")
    /\ UNCHANGED <<broken, request, message, main, tcp, mqtt, history>>

(* cloud_event_task_entry *)
EventLoop ==
    /\ thread["event"] = "start"
    /\ IF running
       THEN request /\ request' = FALSE /\ Goto("event", "handle")
       ELSE Goto("event", "ended") /\ UNCHANGED request
    /\ UNCHANGED <<broken, message, main, tcp, mqtt, history>>

(* A request for the FKZ9 is published, with the MQTT client's lock; the   *)
(* wave file needs neither.                                                *)
EventHandles ==
    /\ thread["event"] = "handle"
    /\ \/ /\ "fkz9" \in gp => paho = "idle"
          /\ IF "fkz9" \in gp
             THEN /\ Goto("event", "start")
                  /\ UNCHANGED <<broken, request, message, main, tcp, mqtt, history>>
             ELSE Dies("gp_fkz9_comm_ctx")
       \/ /\ Goto("event", "start")
          /\ UNCHANGED <<broken, request, message, main, tcp, mqtt, history>>

(* fkz9_event_task_entry *)
Fkz9EventLoop ==
    /\ thread["fevent"] = "start"
    /\ IF is_running
       THEN message /\ message' = FALSE /\ Goto("fevent", "handle") /\ UNCHANGED early
       ELSE /\ Goto("fevent", "ended") /\ UNCHANGED message
            /\ early' = (mpc = "set_running")
    /\ UNCHANGED <<broken, request, main, tcp, mqtt, disconnected, dead>>

(* Use of gp_cloud_comm_ctx->client for sending: both pointers are taken   *)
(* on trust.                                                               *)
CloudUsable == "cloud" \in gp /\ client = "live"
DiesOfCloud == Dies(IF "cloud" \in gp THEN "client_of_fkz9" ELSE "gp_cloud_comm_ctx")

(* All messages but signs of life are sent on. *)
Fkz9EventHandles ==
    /\ thread["fevent"] = "handle"
    /\ \/ /\ Goto("fevent", "start")
          /\ UNCHANGED <<broken, request, message, main, tcp, mqtt, history>>
       \/ ~CloudUsable /\ DiesOfCloud

-----------------------------------------------------------------------------
(* Paho's receive thread; what the broker kept for the client from an      *)
(* earlier session may arrive as soon as it is connected.                  *)

LinkChanges ==
    /\ paho = "idle"
    /\ is_conn' \in BOOLEAN
    /\ UNCHANGED <<paho, main, work, tcp, history>>

MessageArrives ==
    /\ paho = "idle"
    /\ IF "fkz9" \in gp
       THEN /\ message' = TRUE /\ is_conn' = TRUE
            /\ UNCHANGED <<paho, main, thread, broken, request, tcp, history>>
       ELSE Dies("gp_fkz9_comm_ctx")

(* A long payload takes the client from the context once, *)
LongArrives ==
    /\ paho = "idle"
    /\ IF "cloud" \in gp
       THEN paho' = "batch" /\ UNCHANGED <<is_conn, main, work, tcp, history>>
       ELSE Dies("gp_cloud_comm_ctx")

(* and uses it for each of its frames. *)
LongEnds ==
    /\ paho = "batch"
    /\ IF client = "live"
       THEN paho' = "idle" /\ is_conn' = TRUE /\ UNCHANGED <<main, work, tcp, history>>
       ELSE Dies("client_of_fkz9")

(* A frame of length 0 is sent again and again (fkz9_comm.c:217-229). *)
LongBlocks ==
    /\ paho = "batch"
    /\ paho' = "blocked"
    /\ UNCHANGED <<is_conn, main, work, tcp, history>>

-----------------------------------------------------------------------------
MainStep ==
    \/ InitModem \/ CreateClient \/ StartCloudThreads \/ SetCloud
    \/ CreateMqtt \/ StartFkz9Threads \/ SetRunning \/ SetFkz9
    \/ StopCloud \/ JoinCloudThreads \/ IfConnected \/ Disconnect \/ JoinTcpThreads
    \/ DestroyClient \/ ForgetCloud \/ StopFkz9 \/ JoinFkz9Threads

TcpThreads ==
    \/ Connected \/ NotConnected \/ Retry \/ ConnEnds \/ RequestArrives
    \/ SendTakes \/ SendWrites \/ SendEnds \/ TcpUsesFreed

WorkerThreads ==
    \/ Blocks \/ TimerThread \/ Fkz9TimerWaits \/ DownloadEnds
    \/ EventLoop \/ EventHandles \/ Fkz9EventLoop \/ Fkz9EventHandles

PahoThread == LinkChanges \/ MessageArrives \/ LongArrives \/ LongEnds \/ LongBlocks

(* The process is there: it did not die, nor did main return. *)
Alive == dead = "nothing" /\ mpc # "exit"

Next ==
    Alive /\ (MainStep \/ Signal \/ DestroyMqtt \/ TcpThreads \/ WorkerThreads \/ PahoThread)

Spec == Init /\ [][Next]_vars

(* Threads run, and one that waits for the MQTT client's lock gets it, as  *)
(* Paho's thread goes back to the network between two callbacks.  A call   *)
(* that can block returns unless it blocks.  Nothing is assumed of what    *)
(* the networks deliver, nor that anybody ever stops the program.          *)
FairSpec ==
    /\ Spec
    /\ WF_vars(Alive /\ MainStep) /\ SF_vars(Alive /\ DestroyMqtt)
    /\ WF_vars(Alive /\ ConnEnds) /\ WF_vars(Alive /\ SendEnds) /\ WF_vars(Alive /\ SendWrites)
    /\ WF_vars(Alive /\ TimerThread) /\ SF_vars(Alive /\ Fkz9TimerWaits)
    /\ WF_vars(Alive /\ DownloadEnds)
    /\ WF_vars(Alive /\ EventLoop) /\ SF_vars(Alive /\ EventHandles)
    /\ WF_vars(Alive /\ Fkz9EventLoop) /\ WF_vars(Alive /\ Fkz9EventHandles)
    /\ WF_vars(Alive /\ LongEnds)

-----------------------------------------------------------------------------
(* Correctness *)

(* The steps of main by what the program as a whole is doing. *)
Starting == {"modem", "create", "timer", "event", "download", "set_cloud", "mqtt",
             "ftimer", "fevent", "set_running", "set_fkz9"}
StoppingCloud == {"stop_cloud", "join_timer", "join_event", "join_download", "if_connected",
                  "disconnect", "join_conn", "join_send", "destroy", "clean"}
StoppingFkz9 == {"stop_fkz9", "join_ftimer", "join_fevent", "destroy_mqtt"}

(* The values the variables take; the reconnect counter keeps to its       *)
(* maximum (tcp_client.c:33).                                              *)
TypeOK ==
    /\ mpc \in Starting \union {"serve", "exit"} \union StoppingCloud \union StoppingFkz9
    /\ running \in BOOLEAN /\ is_running \in BOOLEAN
    /\ gp \subseteq {"cloud", "fkz9"}
    /\ thread \in [Threads -> {"none", "start", "loop", "handle", "blocked", "ended"}]
    /\ broken \subseteq {"timer", "ftimer"}
    /\ request \in BOOLEAN /\ message \in BOOLEAN
    /\ client \in {"none", "live", "freed"}
    /\ is_connected \in BOOLEAN
    /\ conn \in {"none", "connecting", "up", "pause", "broken", "ended"}
    /\ send \in {"none", "run", "write", "ended"}
    /\ recnt_att \in 0 .. MaxRecnt
    /\ paho \in {"none", "idle", "batch", "blocked", "stopped"} /\ is_conn \in BOOLEAN
    /\ disconnected \in BOOLEAN /\ early \in BOOLEAN
    /\ dead \in {"nothing", "gp_cloud_comm_ctx", "gp_fkz9_comm_ctx", "client", "client_of_fkz9",
                "bev"}

(* While the program serves, no thread has ended by itself: those of the   *)
(* cloud part are created after the flag they run on (cloud_comm.c:899),   *)
(* that of the FKZ9 before (fkz9_comm.c:422-423), which is the one way it  *)
(* can be missing.  When main returns, every one of them has ended, and so *)
(* have the two threads of a connection that was closed.                   *)
ThreadsAccountedFor ==
    /\ mpc = "serve" =>
        /\ client = "live" => \A t \in CloudThreads : thread[t] \notin {"none", "ended"}
        /\ paho # "none" => thread["ftimer"] \notin {"none", "ended"}
        /\ paho # "none" /\ thread["fevent"] = "ended" => early
    /\ mpc = "exit" =>
        /\ \A t \in Threads : thread[t] \in {"none", "ended"}
        /\ disconnected => conn = "ended" /\ send = "ended"

(* The program never dies of a pointer once both parts are set up, and     *)
(* each way to die has its one window: a peer that talks before the        *)
(* pointer is set (cloud_comm.c:905, fkz9_comm.c:425) or when the other    *)
(* part could not be set up; a TCP client freed although it was not        *)
(* stopped, for want of a connection (cloud_comm.c:924); an FKZ9 that      *)
(* talks while the cloud part is gone and its own is not (main.c:186-187); *)
(* and a frame that the send thread has taken from the queue when          *)
(* tcp_client_disconnect has the bufferevent freed, between the two joins  *)
(* (tcp_client.c:118-119, 132-136, 183-186).                               *)
DeathsExplained ==
    /\ dead = "gp_cloud_comm_ctx" => client = "none" \/ mpc \in Starting \union StoppingFkz9
    /\ dead = "gp_fkz9_comm_ctx" =>
           \/ mpc \in Starting
           \/ paho = "none" /\ mpc \in {"serve"} \union StoppingCloud
    /\ dead = "client" => ~disconnected /\ mpc \in StoppingCloud \union StoppingFkz9
    /\ dead = "client_of_fkz9" => mpc \in StoppingCloud \union StoppingFkz9
    /\ dead = "bev" => disconnected /\ conn = "ended" /\ mpc \in {"join_conn", "join_send"}

(* A thread is in a call that does not return. *)
Blocked == paho = "blocked" \/ \E t \in Threads : thread[t] = "blocked"

(* A signal ends the program, one way or the other, if both timer threads  *)
(* have begun their event loops and no thread is, or gets, into a call     *)
(* that never returns: apart from such calls no join waits for ever,       *)
(* whatever lies in the queues and whoever holds the MQTT client's lock    *)
(* (cloud_comm.c:915-932, fkz9_comm.c:430-447).                            *)
InLoops == thread["timer"] \in {"none", "loop"} /\ thread["ftimer"] \in {"none", "loop"}
Over == mpc = "exit" \/ dead # "nothing"

ShutdownEnds == mpc = "stop_cloud" /\ InLoops ~> Over \/ Blocked

(* "Received signal ...,quit..." (main.c:108): a program whose cloud part  *)
(* is up quits on a signal, even without any call that blocks.             *)
SignalQuits == mpc = "stop_cloud" /\ thread["timer"] = "loop" ~> Over \/ Blocked

=============================================================================
