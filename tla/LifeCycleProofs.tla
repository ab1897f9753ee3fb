-------------------------- MODULE LifeCycleProofs --------------------------
(***************************************************************************)
(* Proofs about the start and the end of the program, for any number of    *)
(* attempts to connect.                                                    *)
(*                                                                         *)
(* What the proofs rest on is which pointers are set, which flags and      *)
(* which threads are there at each step of main (CloudPart, Fkz9Part,      *)
(* ThreadsThere, Joined), and on what a thread has seen when it ends       *)
(* (ThreadsEnd).                                                           *)
(***************************************************************************)
EXTENDS LifeCycle, TLAPS

CloudSetUp == {"timer", "event", "download", "set_cloud"}
Fkz9SetUp == {"ftimer", "fevent", "set_running", "set_fkz9"}
Fkz9Joins == {"join_ftimer", "join_fevent", "destroy_mqtt"}

(* The cloud part: client is "none" for as long as, or if ever, it is not  *)
(* set up.                                                                 *)
CloudPart ==
    /\ mpc \in {"modem", "create"} => client = "none"
    /\ mpc \in CloudSetUp \union (StoppingCloud \ {"stop_cloud"}) => client # "none"
    /\ client = "freed" => mpc \in {"clean", "exit"} \union StoppingFkz9
    /\ client = "live" => mpc \notin {"clean", "exit"} \union StoppingFkz9
    /\ running <=> client # "none" /\ mpc \in Starting \union {"serve", "stop_cloud"}
    /\ "cloud" \in gp <=>
          client # "none" /\ mpc \in {"mqtt", "serve"} \union Fkz9SetUp \union StoppingCloud
    /\ client = "none" => conn = "none" /\ send = "none"

(* The part of the FKZ9, with paho in the place of client.                 *)
Fkz9Part ==
    /\ mpc \in {"modem", "create", "mqtt"} \union CloudSetUp => paho = "none"
    /\ mpc \in Fkz9SetUp \union Fkz9Joins => paho # "none"
    /\ paho = "stopped" => mpc = "exit"
    /\ mpc = "exit" => paho \in {"none", "stopped"}
    /\ is_running <=>
          paho # "none" /\ mpc \in {"set_fkz9", "serve", "stop_fkz9"} \union StoppingCloud
    /\ "fkz9" \in gp <=>
          paho # "none" /\ mpc \in {"serve"} \union StoppingCloud \union StoppingFkz9
    /\ paho \in {"batch", "blocked"} => client # "none"

(* Main has come to the creation of each thread, or not.                   *)
ThreadsThere ==
    /\ thread["timer"] = "none" <=> client = "none" \/ mpc = "timer"
    /\ thread["event"] = "none" <=> client = "none" \/ mpc \in {"timer", "event"}
    /\ thread["download"] = "none" <=>
          client = "none" \/ mpc \in {"timer", "event", "download"}
    /\ thread["ftimer"] = "none" <=> paho = "none" \/ mpc = "ftimer"
    /\ thread["fevent"] = "none" <=> paho = "none" \/ mpc \in {"ftimer", "fevent"}

(* A timer thread ends when its loop is broken, the others when their flag *)
(* is not set: which is so before main stops them for one of them only.    *)
ThreadsEnd ==
    /\ "timer" \in broken => client # "none" /\ ~running
    /\ thread["timer"] = "ended" => "timer" \in broken
    /\ thread["event"] = "ended" => ~running
    /\ thread["download"] = "ended" => ~running
    /\ "ftimer" \in broken => mpc \in {"exit"} \union Fkz9Joins
    /\ thread["ftimer"] = "ended" => "ftimer" \in broken
    /\ thread["fevent"] = "ended" => early \/ mpc \in {"exit"} \union Fkz9Joins

(* Main has waited for the end of each thread, or not.                     *)
PastTimer == (StoppingCloud \ {"stop_cloud", "join_timer"}) \union StoppingFkz9 \union {"exit"}
PastEvent == PastTimer \ {"join_event"}
PastDownload == PastEvent \ {"join_download"}
Joined ==
    /\ client # "none" /\ mpc \in PastTimer => thread["timer"] = "ended"
    /\ client # "none" /\ mpc \in PastEvent => thread["event"] = "ended"
    /\ client # "none" /\ mpc \in PastDownload => thread["download"] = "ended"
    /\ paho # "none" /\ mpc \in {"join_fevent", "destroy_mqtt", "exit"} =>
          thread["ftimer"] = "ended"
    /\ paho # "none" /\ mpc \in {"destroy_mqtt", "exit"} => thread["fevent"] = "ended"

(* A connection that was closed is not opened again, and its threads have  *)
(* been waited for when the client is freed.                               *)
Connection ==
    /\ is_connected => conn = "up" /\ send \in {"run", "write"}
    /\ send = "write" => \/ conn \in {"up", "pause"}
                         \/ disconnected
    /\ disconnected => /\ mpc \in {"join_conn", "join_send", "destroy", "clean", "exit"}
                                  \union StoppingFkz9
                       /\ conn \in {"broken", "ended"} /\ send \in {"run", "write", "ended"}
    /\ disconnected /\ mpc # "join_conn" => conn = "ended"
    /\ disconnected /\ mpc \notin {"join_conn", "join_send"} => send = "ended"

(* Everything but the types.                                               *)
Stages ==
    /\ CloudPart /\ Fkz9Part
    /\ ThreadsThere /\ ThreadsEnd /\ Joined
    /\ Connection
    /\ DeathsExplained

IInv == TypeOK /\ Stages

(* The sets of steps of main, and the tuples of variables.                 *)
USE DEF Starting, StoppingCloud, StoppingFkz9, CloudSetUp, Fkz9SetUp, Fkz9Joins,
        PastTimer, PastEvent, PastDownload, main, work, tcp, mqtt, history

-----------------------------------------------------------------------------
(* The five threads.                                                       *)
LEMMA ThreadNames ==
    /\ "timer" \in Threads /\ "event" \in Threads /\ "download" \in Threads
    /\ "ftimer" \in Threads /\ "fevent" \in Threads
    /\ \A t \in Threads : t \in {"timer", "event", "download", "ftimer", "fevent"}
  BY DEF Threads, CloudThreads, Fkz9Threads

(* What the program can have died of, and how a thread lives.              *)
Causes == {"nothing", "gp_cloud_comm_ctx", "gp_fkz9_comm_ctx", "client", "client_of_fkz9",
           "bev"}
Lives == {"none", "start", "loop", "handle", "blocked", "ended"}

(* Every step keeps the types.                                             *)
LEMMA TypeKept ==
    ASSUME TypeOK, Next
    PROVE  TypeOK'
<1> USE ThreadNames, MaxRecntAssumption
<1>1. CASE InitModem
  BY <1>1 DEF TypeOK, InitModem
<1>2. CASE CreateClient
  BY <1>2 DEF TypeOK, CreateClient
<1>3. CASE StartCloudThreads
  <2>1. /\ mpc' \in Starting
        /\ thread' \in [Threads -> Lives]
        /\ UNCHANGED <<running, is_running, gp, broken, request, message,
                       client, is_connected, conn, send, recnt_att, paho,
                       is_conn, disconnected, early, dead>>
    BY <1>3 DEF TypeOK, StartCloudThreads, Start, Lives
  <2> QED
    BY <2>1 DEF TypeOK, Lives
<1>4. CASE SetCloud
  BY <1>4 DEF TypeOK, SetCloud
<1>5. CASE CreateMqtt
  BY <1>5 DEF TypeOK, CreateMqtt
<1>6. CASE StartFkz9Threads
  <2>1. /\ mpc' \in Starting
        /\ thread' \in [Threads -> Lives]
        /\ UNCHANGED <<running, is_running, gp, broken, request, message,
                       client, is_connected, conn, send, recnt_att, paho,
                       is_conn, disconnected, early, dead>>
    BY <1>6 DEF TypeOK, StartFkz9Threads, Start, Lives
  <2> QED
    BY <2>1 DEF TypeOK, Lives
<1>7. CASE SetRunning
  BY <1>7 DEF TypeOK, SetRunning
<1>8. CASE SetFkz9
  BY <1>8 DEF TypeOK, SetFkz9
<1>9. CASE Signal
  BY <1>9 DEF TypeOK, Signal
<1>10. CASE StopCloud
  <2>1. /\ mpc' \in StoppingCloud \union StoppingFkz9
        /\ running' \in BOOLEAN
        /\ broken' \subseteq {"timer", "ftimer"}
        /\ UNCHANGED <<is_running, gp, thread, request, message, client,
                       is_connected, conn, send, recnt_att, paho, is_conn,
                       disconnected, early, dead>>
    BY <1>10 DEF TypeOK, StopCloud, LoopBreak
  <2> QED
    BY <2>1 DEF TypeOK
<1>11. CASE JoinCloudThreads
  <2>1. /\ mpc' \in StoppingCloud
        /\ UNCHANGED <<running, is_running, gp, thread, broken, request,
                       message, client, is_connected, conn, send,
                       recnt_att, paho, is_conn, disconnected, early, dead>>
    BY <1>11 DEF TypeOK, JoinCloudThreads, Join
  <2> QED
    BY <2>1 DEF TypeOK
<1>12. CASE IfConnected
  BY <1>12 DEF TypeOK, IfConnected
<1>13. CASE Disconnect
  <2>1. /\ mpc' \in StoppingCloud
        /\ is_connected' \in BOOLEAN
        /\ conn' \in {"none", "connecting", "up", "pause", "broken", "ended"}
        /\ disconnected' \in BOOLEAN
        /\ UNCHANGED <<running, is_running, gp, thread, broken, request,
                       message, client, send, recnt_att, paho, is_conn,
                       early, dead>>
    BY <1>13 DEF TypeOK, Disconnect
  <2> QED
    BY <2>1 DEF TypeOK
<1>14. CASE JoinTcpThreads
  BY <1>14 DEF TypeOK, JoinTcpThreads
<1>15. CASE DestroyClient
  BY <1>15 DEF TypeOK, DestroyClient
<1>16. CASE ForgetCloud
  BY <1>16 DEF TypeOK, ForgetCloud
<1>17. CASE StopFkz9
  <2>1. /\ mpc' \in StoppingFkz9 \union {"exit"}
        /\ is_running' \in BOOLEAN
        /\ broken' \subseteq {"timer", "ftimer"}
        /\ UNCHANGED <<running, gp, thread, request, message, client,
                       is_connected, conn, send, recnt_att, paho, is_conn,
                       disconnected, early, dead>>
    BY <1>17 DEF TypeOK, StopFkz9, LoopBreak
  <2> QED
    BY <2>1 DEF TypeOK
<1>18. CASE JoinFkz9Threads
  <2>1. /\ mpc' \in StoppingFkz9
        /\ UNCHANGED <<running, is_running, gp, thread, broken, request,
                       message, client, is_connected, conn, send,
                       recnt_att, paho, is_conn, disconnected, early, dead>>
    BY <1>18 DEF TypeOK, JoinFkz9Threads, Join
  <2> QED
    BY <2>1 DEF TypeOK
<1>19. CASE DestroyMqtt
  BY <1>19 DEF TypeOK, DestroyMqtt
<1>20. CASE Connected
  BY <1>20 DEF TypeOK, Connected
<1>21. CASE NotConnected
  <2>1. /\ is_connected' \in BOOLEAN
        /\ conn' \in {"none", "connecting", "up", "pause", "broken", "ended"}
        /\ UNCHANGED <<mpc, running, is_running, gp, thread, broken,
                       request, message, client, send, recnt_att, paho,
                       is_conn, disconnected, early, dead>>
    BY <1>21 DEF TypeOK, NotConnected
  <2> QED
    BY <2>1 DEF TypeOK
<1>22. CASE Retry
  BY <1>22 DEF TypeOK, Retry
<1>23. CASE ConnEnds
  BY <1>23 DEF TypeOK, ConnEnds
<1>24. CASE SendEnds
  BY <1>24 DEF TypeOK, SendEnds
<1>25. CASE TcpUsesFreed
  BY <1>25 DEF TypeOK, TcpUsesFreed, Dies
<1>26. CASE RequestArrives
  <2>1. /\ request' \in BOOLEAN
        /\ dead' \in Causes
        /\ UNCHANGED <<mpc, running, is_running, gp, thread, broken,
                       message, client, is_connected, conn, send,
                       recnt_att, paho, is_conn, disconnected, early>>
    BY <1>26 DEF TypeOK, RequestArrives, Dies, Causes
  <2> QED
    BY <2>1 DEF TypeOK, Causes
<1>27. CASE TimerThread
  BY <1>27 DEF TypeOK, TimerThread, Goto
<1>28. CASE Fkz9TimerWaits
  BY <1>28 DEF TypeOK, Fkz9TimerWaits, Goto
<1>29. CASE DownloadEnds
  BY <1>29 DEF TypeOK, DownloadEnds, Goto
<1>30. CASE EventLoop
  <2>1. /\ thread' \in [Threads -> Lives]
        /\ request' \in BOOLEAN
        /\ UNCHANGED <<mpc, running, is_running, gp, broken, message,
                       client, is_connected, conn, send, recnt_att, paho,
                       is_conn, disconnected, early, dead>>
    BY <1>30 DEF TypeOK, EventLoop, Goto, Lives
  <2> QED
    BY <2>1 DEF TypeOK, Lives
<1>31. CASE EventHandles
  <2>1. /\ thread' \in [Threads -> Lives]
        /\ dead' \in Causes
        /\ UNCHANGED <<mpc, running, is_running, gp, broken, request,
                       message, client, is_connected, conn, send,
                       recnt_att, paho, is_conn, disconnected, early>>
    BY <1>31 DEF TypeOK, EventHandles, Goto, Dies, Lives, Causes
  <2> QED
    BY <2>1 DEF TypeOK, Lives, Causes
<1>32. CASE Fkz9EventLoop
  <2>1. /\ thread' \in [Threads -> Lives]
        /\ message' \in BOOLEAN
        /\ early' \in BOOLEAN
        /\ UNCHANGED <<mpc, running, is_running, gp, broken, request,
                       client, is_connected, conn, send, recnt_att, paho,
                       is_conn, disconnected, dead>>
    BY <1>32 DEF TypeOK, Fkz9EventLoop, Goto, Lives
  <2> QED
    BY <2>1 DEF TypeOK, Lives
<1>33. CASE Fkz9EventHandles
  <2>1. /\ thread' \in [Threads -> Lives]
        /\ dead' \in Causes
        /\ UNCHANGED <<mpc, running, is_running, gp, broken, request,
                       message, client, is_connected, conn, send,
                       recnt_att, paho, is_conn, disconnected, early>>
    BY <1>33 DEF TypeOK, Fkz9EventHandles, Goto, Dies, DiesOfCloud, Lives, Causes
  <2> QED
    BY <2>1 DEF TypeOK, Lives, Causes
<1>34. CASE LinkChanges
  BY <1>34 DEF TypeOK, LinkChanges
<1>35. CASE MessageArrives
  <2>1. /\ message' \in BOOLEAN
        /\ is_conn' \in BOOLEAN
        /\ dead' \in Causes
        /\ UNCHANGED <<mpc, running, is_running, gp, thread, broken,
                       request, client, is_connected, conn, send,
                       recnt_att, paho, disconnected, early>>
    BY <1>35 DEF TypeOK, MessageArrives, Dies, Causes
  <2> QED
    BY <2>1 DEF TypeOK, Causes
<1>36. CASE LongArrives
  <2>1. /\ paho' \in {"idle", "batch"}
        /\ dead' \in Causes
        /\ UNCHANGED <<mpc, running, is_running, gp, thread, broken,
                       request, message, client, is_connected, conn, send,
                       recnt_att, is_conn, disconnected, early>>
    BY <1>36 DEF TypeOK, LongArrives, Dies, Causes
  <2> QED
    BY <2>1 DEF TypeOK, Causes
<1>37. CASE LongEnds
  <2>1. /\ paho' \in {"idle", "batch"}
        /\ is_conn' \in BOOLEAN
        /\ dead' \in Causes
        /\ UNCHANGED <<mpc, running, is_running, gp, thread, broken,
                       request, message, client, is_connected, conn, send,
                       recnt_att, disconnected, early>>
    BY <1>37 DEF TypeOK, LongEnds, Dies, Causes
  <2> QED
    BY <2>1 DEF TypeOK, Causes
<1>38. CASE SendTakes
  BY <1>38 DEF TypeOK, SendTakes
<1>39. CASE SendWrites
  <2>1. /\ send' \in {"none", "run", "write", "ended"}
        /\ dead' \in Causes
        /\ UNCHANGED <<mpc, running, is_running, gp, thread, broken,
                       request, message, client, is_connected, conn,
                       recnt_att, paho, is_conn, disconnected, early>>
    BY <1>39 DEF TypeOK, SendWrites, Dies, Causes
  <2> QED
    BY <2>1 DEF TypeOK, Causes
<1>40. CASE Blocks
  <2>1. /\ thread' \in [Threads -> Lives]
        /\ UNCHANGED <<mpc, running, is_running, gp, broken, request, message,
                       client, is_connected, conn, send, recnt_att, paho,
                       is_conn, disconnected, early, dead>>
    BY <1>40 DEF TypeOK, Blocks, Goto, Lives
  <2> QED
    BY <2>1 DEF TypeOK, Lives
<1>41. CASE LongBlocks
  BY <1>41 DEF TypeOK, LongBlocks
<1> QED
  BY <1>1, <1>2, <1>3, <1>4, <1>5, <1>6, <1>7, <1>8, <1>9, <1>10, <1>11, <1>12, <1>13,
     <1>14, <1>15, <1>16, <1>17, <1>18, <1>19, <1>20, <1>21, <1>22, <1>23, <1>24, <1>25,
     <1>26, <1>27, <1>28, <1>29, <1>30, <1>31, <1>32, <1>33, <1>34, <1>35, <1>36, <1>37,
     <1>38, <1>39, <1>40, <1>41
  DEF Next, MainStep, TcpThreads, WorkerThreads, PahoThread

-----------------------------------------------------------------------------
(* Main sets up the cloud part: each thing it sets is set from here on.    *)
LEMMA CloudSetsUp ==
    ASSUME IInv, Alive, InitModem \/ CreateClient \/ StartCloudThreads \/ SetCloud
    PROVE  Stages'
<1> USE ThreadNames DEF IInv, Stages, Alive, TypeOK, CloudPart, Fkz9Part, Start
<1>1. CASE InitModem
  <2>1. CloudPart' /\ Fkz9Part'
    BY <1>1 DEF InitModem
  <2>2. ThreadsThere'
    BY <1>1 DEF InitModem, ThreadsThere
  <2>3. ThreadsEnd'
    BY <1>1 DEF InitModem, ThreadsThere, ThreadsEnd
  <2>4. Joined'
    BY <1>1 DEF InitModem, ThreadsThere, Joined
  <2>5. Connection' /\ DeathsExplained'
    BY <1>1 DEF InitModem, Connection, DeathsExplained
  <2> QED
    BY <2>1, <2>2, <2>3, <2>4, <2>5 DEF Stages
<1>2. CASE CreateClient
  <2>1. CloudPart' /\ Fkz9Part'
    BY <1>2 DEF CreateClient
  <2>2. ThreadsThere'
    BY <1>2 DEF CreateClient, ThreadsThere
  <2>3. ThreadsEnd'
    BY <1>2 DEF CreateClient, ThreadsThere, ThreadsEnd
  <2>4. Joined'
    BY <1>2 DEF CreateClient, ThreadsThere, Joined
  <2>5. Connection' /\ DeathsExplained'
    BY <1>2 DEF CreateClient, Connection, DeathsExplained
  <2> QED
    BY <2>1, <2>2, <2>3, <2>4, <2>5 DEF Stages
<1>3. CASE StartCloudThreads
  <2>1. CloudPart' /\ Fkz9Part'
    BY <1>3 DEF StartCloudThreads
  <2>2. ThreadsThere'
    BY <1>3 DEF StartCloudThreads, ThreadsThere
  <2>3. ThreadsEnd'
    BY <1>3 DEF StartCloudThreads, ThreadsThere, ThreadsEnd
  <2>4. Joined'
    BY <1>3 DEF StartCloudThreads, ThreadsThere, Joined
  <2>5. Connection' /\ DeathsExplained'
    BY <1>3 DEF StartCloudThreads, Connection, DeathsExplained
  <2> QED
    BY <2>1, <2>2, <2>3, <2>4, <2>5 DEF Stages
<1>4. CASE SetCloud
  <2>1. CloudPart' /\ Fkz9Part'
    BY <1>4 DEF SetCloud
  <2>2. ThreadsThere'
    BY <1>4 DEF SetCloud, ThreadsThere
  <2>3. ThreadsEnd'
    BY <1>4 DEF SetCloud, ThreadsThere, ThreadsEnd
  <2>4. Joined'
    BY <1>4 DEF SetCloud, ThreadsThere, Joined
  <2>5. Connection' /\ DeathsExplained'
    BY <1>4 DEF SetCloud, Connection, DeathsExplained
  <2> QED
    BY <2>1, <2>2, <2>3, <2>4, <2>5 DEF Stages
<1> QED
  BY <1>1, <1>2, <1>3, <1>4

(* Main sets up the part of the FKZ9, and then waits for a signal.         *)
LEMMA Fkz9SetsUp ==
    ASSUME IInv, Alive, CreateMqtt \/ StartFkz9Threads \/ SetRunning \/ SetFkz9
                        \/ Signal
    PROVE  Stages'
<1> USE ThreadNames DEF IInv, Stages, Alive, TypeOK, CloudPart, Fkz9Part, Start
<1>1. CASE CreateMqtt
  <2>1. CloudPart' /\ Fkz9Part'
    BY <1>1 DEF CreateMqtt
  <2>2. ThreadsThere'
    BY <1>1 DEF CreateMqtt, ThreadsThere
  <2>3. ThreadsEnd'
    BY <1>1 DEF CreateMqtt, ThreadsThere, ThreadsEnd
  <2>4. Joined'
    BY <1>1 DEF CreateMqtt, ThreadsThere, Joined
  <2>5. Connection' /\ DeathsExplained'
    BY <1>1 DEF CreateMqtt, Connection, DeathsExplained
  <2> QED
    BY <2>1, <2>2, <2>3, <2>4, <2>5 DEF Stages
<1>2. CASE StartFkz9Threads
  <2>1. CloudPart' /\ Fkz9Part'
    BY <1>2 DEF StartFkz9Threads
  <2>2. ThreadsThere'
    BY <1>2 DEF StartFkz9Threads, ThreadsThere
  <2>3. ThreadsEnd'
    BY <1>2 DEF StartFkz9Threads, ThreadsThere, ThreadsEnd
  <2>4. Joined'
    BY <1>2 DEF StartFkz9Threads, ThreadsThere, Joined
  <2>5. Connection' /\ DeathsExplained'
    BY <1>2 DEF StartFkz9Threads, Connection, DeathsExplained
  <2> QED
    BY <2>1, <2>2, <2>3, <2>4, <2>5 DEF Stages
<1>3. CASE SetRunning
  <2>1. CloudPart' /\ Fkz9Part'
    BY <1>3 DEF SetRunning
  <2>2. ThreadsThere'
    BY <1>3 DEF SetRunning, ThreadsThere
  <2>3. ThreadsEnd'
    BY <1>3 DEF SetRunning, ThreadsThere, ThreadsEnd
  <2>4. Joined'
    BY <1>3 DEF SetRunning, ThreadsThere, Joined
  <2>5. Connection' /\ DeathsExplained'
    BY <1>3 DEF SetRunning, Connection, DeathsExplained
  <2> QED
    BY <2>1, <2>2, <2>3, <2>4, <2>5 DEF Stages
<1>4. CASE SetFkz9
  <2>1. CloudPart' /\ Fkz9Part'
    BY <1>4 DEF SetFkz9
  <2>2. ThreadsThere'
    BY <1>4 DEF SetFkz9, ThreadsThere
  <2>3. ThreadsEnd'
    BY <1>4 DEF SetFkz9, ThreadsThere, ThreadsEnd
  <2>4. Joined'
    BY <1>4 DEF SetFkz9, ThreadsThere, Joined
  <2>5. Connection' /\ DeathsExplained'
    BY <1>4 DEF SetFkz9, Connection, DeathsExplained
  <2> QED
    BY <2>1, <2>2, <2>3, <2>4, <2>5 DEF Stages
<1>5. CASE Signal
  <2>1. CloudPart' /\ Fkz9Part'
    BY <1>5 DEF Signal
  <2>2. ThreadsThere'
    BY <1>5 DEF Signal, ThreadsThere
  <2>3. ThreadsEnd'
    BY <1>5 DEF Signal, ThreadsThere, ThreadsEnd
  <2>4. Joined'
    BY <1>5 DEF Signal, ThreadsThere, Joined
  <2>5. Connection' /\ DeathsExplained'
    BY <1>5 DEF Signal, Connection, DeathsExplained
  <2> QED
    BY <2>1, <2>2, <2>3, <2>4, <2>5 DEF Stages
<1> QED
  BY <1>1, <1>2, <1>3, <1>4, <1>5

(* Main stops the cloud part and waits for its threads.                    *)
LEMMA CloudStops ==
    ASSUME IInv, Alive, StopCloud \/ JoinCloudThreads \/ IfConnected \/ Disconnect
                        \/ JoinTcpThreads \/ DestroyClient \/ ForgetCloud
    PROVE  Stages'
<1> USE ThreadNames DEF IInv, Stages, Alive, TypeOK, CloudPart, Fkz9Part, Join, LoopBreak
<1>1. CASE StopCloud
  <2>1. CloudPart' /\ Fkz9Part'
    BY <1>1 DEF StopCloud
  <2>2. ThreadsThere'
    BY <1>1 DEF StopCloud, ThreadsThere
  <2>3. ThreadsEnd'
    BY <1>1 DEF StopCloud, ThreadsThere, ThreadsEnd
  <2>4. Joined'
    BY <1>1 DEF StopCloud, ThreadsThere, Joined
  <2>5. Connection' /\ DeathsExplained'
    BY <1>1 DEF StopCloud, Connection, DeathsExplained
  <2> QED
    BY <2>1, <2>2, <2>3, <2>4, <2>5 DEF Stages
<1>2. CASE JoinCloudThreads
  <2>1. CloudPart' /\ Fkz9Part'
    BY <1>2 DEF JoinCloudThreads
  <2>2. ThreadsThere'
    BY <1>2 DEF JoinCloudThreads, ThreadsThere
  <2>3. ThreadsEnd'
    BY <1>2 DEF JoinCloudThreads, ThreadsThere, ThreadsEnd
  <2>4. Joined'
    BY <1>2 DEF JoinCloudThreads, ThreadsThere, Joined
  <2>5. Connection' /\ DeathsExplained'
    BY <1>2 DEF JoinCloudThreads, Connection, DeathsExplained
  <2> QED
    BY <2>1, <2>2, <2>3, <2>4, <2>5 DEF Stages
<1>3. CASE IfConnected
  <2>1. CloudPart' /\ Fkz9Part'
    BY <1>3 DEF IfConnected
  <2>2. ThreadsThere'
    BY <1>3 DEF IfConnected, ThreadsThere
  <2>3. ThreadsEnd'
    BY <1>3 DEF IfConnected, ThreadsThere, ThreadsEnd
  <2>4. Joined'
    BY <1>3 DEF IfConnected, ThreadsThere, Joined
  <2>5. Connection' /\ DeathsExplained'
    BY <1>3 DEF IfConnected, Connection, DeathsExplained
  <2> QED
    BY <2>1, <2>2, <2>3, <2>4, <2>5 DEF Stages
<1>4. CASE Disconnect
  <2>1. CloudPart' /\ Fkz9Part'
    BY <1>4 DEF Disconnect
  <2>2. ThreadsThere'
    BY <1>4 DEF Disconnect, ThreadsThere
  <2>3. ThreadsEnd'
    BY <1>4 DEF Disconnect, ThreadsThere, ThreadsEnd
  <2>4. Joined'
    BY <1>4 DEF Disconnect, ThreadsThere, Joined
  <2>5. Connection' /\ DeathsExplained'
    BY <1>4 DEF Disconnect, Connection, DeathsExplained
  <2> QED
    BY <2>1, <2>2, <2>3, <2>4, <2>5 DEF Stages
<1>5. CASE JoinTcpThreads
  <2>1. CloudPart' /\ Fkz9Part'
    BY <1>5 DEF JoinTcpThreads
  <2>2. ThreadsThere'
    BY <1>5 DEF JoinTcpThreads, ThreadsThere
  <2>3. ThreadsEnd'
    BY <1>5 DEF JoinTcpThreads, ThreadsThere, ThreadsEnd
  <2>4. Joined'
    BY <1>5 DEF JoinTcpThreads, ThreadsThere, Joined
  <2>5. Connection' /\ DeathsExplained'
    BY <1>5 DEF JoinTcpThreads, Connection, DeathsExplained
  <2> QED
    BY <2>1, <2>2, <2>3, <2>4, <2>5 DEF Stages
<1>6. CASE DestroyClient
  <2>1. CloudPart' /\ Fkz9Part'
    BY <1>6 DEF DestroyClient
  <2>2. ThreadsThere'
    BY <1>6 DEF DestroyClient, ThreadsThere
  <2>3. ThreadsEnd'
    BY <1>6 DEF DestroyClient, ThreadsThere, ThreadsEnd
  <2>4. Joined'
    BY <1>6 DEF DestroyClient, ThreadsThere, Joined
  <2>5. Connection' /\ DeathsExplained'
    BY <1>6 DEF DestroyClient, Connection, DeathsExplained
  <2> QED
    BY <2>1, <2>2, <2>3, <2>4, <2>5 DEF Stages
<1>7. CASE ForgetCloud
  <2>1. CloudPart' /\ Fkz9Part'
    BY <1>7 DEF ForgetCloud
  <2>2. ThreadsThere'
    BY <1>7 DEF ForgetCloud, ThreadsThere
  <2>3. ThreadsEnd'
    BY <1>7 DEF ForgetCloud, ThreadsThere, ThreadsEnd
  <2>4. Joined'
    BY <1>7 DEF ForgetCloud, ThreadsThere, Joined
  <2>5. Connection' /\ DeathsExplained'
    BY <1>7 DEF ForgetCloud, Connection, DeathsExplained
  <2> QED
    BY <2>1, <2>2, <2>3, <2>4, <2>5 DEF Stages
<1> QED
  BY <1>1, <1>2, <1>3, <1>4, <1>5, <1>6, <1>7

(* Main stops the part of the FKZ9 and waits for its threads.              *)
LEMMA Fkz9Stops ==
    ASSUME IInv, Alive, StopFkz9 \/ JoinFkz9Threads \/ DestroyMqtt
    PROVE  Stages'
<1> USE ThreadNames DEF IInv, Stages, Alive, TypeOK, CloudPart, Fkz9Part, Join, LoopBreak
<1>1. CASE StopFkz9
  <2>1. CloudPart' /\ Fkz9Part'
    BY <1>1 DEF StopFkz9
  <2>2. ThreadsThere'
    BY <1>1 DEF StopFkz9, ThreadsThere
  <2>3. ThreadsEnd'
    BY <1>1 DEF StopFkz9, ThreadsThere, ThreadsEnd
  <2>4. Joined'
    BY <1>1 DEF StopFkz9, ThreadsThere, Joined
  <2>5. Connection' /\ DeathsExplained'
    BY <1>1 DEF StopFkz9, Connection, DeathsExplained
  <2> QED
    BY <2>1, <2>2, <2>3, <2>4, <2>5 DEF Stages
<1>2. CASE JoinFkz9Threads
  <2>1. CloudPart' /\ Fkz9Part'
    BY <1>2 DEF JoinFkz9Threads
  <2>2. ThreadsThere'
    BY <1>2 DEF JoinFkz9Threads, ThreadsThere
  <2>3. ThreadsEnd'
    BY <1>2 DEF JoinFkz9Threads, ThreadsThere, ThreadsEnd
  <2>4. Joined'
    BY <1>2 DEF JoinFkz9Threads, ThreadsThere, Joined
  <2>5. Connection' /\ DeathsExplained'
    BY <1>2 DEF JoinFkz9Threads, Connection, DeathsExplained
  <2> QED
    BY <2>1, <2>2, <2>3, <2>4, <2>5 DEF Stages
<1>3. CASE DestroyMqtt
  <2>1. CloudPart' /\ Fkz9Part'
    BY <1>3 DEF DestroyMqtt
  <2>2. ThreadsThere'
    BY <1>3 DEF DestroyMqtt, ThreadsThere
  <2>3. ThreadsEnd'
    BY <1>3 DEF DestroyMqtt, ThreadsThere, ThreadsEnd
  <2>4. Joined'
    BY <1>3 DEF DestroyMqtt, ThreadsThere, Joined
  <2>5. Connection' /\ DeathsExplained'
    BY <1>3 DEF DestroyMqtt, Connection, DeathsExplained
  <2> QED
    BY <2>1, <2>2, <2>3, <2>4, <2>5 DEF Stages
<1> QED
  BY <1>1, <1>2, <1>3

(* The threads of the TCP client move the connection on, or die of a       *)
(* client that was freed under them.                                       *)
LEMMA TcpMoves ==
    ASSUME IInv, Alive, Connected \/ NotConnected \/ Retry \/ ConnEnds \/ RequestArrives
                        \/ SendTakes \/ SendWrites \/ SendEnds \/ TcpUsesFreed
    PROVE  Stages'
<1> USE ThreadNames DEF IInv, Stages, Alive, TypeOK, CloudPart, Fkz9Part, Dies
<1>1. CASE Connected
  <2>1. CloudPart' /\ Fkz9Part'
    BY <1>1 DEF Connected
  <2>2. ThreadsThere' /\ ThreadsEnd' /\ Joined'
    BY <1>1 DEF Connected, ThreadsThere, ThreadsEnd, Joined
  <2>3. Connection'
    BY <1>1 DEF Connected, Connection
  <2>4. DeathsExplained'
    BY <1>1 DEF Connected, Connection, DeathsExplained
  <2> QED
    BY <2>1, <2>2, <2>3, <2>4 DEF Stages
<1>2. CASE NotConnected
  <2>1. CloudPart' /\ Fkz9Part'
    BY <1>2 DEF NotConnected
  <2>2. ThreadsThere' /\ ThreadsEnd' /\ Joined'
    BY <1>2 DEF NotConnected, ThreadsThere, ThreadsEnd, Joined
  <2>3. Connection'
    BY <1>2 DEF NotConnected, Connection
  <2>4. DeathsExplained'
    BY <1>2 DEF NotConnected, Connection, DeathsExplained
  <2> QED
    BY <2>1, <2>2, <2>3, <2>4 DEF Stages
<1>3. CASE Retry
  <2>1. CloudPart' /\ Fkz9Part'
    BY <1>3 DEF Retry
  <2>2. ThreadsThere' /\ ThreadsEnd' /\ Joined'
    BY <1>3 DEF Retry, ThreadsThere, ThreadsEnd, Joined
  <2>3. Connection'
    BY <1>3 DEF Retry, Connection
  <2>4. DeathsExplained'
    BY <1>3 DEF Retry, Connection, DeathsExplained
  <2> QED
    BY <2>1, <2>2, <2>3, <2>4 DEF Stages
<1>4. CASE ConnEnds
  <2>1. CloudPart' /\ Fkz9Part'
    BY <1>4 DEF ConnEnds
  <2>2. ThreadsThere' /\ ThreadsEnd' /\ Joined'
    BY <1>4 DEF ConnEnds, ThreadsThere, ThreadsEnd, Joined
  <2>3. Connection'
    BY <1>4 DEF ConnEnds, Connection
  <2>4. DeathsExplained'
    BY <1>4 DEF ConnEnds, Connection, DeathsExplained
  <2> QED
    BY <2>1, <2>2, <2>3, <2>4 DEF Stages
<1>5. CASE SendEnds
  <2>1. CloudPart' /\ Fkz9Part'
    BY <1>5 DEF SendEnds
  <2>2. ThreadsThere' /\ ThreadsEnd' /\ Joined'
    BY <1>5 DEF SendEnds, ThreadsThere, ThreadsEnd, Joined
  <2>3. Connection'
    BY <1>5 DEF SendEnds, Connection
  <2>4. DeathsExplained'
    BY <1>5 DEF SendEnds, Connection, DeathsExplained
  <2> QED
    BY <2>1, <2>2, <2>3, <2>4 DEF Stages
<1>6. CASE TcpUsesFreed
  <2>1. CloudPart' /\ Fkz9Part'
    BY <1>6 DEF TcpUsesFreed
  <2>2. ThreadsThere' /\ ThreadsEnd' /\ Joined'
    BY <1>6 DEF TcpUsesFreed, ThreadsThere, ThreadsEnd, Joined
  <2>3. Connection'
    BY <1>6 DEF TcpUsesFreed, Connection
  <2>4. DeathsExplained'
    BY <1>6 DEF TcpUsesFreed, Connection, DeathsExplained
  <2> QED
    BY <2>1, <2>2, <2>3, <2>4 DEF Stages
<1>7. CASE RequestArrives
  <2>1. CloudPart' /\ Fkz9Part'
    BY <1>7 DEF RequestArrives
  <2>2. ThreadsThere' /\ ThreadsEnd' /\ Joined'
    BY <1>7 DEF RequestArrives, ThreadsThere, ThreadsEnd, Joined
  <2>3. Connection'
    BY <1>7 DEF RequestArrives, Connection
  <2>4. DeathsExplained'
    BY <1>7 DEF RequestArrives, Connection, DeathsExplained
  <2> QED
    BY <2>1, <2>2, <2>3, <2>4 DEF Stages
<1>8. CASE SendTakes
  <2>1. CloudPart' /\ Fkz9Part'
    BY <1>8 DEF SendTakes
  <2>2. ThreadsThere' /\ ThreadsEnd' /\ Joined'
    BY <1>8 DEF SendTakes, ThreadsThere, ThreadsEnd, Joined
  <2>3. Connection'
    BY <1>8 DEF SendTakes, Connection
  <2>4. DeathsExplained'
    BY <1>8 DEF SendTakes, Connection, DeathsExplained
  <2> QED
    BY <2>1, <2>2, <2>3, <2>4 DEF Stages
<1>9. CASE SendWrites
  <2>1. CloudPart' /\ Fkz9Part'
    BY <1>9 DEF SendWrites
  <2>2. ThreadsThere' /\ ThreadsEnd' /\ Joined'
    BY <1>9 DEF SendWrites, ThreadsThere, ThreadsEnd, Joined
  <2>3. Connection'
    BY <1>9 DEF SendWrites, Connection
  <2>4. DeathsExplained'
    BY <1>9 DEF SendWrites, Connection, DeathsExplained
  <2> QED
    BY <2>1, <2>2, <2>3, <2>4 DEF Stages
<1> QED
  BY <1>1, <1>2, <1>3, <1>4, <1>5, <1>6, <1>7, <1>8, <1>9

(* The worker threads move on or end, or die of a pointer that is not set. *)
LEMMA WorkersMove ==
    ASSUME IInv, Alive, Blocks \/ TimerThread \/ Fkz9TimerWaits \/ DownloadEnds \/ EventLoop
                        \/ EventHandles \/ Fkz9EventLoop \/ Fkz9EventHandles
    PROVE  Stages'
<1> USE ThreadNames DEF IInv, Stages, Alive, TypeOK, CloudPart, Fkz9Part,
        CloudUsable, Dies, DiesOfCloud, Goto
<1>1. CASE TimerThread
  <2>1. CloudPart' /\ Fkz9Part' /\ Connection'
    BY <1>1 DEF TimerThread, Connection
  <2>2. ThreadsThere' /\ Joined'
    BY <1>1 DEF TimerThread, ThreadsThere, ThreadsEnd, Joined
  <2>3. ThreadsEnd'
    BY <1>1 DEF TimerThread, ThreadsThere, ThreadsEnd
  <2>4. DeathsExplained'
    BY <1>1 DEF TimerThread, ThreadsThere, Joined, DeathsExplained
  <2> QED
    BY <2>1, <2>2, <2>3, <2>4 DEF Stages
<1>2. CASE Fkz9TimerWaits
  <2>1. CloudPart' /\ Fkz9Part' /\ Connection'
    BY <1>2 DEF Fkz9TimerWaits, Connection
  <2>2. ThreadsThere' /\ Joined'
    BY <1>2 DEF Fkz9TimerWaits, ThreadsThere, ThreadsEnd, Joined
  <2>3. ThreadsEnd'
    BY <1>2 DEF Fkz9TimerWaits, ThreadsThere, ThreadsEnd
  <2>4. DeathsExplained'
    BY <1>2 DEF Fkz9TimerWaits, ThreadsThere, Joined, DeathsExplained
  <2> QED
    BY <2>1, <2>2, <2>3, <2>4 DEF Stages
<1>3. CASE DownloadEnds
  <2>1. CloudPart' /\ Fkz9Part' /\ Connection'
    BY <1>3 DEF DownloadEnds, Connection
  <2>2. ThreadsThere' /\ Joined'
    BY <1>3 DEF DownloadEnds, ThreadsThere, ThreadsEnd, Joined
  <2>3. ThreadsEnd'
    BY <1>3 DEF DownloadEnds, ThreadsThere, ThreadsEnd
  <2>4. DeathsExplained'
    BY <1>3 DEF DownloadEnds, ThreadsThere, Joined, DeathsExplained
  <2> QED
    BY <2>1, <2>2, <2>3, <2>4 DEF Stages
<1>4. CASE EventLoop
  <2>1. CloudPart' /\ Fkz9Part' /\ Connection'
    BY <1>4 DEF EventLoop, Connection
  <2>2. ThreadsThere' /\ Joined'
    BY <1>4 DEF EventLoop, ThreadsThere, ThreadsEnd, Joined
  <2>3. ThreadsEnd'
    BY <1>4 DEF EventLoop, ThreadsThere, ThreadsEnd
  <2>4. DeathsExplained'
    BY <1>4 DEF EventLoop, ThreadsThere, Joined, DeathsExplained
  <2> QED
    BY <2>1, <2>2, <2>3, <2>4 DEF Stages
<1>5. CASE EventHandles
  <2>1. CloudPart' /\ Fkz9Part' /\ Connection'
    BY <1>5 DEF EventHandles, Connection
  <2>2. ThreadsThere' /\ Joined'
    BY <1>5 DEF EventHandles, ThreadsThere, ThreadsEnd, Joined
  <2>3. ThreadsEnd'
    BY <1>5 DEF EventHandles, ThreadsThere, ThreadsEnd
  <2>4. DeathsExplained'
    BY <1>5 DEF EventHandles, ThreadsThere, Joined, DeathsExplained
  <2> QED
    BY <2>1, <2>2, <2>3, <2>4 DEF Stages
<1>6. CASE Fkz9EventLoop
  <2>1. CloudPart' /\ Fkz9Part' /\ Connection'
    BY <1>6 DEF Fkz9EventLoop, Connection
  <2>2. ThreadsThere' /\ Joined'
    BY <1>6 DEF Fkz9EventLoop, ThreadsThere, ThreadsEnd, Joined
  <2>3. ThreadsEnd'
    <3>1. CASE is_running
      BY <1>6, <3>1 DEF Fkz9EventLoop, ThreadsThere, ThreadsEnd
    <3>2. CASE ~is_running
      <4>1. early' \/ mpc \in {"exit"} \union Fkz9Joins
        <5>1. mpc = "set_running" \/ mpc \in {"exit"} \union Fkz9Joins
          BY <1>6, <3>2 DEF Fkz9EventLoop, ThreadsThere
        <5>2. early' <=> mpc = "set_running"
          BY <1>6, <3>2 DEF Fkz9EventLoop
        <5> QED
          BY <5>1, <5>2
      <4>2. /\ thread' = [thread EXCEPT !["fevent"] = "ended"]
            /\ UNCHANGED <<mpc, running, client, broken>>
        BY <1>6, <3>2 DEF Fkz9EventLoop
      <4> QED
        BY <4>1, <4>2 DEF ThreadsEnd
    <3> QED
      BY <3>1, <3>2
  <2>4. DeathsExplained'
    BY <1>6 DEF Fkz9EventLoop, ThreadsThere, Joined, DeathsExplained
  <2> QED
    BY <2>1, <2>2, <2>3, <2>4 DEF Stages
<1>7. CASE Fkz9EventHandles
  <2>1. CloudPart' /\ Fkz9Part' /\ Connection'
    BY <1>7 DEF Fkz9EventHandles, Connection
  <2>2. ThreadsThere' /\ Joined'
    BY <1>7 DEF Fkz9EventHandles, ThreadsThere, ThreadsEnd, Joined
  <2>3. ThreadsEnd'
    BY <1>7 DEF Fkz9EventHandles, ThreadsThere, ThreadsEnd
  <2>4. DeathsExplained'
    BY <1>7 DEF Fkz9EventHandles, ThreadsThere, Joined, DeathsExplained
  <2> QED
    BY <2>1, <2>2, <2>3, <2>4 DEF Stages
<1>8. CASE Blocks
  <2>1. CloudPart' /\ Fkz9Part' /\ Connection'
    BY <1>8 DEF Blocks, Connection
  <2>2. ThreadsThere' /\ Joined'
    BY <1>8 DEF Blocks, ThreadsThere, ThreadsEnd, Joined
  <2>3. ThreadsEnd'
    BY <1>8 DEF Blocks, ThreadsThere, ThreadsEnd
  <2>4. DeathsExplained'
    BY <1>8 DEF Blocks, ThreadsThere, Joined, DeathsExplained
  <2> QED
    BY <2>1, <2>2, <2>3, <2>4 DEF Stages
<1> QED
  BY <1>1, <1>2, <1>3, <1>4, <1>5, <1>6, <1>7, <1>8

(* Paho calls back, or dies of a pointer that is not set.                  *)
LEMMA PahoMoves ==
    ASSUME IInv, Alive, LinkChanges \/ MessageArrives \/ LongArrives \/ LongEnds
                        \/ LongBlocks
    PROVE  Stages'
<1> USE ThreadNames DEF IInv, Stages, Alive, TypeOK, CloudPart, Fkz9Part, Dies
<1>1. CASE LinkChanges
  <2>1. CloudPart' /\ Fkz9Part' /\ Connection'
    BY <1>1 DEF LinkChanges, Connection
  <2>2. ThreadsThere' /\ ThreadsEnd' /\ Joined'
    BY <1>1 DEF LinkChanges, ThreadsThere, ThreadsEnd, Joined
  <2>3. DeathsExplained'
    BY <1>1 DEF LinkChanges, DeathsExplained
  <2> QED
    BY <2>1, <2>2, <2>3 DEF Stages
<1>2. CASE MessageArrives
  <2>1. CloudPart' /\ Fkz9Part' /\ Connection'
    BY <1>2 DEF MessageArrives, Connection
  <2>2. ThreadsThere' /\ ThreadsEnd' /\ Joined'
    BY <1>2 DEF MessageArrives, ThreadsThere, ThreadsEnd, Joined
  <2>3. DeathsExplained'
    BY <1>2 DEF MessageArrives, DeathsExplained
  <2> QED
    BY <2>1, <2>2, <2>3 DEF Stages
<1>3. CASE LongArrives
  <2>1. CloudPart' /\ Fkz9Part' /\ Connection'
    BY <1>3 DEF LongArrives, Connection
  <2>2. ThreadsThere' /\ ThreadsEnd' /\ Joined'
    BY <1>3 DEF LongArrives, ThreadsThere, ThreadsEnd, Joined
  <2>3. DeathsExplained'
    BY <1>3 DEF LongArrives, DeathsExplained
  <2> QED
    BY <2>1, <2>2, <2>3 DEF Stages
<1>4. CASE LongEnds
  <2>1. CloudPart' /\ Fkz9Part' /\ Connection'
    BY <1>4 DEF LongEnds, Connection
  <2>2. ThreadsThere' /\ ThreadsEnd' /\ Joined'
    BY <1>4 DEF LongEnds, ThreadsThere, ThreadsEnd, Joined
  <2>3. DeathsExplained'
    BY <1>4 DEF LongEnds, DeathsExplained
  <2> QED
    BY <2>1, <2>2, <2>3 DEF Stages
<1>5. CASE LongBlocks
  <2>1. CloudPart' /\ Fkz9Part' /\ Connection'
    BY <1>5 DEF LongBlocks, Connection
  <2>2. ThreadsThere' /\ ThreadsEnd' /\ Joined'
    BY <1>5 DEF LongBlocks, ThreadsThere, ThreadsEnd, Joined
  <2>3. DeathsExplained'
    BY <1>5 DEF LongBlocks, DeathsExplained
  <2> QED
    BY <2>1, <2>2, <2>3 DEF Stages
<1> QED
  BY <1>1, <1>2, <1>3, <1>4, <1>5

(* Every step of the specification.                                        *)
LEMMA StepInvariant ==
    ASSUME IInv, [Next]_vars
    PROVE  IInv'
<1>1. CASE Next
  <2>1. TypeOK'
    BY <1>1, TypeKept DEF IInv
  <2>2. Stages'
    BY <1>1, CloudSetsUp, Fkz9SetsUp, CloudStops, Fkz9Stops, TcpMoves, WorkersMove, PahoMoves
    DEF Next, MainStep, TcpThreads, WorkerThreads, PahoThread
  <2> QED
    BY <2>1, <2>2 DEF IInv
<1>2. CASE UNCHANGED vars
  <2>1. TypeOK'
    BY <1>2 DEF IInv, TypeOK, vars
  <2>2. CloudPart' /\ Fkz9Part' /\ ThreadsThere' /\ ThreadsEnd'
    BY <1>2 DEF IInv, Stages, vars, CloudPart, Fkz9Part, ThreadsThere, ThreadsEnd
  <2>3. Joined' /\ Connection' /\ DeathsExplained'
    BY <1>2 DEF IInv, Stages, vars, Joined, Connection, DeathsExplained
  <2> QED
    BY <2>1, <2>2, <2>3 DEF IInv, Stages
<1> QED
  BY <1>1, <1>2

(* Nothing is there when main begins.                                      *)
LEMMA InitInvariant ==
    ASSUME Init
    PROVE  IInv
<1> USE ThreadNames, MaxRecntAssumption DEF Init
<1>1. TypeOK
  <2>1. thread \in [Threads -> Lives] /\ recnt_att \in 0 .. MaxRecnt
    BY DEF Lives
  <2>2. /\ {running, is_running, request, message, is_connected, is_conn} \subseteq BOOLEAN
        /\ {disconnected, early} \subseteq BOOLEAN
    OBVIOUS
  <2> QED
    BY <2>1, <2>2 DEF TypeOK, Lives
<1>2. CloudPart /\ Fkz9Part /\ Connection /\ DeathsExplained
  BY DEF CloudPart, Fkz9Part, Connection, DeathsExplained
<1>3. ThreadsThere /\ ThreadsEnd /\ Joined
  BY DEF ThreadsThere, ThreadsEnd, Joined
<1> QED
  BY <1>1, <1>2, <1>3 DEF IInv, Stages

(* The inductive invariant holds in every state.                           *)
THEOREM Invariant == Spec => []IInv
<1>1. Init => IInv
  BY InitInvariant
<1>2. IInv /\ [Next]_vars => IInv'
  BY StepInvariant
<1> QED
  BY <1>1, <1>2, PTL DEF Spec

(* Type correctness; the counter of attempts keeps to its maximum          *)
(* (tcp_client_reconnect).                                                 *)
THEOREM TypeCorrect == Spec => []TypeOK
<1>1. IInv => TypeOK
  BY DEF IInv
<1> QED
  BY <1>1, Invariant, PTL

(* While the program serves every thread of a part that was set up is      *)
(* there, but for an event thread of the FKZ9 that was too early; when     *)
(* main returns all of them have ended (main, clound_comm_uninit,          *)
(* fkz9_comm_uninit).                                                      *)
THEOREM ThreadsStayAccountedFor == Spec => []ThreadsAccountedFor
<1>1. ASSUME IInv PROVE ThreadsAccountedFor
  <2> USE DEF IInv, Stages, TypeOK
  <2>1. ASSUME mpc = "serve"
        PROVE  /\ client = "live" => \A t \in CloudThreads : thread[t] \notin {"none", "ended"}
               /\ paho # "none" => thread["ftimer"] \notin {"none", "ended"}
               /\ paho # "none" /\ thread["fevent"] = "ended" => early
    BY <1>1, <2>1 DEF CloudPart, ThreadsThere, ThreadsEnd, CloudThreads
  <2>2. ASSUME mpc = "exit"
        PROVE  /\ \A t \in Threads : thread[t] \in {"none", "ended"}
               /\ disconnected => conn = "ended" /\ send = "ended"
    BY <1>1, <2>2, ThreadNames DEF CloudPart, ThreadsThere, Joined, Connection
  <2> QED
    BY <2>1, <2>2 DEF ThreadsAccountedFor
<1> QED
  BY <1>1, Invariant, PTL

(* The program dies of a pointer in the known windows only: before it is   *)
(* set, when the other part is missing, and while main stops               *)
(* (proc_message_cb, recv_fkz9_msg, clound_comm_uninit, main), which it    *)
(* can do with a frame on its way to a bufferevent that is gone            *)
(* (tcp_client_disconnect, tcp_client_send_entry).                         *)
THEOREM DeathsStayExplained == Spec => []DeathsExplained
<1>1. IInv => DeathsExplained
  BY DEF IInv, Stages
<1> QED
  BY <1>1, Invariant, PTL
=============================================================================
