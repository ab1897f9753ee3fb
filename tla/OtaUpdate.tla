----------------------------- MODULE OtaUpdate -----------------------------
(***************************************************************************)
(* Remote firmware updates: the OTA half of services/cloud_comm.c with     *)
(* services/firmware_updater.c and lib/list.c.                             *)
(*                                                                         *)
(* The timer thread runs the callbacks of one event loop, one at a time:   *)
(* the OTA heartbeat (60 s) fetches tasks from the cloud and queues them,  *)
(* the reboot check (30 s) queues the missions that were waiting for the   *)
(* FKZ9 to reboot.  The download thread works through the queue, holding   *)
(* down_task.mutex for the whole of a task.  The mission file has no lock. *)
(*                                                                         *)
(* A boot of the FKZ9 is a number; `uptime -s' of the FKZ9, by which the   *)
(* code tells boots apart, is that number, and 0 the empty string.         *)
(***************************************************************************)
EXTENDS Naturals, Sequences, FiniteSets, SequencesExt

CONSTANTS NowTasks,     \* tasks of type AT_ONCE
          NextTasks,    \* tasks of type NEXT_REBOOT
          LocalTasks,   \* tasks whose archive holds an rt-a100 directory
          MaxBoot,      \* bound: the FKZ9 boots at most this often
          MaxRestart,   \* bound: the program is restarted at most this often
          MaxFetch,     \* bound: tasks in one heartbeat response
          NoTask

Tasks == NowTasks \union NextTasks
Boots == 1 .. MaxBoot

ASSUME TaskAssumption ==
    /\ NowTasks \intersect NextTasks = {}
    /\ NoTask \notin Tasks
    /\ IsFiniteSet(Tasks)
ASSUME BoundAssumption ==
    MaxBoot \in Nat \ {0} /\ MaxRestart \in Nat /\ MaxFetch \in Nat

VARIABLES boot,      \* the current boot of the FKZ9
          uptime,    \* base_info->up_time: the boot last learned of, or 0
          restarts,  \* restarts of the program so far
          mutex,     \* down_task.mutex: the download thread holds it, or nobody
          list,      \* down_task.list
          tpc,       \* the timer thread: where it is in a callback
          fetched,   \*   the tasks of the heartbeat response
          num,       \*   lines counted in the mission file
          dpc,       \* the download thread: where it is in a task
          info,      \*   up_info: the task and its type field
          mission,   \* /upgrade/cktt/ota_mission, its lines
          image,     \* /upgrade/cktt/<id>: what the archive there is worth
          cloud      \* tasks the cloud still has to hand out

(* What happened to each task; read by the properties only. *)
VARIABLES verdict,    \* outcome of the md5 check at line 85 of the updater
          promised,   \* the boot in which the task's log got the line that it
                      \* starts now (167) or at the next reboot (169), or 0
          runs,       \* the boots in which its upgrade script was run
          tried,      \* tasks the updater attempted to run
          reported    \* tasks a report was posted for

timerVars == <<tpc, fetched, num>>
history == <<verdict, promised, runs, tried, reported>>
vars == <<boot, uptime, restarts, mutex, list, timerVars, dpc, info, mission,
          image, cloud, history>>

TypeOf(t) == IF t \in NowTasks THEN "AT_ONCE" ELSE "NEXT_REBOOT"
NoInfo == [task |-> NoTask, type |-> ""]

-----------------------------------------------------------------------------
(* lib/list.c: a chain of nodes and a 16-bit count of them. *)

EmptyList == [nodes |-> <<>>, count |-> 0]

InsertUncountedBug(l, s) == [l EXCEPT !.nodes = @ \o s]

(* List_Insert, once for every element of s. *)
ListInsertAll(l, s) ==
    [nodes |-> l.nodes \o s, count |-> (l.count + Len(s)) % 2^16]

ListIsEmpty(l) == l.count = 0 \/ l.nodes = <<>>

ListDelHead(l) ==
    IF ListIsEmpty(l) THEN l
    ELSE LET left == l.count - 1
         IN  [nodes |-> IF left = 0 THEN <<>> ELSE Tail(l.nodes), count |-> left]

(* FwDownInfo with flag FW_NEED_DOWNLOAD, and with flag 0. *)
NewNode(t) == [task |-> t, needDownload |-> TRUE]
RebootNode(t) == [task |-> t, needDownload |-> FALSE]

-----------------------------------------------------------------------------
Init ==
    /\ boot = 1
    /\ uptime \in {0, 1}       \* 0: the FKZ9 has no updater.sh yet
    /\ restarts = 0
    /\ mutex = "free"
    /\ list = EmptyList
    /\ tpc = "idle" /\ fetched = <<>> /\ num = 0
    /\ dpc = "unlocked" /\ info = NoInfo
    /\ mission = <<>>
    /\ image = [t \in Tasks |-> "none"]
    /\ cloud = Tasks
    /\ verdict = [t \in Tasks |-> "none"]
    /\ promised = [t \in Tasks |-> 0]
    /\ runs = [t \in Tasks |-> <<>>]
    /\ tried = {}
    /\ reported = {}

-----------------------------------------------------------------------------
(* Timer thread: ota_heartbeat_task_cb *)

(* get_ota_heartbeat_info over ssh: it learns the uptime, or not, because  *)
(* it fails before or base_info printed nothing, which is not an error;    *)
(* then it fails (no unit_info), or the heartbeat is posted.  An uptime is *)
(* printed whole or not at all.                                            *)
HeartbeatInfo ==
    /\ tpc = "idle"
    /\ uptime' \in {uptime, boot}
    /\ tpc' \in {"idle", "hb_post"}
    /\ UNCHANGED <<boot, restarts, mutex, list, fetched, num, dpc, info, mission,
                   image, cloud, history>>

(* http_post_request: it fails, or the response names some tasks. *)
HeartbeatPost ==
    /\ tpc = "hb_post"
    /\ \/ /\ tpc' = "idle"
          /\ UNCHANGED <<fetched, cloud>>
       \/ \E n \in 0 .. MaxFetch : \E s \in [1 .. n -> cloud] :
             /\ IsInjective(s)
             /\ fetched' = s
             /\ cloud' = cloud \ ToSet(s)
             /\ tpc' = "hb_insert"
    /\ UNCHANGED <<boot, uptime, restarts, mutex, list, num, dpc, info, mission,
                   image, history>>

(* lock; ota_heartbeat_resp_parse queues the tasks; signal; unlock. *)
HeartbeatInsert ==
    /\ tpc = "hb_insert"
    /\ mutex = "free"
    /\ list' = ListInsertAll(list, [i \in DOMAIN fetched |-> NewNode(fetched[i])])
    /\ tpc' = "idle"
    /\ fetched' = <<>>
    /\ UNCHANGED <<boot, uptime, restarts, mutex, num, dpc, info, mission, image,
                   cloud, history>>

(* Timer thread: reboot_upgrade_task_cb *)

(* Count the lines and compare the uptime of the first one (lines 627-636). *)
RebootCheck ==
    /\ tpc = "idle"
    /\ mission # <<>>
    /\ mission[1].uptime # 0       \* strncmp over no characters is equality
    /\ mission[1].uptime # uptime
    /\ num' = Len(mission) % 2^8
    /\ tpc' = "rb_insert"
    /\ UNCHANGED <<boot, uptime, restarts, mutex, list, fetched, dpc, info, mission,
                   image, cloud, history>>

(* lock; queue the lines counted before; signal; unlock (638-648). *)
RebootInsert ==
    /\ tpc = "rb_insert"
    /\ mutex = "free"
    /\ list' = ListInsertAll(list, [i \in 1 .. num |-> RebootNode(mission[i].task)])
    /\ tpc' = "rb_remove"
    /\ UNCHANGED <<boot, uptime, restarts, mutex, fetched, num, dpc, info, mission,
                   image, cloud, history>>

(* The file stays and is read again 30 s later. *)
RebootKeepsFileBug ==
    /\ tpc = "rb_remove"
    /\ num' = 0
    /\ tpc' = "idle"
    /\ UNCHANGED <<boot, uptime, restarts, mutex, list, fetched, dpc, info, image,
                   mission, cloud, history>>

(* rm -rf of the mission file, with no lock (650-651).  Its result is not  *)
(* looked at; it is taken to succeed here.                                 *)
RebootRemove ==
    /\ tpc = "rb_remove"
    /\ mission' = <<>>
    /\ num' = 0
    /\ tpc' = "idle"
    /\ UNCHANGED <<boot, uptime, restarts, mutex, list, fetched, dpc, info, image,
                   cloud, history>>

-----------------------------------------------------------------------------
(* Download thread: download_upgrade_entry and do_downlaod_firmware *)

DownloadGoto(from, to) == dpc = from /\ dpc' = to

DownloadLock ==
    /\ DownloadGoto("unlocked", "scan")
    /\ mutex = "free"
    /\ mutex' = "download"
    /\ UNCHANGED <<boot, uptime, restarts, list, timerVars, info, mission, image,
                   cloud, history>>

DownloadUnlock ==
    /\ DownloadGoto("scan", "unlocked")
    /\ ListIsEmpty(list)
    /\ mutex' = "free"
    /\ UNCHANGED <<boot, uptime, restarts, list, timerVars, info, mission, image,
                   cloud, history>>

(* A node to download. *)
TakeNew ==
    /\ DownloadGoto("scan", "fetch")
    /\ ~ListIsEmpty(list)
    /\ list.nodes[1].needDownload
    /\ info' = [task |-> list.nodes[1].task, type |-> ""]
    /\ UNCHANGED <<boot, uptime, restarts, mutex, list, timerVars, mission, image,
                   cloud, history>>

(* A node from the mission file: its type becomes REBOOTED. *)
TakeRebooted ==
    /\ DownloadGoto("scan", "trans")
    /\ ~ListIsEmpty(list)
    /\ ~list.nodes[1].needDownload
    /\ info' = [task |-> list.nodes[1].task, type |-> "REBOOTED"]
    /\ UNCHANGED <<boot, uptime, restarts, mutex, list, timerVars, mission, image,
                   cloud, history>>

(* ftp_download: the archive arrives whole, or damaged or not at all; the  *)
(* result is only logged.                                                  *)
Fetch ==
    /\ DownloadGoto("fetch", "record")
    /\ \E got \in {"good", "bad"} : image' = [image EXCEPT ![info.task] = got]
    /\ UNCHANGED <<boot, uptime, restarts, mutex, list, timerVars, info, mission,
                   cloud, history>>

(* A NEXT_REBOOT task goes to the mission file before any check (407-410). *)
Record ==
    /\ DownloadGoto("record", "trans")
    /\ LET t == info.task IN
         /\ info' = [info EXCEPT !.type = TypeOf(t)]
         /\ IF t \in NextTasks
            THEN mission' = Append(mission, [task |-> t, uptime |-> uptime])
            ELSE UNCHANGED mission
    /\ UNCHANGED <<boot, uptime, restarts, mutex, list, timerVars, image, cloud,
                   history>>

(* fkz9_fw_trans_func *)

(* A rebooted mission is due: its type becomes AT_ONCE (76-80). *)
TransRebooted ==
    /\ DownloadGoto("trans", "update")
    /\ info.type = "REBOOTED"
    /\ info' = [info EXCEPT !.type = "AT_ONCE"]
    /\ UNCHANGED <<boot, uptime, restarts, mutex, list, timerVars, mission, image,
                   cloud, history>>

(* The type is left as it was. *)
TransMismatchRunsBug ==
    /\ DownloadGoto("trans", "update")
    /\ info.type # "REBOOTED"
    /\ image[info.task] = "bad"
    /\ verdict' = [verdict EXCEPT ![info.task] = "mismatch"]
    /\ UNCHANGED <<boot, uptime, restarts, mutex, list, timerVars, mission, image,
                   info, cloud, promised, runs, tried, reported>>

(* md5 mismatch: the type is cleared, so that nothing is run (87-91). *)
TransMismatch ==
    /\ DownloadGoto("trans", "update")
    /\ info.type # "REBOOTED"
    /\ image[info.task] = "bad"
    /\ info' = [info EXCEPT !.type = ""]
    /\ verdict' = [verdict EXCEPT ![info.task] = "mismatch"]
    /\ UNCHANGED <<boot, uptime, restarts, mutex, list, timerVars, mission, image,
                   cloud, promised, runs, tried, reported>>

(* md5 match: untar; an archive for the FKZ9 is copied there (93-172). *)
TransMatch ==
    /\ DownloadGoto("trans", "update")
    /\ info.type # "REBOOTED"
    /\ image[info.task] = "good"
    /\ image' = [image EXCEPT ![info.task] = "unpacked"]
    /\ verdict' = [verdict EXCEPT ![info.task] = "match"]
    /\ promised' = [promised EXCEPT ![info.task] = boot]
    /\ UNCHANGED <<boot, uptime, restarts, mutex, list, timerVars, info, mission,
                   cloud, runs, tried, reported>>

(* The failed task is reported all the same. *)
TransFailureReportedBug ==
    /\ DownloadGoto("trans", "report")
    /\ info.type # "REBOOTED"
    /\ image[info.task] = "good"
    /\ info.task \notin LocalTasks
    /\ image' = [image EXCEPT ![info.task] = "unpacked"]
    /\ verdict' = [verdict EXCEPT ![info.task] = "match"]
    /\ UNCHANGED <<boot, uptime, restarts, mutex, list, timerVars, info, mission,
                   cloud, promised, runs, tried, reported>>

(* md5 match, and an ssh step of the copy to the FKZ9 fails (99-147).      *)
TransFails ==
    /\ DownloadGoto("trans", "drop")
    /\ info.type # "REBOOTED"
    /\ image[info.task] = "good"
    /\ info.task \notin LocalTasks
    /\ image' = [image EXCEPT ![info.task] = "unpacked"]
    /\ verdict' = [verdict EXCEPT ![info.task] = "match"]
    /\ UNCHANGED <<boot, uptime, restarts, mutex, list, timerVars, info, mission,
                   cloud, promised, runs, tried, reported>>

(* fkz9_fw_update_func *)

(* The directory goes whatever the type is. *)
UpdateNothingRemovesBug ==
    /\ DownloadGoto("update", "report")
    /\ info.type # "AT_ONCE"
    /\ image' = [image EXCEPT ![info.task] = "none"]
    /\ UNCHANGED <<boot, uptime, restarts, mutex, list, timerVars, info, mission,
                   cloud, history>>

(* Not due now: nothing but the report (405-411). *)
UpdateNothing ==
    /\ DownloadGoto("update", "report")
    /\ info.type # "AT_ONCE"
    /\ UNCHANGED <<boot, uptime, restarts, mutex, list, timerVars, info, mission,
                   image, cloud, history>>

RunScript(t) == runs' = [runs EXCEPT ![t] = Append(@, boot)]

HasLocalScript(t) == t \in LocalTasks /\ image[t] = "unpacked"

(* run.sh here, or upgrade.sh on the FKZ9; then rm -rf of the directory.   *)
UpdateRuns ==
    /\ DownloadGoto("update", "report")
    /\ info.type = "AT_ONCE"
    /\ RunScript(info.task)
    /\ tried' = tried \union {info.task}
    /\ image' = [image EXCEPT ![info.task] = "none"]
    /\ UNCHANGED <<boot, uptime, restarts, mutex, list, timerVars, info, mission,
                   cloud, verdict, promised, reported>>

(* An ssh step on the FKZ9 fails, before the script ran or after (211-397). *)
UpdateFails ==
    /\ DownloadGoto("update", "drop")
    /\ info.type = "AT_ONCE"
    /\ ~HasLocalScript(info.task)
    /\ RunScript(info.task) \/ UNCHANGED runs
    /\ tried' = tried \union {info.task}
    /\ UNCHANGED <<boot, uptime, restarts, mutex, list, timerVars, info, mission,
                   image, cloud, verdict, promised, reported>>

(* do_ota_report, if the updater returned 0. *)
Report ==
    /\ DownloadGoto("report", "drop")
    /\ reported' = reported \union {info.task}
    /\ UNCHANGED <<boot, uptime, restarts, mutex, list, timerVars, info, mission,
                   image, cloud, verdict, promised, runs, tried>>

(* A failed task stays at the head and is tried again at once. *)
DropKeepsFailedBug ==
    /\ DownloadGoto("drop", "scan")
    /\ list' = IF info.task \in reported THEN ListDelHead(list) ELSE list
    /\ info' = NoInfo
    /\ UNCHANGED <<boot, uptime, restarts, mutex, timerVars, mission, image, cloud,
                   history>>

(* free(pInfo) and List_DelHead, whatever became of the task (429-430). *)
Drop ==
    /\ DownloadGoto("drop", "scan")
    /\ list' = ListDelHead(list)
    /\ info' = NoInfo
    /\ UNCHANGED <<boot, uptime, restarts, mutex, timerVars, mission, image, cloud,
                   history>>

-----------------------------------------------------------------------------
(* The FKZ9 reboots. *)
Reboot ==
    /\ boot < MaxBoot
    /\ boot' = boot + 1
    /\ UNCHANGED <<uptime, restarts, mutex, list, timerVars, dpc, info, mission,
                   image, cloud, history>>

(* The program dies and is started again (as a self upgrade does too):     *)
(* memory is lost, files stay, and init_updater_environment asks the FKZ9  *)
(* for its uptime if updater.sh is installed there.                        *)
Restart ==
    /\ restarts < MaxRestart
    /\ restarts' = restarts + 1
    /\ uptime' \in {0, boot}
    /\ mutex' = "free"
    /\ list' = EmptyList
    /\ tpc' = "idle" /\ fetched' = <<>> /\ num' = 0
    /\ dpc' = "unlocked" /\ info' = NoInfo
    /\ UNCHANGED <<boot, mission, image, cloud, history>>

TimerStep ==
    \/ HeartbeatInfo \/ HeartbeatPost \/ HeartbeatInsert
    \/ RebootCheck \/ RebootInsert \/ RebootRemove

(* What the download thread does with down_task.mutex held. *)
TaskStep ==
    \/ DownloadUnlock \/ TakeNew \/ TakeRebooted \/ Fetch \/ Record
    \/ TransRebooted \/ TransMismatch \/ TransMatch \/ TransFails
    \/ UpdateNothing \/ UpdateRuns \/ UpdateFails
    \/ Report \/ Drop

Next == TimerStep \/ DownloadLock \/ TaskStep \/ Reboot \/ Restart

Spec == Init /\ [][Next]_vars

(* The download thread runs, and gets a mutex that the timer thread holds  *)
(* for an insertion every 30 s only; the calls of ssh and libcurl, which   *)
(* have no timeout, are taken to return.  Nothing is assumed about the     *)
(* timer thread, which the download thread can keep out for as long as it  *)
(* likes.                                                                  *)
FairSpec == Spec /\ WF_vars(TaskStep) /\ SF_vars(DownloadLock)

-----------------------------------------------------------------------------
(* Correctness *)

(* Every variable keeps its shape, and the count of lib/list.c is the      *)
(* number of nodes in the chain.                                           *)
TypeOK ==
    /\ boot \in Boots /\ uptime \in Boots \union {0}
    /\ restarts \in 0 .. MaxRestart
    /\ mutex \in {"free", "download"}
    /\ list.nodes \in Seq([task : Tasks, needDownload : BOOLEAN])
    /\ list.count = Len(list.nodes)
    /\ tpc \in {"idle", "hb_post", "hb_insert", "rb_insert", "rb_remove"}
    /\ fetched \in Seq(Tasks)
    /\ num \in Nat
    /\ dpc \in {"unlocked", "scan", "fetch", "record", "trans", "update", "report", "drop"}
    /\ info \in [task : Tasks \union {NoTask},
                 type : {"", "AT_ONCE", "NEXT_REBOOT", "REBOOTED"}]
    /\ mission \in Seq([task : NextTasks, uptime : Boots \union {0}])
    /\ image \in [Tasks -> {"none", "bad", "good", "unpacked"}]
    /\ cloud \subseteq Tasks
    /\ verdict \in [Tasks -> {"none", "match", "mismatch"}]
    /\ promised \in [Tasks -> Boots \union {0}]
    /\ tried \subseteq Tasks /\ reported \subseteq Tasks
    /\ runs \in [Tasks -> Seq(Boots)]

(* An upgrade runs at most once, and once more for each restart that may   *)
(* have hit between queueing the missions and removing their file, if rm   *)
(* does remove it: nobody looks, and a file that stays is run every 30 s.  *)
RunsBounded == \A t \in Tasks : Len(runs[t]) <= 1 + restarts

(* An AT_ONCE task runs only from an archive whose md5 matched and that    *)
(* reached its destination.                                                *)
VerifiedBeforeRun ==
    \A t \in NowTasks : runs[t] # <<>> => verdict[t] = "match" /\ promised[t] # 0

(* A report tells the cloud of a task that was declined, is staged, or was *)
(* attempted to the end; an AT_ONCE one is never reported as only staged.  *)
ReportsAreTrue ==
    \A t \in reported :
        \/ verdict[t] = "mismatch"
        \/ runs[t] # <<>>
        \/ t \in NextTasks /\ promised[t] # 0

(* The archive of a mission that waits for its reboot is still on disk:    *)
(* the clean-up after an update (413-417) spares what was only staged.     *)
ArchiveKept ==
    \A i \in DOMAIN mission :
        LET t == mission[i].task
        IN  promised[t] # 0 /\ runs[t] = <<>> => image[t] = "unpacked"

Queued(t) == \E i \in DOMAIN list.nodes : list.nodes[i].task = t

(* No failure blocks the queue: every queued task gets its turn and goes,  *)
(* whatever the calls of ssh and libcurl return (cloud_comm.c:393-431).    *)
EveryTaskLeaves == \A t \in Tasks : Queued(t) ~> ~Queued(t)

(* "md5 not match, do not excute task %d, ota failed"                      *)
(* (firmware_updater.c:88): a declined task is never run.                  *)
DeclinedNeverRuns == \A t \in Tasks : verdict[t] = "mismatch" => runs[t] = <<>>

(* "start the ota task when next reboot" (firmware_updater.c:169): a       *)
(* NEXT_REBOOT task runs in a later boot than the one it was told so in.   *)
WaitsForReboot ==
    \A t \in NextTasks : \A i \in DOMAIN runs[t] :
        promised[t] # 0 => runs[t][i] > promised[t]

(* The same line: a promised mission is in the mission file or in the      *)
(* queue until it has been tried.                                          *)
MissionKept ==
    \A t \in NextTasks : promised[t] # 0 =>
        \/ t \in tried
        \/ Queued(t)
        \/ \E i \in DOMAIN mission : mission[i].task = t

=============================================================================
