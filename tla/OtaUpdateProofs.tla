-------------------------- MODULE OtaUpdateProofs --------------------------
(***************************************************************************)
(* Proofs about the firmware updates, for any tasks, boots and restarts.   *)
(*                                                                         *)
(* The cloud hands out each task once.  What the proofs rest on is that    *)
(* the program then has it once as a new task (HandedOutOnce, Untouched)   *)
(* and at most once as a mission that is due (MissionsOnce), and on what   *)
(* the download thread knows of the task it is at (StageOK).               *)
(***************************************************************************)
EXTENDS OtaUpdate, SequenceTheorems, FiniteSetTheorems, TLAPS

Node == [task : Tasks, needDownload : BOOLEAN]
Line == [task : NextTasks, uptime : Boots \union {0}]
Info == [task : Tasks \union {NoTask}, type : {"", "AT_ONCE", "NEXT_REBOOT", "REBOOTED"}]
Busy == dpc \notin {"unlocked", "scan"}

(* TypeOK without the count of the list, which 16 bits bound.              *)
ShapeOK ==
    /\ boot \in Boots /\ uptime \in Boots \union {0}
    /\ restarts \in Nat
    /\ list.nodes \in Seq(Node)
    /\ fetched \in Seq(Tasks)
    /\ num \in Nat
    /\ info \in Info
    /\ mission \in Seq(Line)
    /\ image \in [Tasks -> {"none", "bad", "good", "unpacked"}]
    /\ cloud \subseteq Tasks
    /\ verdict \in [Tasks -> {"none", "match", "mismatch"}]
    /\ promised \in [Tasks -> Boots \union {0}]
    /\ reported \subseteq Tasks
    /\ runs \in [Tasks -> Seq(Boots)]

(* The download thread holds the lock, and works on the head of the list.  *)
HeadInWork ==
    /\ dpc # "unlocked" => mutex = "download"
    /\ Busy => /\ list.nodes # <<>> /\ list.count # 0
               /\ info.task = list.nodes[1].task

(* Lines counted are still there when they are read.                       *)
Counted == tpc \in {"rb_insert", "rb_remove"} => num <= Len(mission)

New(i) == i \in DOMAIN list.nodes /\ list.nodes[i].needDownload
Due(i) == i \in DOMAIN list.nodes /\ ~list.nodes[i].needDownload

(* A task is in one place at a time before the program has begun with it.  *)
HandedOutOnce ==
    /\ \A i, j \in DOMAIN fetched : fetched[i] = fetched[j] => i = j
    /\ \A i \in DOMAIN fetched : fetched[i] \notin cloud
    /\ \A i, j \in DOMAIN list.nodes :
          New(i) /\ New(j) /\ list.nodes[i].task = list.nodes[j].task => i = j
    /\ \A i \in DOMAIN list.nodes :
          New(i) => /\ list.nodes[i].task \notin cloud
                    /\ \A j \in DOMAIN fetched : fetched[j] # list.nodes[i].task

(* Nothing has been done for t, and nothing is recorded of it.             *)
Blank(t) ==
    /\ verdict[t] = "none" /\ promised[t] = 0 /\ runs[t] = <<>>
    /\ t \notin reported
Unknown(t) ==
    /\ \A i \in DOMAIN mission : mission[i].task # t
    /\ \A i \in DOMAIN list.nodes : Due(i) => list.nodes[i].task # t
Untouched ==
    /\ \A t \in cloud : Blank(t) /\ Unknown(t)
    /\ \A i \in DOMAIN fetched : Blank(fetched[i]) /\ Unknown(fetched[i])
    /\ \A i \in DOMAIN list.nodes :
          New(i) /\ (i # 1 \/ ~Busy) => Blank(list.nodes[i].task) /\ Unknown(list.nodes[i].task)

(* A mission is queued once for each time its line is read, and read again *)
(* only if the program is restarted before the file is removed.            *)
Read(i) == tpc = "rb_remove" /\ i <= num
MissionsOnce ==
    /\ \A i, j \in DOMAIN mission : mission[i].task = mission[j].task => i = j
    /\ \A i \in DOMAIN mission : Read(i) \/ Len(runs[mission[i].task]) <= restarts
    /\ \A i \in DOMAIN list.nodes : Due(i) => list.nodes[i].task \in NextTasks
    /\ \A i, j \in DOMAIN list.nodes :
          Due(i) /\ Due(j) /\ list.nodes[i].task = list.nodes[j].task => i = j
    /\ \A i \in DOMAIN list.nodes :
          Due(i) /\ (i # 1 \/ ~Busy) => Len(runs[list.nodes[i].task]) <= restarts
    /\ \A i \in DOMAIN list.nodes : \A j \in DOMAIN mission :
          Due(i) /\ list.nodes[i].task = mission[j].task => Read(j)

(* What is known of the task in work at each stage.                        *)
StageOK ==
    /\ dpc \in {"fetch", "record"} => New(1) /\ Blank(info.task) /\ Unknown(info.task)
    /\ dpc = "trans" =>
          \/ /\ info.type = "REBOOTED" /\ Due(1)
             /\ Len(runs[info.task]) <= restarts
          \/ /\ info.type = TypeOf(info.task) /\ New(1)
             /\ Blank(info.task)
             /\ \A i \in DOMAIN list.nodes : Due(i) => list.nodes[i].task # info.task
    /\ dpc = "update" =>
          \/ info.type = "" /\ verdict[info.task] = "mismatch"
          \/ info.type = "NEXT_REBOOT" /\ info.task \in NextTasks /\ promised[info.task] # 0
          \/ /\ info.type = "AT_ONCE"
             /\ Len(runs[info.task]) <= restarts
             /\ \/ Due(1)
                \/ /\ New(1) /\ info.task \in NowTasks
                   /\ verdict[info.task] = "match" /\ promised[info.task] # 0
    /\ dpc = "report" =>
          \/ verdict[info.task] = "mismatch"
          \/ runs[info.task] # <<>>
          \/ info.task \in NextTasks /\ promised[info.task] # 0

IInv ==
    /\ ShapeOK /\ HeadInWork /\ Counted
    /\ HandedOutOnce /\ Untouched /\ MissionsOnce
    /\ StageOK
    /\ VerifiedBeforeRun /\ ReportsAreTrue /\ ArchiveKept /\ RunsBounded
-----------------------------------------------------------------------------
(* What the sequences hold.                                                *)
LEMMA Contents ==
    ASSUME ShapeOK
    PROVE  /\ DOMAIN list.nodes = 1 .. Len(list.nodes) /\ Len(list.nodes) \in Nat
           /\ \A i \in DOMAIN list.nodes :
                 list.nodes[i].task \in Tasks /\ list.nodes[i].needDownload \in BOOLEAN
           /\ DOMAIN fetched = 1 .. Len(fetched) /\ Len(fetched) \in Nat
           /\ \A i \in DOMAIN fetched : fetched[i] \in Tasks
           /\ DOMAIN mission = 1 .. Len(mission) /\ Len(mission) \in Nat
           /\ \A i \in DOMAIN mission : mission[i].task \in NextTasks
           /\ \A t \in Tasks : Len(runs[t]) \in Nat
<1>1. /\ list.nodes \in Seq(Node) /\ fetched \in Seq(Tasks) /\ mission \in Seq(Line)
      /\ \A t \in Tasks : runs[t] \in Seq(Boots)
  BY DEF ShapeOK
<1>2. /\ \A i \in DOMAIN list.nodes : list.nodes[i] \in Node
      /\ \A i \in DOMAIN mission : mission[i] \in Line
      /\ \A i \in DOMAIN fetched : fetched[i] \in Tasks
  BY <1>1
<1> QED
  BY <1>1, <1>2 DEF Node, Line

(* The task in work.                                                       *)
LEMMA InWork ==
    ASSUME IInv, Busy
    PROVE  /\ info.task \in Tasks /\ info.task = list.nodes[1].task
           /\ 1 \in DOMAIN list.nodes /\ (New(1) \/ Due(1))
           /\ DOMAIN info = {"task", "type"}
           /\ dpc # "unlocked" /\ mutex = "download"
<1>1. list.nodes # <<>> /\ info.task = list.nodes[1].task
  BY DEF IInv, HeadInWork
<1>2. list.nodes \in Seq(Node) /\ info \in Info
  BY DEF IInv, ShapeOK
<1>3. 1 \in DOMAIN list.nodes
  BY <1>1, <1>2
<1> QED
  BY <1>1, <1>2, <1>3, Contents DEF IInv, New, Due, Info, Busy, HeadInWork

(* It is nowhere else among the tasks to begin with.                       *)
LEMMA Alone ==
    ASSUME IInv, Busy
    PROVE  /\ info.task \notin cloud
           /\ \A i \in DOMAIN fetched : fetched[i] # info.task
           /\ \A i \in DOMAIN list.nodes : i # 1 /\ New(i) => list.nodes[i].task # info.task
           /\ \A i \in DOMAIN list.nodes :
                 i # 1 /\ Due(i) /\ Due(1) => list.nodes[i].task # info.task
<1>1. CASE New(1)
  BY <1>1, InWork DEF IInv, HandedOutOnce, New, Due
<1>2. CASE Due(1)
  BY <1>2, InWork DEF IInv, Untouched, Unknown, MissionsOnce, New, Due
<1> QED
  BY <1>1, <1>2, InWork

(* What is done for the task in work leaves the others as they are.        *)
LEMMA OthersUntouched ==
    ASSUME IInv, Busy, Busy', UNCHANGED <<cloud, fetched, list, mission>>,
           \A t \in Tasks \ {info.task} :
              /\ verdict'[t] = verdict[t] /\ promised'[t] = promised[t]
              /\ runs'[t] = runs[t] /\ (t \in reported' => t \in reported)
    PROVE  Untouched'
<1>1. /\ \A i \in DOMAIN list.nodes : list.nodes[i].task \in Tasks
      /\ \A i \in DOMAIN fetched : fetched[i] \in Tasks
      /\ cloud \subseteq Tasks
  BY Contents DEF IInv, ShapeOK
<1>2. \A t \in Tasks \ {info.task} : (Blank(t) => Blank(t)') /\ (Unknown(t) => Unknown(t)')
  BY DEF Blank, Unknown, Due
<1>3. \A t \in cloud : (Blank(t) /\ Unknown(t))'
  BY <1>1, <1>2, Alone DEF IInv, Untouched
<1>4. \A i \in DOMAIN fetched : (Blank(fetched[i]) /\ Unknown(fetched[i]))'
  BY <1>1, <1>2, Alone DEF IInv, Untouched, Blank, Unknown, Due
<1>5. \A i \in DOMAIN list.nodes :
         New(i) /\ i # 1 => (Blank(list.nodes[i].task) /\ Unknown(list.nodes[i].task))'
  BY <1>1, <1>2, Alone DEF IInv, Untouched, Blank, Unknown, Due
<1> QED
  BY <1>3, <1>4, <1>5 DEF Untouched, New

(* A script is run for the task in work. *)
LEMMA RunAppended ==
    ASSUME IInv, Busy, RunScript(info.task)
    PROVE  /\ \A t \in Tasks \ {info.task} : runs'[t] = runs[t]
           /\ runs' \in [Tasks -> Seq(Boots)]
           /\ runs'[info.task] # <<>>
           /\ Len(runs'[info.task]) = Len(runs[info.task]) + 1
<1> DEFINE r == Append(runs[info.task], boot)
<1>1. info.task \in Tasks /\ runs \in [Tasks -> Seq(Boots)] /\ boot \in Boots
  BY InWork DEF IInv, ShapeOK
<1>2. r \in Seq(Boots) /\ Len(r) = Len(runs[info.task]) + 1 /\ r # <<>>
  BY <1>1, AppendProperties
<1>3. runs' = [runs EXCEPT ![info.task] = r]
  BY DEF RunScript
<1> HIDE DEF r
<1> QED
  BY <1>1, <1>2, <1>3

(* Nodes added to the end of the list. *)
LEMMA Added ==
    ASSUME NEW s \in Seq(Node), NEW u \in Seq(Node)
    PROVE  /\ s \o u \in Seq(Node)
           /\ DOMAIN (s \o u) = 1 .. Len(s) + Len(u)
           /\ \A i \in 1 .. Len(s) : (s \o u)[i] = s[i]
           /\ \A i \in Len(s) + 1 .. Len(s) + Len(u) : (s \o u)[i] = u[i - Len(s)]
  BY ConcatProperties

(* A list that is not empty has a head. *)
LEMMA NonEmpty ==
    ASSUME NEW s \in Seq(Node), s # <<>>
    PROVE  1 \in DOMAIN s
  OBVIOUS

(* get_ota_heartbeat_info only learns the uptime.                          *)
LEMMA StepHeartbeatInfo ==
    ASSUME IInv, HeartbeatInfo
    PROVE  IInv'
<1> USE TaskAssumption, BoundAssumption DEF IInv, HeartbeatInfo, timerVars, history
<1>1. ShapeOK'
  BY DEF ShapeOK, Tasks, Boots
<1>2. HeadInWork'
  BY DEF HeadInWork, Busy
<1>3. Counted'
  BY DEF Counted
<1>4. HandedOutOnce'
  BY DEF HandedOutOnce, New
<1>5. Untouched'
  BY DEF Untouched, Blank, Unknown, New, Due, Busy
<1>6. MissionsOnce'
  BY DEF MissionsOnce, Read, New, Due, Busy
<1>7. StageOK'
  BY DEF StageOK, Blank, Unknown, New, Due
<1>8. VerifiedBeforeRun' /\ ReportsAreTrue'
  BY DEF VerifiedBeforeRun, ReportsAreTrue
<1>9. ArchiveKept' /\ RunsBounded'
  BY DEF ArchiveKept, RunsBounded
<1> QED
  BY <1>1, <1>2, <1>3, <1>4, <1>5, <1>6, <1>7, <1>8, <1>9

(* What the cloud hands out leaves the cloud for the response.             *)
LEMMA StepHeartbeatPost ==
    ASSUME IInv, HeartbeatPost
    PROVE  IInv'
<1> USE TaskAssumption, BoundAssumption DEF IInv, HeartbeatPost, timerVars, history
<1>a. \/ UNCHANGED <<fetched, cloud>>
      \/ /\ fetched' \in Seq(Tasks) /\ cloud' \subseteq cloud
         /\ \A i \in DOMAIN fetched' : fetched'[i] \in cloud /\ fetched'[i] \notin cloud'
         /\ \A i, j \in DOMAIN fetched' : fetched'[i] = fetched'[j] => i = j
  <2>1. ASSUME NEW n \in 0 .. MaxFetch, NEW s \in [1 .. n -> cloud],
               IsInjective(s), fetched' = s, cloud' = cloud \ ToSet(s)
        PROVE  /\ fetched' \in Seq(Tasks) /\ cloud' \subseteq cloud
               /\ \A i \in DOMAIN fetched' : fetched'[i] \in cloud /\ fetched'[i] \notin cloud'
               /\ \A i, j \in DOMAIN fetched' : fetched'[i] = fetched'[j] => i = j
    <3>1. n \in Nat /\ cloud \subseteq Tasks /\ DOMAIN s = 1 .. n
      BY DEF ShapeOK
    <3>2. s \in Seq(Tasks)
      BY <3>1
    <3>3. \A i \in 1 .. n : s[i] \in cloud /\ s[i] \in ToSet(s)
      BY <3>1 DEF ToSet
    <3>4. \A i, j \in 1 .. n : s[i] = s[j] => i = j
      BY <2>1, <3>1 DEF IsInjective
    <3> QED
      BY <2>1, <3>1, <3>2, <3>3, <3>4
  <2> QED
    BY <2>1
<1>1. ShapeOK'
  BY <1>a DEF ShapeOK
<1>2. HeadInWork'
  BY DEF HeadInWork, Busy
<1>3. Counted'
  BY DEF Counted
<1>4. HandedOutOnce'
  BY <1>a DEF HandedOutOnce, New
<1>5. Untouched'
  BY <1>a DEF Untouched, Blank, Unknown, New, Due, Busy
<1>6. MissionsOnce'
  BY DEF MissionsOnce, Read, New, Due, Busy
<1>7. StageOK'
  BY DEF StageOK, Blank, Unknown, New, Due
<1>8. VerifiedBeforeRun' /\ ReportsAreTrue'
  BY DEF VerifiedBeforeRun, ReportsAreTrue
<1>9. ArchiveKept' /\ RunsBounded'
  BY DEF ArchiveKept, RunsBounded
<1> QED
  BY <1>1, <1>2, <1>3, <1>4, <1>5, <1>6, <1>7, <1>8, <1>9

(* The tasks of the response become new nodes at the end of the list.      *)
LEMMA StepHeartbeatInsert ==
    ASSUME IInv, HeartbeatInsert
    PROVE  IInv'
<1> USE TaskAssumption, BoundAssumption DEF IInv, HeartbeatInsert, ListInsertAll, NewNode, timerVars, history
<1> DEFINE N == Len(list.nodes)
<1>0. /\ list.nodes \in Seq(Node) /\ fetched \in Seq(Tasks) /\ ~Busy /\ N \in Nat
      /\ DOMAIN list.nodes = 1 .. N /\ DOMAIN fetched = 1 .. Len(fetched)
      /\ Len(fetched) \in Nat
  BY Contents DEF ShapeOK, HeadInWork, Busy
<1> DEFINE new == [i \in DOMAIN fetched |-> NewNode(fetched[i])]
<1>1a. new \in Seq(Node) /\ Len(new) = Len(fetched)
  BY <1>0 DEF Node
<1>a. /\ list'.nodes \in Seq(Node)
      /\ DOMAIN list'.nodes = 1 .. N + Len(fetched)
      /\ \A i \in 1 .. N : list'.nodes[i] = list.nodes[i]
      /\ \A i \in N + 1 .. N + Len(fetched) : list'.nodes[i] = new[i - N]
  BY <1>0, <1>1a, Added
<1>b. \A i \in N + 1 .. N + Len(fetched) :
         /\ i - N \in 1 .. Len(fetched)
         /\ list'.nodes[i].task = fetched[i - N] /\ list'.nodes[i].needDownload
  BY <1>0, <1>a
<1> HIDE DEF N, new
<1>1. ShapeOK'
  BY <1>a DEF ShapeOK
<1>2. HeadInWork'
  BY DEF HeadInWork, Busy
<1>3. Counted'
  BY DEF Counted
<1>4. HandedOutOnce'
  <2>1. /\ fetched' = <<>> /\ DOMAIN fetched' = {} /\ cloud' = cloud
        /\ \A i \in DOMAIN list'.nodes : i \in 1 .. N \/ i \in N + 1 .. N + Len(fetched)
    BY <1>0, <1>a
  <2>2. \A i, j \in DOMAIN list'.nodes :
           New(i)' /\ New(j)' /\ list'.nodes[i].task = list'.nodes[j].task => i = j
    <3> SUFFICES ASSUME NEW i \in DOMAIN list'.nodes, NEW j \in DOMAIN list'.nodes,
                        New(i)', New(j)', list'.nodes[i].task = list'.nodes[j].task
                 PROVE  i = j
      OBVIOUS
    <3>1. CASE i \in 1 .. N /\ j \in 1 .. N
      BY <3>1, <1>0, <1>a DEF HandedOutOnce, New
    <3>2. CASE i \in 1 .. N /\ j \in N + 1 .. N + Len(fetched)
      BY SMTT(60), <3>2, <1>0, <1>a, <1>b DEF HandedOutOnce, New
    <3>3. CASE i \in N + 1 .. N + Len(fetched) /\ j \in 1 .. N
      BY <3>3, <1>0, <1>a, <1>b DEF HandedOutOnce, New
    <3>4. CASE i \in N + 1 .. N + Len(fetched) /\ j \in N + 1 .. N + Len(fetched)
      <4>1. fetched[i - N] = fetched[j - N] /\ i - N \in DOMAIN fetched /\ j - N \in DOMAIN fetched
        BY <3>4, <1>0, <1>b
      <4>2. i - N = j - N
        BY <4>1 DEF HandedOutOnce
      <4> QED
        BY <4>2, <3>4, <1>0
    <3> QED
      BY <2>1, <3>1, <3>2, <3>3, <3>4
  <2>3. \A i \in DOMAIN list'.nodes : New(i)' => list'.nodes[i].task \notin cloud
    <3>1. \A i \in 1 .. N : New(i)' => list'.nodes[i].task \notin cloud
      BY <1>0, <1>a DEF HandedOutOnce, New
    <3>2. \A i \in N + 1 .. N + Len(fetched) : list'.nodes[i].task \notin cloud
      BY <1>0, <1>b DEF HandedOutOnce
    <3> QED
      BY <2>1, <3>1, <3>2
  <2> HIDE DEF HeartbeatInsert, IInv
  <2> QED
    BY <2>1, <2>2, <2>3 DEF HandedOutOnce, New
<1>5. Untouched'
  <2>1. \A t : (Blank(t) => Blank(t)') /\ (Unknown(t) => Unknown(t)')
    <3>1. \A i \in DOMAIN list'.nodes : Due(i)' => Due(i) /\ list'.nodes[i] = list.nodes[i]
      BY <1>0, <1>a, <1>b DEF Due
    <3>2. DOMAIN list.nodes \subseteq DOMAIN list'.nodes
      BY <1>0, <1>a
    <3> QED
      BY <3>1, <3>2 DEF Blank, Unknown, Due
  <2>2. \A t \in cloud : (Blank(t) /\ Unknown(t))'
    BY <2>1 DEF Untouched
  <2>3. \A i \in DOMAIN list'.nodes : New(i)' =>
           Blank(list'.nodes[i].task) /\ Unknown(list'.nodes[i].task)
    <3> SUFFICES ASSUME NEW i \in DOMAIN list'.nodes, New(i)'
                 PROVE  Blank(list'.nodes[i].task) /\ Unknown(list'.nodes[i].task)
      OBVIOUS
    <3>1. CASE i \in 1 .. N
      <4>1. New(i) /\ list'.nodes[i] = list.nodes[i]
        BY <3>1, <1>0, <1>a DEF New
      <4> QED
        BY <4>1, <1>0 DEF Untouched, New
    <3>2. CASE i \in N + 1 .. N + Len(fetched)
      <4>1. i - N \in DOMAIN fetched /\ list'.nodes[i].task = fetched[i - N]
        BY <3>2, <1>0, <1>b
      <4> QED
        BY <4>1 DEF Untouched
    <3> QED
      BY <3>1, <3>2, <1>0, <1>a
  <2>4. \A i \in DOMAIN list'.nodes :
           New(i)' => (Blank(list.nodes[i].task) /\ Unknown(list.nodes[i].task))'
    <3> HIDE DEF HeartbeatInsert, IInv
    <3> QED
      BY <2>1, <2>3 DEF Blank, Unknown, Due
  <2>5. fetched' = <<>> /\ DOMAIN fetched' = {} /\ cloud' = cloud
    OBVIOUS
  <2> HIDE DEF HeartbeatInsert, IInv
  <2> QED
    BY <2>2, <2>4, <2>5 DEF Untouched
<1>6. MissionsOnce'
  <2>1. \A i : Due(i)' => Due(i) /\ list'.nodes[i] = list.nodes[i]
    BY <1>0, <1>a, <1>b DEF Due
  <2>2. \A i \in DOMAIN mission : Read(i)' = Read(i) /\ ~Read(i)
    BY DEF Read
  <2> QED
    BY SMTT(60), <1>0, <2>1, <2>2 DEF MissionsOnce, Due
<1>7. StageOK'
  BY <1>0 DEF StageOK, Busy
<1>8. VerifiedBeforeRun' /\ ReportsAreTrue'
  BY DEF VerifiedBeforeRun, ReportsAreTrue
<1>9. ArchiveKept' /\ RunsBounded'
  BY DEF ArchiveKept, RunsBounded
<1> QED
  BY <1>1, <1>2, <1>3, <1>4, <1>5, <1>6, <1>7, <1>8, <1>9

(* The lines counted are at most the lines of the mission file.            *)
LEMMA StepRebootCheck ==
    ASSUME IInv, RebootCheck
    PROVE  IInv'
<1> USE TaskAssumption, BoundAssumption DEF IInv, RebootCheck, timerVars, history
<1>1. ShapeOK'
  <2>1. num' \in Nat
    BY Contents
  <2> QED
    BY <2>1 DEF ShapeOK
<1>2. HeadInWork'
  BY DEF HeadInWork, Busy
<1>3. Counted'
  <2>1. Len(mission) \in Nat
    BY Contents
  <2>2. \A x \in Nat : x % 2^8 <= x
    OBVIOUS
  <2> QED
    BY <2>1, <2>2 DEF Counted
<1>4. HandedOutOnce'
  BY DEF HandedOutOnce, New
<1>5. Untouched'
  BY DEF Untouched, Blank, Unknown, New, Due, Busy
<1>6. MissionsOnce'
  BY DEF MissionsOnce, Read, New, Due, Busy
<1>7. StageOK'
  BY DEF StageOK, Blank, Unknown, New, Due
<1>8. VerifiedBeforeRun' /\ ReportsAreTrue'
  BY DEF VerifiedBeforeRun, ReportsAreTrue
<1>9. ArchiveKept' /\ RunsBounded'
  BY DEF ArchiveKept, RunsBounded
<1> QED
  BY <1>1, <1>2, <1>3, <1>4, <1>5, <1>6, <1>7, <1>8, <1>9

(* The lines counted become due nodes, each of a task not queued yet.      *)
LEMMA StepRebootInsert ==
    ASSUME IInv, RebootInsert
    PROVE  IInv'
<1> USE TaskAssumption, BoundAssumption DEF IInv, RebootInsert, ListInsertAll, RebootNode, timerVars, history
<1> DEFINE N == Len(list.nodes)
<1>0. /\ list.nodes \in Seq(Node) /\ mission \in Seq(Line) /\ ~Busy /\ N \in Nat
      /\ DOMAIN list.nodes = 1 .. N /\ DOMAIN mission = 1 .. Len(mission)
      /\ num \in Nat /\ num <= Len(mission) /\ Len(mission) \in Nat
      /\ \A i \in DOMAIN mission : mission[i].task \in NextTasks
  BY Contents DEF ShapeOK, HeadInWork, Busy, Counted
<1> DEFINE due == [i \in 1 .. num |-> RebootNode(mission[i].task)]
<1>1a. due \in Seq(Node) /\ Len(due) = num
  BY SMTT(60), <1>0 DEF Node, Tasks
<1>a. /\ list'.nodes \in Seq(Node)
      /\ DOMAIN list'.nodes = 1 .. N + num
      /\ \A i \in 1 .. N : list'.nodes[i] = list.nodes[i]
      /\ \A i \in N + 1 .. N + num : list'.nodes[i] = due[i - N]
  BY <1>0, <1>1a, Added
<1>b. \A i \in N + 1 .. N + num :
         /\ i - N \in 1 .. num /\ i - N \in DOMAIN mission
         /\ list'.nodes[i].task = mission[i - N].task /\ ~list'.nodes[i].needDownload
  BY <1>0, <1>a
<1> HIDE DEF N, due
<1>1. ShapeOK'
  BY <1>a DEF ShapeOK
<1>2. HeadInWork'
  BY DEF HeadInWork, Busy
<1>3. Counted'
  BY DEF Counted
<1>4. HandedOutOnce'
  <2>1. \A i : New(i)' => New(i) /\ list'.nodes[i] = list.nodes[i]
    BY <1>0, <1>a, <1>b DEF New
  <2>2. HandedOutOnce /\ fetched' = fetched /\ cloud' = cloud
    OBVIOUS
  <2>3. \A i : (New(i) => i \in DOMAIN list.nodes) /\ (New(i)' => i \in DOMAIN list'.nodes)
    BY DEF New
  <2> HIDE DEF RebootInsert, IInv
  <2> QED
    BY <2>1, <2>2, <2>3 DEF HandedOutOnce
<1>5. Untouched'
  <2>1. \A i : New(i)' => New(i) /\ list'.nodes[i] = list.nodes[i]
    BY <1>0, <1>a, <1>b DEF New
  <2>2. \A t : Blank(t) /\ Unknown(t) => (Blank(t) /\ Unknown(t))'
    <3>1. \A i : Due(i)' => \/ Due(i) /\ list'.nodes[i] = list.nodes[i]
                            \/ i - N \in DOMAIN mission /\ list'.nodes[i].task = mission[i - N].task
      BY <1>0, <1>a, <1>b DEF Due
    <3> QED
      BY ZenonT(60), <3>1 DEF Blank, Unknown, Due
  <2>3. \A t \in cloud : (Blank(t) /\ Unknown(t))'
    BY <2>2 DEF Untouched
  <2>4. \A i \in DOMAIN fetched : Blank(fetched[i]) /\ Unknown(fetched[i])
    BY DEF Untouched
  <2>5. \A i \in DOMAIN list'.nodes :
           New(i)' => Blank(list'.nodes[i].task) /\ Unknown(list'.nodes[i].task)
    BY <1>0, <2>1 DEF Untouched, New
  <2>6. fetched' = fetched /\ cloud' = cloud
    OBVIOUS
  <2> HIDE DEF RebootInsert, IInv
  <2>7. \A i \in DOMAIN fetched' : (Blank(fetched[i]) /\ Unknown(fetched[i]))'
    BY <2>2, <2>4, <2>6 DEF Blank, Unknown, Due
  <2>8. \A i \in DOMAIN list'.nodes :
           New(i)' => (Blank(list.nodes[i].task) /\ Unknown(list.nodes[i].task))'
    BY <2>2, <2>5 DEF Blank, Unknown, Due
  <2> QED
    BY <2>3, <2>6, <2>7, <2>8 DEF Untouched
<1>6. MissionsOnce'
  <2>0. /\ tpc' = "rb_remove" /\ \A i : ~Read(i)
        /\ \A i : Read(i)' = (i <= num)
    BY DEF Read
  <2>1. \A i : Due(i)' =>
           \/ i \in 1 .. N /\ Due(i) /\ list'.nodes[i] = list.nodes[i]
           \/ /\ i \in N + 1 .. N + num /\ i - N \in DOMAIN mission /\ i - N <= num
              /\ list'.nodes[i].task = mission[i - N].task
    BY SMTT(60), <1>0, <1>a, <1>b DEF Due
  <2>2. \A i \in DOMAIN mission : Len(runs[mission[i].task]) <= restarts
    BY <2>0 DEF MissionsOnce
  <2>3. \A i : Due(i) => \A j \in DOMAIN mission : list.nodes[i].task # mission[j].task
    BY <2>0 DEF MissionsOnce, Due
  <2>4. \A i, j \in DOMAIN list'.nodes :
           Due(i)' /\ Due(j)' /\ list'.nodes[i].task = list'.nodes[j].task => i = j
    <3> SUFFICES ASSUME NEW i \in DOMAIN list'.nodes, NEW j \in DOMAIN list'.nodes,
                        Due(i)', Due(j)', list'.nodes[i].task = list'.nodes[j].task
                 PROVE  i = j
      OBVIOUS
    <3>1. CASE i \in 1 .. N /\ j \in 1 .. N
      BY <3>1, <1>0, <1>a DEF MissionsOnce, Due
    <3>5. \A k \in DOMAIN list'.nodes : Due(k)' /\ k \in 1 .. N =>
             \A m \in DOMAIN mission : list'.nodes[k].task # mission[m].task
      <4>1. \A k \in 1 .. N : k \notin N + 1 .. N + num
        BY <1>0
      <4> HIDE DEF RebootInsert, IInv
      <4> QED
        BY <4>1, <2>1, <2>3
    <3>6. \A k \in DOMAIN list'.nodes : Due(k)' /\ k \in N + 1 .. N + num =>
             \E m \in DOMAIN mission : list'.nodes[k].task = mission[m].task
      BY <1>b
    <3>2. CASE i \in 1 .. N /\ j \in N + 1 .. N + num
      <4> HIDE DEF RebootInsert, IInv
      <4> QED
        BY <3>2, <3>5, <3>6
    <3>3. CASE i \in N + 1 .. N + num /\ j \in 1 .. N
      <4> HIDE DEF RebootInsert, IInv
      <4> QED
        BY <3>3, <3>5, <3>6
    <3>4. CASE i \in N + 1 .. N + num /\ j \in N + 1 .. N + num
      <4>1. /\ mission[i - N].task = mission[j - N].task
            /\ i - N \in DOMAIN mission /\ j - N \in DOMAIN mission
        BY <3>4, <1>b
      <4>2. i - N = j - N
        BY <4>1 DEF MissionsOnce
      <4> QED
        BY <4>2, <3>4, <1>0
    <3> QED
      BY <1>0, <1>a, <3>1, <3>2, <3>3, <3>4
  <2>5. \A i \in DOMAIN list'.nodes :
           Due(i)' => list'.nodes[i].task \in NextTasks /\ Len(runs[list'.nodes[i].task]) <= restarts
    <3>1. \A i \in 1 .. N : Due(i) => list.nodes[i].task \in NextTasks /\ Len(runs[list.nodes[i].task]) <= restarts
      BY <1>0 DEF MissionsOnce
    <3> QED
      BY <1>0, <2>1, <2>2, <3>1
  <2>6. \A i \in DOMAIN list'.nodes : \A j \in DOMAIN mission :
           Due(i)' /\ list'.nodes[i].task = mission[j].task => j <= num
    <3>1. ASSUME NEW i \in DOMAIN list'.nodes, NEW j \in DOMAIN mission,
                 Due(i)', list'.nodes[i].task = mission[j].task
          PROVE  j <= num
      <4>1. i - N \in DOMAIN mission /\ i - N <= num /\ mission[i - N].task = mission[j].task
        BY <3>1, <2>1, <2>3
      <4>2. i - N = j
        BY <4>1 DEF MissionsOnce
      <4> QED
        BY <4>1, <4>2
    <3> QED
      BY <3>1
  <2>7. \A i, j \in DOMAIN mission : mission[i].task = mission[j].task => i = j
    BY DEF MissionsOnce
  <2>8. mission' = mission /\ runs' = runs /\ restarts' = restarts
    OBVIOUS
  <2> HIDE DEF RebootInsert, IInv
  <2> QED
    BY <2>0, <2>2, <2>4, <2>5, <2>6, <2>7, <2>8 DEF MissionsOnce
<1>7. StageOK'
  BY <1>0 DEF StageOK, Busy
<1>8. VerifiedBeforeRun' /\ ReportsAreTrue'
  BY DEF VerifiedBeforeRun, ReportsAreTrue
<1>9. ArchiveKept' /\ RunsBounded'
  BY DEF ArchiveKept, RunsBounded
<1> QED
  BY <1>1, <1>2, <1>3, <1>4, <1>5, <1>6, <1>7, <1>8, <1>9

(* The missions that were queued leave the file.                           *)
LEMMA StepRebootRemove ==
    ASSUME IInv, RebootRemove
    PROVE  IInv'
<1> USE TaskAssumption, BoundAssumption DEF IInv, RebootRemove, timerVars, history
<1>1. ShapeOK'
  BY DEF ShapeOK
<1>2. HeadInWork'
  BY DEF HeadInWork, Busy
<1>3. Counted'
  BY DEF Counted
<1>4. HandedOutOnce'
  BY DEF HandedOutOnce, New
<1>5. Untouched'
  BY DEF Untouched, Blank, Unknown, New, Due, Busy
<1>6. MissionsOnce'
  BY DEF MissionsOnce, Read, New, Due, Busy
<1>7. StageOK'
  <2>1. \A t : (Blank(t) => Blank(t)') /\ (Unknown(t) => Unknown(t)')
    <3>1. DOMAIN mission' = {}
      OBVIOUS
    <3> QED
      BY <3>1 DEF Blank, Unknown, Due
  <2>2. New(1)' = New(1) /\ Due(1)' = Due(1)
    BY DEF New, Due
  <2>3. dpc \in {"fetch", "record"} => (New(1) /\ Blank(info.task) /\ Unknown(info.task))'
    BY ZenonT(60), <2>1, <2>2 DEF StageOK, Blank, Unknown
  <2>4. (dpc = "trans" => \/ /\ info.type = "REBOOTED" /\ Due(1)
                             /\ Len(runs[info.task]) <= restarts
                          \/ /\ info.type = TypeOf(info.task) /\ New(1)
                             /\ Blank(info.task)
                             /\ \A i \in DOMAIN list.nodes : Due(i) => list.nodes[i].task # info.task)'
    BY DEF StageOK, New, Due, Blank, TypeOf
  <2> QED
    BY <2>2, <2>3, <2>4 DEF StageOK
<1>8. VerifiedBeforeRun' /\ ReportsAreTrue'
  BY DEF VerifiedBeforeRun, ReportsAreTrue
<1>9. ArchiveKept' /\ RunsBounded'
  BY DEF ArchiveKept, RunsBounded
<1> QED
  BY <1>1, <1>2, <1>3, <1>4, <1>5, <1>6, <1>7, <1>8, <1>9

(* The download thread gets the lock with no task in work.                 *)
LEMMA StepDownloadLock ==
    ASSUME IInv, DownloadLock
    PROVE  IInv'
<1> USE TaskAssumption, BoundAssumption DEF IInv, DownloadLock, DownloadGoto, timerVars, history
<1>1. ShapeOK'
  BY DEF ShapeOK, Tasks, Boots
<1>2. HeadInWork'
  BY DEF HeadInWork, Busy
<1>3. Counted'
  BY DEF Counted
<1>4. HandedOutOnce'
  BY DEF HandedOutOnce, New
<1>5. Untouched'
  BY DEF Untouched, Blank, Unknown, New, Due, Busy
<1>6. MissionsOnce'
  BY DEF MissionsOnce, Read, New, Due, Busy
<1>7. StageOK'
  BY DEF StageOK, Blank, Unknown, New, Due
<1>8. VerifiedBeforeRun' /\ ReportsAreTrue'
  BY DEF VerifiedBeforeRun, ReportsAreTrue
<1>9. ArchiveKept' /\ RunsBounded'
  BY DEF ArchiveKept, RunsBounded
<1> QED
  BY <1>1, <1>2, <1>3, <1>4, <1>5, <1>6, <1>7, <1>8, <1>9

(* It gives the lock back when the list is empty.                          *)
LEMMA StepDownloadUnlock ==
    ASSUME IInv, DownloadUnlock
    PROVE  IInv'
<1> USE TaskAssumption, BoundAssumption DEF IInv, DownloadUnlock, DownloadGoto, timerVars, history
<1>1. ShapeOK'
  BY DEF ShapeOK, Tasks, Boots
<1>2. HeadInWork'
  BY DEF HeadInWork, Busy
<1>3. Counted'
  BY DEF Counted
<1>4. HandedOutOnce'
  BY DEF HandedOutOnce, New
<1>5. Untouched'
  BY DEF Untouched, Blank, Unknown, New, Due, Busy
<1>6. MissionsOnce'
  BY DEF MissionsOnce, Read, New, Due, Busy
<1>7. StageOK'
  BY DEF StageOK, Blank, Unknown, New, Due
<1>8. VerifiedBeforeRun' /\ ReportsAreTrue'
  BY DEF VerifiedBeforeRun, ReportsAreTrue
<1>9. ArchiveKept' /\ RunsBounded'
  BY DEF ArchiveKept, RunsBounded
<1> QED
  BY <1>1, <1>2, <1>3, <1>4, <1>5, <1>6, <1>7, <1>8, <1>9

(* The head becomes the task in work, one nothing was done for.            *)
LEMMA StepTakeNew ==
    ASSUME IInv, TakeNew
    PROVE  IInv'
<1> USE TaskAssumption, BoundAssumption DEF IInv, TakeNew, DownloadGoto, ListIsEmpty, timerVars, history
<1>0. list.nodes # <<>> /\ list.count # 0 /\ ~Busy /\ list.nodes \in Seq(Node)
  BY DEF ShapeOK, Busy
<1>0a. 1 \in DOMAIN list.nodes
  BY <1>0, NonEmpty
<1>0b. list.nodes[1].task \in Tasks
  BY <1>0a, Contents
<1>a. New(1) /\ Blank(list.nodes[1].task) /\ Unknown(list.nodes[1].task)
  BY <1>0, <1>0a DEF Untouched, New
<1>1. ShapeOK'
  <2>1. info' \in Info
    BY <1>0b DEF Info
  <2> QED
    BY <2>1 DEF ShapeOK
<1>2. HeadInWork'
  BY DEF HeadInWork, Busy
<1>3. Counted'
  BY DEF Counted
<1>4. HandedOutOnce'
  BY DEF HandedOutOnce, New
<1>5. Untouched'
  <2>1. /\ list' = list /\ cloud' = cloud /\ fetched' = fetched /\ mission' = mission
        /\ verdict' = verdict /\ promised' = promised /\ runs' = runs /\ reported' = reported
    OBVIOUS
  <2>2. Untouched
    OBVIOUS
  <2> HIDE DEF IInv, TakeNew, DownloadGoto, ListIsEmpty, timerVars, history
  <2>3. (\A t \in cloud : Blank(t) /\ Unknown(t))'
    BY <2>1, <2>2 DEF Untouched, Blank, Unknown, Due
  <2>4. (\A i \in DOMAIN fetched : Blank(fetched[i]) /\ Unknown(fetched[i]))'
    BY <2>1, <2>2 DEF Untouched, Blank, Unknown, Due
  <2>5. (\A i \in DOMAIN list.nodes :
            New(i) => Blank(list.nodes[i].task) /\ Unknown(list.nodes[i].task))'
    BY <1>0, <2>1, <2>2 DEF Untouched, Blank, Unknown, New, Due
  <2> QED
    BY <2>3, <2>4, <2>5 DEF Untouched
<1>6. MissionsOnce'
  BY DEF MissionsOnce, Read, New, Due, Busy
<1>7. StageOK'
  BY <1>a DEF StageOK, Blank, Unknown, New, Due
<1>8. VerifiedBeforeRun' /\ ReportsAreTrue'
  BY DEF VerifiedBeforeRun, ReportsAreTrue
<1>9. ArchiveKept' /\ RunsBounded'
  BY DEF ArchiveKept, RunsBounded
<1> QED
  BY <1>1, <1>2, <1>3, <1>4, <1>5, <1>6, <1>7, <1>8, <1>9

(* The head becomes the task in work, a mission that is due.               *)
LEMMA StepTakeRebooted ==
    ASSUME IInv, TakeRebooted
    PROVE  IInv'
<1> USE TaskAssumption, BoundAssumption DEF IInv, TakeRebooted, DownloadGoto, ListIsEmpty, timerVars, history
<1>0. list.nodes # <<>> /\ list.count # 0 /\ 1 \in DOMAIN list.nodes /\ ~Busy
      /\ list.nodes[1].task \in Tasks /\ list.nodes \in Seq(Node)
  BY Contents DEF ShapeOK, Busy
<1>a. Due(1) /\ Len(runs[list.nodes[1].task]) <= restarts
  BY <1>0 DEF MissionsOnce, Due
<1>1. ShapeOK'
  BY <1>0 DEF ShapeOK, Info
<1>2. HeadInWork'
  BY DEF HeadInWork, Busy
<1>3. Counted'
  BY DEF Counted
<1>4. HandedOutOnce'
  BY DEF HandedOutOnce, New
<1>5. Untouched'
  BY DEF Untouched, Blank, Unknown, New, Due, Busy
<1>6. MissionsOnce'
  BY DEF MissionsOnce, Read, New, Due, Busy
<1>7. StageOK'
  BY <1>a DEF StageOK, Blank, Unknown, New, Due
<1>8. VerifiedBeforeRun' /\ ReportsAreTrue'
  BY DEF VerifiedBeforeRun, ReportsAreTrue
<1>9. ArchiveKept' /\ RunsBounded'
  BY DEF ArchiveKept, RunsBounded
<1> QED
  BY <1>1, <1>2, <1>3, <1>4, <1>5, <1>6, <1>7, <1>8, <1>9

(* Nothing is promised of the task whose archive is replaced.              *)
LEMMA StepFetch ==
    ASSUME IInv, Fetch
    PROVE  IInv'
<1> USE TaskAssumption, BoundAssumption DEF IInv, Fetch, DownloadGoto, timerVars, history
<1>0. Busy /\ promised[info.task] = 0
  BY DEF Busy, StageOK, Blank
<1>1. ShapeOK'
  BY <1>0, InWork DEF ShapeOK
<1>2. HeadInWork'
  BY DEF HeadInWork, Busy
<1>3. Counted'
  BY DEF Counted
<1>4. HandedOutOnce'
  BY DEF HandedOutOnce, New
<1>5. Untouched'
  BY DEF Untouched, Blank, Unknown, New, Due, Busy
<1>6. MissionsOnce'
  BY DEF MissionsOnce, Read, New, Due, Busy
<1>7. StageOK'
  BY DEF StageOK, Blank, Unknown, New, Due
<1>8. VerifiedBeforeRun' /\ ReportsAreTrue'
  BY DEF VerifiedBeforeRun, ReportsAreTrue
<1>9. ArchiveKept' /\ RunsBounded'
  BY <1>0, InWork, Contents DEF ArchiveKept, RunsBounded, ShapeOK, Tasks
<1> QED
  BY <1>1, <1>2, <1>3, <1>4, <1>5, <1>6, <1>7, <1>8, <1>9

(* The task in work had no line in the mission file.                       *)
LEMMA StepRecord ==
    ASSUME IInv, Record
    PROVE  IInv'
<1> USE TaskAssumption, BoundAssumption DEF IInv, Record, DownloadGoto, TypeOf, timerVars, history
<1>0. Busy /\ Busy' /\ New(1) /\ Blank(info.task) /\ Unknown(info.task)
  BY DEF Busy, StageOK
<1>a. info' \in Info /\ info'.task = info.task /\ info'.type = TypeOf(info.task)
  BY <1>0, InWork DEF ShapeOK, Info
<1>b. /\ mission \in Seq(Line) /\ DOMAIN mission = 1 .. Len(mission) /\ Len(mission) \in Nat
      /\ restarts \in Nat
  BY Contents DEF ShapeOK
<1>c. \/ mission' = mission
      \/ /\ info.task \in NextTasks
         /\ mission' \in Seq(Line) /\ DOMAIN mission' = 1 .. Len(mission) + 1
         /\ Len(mission') = Len(mission) + 1
         /\ \A i \in DOMAIN mission : mission'[i] = mission[i]
         /\ mission'[Len(mission) + 1].task = info.task
  <2>1. CASE info.task \in NextTasks
    <3> DEFINE l == [task |-> info.task, uptime |-> uptime]
    <3>1. l \in Line /\ l.task = info.task
      BY <2>1 DEF Line, ShapeOK
    <3>2. mission' = Append(mission, l)
      BY <2>1
    <3> HIDE DEF l
    <3>3. /\ Append(mission, l) \in Seq(Line) /\ Len(Append(mission, l)) = Len(mission) + 1
          /\ DOMAIN Append(mission, l) = 1 .. Len(mission) + 1
          /\ \A i \in 1 .. Len(mission) : Append(mission, l)[i] = mission[i]
          /\ Append(mission, l)[Len(mission) + 1] = l
      BY <3>1, <1>b, AppendProperties
    <3> QED
      BY <2>1, <3>1, <3>2, <3>3, <1>b
  <2> QED
    BY <2>1
<1>d. \A i \in DOMAIN mission' : \/ i \in DOMAIN mission /\ mission'[i] = mission[i]
                                 \/ i = Len(mission) + 1 /\ mission'[i].task = info.task
  BY <1>b, <1>c
<1>1. ShapeOK'
  BY <1>a, <1>b, <1>c DEF ShapeOK
<1>2. HeadInWork'
  BY <1>a DEF HeadInWork, Busy
<1>3. Counted'
  BY <1>b, <1>c, Contents DEF Counted, ShapeOK
<1>4. HandedOutOnce'
  BY DEF HandedOutOnce, New
<1>5. Untouched'
  <2>1. /\ \A i \in DOMAIN list.nodes : list.nodes[i].task \in Tasks
        /\ \A i \in DOMAIN fetched : fetched[i] \in Tasks
        /\ cloud \subseteq Tasks
    BY Contents DEF ShapeOK
  <2>2. \A t \in Tasks \ {info.task} : (Blank(t) => Blank(t)') /\ (Unknown(t) => Unknown(t)')
    BY <1>d DEF Blank, Unknown, Due
  <2>3. \A t \in cloud : (Blank(t) /\ Unknown(t))'
    BY <2>1, <2>2, <1>0, Alone DEF Untouched
  <2>4. \A i \in DOMAIN fetched : fetched[i] \in Tasks \ {info.task} /\ Blank(fetched[i]) /\ Unknown(fetched[i])
    BY <2>1, <1>0, Alone DEF Untouched
  <2>5. \A i \in DOMAIN fetched : (Blank(fetched[i]) /\ Unknown(fetched[i]))'
    BY <2>2, <2>4 DEF Blank, Unknown, Due
  <2>6. \A i \in DOMAIN list.nodes :
           New(i) /\ i # 1 => /\ list.nodes[i].task \in Tasks \ {info.task}
                              /\ Blank(list.nodes[i].task) /\ Unknown(list.nodes[i].task)
    BY <2>1, <1>0, Alone DEF Untouched
  <2>7. \A i \in DOMAIN list.nodes :
           New(i) /\ i # 1 => (Blank(list.nodes[i].task) /\ Unknown(list.nodes[i].task))'
    BY SMTT(60), <2>2, <2>6 DEF Blank, Unknown, Due
  <2> QED
    BY <1>0, <2>3, <2>5, <2>7 DEF Untouched, New
<1>6. MissionsOnce'
  <2>1. /\ Len(runs[info.task]) <= restarts
        /\ \A i \in DOMAIN mission : mission[i].task # info.task
        /\ \A i \in DOMAIN list.nodes : Due(i) => list.nodes[i].task # info.task
    BY <1>0, <1>b DEF Blank, Unknown
  <2>2. \A i, j \in DOMAIN mission' : mission'[i].task = mission'[j].task => i = j
    BY <2>1, <1>d DEF MissionsOnce
  <2>3. \A i \in DOMAIN mission' : Read(i) \/ Len(runs[mission'[i].task]) <= restarts
    BY <2>1, <1>d DEF MissionsOnce
  <2>4. \A i \in DOMAIN list.nodes : \A j \in DOMAIN mission' :
           Due(i) /\ list.nodes[i].task = mission'[j].task => Read(j)
    BY <2>1, <1>d DEF MissionsOnce
  <2>5. (\A i : Read(i)' = Read(i)) /\ (\A i : Due(i)' = Due(i))
    BY DEF Read, Due
  <2> QED
    BY <2>2, <2>3, <2>4, <2>5, <1>0 DEF MissionsOnce, Busy
<1>7. StageOK'
  BY <1>0, <1>a DEF StageOK, Blank, Unknown, New, Due
<1>8. VerifiedBeforeRun' /\ ReportsAreTrue'
  BY DEF VerifiedBeforeRun, ReportsAreTrue
<1>9. ArchiveKept' /\ RunsBounded'
  BY SMTT(60), <1>0, <1>b, <1>c DEF ArchiveKept, RunsBounded, Blank
<1> QED
  BY <1>1, <1>2, <1>3, <1>4, <1>5, <1>6, <1>7, <1>8, <1>9

(* A mission that is due will be run now.                                  *)
LEMMA StepTransRebooted ==
    ASSUME IInv, TransRebooted
    PROVE  IInv'
<1> USE TaskAssumption, BoundAssumption DEF IInv, TransRebooted, DownloadGoto, timerVars, history
<1>0. Busy
  BY DEF Busy
<1>1. ShapeOK'
  <2>1. info' \in Info
    BY <1>0, InWork DEF ShapeOK, Info
  <2> QED
    BY <2>1 DEF ShapeOK
<1>2. HeadInWork'
  BY DEF HeadInWork, Busy
<1>3. Counted'
  BY DEF Counted
<1>4. HandedOutOnce'
  BY DEF HandedOutOnce, New
<1>5. Untouched'
  BY DEF Untouched, Blank, Unknown, New, Due, Busy
<1>6. MissionsOnce'
  BY DEF MissionsOnce, Read, New, Due, Busy
<1>7. StageOK'
  <2>1. info'.type = "AT_ONCE" /\ info'.task = info.task
    BY <1>0, InWork
  <2>2. Due(1) /\ Len(runs[info.task]) <= restarts
    BY DEF StageOK, TypeOf
  <2> QED
    BY <2>1, <2>2 DEF StageOK, Due
<1>8. VerifiedBeforeRun' /\ ReportsAreTrue'
  BY DEF VerifiedBeforeRun, ReportsAreTrue
<1>9. ArchiveKept' /\ RunsBounded'
  BY DEF ArchiveKept, RunsBounded
<1> QED
  BY <1>1, <1>2, <1>3, <1>4, <1>5, <1>6, <1>7, <1>8, <1>9

(* A declined task was never run.                                          *)
LEMMA StepTransMismatch ==
    ASSUME IInv, TransMismatch
    PROVE  IInv'
<1> USE TaskAssumption, BoundAssumption DEF IInv, TransMismatch, DownloadGoto, TypeOf, timerVars, history
<1>0. Busy /\ Busy'
  BY DEF Busy
<1>1. ShapeOK'
  <2>1. info' \in Info
    BY <1>0, InWork DEF ShapeOK, Info
  <2>2. verdict' \in [Tasks -> {"none", "match", "mismatch"}]
    BY DEF ShapeOK
  <2> QED
    BY <2>1, <2>2 DEF ShapeOK
<1>2. HeadInWork'
  BY <1>0, InWork DEF HeadInWork, Busy
<1>3. Counted'
  BY DEF Counted
<1>4. HandedOutOnce'
  BY DEF HandedOutOnce, New
<1>5. Untouched'
  BY <1>0, OthersUntouched, InWork DEF ShapeOK
<1>6. MissionsOnce'
  BY DEF MissionsOnce, Read, New, Due, Busy
<1>7. StageOK'
  BY <1>0, InWork DEF StageOK, Blank, Unknown, New, Due, ShapeOK, Info
<1>8. VerifiedBeforeRun' /\ ReportsAreTrue'
  <2>1. verdict' = [verdict EXCEPT ![info.task] = "mismatch"] /\ runs[info.task] = <<>>
    BY DEF StageOK, Blank
  <2>2. VerifiedBeforeRun'
    BY <2>1, <1>0, InWork DEF VerifiedBeforeRun, ShapeOK, Tasks
  <2>3. ReportsAreTrue'
    BY <2>1, <1>0, InWork DEF ReportsAreTrue, ShapeOK
  <2> QED
    BY <2>2, <2>3
<1>9. ArchiveKept' /\ RunsBounded'
  BY DEF ArchiveKept, RunsBounded
<1> QED
  BY <1>1, <1>2, <1>3, <1>4, <1>5, <1>6, <1>7, <1>8, <1>9

(* The archive of the task in work is there, and its log has its line.     *)
LEMMA StepTransMatch ==
    ASSUME IInv, TransMatch
    PROVE  IInv'
<1> USE TaskAssumption, BoundAssumption DEF IInv, TransMatch, DownloadGoto, TypeOf, timerVars, history
<1>0. Busy /\ Busy'
  BY DEF Busy
<1>1. ShapeOK'
  BY DEF ShapeOK, Tasks, Boots
<1>2. HeadInWork'
  BY DEF HeadInWork, Busy
<1>3. Counted'
  BY DEF Counted
<1>4. HandedOutOnce'
  BY DEF HandedOutOnce, New
<1>5. Untouched'
  BY <1>0, OthersUntouched, InWork DEF ShapeOK
<1>6. MissionsOnce'
  BY DEF MissionsOnce, Read, New, Due, Busy
<1>7. StageOK'
  <2>1. /\ verdict'[info.task] = "match" /\ promised'[info.task] # 0
        /\ runs[info.task] = <<>> /\ restarts \in Nat
        /\ info.type = TypeOf(info.task) /\ New(1)
    BY <1>0, InWork DEF ShapeOK, StageOK, Boots, Blank
  <2> QED
    BY <2>1, <1>0, InWork DEF StageOK, TypeOf, New, Tasks
<1>8. VerifiedBeforeRun' /\ ReportsAreTrue'
  BY <1>0, InWork DEF VerifiedBeforeRun, ReportsAreTrue, StageOK, Blank, ShapeOK
<1>9. ArchiveKept' /\ RunsBounded'
  BY <1>0, InWork, Contents DEF ArchiveKept, RunsBounded, ShapeOK, Tasks
<1> QED
  BY <1>1, <1>2, <1>3, <1>4, <1>5, <1>6, <1>7, <1>8, <1>9

(* No log line was written for a task that did not reach the FKZ9.         *)
LEMMA StepTransFails ==
    ASSUME IInv, TransFails
    PROVE  IInv'
<1> USE TaskAssumption, BoundAssumption DEF IInv, TransFails, DownloadGoto, TypeOf, timerVars, history
<1>0. Busy /\ Busy'
  BY DEF Busy
<1>1. ShapeOK'
  BY DEF ShapeOK, Tasks, Boots
<1>2. HeadInWork'
  BY DEF HeadInWork, Busy
<1>3. Counted'
  BY DEF Counted
<1>4. HandedOutOnce'
  BY DEF HandedOutOnce, New
<1>5. Untouched'
  BY <1>0, OthersUntouched, InWork DEF ShapeOK
<1>6. MissionsOnce'
  BY DEF MissionsOnce, Read, New, Due, Busy
<1>7. StageOK'
  BY DEF StageOK, Blank, Unknown, New, Due
<1>8. VerifiedBeforeRun' /\ ReportsAreTrue'
  BY <1>0, InWork DEF VerifiedBeforeRun, ReportsAreTrue, StageOK, Blank, ShapeOK
<1>9. ArchiveKept' /\ RunsBounded'
  BY DEF ArchiveKept, RunsBounded
<1> QED
  BY <1>1, <1>2, <1>3, <1>4, <1>5, <1>6, <1>7, <1>8, <1>9

(* A task that is not due was declined or is staged.                       *)
LEMMA StepUpdateNothing ==
    ASSUME IInv, UpdateNothing
    PROVE  IInv'
<1> USE TaskAssumption, BoundAssumption DEF IInv, UpdateNothing, DownloadGoto, timerVars, history
<1>1. ShapeOK'
  BY DEF ShapeOK, Tasks, Boots
<1>2. HeadInWork'
  BY DEF HeadInWork, Busy
<1>3. Counted'
  BY DEF Counted
<1>4. HandedOutOnce'
  BY DEF HandedOutOnce, New
<1>5. Untouched'
  BY DEF Untouched, Blank, Unknown, New, Due, Busy
<1>6. MissionsOnce'
  BY DEF MissionsOnce, Read, New, Due, Busy
<1>7. StageOK'
  BY DEF StageOK, Blank, Unknown, New, Due
<1>8. VerifiedBeforeRun' /\ ReportsAreTrue'
  BY DEF VerifiedBeforeRun, ReportsAreTrue
<1>9. ArchiveKept' /\ RunsBounded'
  BY DEF ArchiveKept, RunsBounded
<1> QED
  BY <1>1, <1>2, <1>3, <1>4, <1>5, <1>6, <1>7, <1>8, <1>9

(* The run adds to at most as many runs as there were restarts.            *)
LEMMA StepUpdateRuns ==
    ASSUME IInv, UpdateRuns
    PROVE  IInv'
<1> USE TaskAssumption, BoundAssumption DEF IInv, UpdateRuns, DownloadGoto, RunScript, timerVars, history
<1>0. Busy /\ Busy'
  BY DEF Busy
<1>a. /\ \A t \in Tasks \ {info.task} : runs'[t] = runs[t]
      /\ runs' \in [Tasks -> Seq(Boots)]
      /\ runs'[info.task] # <<>>
      /\ Len(runs'[info.task]) = Len(runs[info.task]) + 1
  BY <1>0, RunAppended
<1>b. Len(runs[info.task]) <= restarts /\ restarts \in Nat
  BY DEF StageOK, ShapeOK
<1>1. ShapeOK'
  BY <1>a, <1>0, InWork DEF ShapeOK, Tasks
<1>2. HeadInWork'
  BY DEF HeadInWork, Busy
<1>3. Counted'
  BY DEF Counted
<1>4. HandedOutOnce'
  BY DEF HandedOutOnce, New
<1>5. Untouched'
  BY <1>0, <1>a, OthersUntouched DEF ShapeOK
<1>6. MissionsOnce'
  BY SMTT(60), <1>0, <1>a, <1>b, InWork, Alone, Contents DEF MissionsOnce, Read, New, Due, Busy, StageOK, Tasks
<1>7. StageOK'
  BY <1>a DEF StageOK
<1>8. VerifiedBeforeRun' /\ ReportsAreTrue'
  BY <1>0, <1>a, InWork, Contents DEF VerifiedBeforeRun, ReportsAreTrue, StageOK, ShapeOK, Tasks, MissionsOnce, Due
<1>9. ArchiveKept' /\ RunsBounded'
  BY <1>0, <1>a, <1>b, InWork, Contents DEF ArchiveKept, RunsBounded, ShapeOK, Tasks
<1> QED
  BY <1>1, <1>2, <1>3, <1>4, <1>5, <1>6, <1>7, <1>8, <1>9

(* The same when the script may not have been reached.                     *)
LEMMA StepUpdateFails ==
    ASSUME IInv, UpdateFails
    PROVE  IInv'
<1> USE TaskAssumption, BoundAssumption DEF IInv, UpdateFails, DownloadGoto, RunScript, timerVars, history
<1>0. Busy /\ Busy'
  BY DEF Busy
<1>a. /\ \A t \in Tasks \ {info.task} : runs'[t] = runs[t]
      /\ runs' \in [Tasks -> Seq(Boots)]
      /\ \/ runs'[info.task] = runs[info.task]
         \/ runs'[info.task] # <<>> /\ Len(runs'[info.task]) = Len(runs[info.task]) + 1
  <2>1. CASE runs' = [runs EXCEPT ![info.task] = Append(@, boot)]
    BY <2>1, <1>0, RunAppended DEF RunScript
  <2>2. CASE runs' = runs
    BY <2>2 DEF ShapeOK
  <2> QED
    BY <2>1, <2>2
<1>b. Len(runs[info.task]) <= restarts /\ restarts \in Nat
  BY DEF StageOK, ShapeOK
<1>1. ShapeOK'
  BY <1>a, <1>0, InWork DEF ShapeOK, Tasks
<1>2. HeadInWork'
  BY DEF HeadInWork, Busy
<1>3. Counted'
  BY DEF Counted
<1>4. HandedOutOnce'
  BY DEF HandedOutOnce, New
<1>5. Untouched'
  BY <1>0, <1>a, OthersUntouched DEF ShapeOK
<1>6. MissionsOnce'
  BY ZenonT(60), <1>0, <1>a, <1>b, InWork, Alone, Contents DEF MissionsOnce, Read, New, Due, Busy, StageOK, Tasks
<1>7. StageOK'
  BY DEF StageOK, Blank, Unknown, New, Due
<1>8. VerifiedBeforeRun' /\ ReportsAreTrue'
  BY <1>0, <1>a, InWork, Contents DEF VerifiedBeforeRun, ReportsAreTrue, StageOK, ShapeOK, Tasks, MissionsOnce, Due
<1>9. ArchiveKept' /\ RunsBounded'
  <2>1. \A i \in DOMAIN mission :
           runs'[mission[i].task] = <<>> => runs[mission[i].task] = <<>>
    BY <1>0, <1>a, InWork, Contents DEF Tasks
  <2>2. ArchiveKept'
    BY <2>1 DEF ArchiveKept
  <2>3. RunsBounded'
    BY <1>0, <1>a, <1>b, InWork, Contents DEF RunsBounded
  <2> QED
    BY <2>2, <2>3
<1> QED
  BY <1>1, <1>2, <1>3, <1>4, <1>5, <1>6, <1>7, <1>8, <1>9

(* What is reported is what the updater succeeded with.                    *)
LEMMA StepReport ==
    ASSUME IInv, Report
    PROVE  IInv'
<1> USE TaskAssumption, BoundAssumption DEF IInv, Report, DownloadGoto, timerVars, history
<1>0. Busy /\ Busy'
  BY DEF Busy
<1>1. ShapeOK'
  BY <1>0, InWork DEF ShapeOK
<1>2. HeadInWork'
  BY DEF HeadInWork, Busy
<1>3. Counted'
  BY DEF Counted
<1>4. HandedOutOnce'
  BY DEF HandedOutOnce, New
<1>5. Untouched'
  BY <1>0, OthersUntouched
<1>6. MissionsOnce'
  BY DEF MissionsOnce, Read, New, Due, Busy
<1>7. StageOK'
  BY DEF StageOK, Blank, Unknown, New, Due
<1>8. VerifiedBeforeRun' /\ ReportsAreTrue'
  BY <1>0, InWork DEF VerifiedBeforeRun, ReportsAreTrue, StageOK
<1>9. ArchiveKept' /\ RunsBounded'
  BY DEF ArchiveKept, RunsBounded
<1> QED
  BY <1>1, <1>2, <1>3, <1>4, <1>5, <1>6, <1>7, <1>8, <1>9

(* The other nodes move up by one place.                                   *)
LEMMA StepDrop ==
    ASSUME IInv, Drop
    PROVE  IInv'
<1> USE TaskAssumption, BoundAssumption DEF IInv, Drop, DownloadGoto, ListDelHead, ListIsEmpty, timerVars, history
<1>0. /\ Busy /\ ~Busy' /\ list.nodes \in Seq(Node) /\ list.nodes # <<>> /\ list.count # 0
      /\ 1 \in DOMAIN list.nodes
      /\ DOMAIN list.nodes = 1 .. Len(list.nodes) /\ Len(list.nodes) \in Nat
  BY InWork, Contents DEF ShapeOK, Busy, HeadInWork
<1>a. list'.nodes = <<>> \/ list'.nodes = Tail(list.nodes)
  BY <1>0
<1>b. /\ list'.nodes \in Seq(Node) /\ DOMAIN list'.nodes \subseteq 1 .. Len(list.nodes) - 1
      /\ \A i \in DOMAIN list'.nodes :
            i + 1 \in DOMAIN list.nodes /\ i + 1 # 1 /\ list'.nodes[i] = list.nodes[i + 1]
            /\ i \in Nat
  <2>1. CASE list'.nodes = <<>>
    BY <2>1, <1>0
  <2>2. CASE list'.nodes = Tail(list.nodes)
    BY <2>2, <1>0, HeadTailProperties
  <2> QED
    BY <1>a, <2>1, <2>2
<1>1. ShapeOK'
  <2>1. info' \in Info
    BY DEF NoInfo, Info
  <2> QED
    BY <2>1, <1>b DEF ShapeOK
<1>2. HeadInWork'
  BY DEF HeadInWork, Busy
<1>3. Counted'
  BY DEF Counted
<1>4. HandedOutOnce'
  BY SMTT(60), <1>b DEF HandedOutOnce, New
<1>5. Untouched'
  BY <1>0, <1>b DEF Untouched, Blank, Unknown, New, Due
<1>6. MissionsOnce'
  BY SMTT(60), <1>0, <1>b DEF MissionsOnce, Read, New, Due
<1>7. StageOK'
  BY DEF StageOK, Blank, Unknown, New, Due
<1>8. VerifiedBeforeRun' /\ ReportsAreTrue'
  BY DEF VerifiedBeforeRun, ReportsAreTrue
<1>9. ArchiveKept' /\ RunsBounded'
  BY DEF ArchiveKept, RunsBounded
<1> QED
  BY <1>1, <1>2, <1>3, <1>4, <1>5, <1>6, <1>7, <1>8, <1>9

(* A boot of the FKZ9 changes nothing else.                                *)
LEMMA StepReboot ==
    ASSUME IInv, Reboot
    PROVE  IInv'
<1> USE TaskAssumption, BoundAssumption DEF IInv, Reboot, timerVars, history
<1>1. ShapeOK'
  BY DEF ShapeOK, Boots
<1>2. HeadInWork'
  BY DEF HeadInWork, Busy
<1>3. Counted'
  BY DEF Counted
<1>4. HandedOutOnce'
  BY DEF HandedOutOnce, New
<1>5. Untouched'
  BY DEF Untouched, Blank, Unknown, New, Due, Busy
<1>6. MissionsOnce'
  BY DEF MissionsOnce, Read, New, Due, Busy
<1>7. StageOK'
  BY DEF StageOK, Blank, Unknown, New, Due
<1>8. VerifiedBeforeRun' /\ ReportsAreTrue'
  BY DEF VerifiedBeforeRun, ReportsAreTrue
<1>9. ArchiveKept' /\ RunsBounded'
  BY DEF ArchiveKept, RunsBounded
<1> QED
  BY <1>1, <1>2, <1>3, <1>4, <1>5, <1>6, <1>7, <1>8, <1>9

(* A restart empties the list; missions in the file get one more run.      *)
LEMMA StepRestart ==
    ASSUME IInv, Restart
    PROVE  IInv'
<1> USE TaskAssumption, BoundAssumption DEF IInv, Restart, EmptyList, timerVars, history
<1>1. ShapeOK'
  <2>1. info' \in Info
    BY DEF NoInfo, Info
  <2>2. list'.nodes \in Seq(Node) /\ fetched' \in Seq(Tasks)
    OBVIOUS
  <2> QED
    BY <2>1, <2>2 DEF ShapeOK
<1>2. HeadInWork'
  BY DEF HeadInWork, Busy
<1>3. Counted'
  BY DEF Counted
<1>4. HandedOutOnce'
  BY DEF HandedOutOnce, New
<1>5. Untouched'
  BY DEF Untouched, Blank, Unknown, New, Due, Busy
<1>6. MissionsOnce'
  <2>1. list'.nodes = <<>> /\ restarts' = restarts + 1 /\ restarts \in Nat
    BY DEF ShapeOK
  <2>2. \A i \in DOMAIN mission : Len(runs[mission[i].task]) <= 1 + restarts
    BY Contents DEF RunsBounded, Tasks
  <2> QED
    BY <2>1, <2>2 DEF MissionsOnce, Due
<1>7. StageOK'
  BY DEF StageOK, Blank, Unknown, New, Due
<1>8. VerifiedBeforeRun' /\ ReportsAreTrue'
  BY DEF VerifiedBeforeRun, ReportsAreTrue
<1>9. ArchiveKept' /\ RunsBounded'
  BY Contents DEF ArchiveKept, RunsBounded, ShapeOK
<1> QED
  BY <1>1, <1>2, <1>3, <1>4, <1>5, <1>6, <1>7, <1>8, <1>9

(* At the start nothing has been handed out. *)
LEMMA InitInvariant == Init => IInv
<1> SUFFICES ASSUME Init PROVE IInv
  OBVIOUS
<1>0. <<>> \in Seq(Node) /\ <<>> \in Seq(Tasks) /\ <<>> \in Seq(Line) /\ <<>> \in Seq(Boots)
  OBVIOUS
<1>e. DOMAIN <<>> = {} /\ Len(<<>>) = 0
  OBVIOUS
<1>f. MaxBoot \in Nat \ {0} /\ restarts = 0 /\ boot = 1 /\ uptime \in {0, 1}
  BY BoundAssumption DEF Init
<1>1. list.nodes = <<>> /\ list.nodes \in Seq(Node) /\ DOMAIN list.nodes = {}
  BY <1>0, <1>e DEF Init, EmptyList
<1>2. /\ fetched = <<>> /\ fetched \in Seq(Tasks) /\ DOMAIN fetched = {}
      /\ mission = <<>> /\ mission \in Seq(Line) /\ DOMAIN mission = {}
  BY <1>0, <1>e DEF Init
<1>3. \A t \in Tasks : runs[t] = <<>> /\ Len(runs[t]) = 0 /\ runs[t] \in Seq(Boots)
  BY <1>0, <1>e DEF Init
<1>g. boot \in Boots /\ uptime \in Boots \union {0}
  BY <1>f DEF Boots
<1>h. \A t \in Tasks : Len(runs[t]) <= 1 + restarts
  BY <1>3, <1>f
<1> USE TaskAssumption DEF Init, EmptyList, NoInfo
<1>4. ShapeOK
  <2>1. info \in Info
    BY DEF Info
  <2>2. runs \in [Tasks -> Seq(Boots)]
    BY <1>3
  <2> QED
    BY <1>1, <1>2, <1>g, <2>1, <2>2 DEF ShapeOK
<1>5. HeadInWork /\ Counted /\ StageOK
  BY DEF HeadInWork, Busy, Counted, StageOK
<1>6. HandedOutOnce
  BY <1>1, <1>2 DEF HandedOutOnce, New
<1>7. Untouched
  BY <1>1, <1>2, <1>3 DEF Untouched, Blank, Unknown, New, Due
<1>8. MissionsOnce
  BY <1>1, <1>2 DEF MissionsOnce, Due
<1>9. VerifiedBeforeRun /\ ReportsAreTrue /\ ArchiveKept /\ RunsBounded
  <2>1. reported = {} /\ \A t \in NowTasks : runs[t] = <<>>
    BY <1>3 DEF Tasks
  <2> QED
    BY <1>2, <1>h, <2>1 DEF VerifiedBeforeRun, ReportsAreTrue, ArchiveKept, RunsBounded
<1> QED
  BY <1>4, <1>5, <1>6, <1>7, <1>8, <1>9 DEF IInv

(* No step of the timer thread, of the download thread or of the FKZ9, and *)
(* no restart, breaks it.                                                  *)
LEMMA StepInvariant == IInv /\ [Next]_vars => IInv'
<1> SUFFICES ASSUME IInv, [Next]_vars PROVE IInv'
  OBVIOUS
<1>1. CASE UNCHANGED vars
  <2>1. /\ ShapeOK' /\ HeadInWork' /\ Counted' /\ HandedOutOnce' /\ Untouched'
    BY <1>1 DEF vars, timerVars, history, IInv, ShapeOK, HeadInWork, Busy, Counted,
                HandedOutOnce, Untouched, New, Due, Blank, Unknown
  <2>2. MissionsOnce' /\ StageOK'
    BY <1>1 DEF vars, timerVars, history, IInv, MissionsOnce, Read, Busy, StageOK,
                New, Due, Blank, Unknown
  <2>3. VerifiedBeforeRun' /\ ReportsAreTrue' /\ ArchiveKept' /\ RunsBounded'
    BY <1>1 DEF vars, timerVars, history, IInv, VerifiedBeforeRun, ReportsAreTrue,
                ArchiveKept, RunsBounded
  <2> QED
    BY <2>1, <2>2, <2>3 DEF IInv
<1>2. CASE TimerStep
  BY <1>2, StepHeartbeatInfo, StepHeartbeatPost, StepHeartbeatInsert, StepRebootCheck,
     StepRebootInsert, StepRebootRemove DEF TimerStep
<1>3. CASE TaskStep
  BY <1>3, StepDownloadUnlock, StepTakeNew, StepTakeRebooted, StepFetch, StepRecord,
     StepTransRebooted, StepTransMismatch, StepTransMatch, StepTransFails,
     StepUpdateNothing, StepUpdateRuns, StepUpdateFails, StepReport, StepDrop
     DEF TaskStep
<1> QED
  BY <1>1, <1>2, <1>3, StepDownloadLock, StepReboot, StepRestart DEF Next

(* IInv is an invariant of the updates. *)
THEOREM OtaInvariant == Spec => []IInv
<1>1. Init => IInv
  BY InitInvariant
<1>2. IInv /\ [Next]_vars => IInv'
  BY StepInvariant
<1> QED
  BY <1>1, <1>2, PTL DEF Spec

(* An AT_ONCE task runs only from an archive whose md5 matched and that    *)
(* reached its destination (fkz9_fw_trans_func, fkz9_fw_update_func).      *)
THEOREM VerifiedFirst == Spec => []VerifiedBeforeRun
<1>1. IInv => VerifiedBeforeRun
  BY DEF IInv
<1> QED
  BY <1>1, OtaInvariant, PTL

(* What do_ota_report tells the cloud of a task is so.                     *)
THEOREM ReportsStayTrue == Spec => []ReportsAreTrue
<1>1. IInv => ReportsAreTrue
  BY DEF IInv
<1> QED
  BY <1>1, OtaInvariant, PTL

(* The archive of a mission that waits for its reboot stays on disk,       *)
(* through the clean-up after other tasks and through restarts.            *)
THEOREM ArchivesStay == Spec => []ArchiveKept
<1>1. IInv => ArchiveKept
  BY DEF IInv
<1> QED
  BY <1>1, OtaInvariant, PTL

(* No script runs more often than once, and once more for each restart     *)
(* that may have hit before reboot_upgrade_task_cb removed the file.       *)
THEOREM RunsStayBounded == Spec => []RunsBounded
<1>1. IInv => RunsBounded
  BY DEF IInv
<1> QED
  BY <1>1, OtaInvariant, PTL


-----------------------------------------------------------------------------
(* The count of lib/list.c *)

(* The rest of TypeOK; the count is that of the nodes.                     *)
CountOK ==
    /\ restarts \in 0 .. MaxRestart
    /\ mutex \in {"free", "download"}
    /\ list.count = Len(list.nodes)
    /\ tpc \in {"idle", "hb_post", "hb_insert", "rb_insert", "rb_remove"}
    /\ dpc \in {"unlocked", "scan", "fetch", "record", "trans", "update", "report", "drop"}
    /\ tried \subseteq Tasks

(* Indices whose nodes have different tasks are no more than the tasks.    *)
LEMMA NoMoreThanTasks ==
    ASSUME ShapeOK, NEW I \in SUBSET (DOMAIN list.nodes),
           \A i, j \in I : list.nodes[i].task = list.nodes[j].task => i = j
    PROVE  IsFiniteSet(I) /\ Cardinality(I) <= Cardinality(Tasks)
<1> DEFINE f == [i \in I |-> list.nodes[i].task]
<1>1. f \in [I -> Tasks]
  BY Contents
<1>2. \A i, j \in I : f[i] = f[j] => i = j
  OBVIOUS
<1>3. f \in Injection(I, Tasks)
  BY <1>1, <1>2 DEF Injection, IsInjective
<1> QED
  BY <1>3, FS_Injection, TaskAssumption

(* A task has one node as a new task and one as a mission, at most.        *)
LEMMA ListBounded ==
    ASSUME IInv
    PROVE  Len(list.nodes) <= 2 * Cardinality(Tasks) /\ Cardinality(Tasks) \in Nat
<1> DEFINE D == DOMAIN list.nodes
           N == {i \in D : New(i)}
           M == {i \in D : Due(i)}
<1>1. ShapeOK /\ Len(list.nodes) \in Nat /\ D = 1 .. Len(list.nodes)
  BY Contents DEF IInv
<1>2. IsFiniteSet(N) /\ Cardinality(N) <= Cardinality(Tasks)
  <2>1. N \in SUBSET D /\ \A i, j \in N : list.nodes[i].task = list.nodes[j].task => i = j
    BY DEF IInv, HandedOutOnce
  <2> QED
    BY <1>1, <2>1, NoMoreThanTasks
<1>3. IsFiniteSet(M) /\ Cardinality(M) <= Cardinality(Tasks)
  <2>1. M \in SUBSET D /\ \A i, j \in M : list.nodes[i].task = list.nodes[j].task => i = j
    BY DEF IInv, MissionsOnce
  <2> QED
    BY <1>1, <2>1, NoMoreThanTasks
<1>4. N \union M = 1 .. Len(list.nodes)
  <2>1. \A i \in D : New(i) \/ Due(i)
    BY DEF New, Due
  <2> QED
    BY <1>1, <2>1
<1>5. Cardinality(1 .. Len(list.nodes)) = Len(list.nodes)
  BY <1>1, FS_Interval
<1>6. Cardinality(N \union M) = Cardinality(N) + Cardinality(M) - Cardinality(N \intersect M)
  BY <1>2, <1>3, FS_Union
<1>7. /\ Cardinality(N) \in Nat /\ Cardinality(M) \in Nat /\ Cardinality(Tasks) \in Nat
      /\ Cardinality(N \intersect M) \in Nat
  <2>1. IsFiniteSet(N \intersect M)
    BY <1>2, FS_Subset
  <2> QED
    BY <1>2, <1>3, <2>1, FS_CardinalityType, TaskAssumption
<1>8. Len(list.nodes) = Cardinality(N) + Cardinality(M) - Cardinality(N \intersect M)
  BY <1>4, <1>5, <1>6
<1> HIDE DEF N, M
<1> QED
  BY <1>2, <1>3, <1>7, <1>8

(* So also after a step.                                                   *)
LEMMA ListStaysBounded ==
    IInv' => (Len(list.nodes) <= 2 * Cardinality(Tasks) /\ Cardinality(Tasks) \in Nat)'
<1>1. IInv => Len(list.nodes) <= 2 * Cardinality(Tasks) /\ Cardinality(Tasks) \in Nat
  BY ListBounded
<1> QED
  BY <1>1, PTL

(* Sums that fit in 16 bits are what they are.                             *)
LEMMA Fits ==
    ASSUME NEW x \in Nat, x < 2^16
    PROVE  x % 2^16 = x
OBVIOUS

(* As long as the tasks cannot fill it, the count is that of the nodes.    *)
LEMMA StepCount ==
    ASSUME IInv, CountOK, [Next]_vars, 2 * Cardinality(Tasks) < 2^16
    PROVE  CountOK'
<1>1. IInv'
  BY StepInvariant
<1>2. Len(list.nodes) \in Nat /\ Len(list'.nodes) \in Nat /\ list.nodes \in Seq(Node)
      /\ restarts \in Nat /\ MaxRestart \in Nat
  BY <1>1, Contents, LenProperties, BoundAssumption DEF IInv, ShapeOK
<1>3. Len(list'.nodes) < 2^16
  <2>1. Len(list'.nodes) <= 2 * Cardinality(Tasks) /\ Cardinality(Tasks) \in Nat
    BY <1>1, ListStaysBounded
  <2> QED
    BY <1>2, <2>1
<1>4. CASE HeartbeatInsert \/ RebootInsert
  <2>1. PICK s : /\ list' = ListInsertAll(list, s)
                 /\ Len(list.nodes \o s) = Len(list.nodes) + Len(s) /\ Len(s) \in Nat
    <3>1. CASE HeartbeatInsert
      <4> DEFINE s == [i \in DOMAIN fetched |-> NewNode(fetched[i])]
      <4>1. fetched \in Seq(Tasks) /\ list' = ListInsertAll(list, s)
        BY <3>1 DEF HeartbeatInsert, IInv, ShapeOK
      <4>2. s \in Seq(Node)
        <5>1. DOMAIN fetched = 1 .. Len(fetched) /\ Len(fetched) \in Nat
          BY <4>1, LenProperties
        <5>2. \A i \in 1 .. Len(fetched) : NewNode(fetched[i]) \in Node
          BY <4>1 DEF NewNode, Node
        <5> QED
          BY <5>1, <5>2
      <4> HIDE DEF s
      <4> QED
        BY <1>2, <4>1, <4>2, ConcatProperties, LenProperties
    <3>2. CASE RebootInsert
      <4> DEFINE s == [i \in 1 .. num |-> RebootNode(mission[i].task)]
      <4>1. list' = ListInsertAll(list, s) /\ num \in Nat /\ num <= Len(mission)
        BY <3>2 DEF RebootInsert, IInv, ShapeOK, Counted
      <4>2. \A i \in 1 .. num : RebootNode(mission[i].task) \in Node
        BY <4>1, Contents, TaskAssumption DEF RebootNode, Node, IInv, Tasks
      <4>3. s \in Seq(Node)
        BY <4>1, <4>2
      <4> HIDE DEF s
      <4> QED
        BY <1>2, <4>1, <4>3, ConcatProperties, LenProperties
    <3> QED
      BY <1>4, <3>1, <3>2
  <2>2. list'.nodes = list.nodes \o s /\ list'.count = (list.count + Len(s)) % 2^16
    BY <2>1 DEF ListInsertAll
  <2>3. list'.count = Len(list'.nodes)
    <3>1. list.count + Len(s) = Len(list'.nodes)
      BY <1>2, <2>1, <2>2 DEF CountOK
    <3> QED
      BY <1>2, <1>3, <2>2, <3>1, Fits
  <2> QED
    BY <1>4, <2>3 DEF CountOK, HeartbeatInsert, RebootInsert, timerVars, history
<1>5. CASE Drop
  <2>1. list'.count = Len(list'.nodes)
    <3>1. list' = ListDelHead(list) /\ list.count = Len(list.nodes)
      BY <1>5 DEF Drop, CountOK
    <3>2. CASE ListIsEmpty(list)
      BY <3>1, <3>2 DEF ListDelHead
    <3>3. CASE ~ ListIsEmpty(list) /\ list.count = 1
      <4>1. list' = [nodes |-> <<>>, count |-> 0]
        BY <3>1, <3>3 DEF ListDelHead
      <4> QED
        BY <4>1, EmptySeq
    <3>4. CASE ~ ListIsEmpty(list) /\ list.count # 1
      <4>1. list' = [nodes |-> Tail(list.nodes), count |-> list.count - 1] /\ list.nodes # <<>>
        BY <1>2, <3>1, <3>4 DEF ListDelHead, ListIsEmpty
      <4>2. Len(Tail(list.nodes)) = Len(list.nodes) - 1
        BY <1>2, <4>1, HeadTailProperties
      <4> QED
        BY <3>1, <4>1, <4>2
    <3> QED
      BY <3>2, <3>3, <3>4
  <2> QED
    BY <1>5, <2>1 DEF CountOK, Drop, DownloadGoto, timerVars, history
<1>6. CASE Restart
  <2>1. list'.count = Len(list'.nodes)
    BY <1>6, EmptySeq DEF Restart, EmptyList
  <2> QED
    BY <1>2, <1>6, <2>1 DEF CountOK, Restart, history
<1>7. CASE HeartbeatInfo \/ HeartbeatPost \/ RebootCheck \/ RebootRemove
  <2>1. list' = list
    BY <1>7 DEF HeartbeatInfo, HeartbeatPost, RebootCheck, RebootRemove
  <2> QED
    BY <1>7, <2>1 DEF CountOK, HeartbeatInfo, HeartbeatPost, RebootCheck, RebootRemove, history
<1>8. CASE TaskStep /\ ~Drop
  <2>1. /\ list' = list /\ tpc' = tpc /\ restarts' = restarts
        /\ mutex' \in {mutex, "free"}
        /\ dpc' \in {"unlocked", "scan", "fetch", "record", "trans", "update", "report", "drop"}
        /\ tried' = tried \/ (Busy /\ tried' = tried \union {info.task})
    <3>1. CASE DownloadUnlock \/ TakeNew \/ TakeRebooted \/ Fetch \/ Record
      BY <3>1 DEF DownloadGoto, DownloadUnlock, TakeNew, TakeRebooted, Fetch, Record,
        timerVars, history
    <3>2. CASE TransRebooted \/ TransMismatch \/ TransMatch \/ TransFails
      BY <3>2 DEF DownloadGoto, TransRebooted, TransMismatch, TransMatch, TransFails,
        timerVars, history
    <3>3. CASE UpdateNothing \/ UpdateRuns \/ UpdateFails \/ Report
      BY <3>3 DEF DownloadGoto, UpdateNothing, UpdateRuns, UpdateFails, Report, Busy,
        timerVars, history
    <3> QED
      BY <1>8, <3>1, <3>2, <3>3 DEF TaskStep
  <2>2. tried' \subseteq Tasks
    BY <2>1, InWork DEF CountOK
  <2> QED
    BY <2>1, <2>2 DEF CountOK
<1>9. CASE DownloadLock \/ Reboot \/ UNCHANGED vars
  <2>1. /\ list' = list /\ tpc' = tpc /\ restarts' = restarts /\ tried' = tried
        /\ mutex' \in {mutex, "download"} /\ dpc' \in {dpc, "scan"}
    BY <1>9 DEF DownloadLock, DownloadGoto, Reboot, vars, timerVars, history
  <2> QED
    BY <2>1 DEF CountOK
<1> QED
  BY <1>4, <1>5, <1>6, <1>7, <1>8, <1>9 DEF Next, TimerStep

(* Type correctness.  The 16-bit count is the number of nodes in the chain *)
(* for fewer than 2^15 tasks; 2^16 of them could make it wrap, and the     *)
(* download thread would take a full list for an empty one.                *)
THEOREM TypeCorrect ==
    ASSUME 2 * Cardinality(Tasks) < 2^16
    PROVE  Spec => []TypeOK
<1>1. Init => IInv /\ CountOK
  <2> SUFFICES ASSUME Init PROVE CountOK
    BY InitInvariant
  <2>1. list.count = Len(list.nodes)
    BY EmptySeq DEF Init, EmptyList
  <2> QED
    BY <2>1, BoundAssumption DEF Init, CountOK
<1>2. IInv /\ CountOK /\ [Next]_vars => IInv' /\ CountOK'
  BY StepInvariant, StepCount
<1>3. IInv /\ CountOK => TypeOK
  BY Zenon DEF IInv, ShapeOK, CountOK, TypeOK, Node, Line, Info
<1> QED
  BY <1>1, <1>2, <1>3, PTL DEF Spec
=============================================================================
