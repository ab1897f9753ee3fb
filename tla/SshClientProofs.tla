--------------------------- MODULE SshClientProofs ---------------------------
(***************************************************************************)
(* Proofs about the functions that use an SSH client, for any number of    *)
(* attempts to connect and of starts of the program.                       *)
(***************************************************************************)
EXTENDS SshClient, TLAPS

(* The calls of each function.                                             *)
Calls(c) ==
    {"end"} \union
    (IF c = "boot" THEN {"connect", "find", "dev_info", "upload", "chmod", "destroy"}
     ELSE IF c = "heartbeat" THEN {"connect", "base_info", "unit_info", "destroy", "post"}
     ELSE IF c = "trans" THEN {"connect", "mkdir", "upload", "md5", "chattr", "destroy"}
     ELSE IF c = "wave" THEN {"connect", "download", "destroy", "ftp_put"}
     ELSE {"ftp_get"})

InTurn == upc \in Calls(caller)

Remote == Executes \union {"upload", "download"}
Freed == {"ftp_put", "post", "end"}

(* While there are calls to make to the FKZ9 the client is connected;      *)
(* boot's search for the script is the one call made without.              *)
Connected ==
    /\ upc \in Remote => \/ session = "up" /\ sftp = "live"
                         \/ session = "idle" /\ upc = "find"
    /\ upc = "destroy" => \/ session = "up" /\ sftp = "live"
                          \/ session = "idle" /\ result = "fail"
    /\ upc = "connect" => session = "idle" /\ tries < MaxTry /\ sftp # "live"
    /\ upc = "ftp_get" => sftp = "null"
    /\ sftp = "freed" /\ upc \notin Freed => "no sftp_init" \in seen
    /\ harm # "none" /\ upc = "end" => harm = "freed twice"

(* The search for the script was cut short, or did not run.                *)
SearchFailed == seen \intersect {"output cut", "command failed"} # {}

(* What boot knows at each call.                                           *)
BootKnows ==
    caller = "boot" =>
        /\ upc \notin {"destroy", "end"} => info = "zero"
        /\ upc = "dev_info" => remote # "none"
        /\ upc = "upload" => remote = "none" \/ SearchFailed
        /\ upc = "chmod" => "script written" \in seen
        /\ remote # "locked"
        /\ upc \in {"destroy", "end"} /\ result = "ok" =>
              \/ info = "known"
              \/ info = "zero" /\ ("script written" \in seen \/ Spoiled # {})
              \/ info = "garbled" /\ Spoiled # {}

(* The wave file was not read or not written whole.                        *)
WaveSpoiled == seen \intersect {"short write", "read failed"} # {}

(* Where the file is when a function has done its last call.               *)
FileKnown ==
    /\ caller = "trans" =>
         /\ upc = "chattr" => remote = "new"
         /\ upc \in {"destroy", "end"} /\ result = "ok" => remote \in {"new", "locked"}
    /\ caller = "fetch" /\ upc = "end" /\ result = "ok" => local = "whole" \/ "short write" \in seen
    /\ caller = "wave" =>
         /\ upc = "ftp_put" => result = "ok"
         /\ upc \in {"destroy", "ftp_put"} /\ result = "ok" =>
              local = "whole" \/ WaveSpoiled
         /\ upc = "end" /\ result = "ok" => server = "whole" \/ WaveSpoiled
         /\ local = "garbled" => WaveSpoiled
         /\ upc \in {"connect", "download"} => local \in {"none", "garbled"}

IInv ==
    /\ SshTypeOK
    /\ InTurn /\ Connected
    /\ FreedOnce /\ NeverUsesFreed /\ HandlesReleased
    /\ BootKnows /\ ScriptIntact
    /\ FileKnown

-----------------------------------------------------------------------------
(* Each function begins with the first of its calls.                       *)
LEMMA FirstCall ==
    ASSUME NEW c \in Callers
    PROVE  /\ c = "boot" => First(c) = "find"
           /\ c = "heartbeat" => First(c) = "base_info"
           /\ c = "trans" => First(c) = "mkdir"
           /\ c = "wave" => First(c) = "download"
           /\ c = "fetch" => First(c) = "ftp_get"
  BY DEF First, Callers

(* A function begins with nothing done.                                    *)
LEMMA InitInvariant == SshInit => IInv
<1> SUFFICES ASSUME SshInit PROVE IInv
  OBVIOUS
<1> USE TryAssumption DEF SshInit
<1>1. SshTypeOK
  BY DEF SshTypeOK, Callers, Steps, Executes, Mishaps
<1>2. InTurn /\ Connected
  BY DEF InTurn, Calls, Connected, Callers, Remote, Executes, Freed
<1>3. FreedOnce /\ NeverUsesFreed /\ HandlesReleased
  BY DEF FreedOnce, NeverUsesFreed, HandlesReleased
<1>4. BootKnows /\ ScriptIntact /\ FileKnown
  BY DEF BootKnows, SearchFailed, Spoiled, ScriptIntact, FileKnown, WaveSpoiled
<1> QED
  BY <1>1, <1>2, <1>3, <1>4 DEF IInv

(* A call, not yet of libcurl, keeps the invariant.                        *)
LEMMA StepConnect ==
    ASSUME IInv, harm = "none", Connect
    PROVE  IInv'
<1> USE DEF IInv, Connect
<1>1. caller \in Callers /\ caller # "fetch" /\ tries \in 0 .. MaxTry /\ tries < MaxTry
  BY DEF InTurn, Calls, Connected, SshTypeOK
<1>2. /\ session' \in {"idle", "up"}
      /\ session' = "up" => sftp' = "live"
      /\ session' = "idle" => sftp' # "live"
      /\ sftp' \in {"null", "live", "freed"}
      /\ sftp' = "freed" => "no sftp_init" \in seen'
      /\ seen \subseteq seen' /\ seen' \subseteq Mishaps
  BY DEF ConnectOutcome, Connected, SshTypeOK, Mishaps, Freed
<1>3. /\ upc' = "connect" \/ upc' = "destroy" \/ upc' = First(caller) \/ upc' = "find"
      /\ upc' = "connect" => session' = "idle" /\ caller = "boot" /\ tries' < MaxTry
      /\ upc' = "find" => caller = "boot"
      /\ upc' = "destroy" => session' = "idle" /\ result' = "fail" /\ caller # "boot"
      /\ upc' # "destroy" => result' = result
      /\ upc' = First(caller) => session' = "up" \/ caller = "boot"
      /\ tries' \in 0 .. MaxTry
      /\ result' \in {"none", "ok", "fail"}
  <2> /\ result \in {"none", "ok", "fail"} /\ MaxTry \in Nat
    BY TryAssumption DEF SshTypeOK
  <2> /\ First(caller) \notin {"connect", "destroy"}
      /\ First(caller) = "find" => caller = "boot"
    BY <1>1, FirstCall DEF Callers
  <2>1. CASE session' = "up"
    BY <1>1, <2>1 DEF Go
  <2>2. CASE session' # "up" /\ caller = "boot"
    <3>1. session' = "idle"
      BY <1>2, <2>2
    <3>2. /\ tries' = tries + 1 /\ result' = result
          /\ upc' = IF tries' < MaxTry THEN "connect" ELSE "find"
      BY <2>2 DEF Go
    <3>3. tries' \in 0 .. MaxTry
      BY <1>1, <3>2
    <3> QED
      BY <2>2, <3>1, <3>2, <3>3
  <2>3. CASE session' # "up" /\ caller # "boot"
    BY <1>1, <1>2, <2>3 DEF Leave
  <2> QED
    BY <2>1, <2>2, <2>3
<1>4. SshTypeOK'
  <2>1. /\ caller' \in Callers /\ upc' \in Steps
        /\ tries' \in 0 .. MaxTry /\ starts' \in 1 .. MaxStart
    BY <1>1, <1>3, FirstCall DEF SshTypeOK, Callers, Steps, Executes
  <2>2. UNCHANGED <<info, remote, local, server, leaked, harm>>
    OBVIOUS
  <2> QED
    BY <1>2, <1>3, <2>1, <2>2, ZenonT(30) DEF SshTypeOK
<1>5. InTurn' /\ Connected'
  BY <1>1, <1>2, <1>3, FirstCall
  DEF InTurn, Calls, Connected, Callers, Remote, Executes, Freed
<1>6. FreedOnce' /\ NeverUsesFreed' /\ HandlesReleased'
  BY <1>1, <1>2, <1>3, FirstCall DEF FreedOnce, NeverUsesFreed, HandlesReleased, Callers
<1>7. BootKnows' /\ ScriptIntact' /\ FileKnown'
  BY <1>1, <1>2, <1>3, FirstCall DEF BootKnows, SearchFailed, Spoiled, ScriptIntact, FileKnown, WaveSpoiled, Callers
<1> QED
  BY <1>4, <1>5, <1>6, <1>7

(* SSHClient_Execute.  Without a connection it fails, which is what keeps  *)
(* boot from the sftp session that Connect has freed.                      *)
LEMMA StepExecute ==
    ASSUME IInv, harm = "none", Execute
    PROVE  IInv'
<1> USE DEF IInv, Execute
<1>1. caller \in Callers /\ caller # "fetch" /\ upc \in Calls(caller) /\ upc \in Executes
  BY DEF InTurn, Calls, Executes, SshTypeOK
<1>2. CASE Leave("fail") /\ UNCHANGED <<info, remote, seen>>
  <2> USE <1>2 DEF Leave
  <2>1. SshTypeOK' /\ InTurn'
    BY <1>1 DEF SshTypeOK, Steps, InTurn, Calls, Callers
  <2>2. Connected'
    BY <1>1 DEF Connected, Executes, Remote, Freed
  <2>3. FreedOnce' /\ NeverUsesFreed' /\ HandlesReleased'
    BY DEF FreedOnce, NeverUsesFreed, HandlesReleased
  <2>4. BootKnows' /\ ScriptIntact' /\ FileKnown'
    BY DEF BootKnows, SearchFailed, Spoiled, ScriptIntact, FileKnown, WaveSpoiled
  <2> QED
    BY <2>1, <2>2, <2>3, <2>4
<1>3. ASSUME session = "up", NEW how \in Fates,
             Follow(upc, how = "whole"), Noted(how),
             info' \in IF upc # "dev_info" THEN {info}
                       ELSE IF how = "whole" /\ remote \in {"old", "new"} THEN {"known"}
                       ELSE {"zero", "garbled"},
             remote' \in IF upc = "chattr" THEN {remote, "locked"} ELSE {remote}
      PROVE  IInv'
  <2> USE <1>3
  <2>1. /\ seen \subseteq seen' /\ seen' \subseteq Mishaps
        /\ how = "whole" \/ (SearchFailed' /\ Spoiled' # {})
    BY DEF SshTypeOK, Mishaps, Noted, Fates, SearchFailed, Spoiled
  <2>2. /\ upc = "find" => /\ upc' = IF how = "whole" /\ remote # "none" THEN "dev_info" ELSE "upload"
                           /\ result' = result
        /\ upc = "base_info" => upc' = "unit_info" /\ result' = result
        /\ upc = "mkdir" => upc' = "upload" /\ result' = result
        /\ upc = "md5" => IF how = "whole" /\ remote = "new" THEN upc' = "chattr" /\ result' = result
                          ELSE upc' = "destroy" /\ result' = "fail"
        /\ upc \in {"dev_info", "chmod", "unit_info", "chattr"} =>
              upc' = "destroy" /\ result' = "ok"
    BY <1>1 DEF Follow, Go, Leave, LastCalls, Executes
  <2>3. SshTypeOK'
    <3>1. /\ upc' \in Steps /\ result' \in {"none", "ok", "fail"}
      BY <1>1, <2>2, ZenonT(30) DEF SshTypeOK, Steps, Executes
    <3>2. info' \in {"zero", "known", "garbled"}
      BY ZenonT(30) DEF SshTypeOK
    <3>3. remote' \in {"none", "old", "new", "part", "mixed", "locked"}
      BY ZenonT(30) DEF SshTypeOK
    <3>4. /\ caller' \in Callers /\ tries' \in 0 .. MaxTry /\ starts' \in 1 .. MaxStart
          /\ session' \in {"idle", "up", "freed"} /\ sftp' \in {"null", "live", "freed"}
          /\ local' \in {"none", "part", "garbled", "whole"}
          /\ server' \in {"none", "part", "garbled", "whole"}
          /\ leaked' \subseteq {"curl", "headers"}
          /\ harm' \in {"none", "freed twice", "freed used", "read past"}
      BY DEF SshTypeOK
    <3> HIDE <1>3 DEF IInv, Execute
    <3> QED
      BY <2>1, <3>1, <3>2, <3>3, <3>4 DEF SshTypeOK
  <2>4. InTurn' /\ Connected'
    BY <1>1, <2>1, <2>2 DEF InTurn, Calls, Connected, Callers, Remote, Executes, Freed
  <2>5. FreedOnce' /\ NeverUsesFreed' /\ HandlesReleased'
    BY <1>1, <2>1, <2>2 DEF FreedOnce, NeverUsesFreed, HandlesReleased, Executes
  <2>6. BootKnows' /\ ScriptIntact'
    <3>1. UNCHANGED <<caller, local, server>> 
      BY <1>1 DEF BootKnows, Calls, Executes
    <3>2. SearchFailed => SearchFailed'
      BY <2>1 DEF SearchFailed
    <3>3. Spoiled # {} => Spoiled' # {}
      BY <2>1 DEF Spoiled
    <3>4. caller = "boot" => remote' = remote
      BY <1>1 DEF Calls, Executes
    <3>5. ScriptIntact'
      BY <2>1, <3>4 DEF ScriptIntact
    <3>6. ASSUME caller = "boot" PROVE BootKnows'
      <4>1. /\ upc' = "dev_info" => remote # "none"
            /\ upc' = "upload" => remote = "none" \/ SearchFailed'
            /\ upc' \notin {"destroy", "end"} => info' = "zero"
            /\ upc' # "chmod"
        BY <1>1, <2>1, <2>2, <3>6 DEF BootKnows, Calls, Executes
      <4>2. /\ upc' # "end"
            /\ upc' = "destroy" => upc \in {"dev_info", "chmod"}
        BY <1>1, <2>2, <3>6 DEF Calls, Executes
      <4>3. CASE upc = "dev_info"
        <5>1. info' \in {"zero", "garbled"} \/ info' = "known"
          BY <4>3
        <5>2. info' # "known" => Spoiled' # {}
          BY <2>1, <4>3, <3>3, <3>6 DEF BootKnows, ScriptIntact, Spoiled, SshTypeOK
        <5> QED
          BY <3>4, <3>6, <4>1, <4>2, <4>3, <5>1, <5>2 DEF BootKnows
      <4>4. CASE upc # "dev_info"
        <5>1. info' = info
          BY <4>4
        <5>2. upc = "chmod" => info' = "zero" /\ "script written" \in seen'
          BY <2>1, <3>6, <5>1 DEF BootKnows
        <5> QED
          BY <3>4, <3>6, <4>1, <4>2, <4>4, <5>1, <5>2 DEF BootKnows
      <4> QED
        BY <4>3, <4>4
    <3>7. caller # "boot" => BootKnows'
      BY DEF BootKnows
    <3> QED
      BY <3>5, <3>6, <3>7
  <2>7. FileKnown'
    BY <1>1, <2>1, <2>2 DEF FileKnown, Calls, Executes
  <2> QED
    BY <2>3, <2>4, <2>5, <2>6, <2>7
<1> QED
  BY <1>2, <1>3

(* SSHClient_UploadFile: by boot, over nothing or after a search cut       *)
(* short, and by trans, which then has the md5 sum to tell.                *)
LEMMA StepUpload ==
    ASSUME IInv, harm = "none", Upload
    PROVE  IInv'
<1> USE DEF IInv, Upload
<1>1. caller \in {"boot", "trans"} /\ session = "up" /\ sftp = "live"
  BY DEF InTurn, Calls, Connected, Remote, SshTypeOK, Callers
<1>2. /\ seen \subseteq seen' /\ seen' \subseteq Mishaps /\ harm' = "none"
      /\ remote' \in {"none", "old", "new", "part", "mixed", "locked"}
      /\ remote' = "locked" => remote = "locked"
      /\ remote' = "part" => \/ remote = "part"
                             \/ seen' \intersect {"write failed", "short read"} # {}
      /\ remote' = "mixed" => remote \notin {"none", "part"}
  BY <1>1 DEF SshTypeOK, Mishaps
<1>3. \/ upc' = "destroy" /\ result' = "fail"
      \/ /\ upc' = IF caller = "boot" THEN "chmod" ELSE "md5"
         /\ result' = result /\ "script written" \in seen'
  BY <1>1 DEF Follow, Go, Leave, LastCalls
<1>4. SshTypeOK'
  BY <1>1, <1>2, <1>3 DEF SshTypeOK, Steps, Executes
<1>5. InTurn' /\ Connected'
  BY <1>1, <1>2, <1>3 DEF InTurn, Calls, Connected, Remote, Freed
<1>6. FreedOnce' /\ NeverUsesFreed' /\ HandlesReleased'
  BY <1>1, <1>2, <1>3 DEF FreedOnce, NeverUsesFreed, HandlesReleased
<1>7. BootKnows' /\ ScriptIntact' /\ FileKnown'
  BY <1>1, <1>2, <1>3 DEF BootKnows, SearchFailed, Spoiled, ScriptIntact, FileKnown, WaveSpoiled
<1> QED
  BY <1>4, <1>5, <1>6, <1>7

(* SSHClient_DownloadFile, by wave only. *)
LEMMA StepDownload ==
    ASSUME IInv, harm = "none", Download
    PROVE  IInv'
<1> USE DEF IInv, Download
<1>1. caller = "wave" /\ session = "up" /\ sftp = "live"
  BY DEF InTurn, Calls, Connected, Remote, SshTypeOK, Callers
<1>2. /\ seen \subseteq seen' /\ seen' \subseteq Mishaps
      /\ local' \in {"none", "part", "garbled", "whole"}
      /\ local' = "garbled" => WaveSpoiled'
      /\ harm' = "none" \/ (harm' = "read past" /\ upc' = upc /\ result' = result)
  BY <1>1 DEF SshTypeOK, Mishaps, FileKnown, WaveSpoiled
<1>3. \/ upc' = "destroy" /\ result' = "fail"
      \/ upc' = "destroy" /\ result' = "ok" /\ (local' = "whole" \/ WaveSpoiled')
      \/ upc' = "download" /\ result' = result /\ local' = "garbled"
  BY <1>1, <1>2 DEF Follow, Leave, LastCalls, FileKnown, WaveSpoiled, SshTypeOK
<1>4. SshTypeOK'
  BY <1>1, <1>2, <1>3 DEF SshTypeOK, Steps
<1>5. InTurn' /\ Connected'
  BY <1>1, <1>2, <1>3 DEF InTurn, Calls, Connected, Remote, Freed
<1>6. FreedOnce' /\ NeverUsesFreed' /\ HandlesReleased'
  BY <1>1, <1>2, <1>3 DEF FreedOnce, NeverUsesFreed, HandlesReleased
<1>7. BootKnows' /\ ScriptIntact' /\ FileKnown'
  BY <1>1, <1>2, <1>3 DEF BootKnows, SearchFailed, Spoiled, ScriptIntact, FileKnown, WaveSpoiled
<1> QED
  BY <1>4, <1>5, <1>6, <1>7

(* SSHClient_Destroy frees the session of sftp a second time only if       *)
(* Connect has, and then the function has failed.                          *)
LEMMA StepDestroy ==
    ASSUME IInv, harm = "none", Destroy
    PROVE  IInv'
<1> USE DEF IInv, Destroy
<1>1. /\ caller \in {"boot", "heartbeat", "trans", "wave"}
      /\ result = "fail" \/ sftp = "live"
      /\ sftp = "freed" => "no sftp_init" \in seen
      /\ sftp' # "live"
  BY DEF InTurn, Calls, Connected, SshTypeOK, Callers, Freed
<1>2. \/ upc' = "end" /\ (result = "ok" => caller \notin {"wave", "heartbeat"})
      \/ upc' = "ftp_put" /\ caller = "wave" /\ result = "ok"
      \/ upc' = "post" /\ caller = "heartbeat" /\ result = "ok"
  OBVIOUS
<1>3. SshTypeOK'
  BY ZenonT(60), <1>1, <1>2 DEF SshTypeOK, Steps
<1>4. InTurn' /\ Connected'
  BY <1>1, <1>2 DEF InTurn, Calls, Connected, Remote, Executes, Freed
<1>5. FreedOnce' /\ NeverUsesFreed' /\ HandlesReleased'
  BY <1>1, <1>2 DEF FreedOnce, NeverUsesFreed, HandlesReleased, SshTypeOK
<1>6. BootKnows' /\ ScriptIntact' /\ FileKnown'
  BY <1>1, <1>2 DEF BootKnows, SearchFailed, Spoiled, ScriptIntact, FileKnown, WaveSpoiled
<1> QED
  BY <1>3, <1>4, <1>5, <1>6

(* The transfers come last, and tell what became of them.                  *)
LEMMA StepTransfer ==
    ASSUME IInv, harm = "none", Transfer
    PROVE  IInv'
<1> USE DEF IInv
<1>1. CASE FtpUpload
  <2> USE <1>1 DEF FtpUpload, End
  <2>1. /\ caller = "wave" /\ session = "freed" /\ sftp # "live"
        /\ local = "whole" \/ WaveSpoiled
    BY DEF InTurn, Calls, HandlesReleased, FileKnown, SshTypeOK, Callers
  <2>2. /\ upc' = "end" /\ seen \subseteq seen' /\ seen' \subseteq Mishaps
        /\ result' = "fail" \/ (result' = "ok" /\ server' = local)
        /\ leaked' \subseteq {"curl", "headers"}
        /\ "curl" \in leaked' => "no stat" \in seen'
        /\ "headers" \in leaked' => "headers" \in leaked
    BY DEF SshTypeOK, Mishaps, HandlesReleased
  <2>3. SshTypeOK'
    BY <2>1, <2>2 DEF SshTypeOK, Steps
  <2>4. InTurn' /\ Connected'
    BY <2>1, <2>2 DEF InTurn, Calls, Connected, Remote, Executes, Freed
  <2>5. FreedOnce' /\ NeverUsesFreed' /\ HandlesReleased'
    BY <2>1, <2>2 DEF FreedOnce, NeverUsesFreed, HandlesReleased
  <2>6. BootKnows' /\ ScriptIntact' /\ FileKnown'
    BY <2>1, <2>2 DEF BootKnows, SearchFailed, Spoiled, ScriptIntact, FileKnown, WaveSpoiled
  <2> QED
    BY <2>3, <2>4, <2>5, <2>6
<1>2. CASE FtpDownload
  <2> USE <1>2 DEF FtpDownload, End
  <2>1. caller = "fetch"
    BY DEF InTurn, Calls, SshTypeOK, Callers
  <2>2. SshTypeOK' /\ InTurn' /\ Connected'
    BY <2>1 DEF SshTypeOK, Steps, Mishaps, InTurn, Calls, Connected, Remote, Executes, Freed
  <2>3. FreedOnce' /\ NeverUsesFreed' /\ HandlesReleased'
    BY <2>1 DEF FreedOnce, NeverUsesFreed, HandlesReleased, Connected, InTurn
  <2>4. BootKnows' /\ ScriptIntact' /\ FileKnown'
    BY <2>1 DEF BootKnows, SearchFailed, Spoiled, ScriptIntact, FileKnown, WaveSpoiled
  <2> QED
    BY <2>2, <2>3, <2>4
<1>3. CASE HttpPost
  <2> USE <1>3 DEF HttpPost, End
  <2>1. caller = "heartbeat" /\ session = "freed" /\ sftp # "live"
    BY DEF InTurn, Calls, HandlesReleased, SshTypeOK, Callers
  <2>2. SshTypeOK' /\ InTurn' /\ Connected'
    BY ZenonT(60), <2>1 DEF SshTypeOK, Steps, InTurn, Calls, Connected, Remote, Executes, Freed
  <2>3. FreedOnce' /\ NeverUsesFreed' /\ HandlesReleased'
    BY <2>1 DEF FreedOnce, NeverUsesFreed, HandlesReleased
  <2>4. BootKnows' /\ ScriptIntact' /\ FileKnown'
    BY <2>1 DEF BootKnows, SearchFailed, Spoiled, ScriptIntact, FileKnown, WaveSpoiled
  <2> QED
    BY <2>2, <2>3, <2>4
<1> QED
  BY <1>1, <1>2, <1>3 DEF Transfer

(* The next start finds the FKZ9 as the last one left it.                  *)
LEMMA StepStartAgain ==
    ASSUME IInv, StartAgain
    PROVE  IInv'
<1> USE TryAssumption DEF IInv, StartAgain
<1>1. SshTypeOK' /\ InTurn' /\ Connected'
  BY DEF SshTypeOK, Steps, InTurn, Calls, Connected, Remote, Executes, Freed
<1>2. FreedOnce' /\ NeverUsesFreed' /\ HandlesReleased'
  BY DEF FreedOnce, NeverUsesFreed, HandlesReleased
<1>3. BootKnows' /\ ScriptIntact' /\ FileKnown'
  BY DEF BootKnows, SearchFailed, Spoiled, ScriptIntact, FileKnown, WaveSpoiled
<1> QED
  BY <1>1, <1>2, <1>3

(* Every step of one of the functions.                                     *)
LEMMA StepInvariant ==
    ASSUME IInv, [SshStep]_sshVars
    PROVE  IInv'
<1>1. CASE UNCHANGED sshVars
  <2> /\ caller' = caller /\ upc' = upc /\ tries' = tries /\ starts' = starts
      /\ session' = session /\ sftp' = sftp /\ result' = result /\ info' = info
      /\ remote' = remote /\ local' = local /\ server' = server
      /\ leaked' = leaked /\ harm' = harm /\ seen' = seen
    BY <1>1 DEF sshVars
  <2> USE DEF IInv
  <2>1. SshTypeOK'
    <3>1. /\ caller' \in Callers /\ upc' \in Steps
          /\ tries' \in 0 .. MaxTry /\ starts' \in 1 .. MaxStart
      BY DEF SshTypeOK
    <3>2. leaked' \subseteq {"curl", "headers"} /\ seen' \subseteq Mishaps
      BY DEF SshTypeOK
    <3>3. /\ session' \in {"idle", "up", "freed"} /\ sftp' \in {"null", "live", "freed"}
          /\ result' \in {"none", "ok", "fail"} /\ info' \in {"zero", "known", "garbled"}
      BY Zenon DEF SshTypeOK
    <3>4. /\ remote' \in {"none", "old", "new", "part", "mixed", "locked"}
          /\ local' \in {"none", "part", "garbled", "whole"}
          /\ server' \in {"none", "part", "garbled", "whole"}
          /\ harm' \in {"none", "freed twice", "freed used", "read past"}
      BY Zenon DEF SshTypeOK
    <3> QED
      BY <3>1, <3>2, <3>3, <3>4, Zenon DEF SshTypeOK
  <2>2. InTurn' /\ Connected'
    BY DEF InTurn, Connected, Calls
  <2>3. FreedOnce' /\ NeverUsesFreed' /\ HandlesReleased'
    BY DEF FreedOnce, NeverUsesFreed, HandlesReleased
  <2>4. BootKnows' /\ ScriptIntact' /\ FileKnown'
    <3>1. BootKnows'
      BY DEF BootKnows, SearchFailed, Spoiled
    <3>2. ScriptIntact' /\ FileKnown'
      BY DEF ScriptIntact, FileKnown, WaveSpoiled
    <3> QED
      BY <3>1, <3>2
  <2> QED
    BY <2>1, <2>2, <2>3, <2>4
<1>2. CASE harm = "none" /\ SshCall
  BY <1>2, StepConnect, StepExecute, StepUpload, StepDownload, StepDestroy DEF SshCall
<1>3. CASE harm = "none" /\ Transfer
  BY <1>3, StepTransfer
<1>4. CASE StartAgain
  BY <1>4, StepStartAgain
<1> QED
  BY <1>1, <1>2, <1>3, <1>4 DEF SshStep

-----------------------------------------------------------------------------
(* The invariant holds of every function, start and failure.               *)
LEMMA Invariant == SshSpec => []IInv
<1> QED
  BY InitInvariant, StepInvariant, PTL DEF SshSpec

(* Type correctness; no more than MaxTry attempts are made.                *)
THEOREM TypeCorrect == SshSpec => []SshTypeOK
<1>1. IInv => SshTypeOK
  BY DEF IInv
<1> QED
  BY Invariant, <1>1, PTL

(* Every way out of the functions frees the client and libcurl's handles   *)
(* but for two known ones; nothing is used after that; only after          *)
(* sftp_init failed, in a function that fails, is anything freed twice.    *)
THEOREM ClientsAreReleased == SshSpec => []ClientsReleased
<1>1. IInv => ClientsReleased
  BY DEF IInv, ClientsReleased
<1> QED
  BY Invariant, <1>1, PTL

(* After a boot that succeeds the address is known, or it is known why     *)
(* not; the script on the FKZ9 is damaged only after a search or a         *)
(* transfer that went wrong; what is reported as transferred has arrived   *)
(* whole, unless one of the failures that nobody looks at has occurred.    *)
THEOREM SuccessesAreTrue == SshSpec => []SuccessIsTrue
<1>1. IInv => AddressKnown
  BY DEF IInv, BootKnows, AddressKnown
<1>2. IInv => ScriptIntact
  BY DEF IInv
<1>3. IInv => ToldWhole
  BY DEF IInv, FileKnown, WaveSpoiled, ToldWhole
<1> QED
  BY Invariant, <1>1, <1>2, <1>3, PTL DEF SuccessIsTrue
=============================================================================
