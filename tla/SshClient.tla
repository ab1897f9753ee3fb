------------------------------ MODULE SshClient ------------------------------
(***************************************************************************)
(* One SSHClient (net/ssh_client.c) in the hands of one of the functions   *)
(* that use it, and the FTP or HTTP transfer (net/ftp_handler.c) that      *)
(* follows.  Each of these functions has its own client on its stack and   *)
(* frees it on every way out:                                              *)
(*   boot       init_updater_environment (main.c)                          *)
(*   heartbeat  get_ota_heartbeat_info, then the POST (cloud_comm.c)       *)
(*   trans      the ssh part of fkz9_fw_trans_func (firmware_updater.c)    *)
(*   wave       func_wave_file_req (cloud_comm.c)                          *)
(*   fetch      the ftp_download of do_downlaod_firmware (cloud_comm.c)    *)
(* They share nothing, so that a behaviour is that of one of them.  A boot *)
(* that fails ends the program, which is then started again.               *)
(***************************************************************************)
EXTENDS Naturals

CONSTANTS MaxTry,   \* attempts to connect in init_updater_environment
          MaxStart  \* bound: starts of the program

ASSUME TryAssumption == MaxTry \in Nat \ {0} /\ MaxStart \in Nat \ {0}

VARIABLES caller,   \* the function
          upc,      \* the call it makes next
          tries,    \* try_num of init_updater_environment
          starts,   \* starts of the program so far
          session,  \* client->session: "idle" is not connected
          sftp,     \* what client->sftp points to
          result,   \* what the function returns
          info,     \* fkz9_devBaseInfo
          remote,   \* the file on the FKZ9: updater.sh, or the archive
          local,    \* the file on this device: wave file, or archive
          server,   \* the wave file on the FTP server
          leaked,   \* handles of libcurl nothing points to any more
          harm,     \* undefined behaviour
          seen      \* history: what went wrong on the way

sshVars == <<caller, upc, tries, starts, session, sftp, result, info, remote,
             local, server, leaked, harm, seen>>

Callers == {"boot", "heartbeat", "trans", "wave", "fetch"}
Executes == {"find", "dev_info", "chmod", "base_info", "unit_info", "mkdir", "md5",
             "chattr"}
Steps == Executes \union {"connect", "upload", "download", "destroy", "ftp_put",
                          "ftp_get", "post", "end"}
(* Besides two failures of libraries, and the write of the script: what is *)
(* not told from success (ssh_client.c:85, 119-126, 154-158), and a write  *)
(* that fails half-way.                                                    *)
Mishaps == {"no sftp_init", "no stat", "script written", "output cut", "command failed",
            "short read", "read failed", "short write", "write failed"}

SshTypeOK ==
    /\ caller \in Callers /\ upc \in Steps
    /\ tries \in 0 .. MaxTry /\ starts \in 1 .. MaxStart
    /\ session \in {"idle", "up", "freed"}
    /\ sftp \in {"null", "live", "freed"}
    /\ result \in {"none", "ok", "fail"}
    /\ info \in {"zero", "known", "garbled"}
    /\ remote \in {"none", "old", "new", "part", "mixed", "locked"}
    /\ local \in {"none", "part", "garbled", "whole"}
    /\ server \in {"none", "part", "garbled", "whole"}
    /\ leaked \subseteq {"curl", "headers"}
    /\ harm \in {"none", "freed twice", "freed used", "read past"}
    /\ seen \subseteq Mishaps

First(c) ==
    CASE c = "boot" -> "find"   [] c = "heartbeat" -> "base_info"
      [] c = "trans" -> "mkdir" [] c = "wave" -> "download" [] c = "fetch" -> "ftp_get"

(* SSHClient_Init has set up the client: a session that is not connected.  *)
SshInit ==
    /\ caller \in Callers
    /\ upc = IF caller = "fetch" THEN "ftp_get" ELSE "connect"
    /\ tries = 0 /\ starts = 1
    /\ session = "idle" /\ sftp = "null"
    /\ result = "none"
    /\ info = "zero"
    /\ remote \in {"none", "old"} \union
                   (IF caller = "trans" THEN {"part", "locked"} ELSE {})
    /\ local = "none" /\ server = "none"
    /\ leaked = {} /\ harm = "none" /\ seen = {}

-----------------------------------------------------------------------------
(* The functions' ways on from a call *)

Go(step) == upc' = step /\ UNCHANGED result
Leave(r) == upc' = "destroy" /\ result' = r

(* The calls after which a function has what it came for.                  *)
LastCalls == {"dev_info", "chmod", "unit_info", "chattr", "download"}

(* The md5 sum is asked for and not compared. *)
FollowUncheckedBug(step, whole) ==
    \/ /\ step = "find"
       /\ Go(IF whole /\ remote # "none" THEN "dev_info" ELSE "upload")
    \/ step = "upload" /\ Go(IF caller = "boot" THEN "chmod" ELSE "md5")
    \/ step = "base_info" /\ Go("unit_info")
    \/ step = "mkdir" /\ Go("upload")
    \/ step = "md5" /\ Go("chattr")
    \/ step \in LastCalls /\ Leave("ok")

(* The call that follows if this one returned 0.                           *)
Follow(step, whole) ==
    \/ /\ step = "find"         \* strstr(resp, "updater.sh")
       /\ Go(IF whole /\ remote # "none" THEN "dev_info" ELSE "upload")
    \/ step = "upload" /\ Go(IF caller = "boot" THEN "chmod" ELSE "md5")
    \/ step = "base_info" /\ Go("unit_info")
    \/ step = "mkdir" /\ Go("upload")
    \/ /\ step = "md5"          \* strstr(resp, pInfo->md5)
       /\ IF whole /\ remote = "new" THEN Go("chattr") ELSE Leave("fail")
    \/ step \in LastCalls /\ Leave("ok")

-----------------------------------------------------------------------------
(* net/ssh_client.c *)

(* SSHClient_Connect fails before the sftp session exists (the pointer     *)
(* keeps its value), cannot make one, cannot initialise it (it is freed    *)
(* and the pointer kept), or succeeds.                                     *)
ConnectOutcome ==
    \/ session' = "idle" /\ UNCHANGED <<sftp, seen>>
    \/ session' = "idle" /\ sftp' = "null" /\ UNCHANGED seen
    \/ session' = "idle" /\ sftp' = "freed" /\ seen' = seen \union {"no sftp_init"}
    \/ session' = "up" /\ sftp' = "live" /\ UNCHANGED seen

(* The last failure is not told from success. *)
ConnectLateBug ==
    /\ upc = "connect"
    /\ ConnectOutcome
    /\ Go(IF session' = "up" \/ tries + 1 >= MaxTry THEN First(caller) ELSE "connect")
    /\ tries' = tries + 1
    /\ UNCHANGED <<caller, starts, info, remote, local, server, leaked, harm>>

(* One attempt too many. *)
ConnectOnceMoreBug ==
    /\ upc = "connect"
    /\ ConnectOutcome
    /\ IF session' = "up"
       THEN Go(First(caller)) /\ UNCHANGED tries
       ELSE IF caller = "boot"
       THEN /\ tries' = tries + 1
            /\ Go(IF tries' <= MaxTry THEN "connect" ELSE "find")
       ELSE Leave("fail") /\ UNCHANGED tries
    /\ UNCHANGED <<caller, starts, info, remote, local, server, leaked, harm>>

(* Boot tries again and in the end goes on without a connection; the other *)
(* functions give up at once.                                              *)
Connect ==
    /\ upc = "connect"
    /\ ConnectOutcome
    /\ IF session' = "up"
       THEN Go(First(caller)) /\ UNCHANGED tries
       ELSE IF caller = "boot"
       THEN /\ tries' = tries + 1
            /\ Go(IF tries' < MaxTry THEN "connect" ELSE "find")
       ELSE Leave("fail") /\ UNCHANGED tries
    /\ UNCHANGED <<caller, starts, info, remote, local, server, leaked, harm>>

(* What became of a command for which SSHClient_Execute returns 0: the     *)
(* loop of reads ends at the end of the output or at an error, and the     *)
(* command's exit status is never asked for.                               *)
Fates == {"whole", "output cut", "command failed"}
Noted(how) == seen' = seen \union ({how} \ {"whole"})

(* SSHClient_Execute: the channel cannot be opened or the command not      *)
(* started; or 0 is returned.  Of an answer of dev_info that is not what   *)
(* the script prints sscanf takes nothing, or something.  A file that      *)
(* chattr has locked cannot be opened for writing any more.                *)
Execute ==
    /\ upc \in Executes
    /\ \/ /\ Leave("fail")
          /\ UNCHANGED <<info, remote, seen>>
       \/ /\ session = "up"
          /\ \E how \in Fates :
                /\ Follow(upc, how = "whole")
                /\ Noted(how)
                /\ info' \in IF upc # "dev_info" THEN {info}
                             ELSE IF how = "whole" /\ remote \in {"old", "new"} THEN {"known"}
                             ELSE {"zero", "garbled"}
          /\ remote' \in IF upc = "chattr" THEN {remote, "locked"} ELSE {remote}
    /\ UNCHANGED <<caller, tries, starts, session, sftp, local, server, leaked, harm>>

(* SSHClient_UploadFile.  The remote file is opened without O_TRUNC, so    *)
(* that the end of a longer one stays.  fread that fails is taken for the  *)
(* end of the file, a short count of sftp_write for a whole one.           *)
Upload ==
    /\ upc = "upload"
    /\ \/ sftp # "freed" /\ Leave("fail")     \* no session, or a file cannot be opened
          /\ UNCHANGED <<remote, harm, seen>>
       \/ sftp = "freed" /\ harm' = "freed used" /\ UNCHANGED <<upc, result, remote, seen>>
       \/ /\ sftp = "live" /\ remote # "locked"
          /\ \/ Leave("fail") /\ seen' = seen \union {"write failed"}
             \/ Follow("upload", TRUE) /\ seen' = seen \union {"script written", "short read"}
          /\ remote' = IF remote \in {"none", "part"} THEN "part" ELSE "mixed"
          /\ UNCHANGED harm
       \/ /\ sftp = "live" /\ remote # "locked"
          /\ Follow("upload", TRUE)
          /\ remote' \in IF remote \in {"none", "part"} THEN {"new"} ELSE {"new", "mixed"}
          /\ seen' = seen \union {"script written"}
          /\ UNCHANGED harm
    /\ UNCHANGED <<caller, tries, starts, session, sftp, info, local, server, leaked>>

(* SSHClient_DownloadFile.  sftp_read's error is held in a size_t: fwrite  *)
(* is asked for far more than the buffer holds, and dies of it or puts     *)
(* what it finds in the file, and the loop goes on, perhaps for ever.      *)
(* What fwrite and fclose return is ignored.                               *)
Download ==
    /\ upc = "download"
    /\ \/ sftp # "freed" /\ local = "none" /\ Leave("fail") /\ UNCHANGED <<local, harm, seen>>
       \/ sftp = "freed" /\ harm' = "freed used" /\ UNCHANGED <<upc, result, local, seen>>
       \/ /\ sftp = "live"
          /\ local' = "garbled" /\ seen' = seen \union {"read failed"}
          /\ harm' \in {"none", "read past"}
          /\ UNCHANGED <<upc, result>>
       \/ /\ sftp = "live"
          /\ Follow("download", TRUE)
          /\ \/ local' = (IF local = "none" THEN "whole" ELSE local) /\ UNCHANGED seen
             \/ /\ local' = (IF local = "none" THEN "part" ELSE local)
                /\ seen' = seen \union {"short write"}
          /\ UNCHANGED harm
    /\ UNCHANGED <<caller, tries, starts, session, sftp, info, remote, server, leaked>>

(* SSHClient_Destroy, and what the function does without the client. *)
Destroy ==
    /\ upc = "destroy"
    /\ session' = "freed"
    /\ sftp' = IF sftp = "null" THEN "null" ELSE "freed"
    /\ harm' = IF sftp = "freed" THEN "freed twice" ELSE harm
    /\ upc' = IF result # "ok" THEN "end"
              ELSE IF caller = "wave" THEN "ftp_put"
              ELSE IF caller = "heartbeat" THEN "post" ELSE "end"
    /\ UNCHANGED <<caller, tries, starts, result, info, remote, local, server, leaked, seen>>

-----------------------------------------------------------------------------
(* net/ftp_handler.c *)

End(r) == upc' = "end" /\ result' = r

(* ftp_upload, and rm -rf of the local files if it succeeded.  If stat     *)
(* fails the handle of curl stays.  libcurl is told the size (85), so that *)
(* a read of the file that ends early is an error of the transfer.         *)
FtpUpload ==
    /\ upc = "ftp_put"
    /\ \/ End("fail") /\ UNCHANGED <<local, server, leaked, seen>>
       \/ /\ End("fail")
          /\ leaked' = leaked \union {"curl"} /\ seen' = seen \union {"no stat"}
          /\ UNCHANGED <<local, server>>
       \/ End("fail") /\ server' = "part" /\ UNCHANGED <<local, leaked, seen>>
       \/ End("ok") /\ server' = local /\ local' = "none" /\ UNCHANGED <<leaked, seen>>
    /\ UNCHANGED <<caller, tries, starts, session, sftp, info, remote, harm>>

(* ftp_download.  A callback that writes less than it was given is an      *)
(* error of curl_easy_perform, but fwrite keeps the last bytes in its      *)
(* buffer, and nobody looks at what fclose says of them (159).             *)
FtpDownload ==
    /\ upc = "ftp_get"
    /\ \/ End("fail") /\ local' \in {"none", "part"} /\ UNCHANGED seen
       \/ End("ok") /\ local' = "whole" /\ UNCHANGED seen
       \/ End("ok") /\ local' = "part" /\ seen' = seen \union {"short write"}
    /\ UNCHANGED <<caller, tries, starts, session, sftp, info, remote, server, leaked, harm>>

(* http_post_request: the list of headers is never freed. *)
HttpPost ==
    /\ upc = "post"
    /\ \/ End("fail") /\ UNCHANGED leaked                      \* curl_easy_init
       \/ upc' = "end" /\ result' \in {"ok", "fail"} /\ leaked' = leaked \union {"headers"}
    /\ UNCHANGED <<caller, tries, starts, session, sftp, info, remote, local, server, harm, seen>>

-----------------------------------------------------------------------------
(* main exits if init_updater_environment fails; the program is started    *)
(* again and finds what is on the FKZ9.                                    *)
StartAgain ==
    /\ caller = "boot" /\ upc = "end" /\ result = "fail"
    /\ harm = "none"
    /\ starts < MaxStart
    /\ starts' = starts + 1
    /\ upc' = "connect" /\ tries' = 0
    /\ session' = "idle" /\ sftp' = "null" /\ result' = "none" /\ info' = "zero"
    /\ UNCHANGED <<caller, remote, local, server, leaked, harm, seen>>

SshCall == Connect \/ Execute \/ Upload \/ Download \/ Destroy
Transfer == FtpUpload \/ FtpDownload \/ HttpPost

SshStep ==
    \/ harm = "none" /\ (SshCall \/ Transfer)
    \/ StartAgain

-----------------------------------------------------------------------------
(* Properties *)

(* Destroy frees an sftp session that Connect has freed already: only      *)
(* after sftp_init failed, and never in a function that reports success.   *)
FreedOnce == harm = "freed twice" => "no sftp_init" \in seen /\ result = "fail"

(* The test of the pointer in UploadFile and DownloadFile is as good as a  *)
(* test of the connection: the sftp session they use is never a freed one, *)
(* not even after the ten attempts of boot.                                *)
NeverUsesFreed == harm # "freed used"

(* Every way out of these functions frees the client; libcurl's handles    *)
(* too, except for the headers of a POST and for an upload whose local     *)
(* file cannot be found.                                                   *)
HandlesReleased ==
    /\ upc \in {"ftp_put", "post", "end"} =>
         /\ caller # "fetch" => session = "freed"
         /\ sftp # "live"
    /\ "curl" \in leaked => "no stat" \in seen
    /\ "headers" \in leaked => caller = "heartbeat"

(* Each client is freed on every way out, once but after a failed          *)
(* sftp_init, and not used after that (ssh_client.c:179-192).              *)
ClientsReleased == FreedOnce /\ NeverUsesFreed /\ HandlesReleased

(* init_updater_environment returns 0: it knows the device's number and    *)
(* the cloud's address, or one of the things that look like success to it  *)
(* has happened, in this start of the program or in an earlier one; it     *)
(* goes by wrong information only if more than the writing of the script   *)
(* was amiss.                                                              *)
Spoiled == seen \intersect {"output cut", "command failed", "write failed", "short read"}

AddressKnown ==
    caller = "boot" /\ upc = "end" /\ result = "ok" =>
        \/ info = "known"
        \/ info = "zero" /\ ("script written" \in seen \/ Spoiled # {})
        \/ info = "garbled" /\ Spoiled # {}

(* A script is written over only if the search for it was cut short or did *)
(* not run; its old end stays behind the new one then.  Half a script is   *)
(* what a transfer left that broke, or that ran out of a file it could not *)
(* read.                                                                   *)
ScriptIntact ==
    caller = "boot" =>
        /\ remote = "mixed" => seen \intersect {"output cut", "command failed"} # {}
        /\ remote = "part" => seen \intersect {"write failed", "short read"} # {}

(* What is reported as transferred has arrived whole: a firmware archive   *)
(* verified on the FKZ9; one fetched from the cloud except for a write to  *)
(* the local disk that nobody looks at; a wave file except for that and    *)
(* for a read of the FKZ9's file that failed.                              *)
ToldWhole ==
    upc = "end" /\ result = "ok" =>
        /\ caller = "trans" => remote \in {"new", "locked"}
        /\ caller = "fetch" => local = "whole" \/ "short write" \in seen
        /\ caller = "wave" => \/ server = "whole"
                             \/ seen \intersect {"short write", "read failed"} # {}

(* A function that reports success has done what it says, or met one of    *)
(* the failures it cannot tell from success: SSHClient_Execute returns 0   *)
(* for half an output and for a command that failed (ssh_client.c:85),     *)
(* files are written over without being truncated (110), and the errors of *)
(* sftp_read, fread, fwrite and fclose are not looked at (119, 154, 158,   *)
(* ftp_handler.c:159).  No other failure is taken for success.             *)
SuccessIsTrue == AddressKnown /\ ScriptIntact /\ ToldWhole

SshSpec == SshInit /\ [][SshStep]_sshVars
=============================================================================
