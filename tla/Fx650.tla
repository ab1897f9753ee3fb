-------------------------------- MODULE Fx650 --------------------------------
(***************************************************************************)
(* hal/fx650.c: fx650_init finds the network interface of the 5G modem,    *)
(* opens its serial port and, unless the internet is there already, has it *)
(* dial with AT commands.  Each command waits for its answer with select   *)
(* and serial_read; the modem may answer late, in pieces, with ERROR or    *)
(* not at all, and may be unplugged.                                       *)
(*                                                                         *)
(* An answer is a sequence of the texts the code looks for: what was asked *)
(* for, then "OK" and the end of that line "eol"; or one "ERROR".          *)
(***************************************************************************)
EXTENDS SerialPort, FiniteSets

CONSTANT RespLen   \* bound: length of resp, more than an answer's

ASSUME RespAssumption == RespLen \in 4 .. MaxCount

VARIABLES mpc,       \* the step of fx650_init; "stuck" in a call of libcurl for good
          apc,       \* "idle", or in send_at_command: "select" or "read"
          owed,      \* modem: answers it has yet to send
          sim,       \* modem: the SIM card is ready
          segment,   \* modem: it uses the device's own 192.168.42.x
          dialled,   \* modem: it is connected
          online,    \* what check_network_connection found
          modem,     \* what fx650_init returns
          simId,     \* ctx->sim_id: what it was copied from
          calm,      \* history: all answers came in time and in one piece, no ERROR
          credit     \* history: ends of OK lines the modem has sent, less the commands that
                     \* returned FX650_OK

modemVars == <<owed, sim, segment, dialled>>
fxVars == <<mpc, apc, owed, sim, segment, dialled, online, modem, simId, calm, credit>>

Commands == {"at", "dhcpcfg", "setip", "cpin", "apn", "rndis?", "rndis", "ccid"}
Failures == {"ERR_INIT", "ERR_AT_TIMEOUT", "ERR_AT_ERROR", "ERR_SIM_NOT_READY",
             "ERR_APN_NOT_READY", "ERR_PDP_ACTIVATE"}

FxTypeOK ==
    /\ mpc \in Commands \union {"off", "find", "open", "curl", "stuck", "dhcp", "close", "end"}
    /\ apc \in {"idle", "select", "read"}
    /\ {sim, segment, dialled, online, calm} \subseteq BOOLEAN
    /\ modem \in Failures \union {"none", "OK"}
    /\ simId \in {"none", "CCID", "other"}
    /\ credit \in Int

FxInit ==
    /\ mpc \in {"off", "find"} /\ apc = "idle" /\ owed = <<>>
    /\ sim \in BOOLEAN /\ segment \in BOOLEAN /\ dialled \in BOOLEAN
    /\ online = FALSE /\ modem = "none" /\ simId = "none"
    /\ calm = TRUE /\ credit = 0

Has(b, x) == \E i \in DOMAIN b : b[i][1] = x
HasOk(b) == \E i \in 1 .. Len(b) - 1 : b[i][1] = "OK" /\ b[i + 1][1] = "eol"

-----------------------------------------------------------------------------
(* The modem *)

Text(cmd) ==
    CASE cmd = "dhcpcfg" -> << <<IF segment THEN "42." ELSE "42x", 0>> >>
      [] cmd = "cpin" -> << <<IF sim THEN "READY" ELSE "PIN", 0>> >>
      [] cmd = "rndis?" -> << <<IF dialled THEN "RNDIS: 1,1" ELSE "RNDIS: 0", 0>> >>
      [] cmd = "ccid" -> << <<"CCID", 0>> >>
      [] OTHER -> <<>>

(* It does what the command says, or answers ERROR, or ignores it.         *)
Answer(cmd) ==
    \/ owed' = owed \o Text(cmd) \o << <<"OK", 0>>, <<"eol", 0>> >>
       /\ dialled' = (dialled \/ cmd = "rndis")
       /\ segment' = (segment /\ cmd # "setip")
       /\ UNCHANGED calm
    \/ owed' = owed \o << <<"ERROR", 0>> >> /\ calm' = FALSE /\ UNCHANGED <<dialled, segment>>
    \/ calm' = FALSE /\ UNCHANGED <<owed, dialled, segment>>

Ends(s) == {i \in DOMAIN s : s[i][1] = "eol"}

(* Some of what it has to say comes over the line.                         *)
ModemSends ==
    /\ owed # <<>> /\ ~hung /\ mpc # "end"
    /\ \E n \in 1 .. Len(owed) :
          /\ line' = line \o SubSeq(owed, 1, n)
          /\ owed' = SubSeq(owed, n + 1, Len(owed))
          /\ credit' = credit + Cardinality(Ends(SubSeq(owed, 1, n)))
          /\ calm' = (calm /\ n = Len(owed))
    /\ UNCHANGED <<port, hung, readVars, buf, mpc, apc, sim, segment, dialled, online,
                   modem, simId>>

(* A message that answers nothing, sent while no answer is due (a bound).  *)
(* While one waits to be read another would be read with it.               *)
ModemTalks ==
    /\ port = "open" /\ ~hung /\ mpc # "off" /\ mpc # "end"
    /\ line = <<>> /\ owed = <<>>
    /\ line' = << <<"other", 0>> >>
    /\ calm' = FALSE
    /\ UNCHANGED <<port, hung, readVars, buf, mpc, apc, modemVars, online, modem, simId,
                   credit>>

ModemUnplugged ==
    /\ port = "open" /\ ~hung /\ mpc # "off" /\ mpc # "end"
    /\ hung' = TRUE /\ calm' = FALSE
    /\ UNCHANGED <<port, line, readVars, buf, mpc, apc, modemVars, online, modem, simId,
                   credit>>

-----------------------------------------------------------------------------
(* The steps of fx650_init after each command *)

Then(step) == mpc' = step /\ UNCHANGED <<modem, simId>>

(* The first command's failure leaves the port open. *)
FailOpenBug(code) ==
    /\ mpc' = IF mpc = "at" THEN "end" ELSE "ccid"
    /\ modem' = code /\ UNCHANGED simId

(* get_smi_id is called whether the modem is connected or not.             *)
Fail(code) ==
    /\ mpc' = IF mpc = "at" THEN "close" ELSE "ccid"
    /\ modem' = code /\ UNCHANGED simId

(* Any answer will do. *)
CheckSimBug(b) == IF b # <<>> THEN Then("apn") ELSE Fail("ERR_SIM_NOT_READY")

CheckSim(b) == IF Has(b, "READY") THEN Then("apn") ELSE Fail("ERR_SIM_NOT_READY")

(* activate_dia(ctx, 1): dials if the modem says it has not.               *)
QueryDial(b) == Then(IF Has(b, "RNDIS: 0") THEN "rndis" ELSE "dhcp")

(* code is what send_at_command returned.  Only the first of its callers   *)
(* looks at it: the others ask for a negative number, and there is none.   *)
(* They go by the contents b of resp.                                      *)
AfterCommand(code, b) ==
    CASE mpc = "at" -> IF code = "OK" THEN Then("curl") ELSE Fail(code)
      [] mpc = "dhcpcfg" -> Then(IF Has(b, "42.") THEN "setip" ELSE "cpin")
      [] mpc = "setip" -> Then("cpin")
      [] mpc = "cpin" -> CheckSim(b)
      [] mpc = "apn" -> IF Has(b, "OK") THEN Then("rndis?") ELSE Fail("ERR_APN_NOT_READY")
      [] mpc = "rndis?" -> QueryDial(b)
      [] mpc = "rndis" -> IF Has(b, "OK") THEN Then("dhcp") ELSE Fail("ERR_PDP_ACTIVATE")
      [] mpc = "ccid" ->
            /\ mpc' = "close"
            /\ simId' = IF ~Has(b, "OK") THEN simId ELSE IF b[1][1] = "CCID" THEN "CCID" ELSE "other"
            /\ UNCHANGED modem

-----------------------------------------------------------------------------
(* send_at_command *)

(* The command is written; resp has been zeroed, or comes from the query   *)
(* before (setip).                                                         *)
Send ==
    /\ mpc \in Commands /\ apc = "idle" /\ rpc = "idle"
    /\ IF hung THEN calm' = FALSE /\ UNCHANGED <<owed, dialled, segment>> ELSE Answer(mpc)
    /\ apc' = "select"
    /\ UNCHANGED <<serialVars, mpc, sim, online, modem, simId, credit>>

(* resp after its command: only setip goes on using it. *)
Kept(b) == IF mpc' = "setip" THEN b ELSE <<>>

(* select waits without a timeout. *)
TimeoutMissingBug == apc = "select" /\ line # <<>> /\ UNCHANGED <<serialVars, fxVars>>

Timeout ==
    /\ apc = "select" /\ line = <<>> /\ ~hung
    /\ apc' = "idle" /\ calm' = FALSE
    /\ AfterCommand("ERR_AT_TIMEOUT", buf)
    /\ buf' = Kept(buf)
    /\ UNCHANGED <<port, lineVars, readVars, modemVars, online, credit>>

Readable ==
    /\ apc = "select" /\ (line # <<>> \/ hung)
    /\ ReadStart(RespLen, buf)
    /\ apc' = "read"
    /\ UNCHANGED <<port, lineVars, mpc, modemVars, online, modem, simId, calm, credit>>

(* serial_read goes on. *)
Reading ==
    /\ apc = "read" /\ ReadStep
    /\ UNCHANGED fxVars

(* resp[n] = 0 after serial_read; if n is -1 it is the place before resp   *)
(* that is set.                                                            *)
Resp == IF t = Word - 1 THEN buf ELSE SubSeq(buf, 1, t)

(* The search does not ask for the end of the line. *)
LookHalfBug ==
    /\ apc = "read" /\ rpc = "back"
    /\ rpc' = "idle" /\ t' = 0
    /\ IF Has(Resp, "OK")
       THEN /\ apc' = "idle" /\ credit' = credit - 1
            /\ AfterCommand("OK", Resp)
            /\ buf' = Kept(Resp)
       ELSE apc' = "select" /\ buf' = Resp /\ UNCHANGED <<credit, mpc, modem, simId>>
    /\ UNCHANGED <<port, lineVars, count, modemVars, online, calm>>

(* The search for the end of an answer. *)
Look ==
    /\ apc = "read" /\ rpc = "back"
    /\ rpc' = "idle" /\ t' = 0
    /\ IF HasOk(Resp)
       THEN /\ apc' = "idle" /\ credit' = credit - 1
            /\ AfterCommand("OK", Resp)
            /\ buf' = Kept(Resp)
       ELSE IF Has(Resp, "ERROR")
       THEN /\ apc' = "idle" /\ UNCHANGED credit
            /\ AfterCommand("ERR_AT_ERROR", Resp)
            /\ buf' = Kept(Resp)
       ELSE apc' = "select" /\ buf' = Resp /\ UNCHANGED <<credit, mpc, modem, simId>>
    /\ UNCHANGED <<port, lineVars, count, modemVars, online, calm>>

-----------------------------------------------------------------------------
(* The other steps of fx650_init *)

(* find_interface_by_vid_pid: if an uevent file cannot be opened its       *)
(* interface passes for the modem's.                                       *)
FindInterface ==
    /\ mpc = "find"
    /\ \/ Then("open")
       \/ mpc' = "end" /\ modem' = "ERR_INIT" /\ UNCHANGED simId
    /\ UNCHANGED <<serialVars, apc, modemVars, online, calm, credit>>

(* What configure returns is not looked at. *)
OpenModem ==
    /\ mpc = "open"
    /\ \/ OpenPort("ok") /\ Then("at")
       \/ OpenPort("open failed") /\ mpc' = "end" /\ modem' = "ERR_INIT" /\ UNCHANGED simId
    /\ UNCHANGED <<lineVars, readVars, buf, apc, modemVars, online, calm, credit>>

(* check_network_connection sets libcurl no timeout: the call may never    *)
(* return.                                                                 *)
CheckConnection ==
    /\ mpc = "curl"
    /\ \/ /\ online' \in BOOLEAN
          /\ IF online' THEN mpc' = "ccid" ELSE mpc' = "dhcpcfg"
          /\ modem' = "OK"
       \/ mpc' = "stuck" /\ UNCHANGED <<online, modem>>
    /\ UNCHANGED <<serialVars, apc, modemVars, simId, calm, credit>>

(* run_dhcp_client: what becomes of it is not looked at. *)
RunDhcp ==
    /\ mpc = "dhcp"
    /\ Then("ccid")
    /\ UNCHANGED <<serialVars, apc, modemVars, online, calm, credit>>

(* Nobody hears what the modem says after that. *)
CloseModem ==
    /\ mpc = "close"
    /\ ClosePort /\ line' = <<>> /\ owed' = <<>> /\ buf' = <<>>
    /\ Then("end")
    /\ UNCHANGED <<hung, readVars, apc, sim, segment, dialled, online, calm, credit>>

FxProgram == FindInterface \/ OpenModem \/ CheckConnection \/ RunDhcp \/ CloseModem
             \/ Send \/ Timeout \/ Readable \/ Reading \/ Look

FxStep == FxProgram \/ ModemSends \/ ModemTalks \/ ModemUnplugged

-----------------------------------------------------------------------------
(* Properties *)

(* A command is believed to have succeeded once for every OK the modem has *)
(* sent, in whatever pieces and however late; except that setip, which     *)
(* shares its buffer with the query before it, may count that one's twice. *)
EveryOkIsOwed == credit >= -1

(* If fx650_init reports that it has connected, the modem has a SIM card   *)
(* that is ready, however late or broken the answers were.                 *)
ReadyWasSaid == mpc = "end" /\ modem = "OK" /\ ~online => sim

(* On a line where nothing is late, cut or refused, an initialisation      *)
(* without error ends with the internet reached or the modem dialled, off  *)
(* the device's own segment, and with the number of its SIM card.          *)
CleanLineConnects ==
    mpc = "end" /\ calm /\ modem = "OK" =>
        /\ simId = "CCID"
        /\ online \/ (dialled /\ ~segment)

(* What the return value OK of fx650_init (371-425) means, on any line and *)
(* on a clean one.                                                         *)
OkIsTrue == ReadyWasSaid /\ CleanLineConnects

(* fx650_init returns, however late, cut or wrong the answers are: select  *)
(* has its timeout (111-143).  It stays in send_at_command for good only   *)
(* with a modem that is unplugged, or one that never stops talking while   *)
(* no answer ends; and it may stay in the call of libcurl, which is set no *)
(* timeout (271-276).                                                      *)
ModemInitEnds ==
    (mpc = "find") ~> (mpc \in {"end", "stuck"} \/ hung) \/ []<>(line # <<>>)
=============================================================================
