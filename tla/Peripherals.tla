----------------------------- MODULE Peripherals -----------------------------
(***************************************************************************)
(* What the program has on its other lines: the FKZ9 over ssh, the cloud's *)
(* file server, the modem and the receiver.  The threads that use them     *)
(* share neither clients nor ports, and each has its own port while it     *)
(* uses it: a behaviour is that of one of them, "unit", against its line.  *)
(***************************************************************************)
EXTENDS SshClient, Fx650, LaneTo

VARIABLE unit

vars == <<unit, sshVars, serialVars, fxVars, laneVars>>

TypeOK ==
    /\ unit \in {"ssh", "modem", "receiver"}
    /\ SshTypeOK /\ SerialTypeOK /\ FxTypeOK /\ LaneTypeOK

(* Of the units that are not used there is one initial state.              *)
Init ==
    /\ unit \in {"ssh", "modem", "receiver"}
    /\ SshInit /\ SerialInit /\ FxInit /\ LaneInit
    /\ IF unit = "ssh" THEN TRUE ELSE caller = "fetch" /\ remote = "none"
    /\ IF unit = "modem" THEN mpc = "find" ELSE mpc = "off" /\ ~(sim \/ segment \/ dialled)
    /\ IF unit = "receiver" THEN lpc = "sock" ELSE lpc = "off" /\ emitted = 0

Next ==
    /\ UNCHANGED unit
    /\ \/ unit = "ssh" /\ SshStep /\ UNCHANGED <<serialVars, fxVars, laneVars>>
       \/ unit = "modem" /\ FxStep /\ UNCHANGED <<sshVars, laneVars>>
       \/ unit = "receiver" /\ LaneStep /\ UNCHANGED <<sshVars, fxVars>>

(* The program's own threads go on; nothing is asked of the modem, of the  *)
(* receiver or of the network: CheckConnection may get stuck, and ReadSock *)
(* waits for what gpsd sends.                                              *)
Program ==
    /\ UNCHANGED unit
    /\ \/ unit = "modem" /\ FxProgram /\ UNCHANGED <<sshVars, laneVars>>
       \/ unit = "receiver" /\ LaneProgram /\ UNCHANGED <<sshVars, fxVars>>

Spec == Init /\ [][Next]_vars /\ WF_vars(Program)

-----------------------------------------------------------------------------
(* After fx650_init and after laneTo_uninit no descriptor is open, on      *)
(* every way out of them: except for a port that could not be configured.  *)
PortsClosed ==
    mpc = "end" \/ lpc = "closed" => port # "open" /\ sock # "open"

(* Neither the modem nor the receiver keeps the thread that asks it for    *)
(* good, however late or little it answers, unless it is gone (the modem), *)
(* never stops talking (both, over a serial port) or sends nothing at all  *)
(* over its socket (the receiver); libcurl may, as it is given no timeout. *)
CallsReturn == ModemInitEnds /\ TickReturns
=============================================================================
