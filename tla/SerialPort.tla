------------------------------ MODULE SerialPort ------------------------------
(***************************************************************************)
(* hal/serial.c: one serial port, opened without blocking, and the line it *)
(* is connected to.  What comes over the line is a sequence of items, each *)
(* as long as one place of a buffer: a text and the epoch it belongs to.   *)
(* serial_read is modelled call of read by call of read, since the other   *)
(* end goes on sending meanwhile.                                          *)
(***************************************************************************)
EXTENDS Integers, Sequences

CONSTANTS Chunk,     \* most that one read asks for (512)
          Word,      \* values of a size_t
          MaxCount   \* bound: the largest buffer read into

ASSUME SerialAssumption ==
    /\ Chunk \in Nat \ {0} /\ MaxCount \in Nat \ {0} /\ Word \in Nat
    /\ MaxCount + Chunk < Word

VARIABLES port,   \* is_open
          line,   \* what the kernel has received and not handed out
          hung,   \* the device is gone: read returns 0
          rpc,    \* "reading" inside serial_read, "back" when it has returned
          count,  \* its argument
          t,      \* t_bytes, and what it returned
          buf     \* the buffer as far as it was ever written

serialVars == <<port, line, hung, rpc, count, t, buf>>
lineVars == <<line, hung>>
readVars == <<rpc, count, t>>

(* What the modem says, the parts of what the receiver says, and whatever  *)
(* else either of them says.                                               *)
Texts == {"OK", "eol", "ERROR", "READY", "PIN", "42.", "42x", "RNDIS: 1,1", "RNDIS: 0", "CCID"}
         \union {"P", "F", "G", "other"}
Item == Texts \X Nat

SerialTypeOK ==
    /\ line \in Seq(Item)
    /\ port \in {"closed", "open", "leaked"}
    /\ hung \in BOOLEAN
    /\ rpc \in {"idle", "reading", "back"}
    /\ count \in 1 .. MaxCount
    /\ t \in 0 .. Word - 1

SerialInit ==
    /\ port = "closed" /\ line = <<>> /\ hung = FALSE
    /\ rpc = "idle" /\ count = 1 /\ t = 0 /\ buf = <<>>

-----------------------------------------------------------------------------
(* serial_open and uart_configure: r is what the first to fail returned.   *)
(* If the port cannot be configured it stays open.                         *)
OpenPort(r) ==
    /\ port' = CASE r = "ok" -> "open"
                 [] r = "open failed" -> "closed"
                 [] r = "configure failed" -> "leaked"

OpenResults == {"ok", "open failed", "configure failed"}

ClosePort == port' = "closed"

(* read of up to n bytes when some are there. *)
Least(m, n) == IF m <= n THEN m ELSE n
Taken == Least(Least(Chunk, count), Len(line))

(* s written over b from offset o on. *)
Overlay(b, o, s) == SubSeq(b, 1, o) \o s \o SubSeq(b, o + Len(s) + 1, Len(b))

(* A call of serial_read. *)
ReadStart(c, b) ==
    /\ rpc = "idle"
    /\ count' = c
    /\ t' = 0
    /\ buf' = b
    /\ rpc' = IF port = "open" /\ c > 1 THEN "reading" ELSE "back"

(* The last byte is not kept for the terminating zero. *)
GoOnBug(n) == rpc' = IF n < count THEN "reading" ELSE "back"

(* The loop's condition. *)
GoOn(n) == rpc' = IF n < count - 1 THEN "reading" ELSE "back"

(* read returned bytes. *)
ReadSome ==
    /\ rpc = "reading" /\ line # <<>>
    /\ buf' = Overlay(buf, t, SubSeq(line, 1, Taken))
    /\ line' = SubSeq(line, Taken + 1, Len(line))
    /\ t' = t + Taken
    /\ GoOn(t')
    /\ UNCHANGED <<port, hung, count>>

(* read returned -1, which is held in a size_t: it passes for a large      *)
(* number, and adding it takes one away from t_bytes.                      *)
ReadNothing ==
    /\ rpc = "reading" /\ line = <<>> /\ ~hung
    /\ t' = IF t = 0 THEN Word - 1 ELSE t - 1
    /\ GoOn(t')
    /\ UNCHANGED <<port, lineVars, count, buf>>

(* read returned 0. *)
ReadHungUp ==
    /\ rpc = "reading" /\ line = <<>> /\ hung
    /\ rpc' = "back"
    /\ UNCHANGED <<port, lineVars, count, t, buf>>

ReadStep == ReadSome \/ ReadNothing \/ ReadHungUp

-----------------------------------------------------------------------------
(* What any user of the port and any line do *)

Open ==
    /\ rpc = "idle" /\ port = "closed"
    /\ \E r \in OpenResults : OpenPort(r)
    /\ UNCHANGED <<lineVars, readVars, buf>>

(* Never while another thread reads. *)
Close ==
    /\ rpc = "idle" /\ port = "open"
    /\ ClosePort
    /\ line' \in {line, <<>>}
    /\ UNCHANGED <<hung, readVars>>

Read ==
    /\ \E c \in 1 .. MaxCount : ReadStart(c, buf)
    /\ UNCHANGED <<port, lineVars>>

Return ==
    /\ rpc = "back" /\ rpc' = "idle" /\ t' = 0
    /\ UNCHANGED <<port, lineVars, count>>

UseBuffer == rpc = "idle" /\ UNCHANGED <<port, lineVars, readVars>>

LineMoves ==
    /\ line' \in Seq(Item)
    /\ hung => hung'
    /\ hung' \in BOOLEAN
    /\ UNCHANGED <<port, readVars, buf>>

SerialNext == Open \/ Close \/ Read \/ Return \/ UseBuffer \/ LineMoves \/ ReadStep

(* The two users keep to one order of calls: no call of serial_read before *)
(* the last one has returned, and no close while the timer thread reads.   *)
SerialSpec == SerialInit /\ [][SerialNext]_serialVars

(* serial_read tells -1, or that its buffer is full: less than a buffer is *)
(* never reported, unless the device is gone or the port was not open.     *)
(* What had been read is lost to the caller then.                          *)
ShortReadsAreLost ==
    rpc = "back" => t = Word - 1 \/ t >= count - 1 \/ hung \/ port # "open"

(* It can write past the buffer, but less than one chunk past it.          *)
ReadStaysNear == rpc = "back" => t = Word - 1 \/ t <= count - 2 + Chunk

(* The two together: what serial_read (59-77) can return.                  *)
ReadsAreFull == ShortReadsAreLost /\ ReadStaysNear
=============================================================================
