-------------------------------- MODULE Codec --------------------------------
(***************************************************************************)
(* The conversions that put numbers into the messages: BCD (lib/publib.c), *)
(* the byte order of the navigation frame (nav_data_msg_task_cb) and the   *)
(* comparison of checksums (fkz9_event_task_entry), with the widths of     *)
(* their C types.  Pure functions; what holds of them for every argument   *)
(* is proved in PeripheralsProofs.                                         *)
(***************************************************************************)
EXTENDS Integers

U8(x) == x % 256
U16(x) == x % 65536

byte_to_bcd(x) == U8((x \div 10) * 16 + (x % 10))
bcd_to_byte(x) == ((x \div 16) % 16) * 10 + (x % 16)

db_to_bcd(x) == U16(byte_to_bcd(U8(x \div 100)) * 256 + byte_to_bcd(x % 100))
bcd_to_db(x) == ((x \div 4096) % 16) * 1000 + ((x \div 256) % 16) * 100
                + ((x \div 16) % 16) * 10 + (x % 16)

bswap_16(x) == U8(x) * 256 + U8(x \div 256)

(* ucTimeDiff of the navigation frame, from a time_since_last_diff x.      *)
TimeDiff(x) == U8(bswap_16(x))

(* A checksum x in an int16_t, as fkz9_event_task_entry holds it.          *)
Int16(x) == IF x < 32768 THEN x ELSE x - 65536
=============================================================================
