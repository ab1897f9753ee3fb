# A formal model of the rt-a100 gateway (`kt_5gbd_dtb`)

The program is a gateway on a rail vehicle. It connects one on-board controller, the **FKZ9** (reached
over MQTT and ssh), to a **cloud** server (reached over a TCP connection, HTTPS and FTP) through a 5G modem, and
once a second sends the position a LaneTo receiver reports. It also installs firmware updates on
the FKZ9 and on itself. All of it is one C process of about ten threads. There are no tests in the
repository and its READMEs are empty, so the source is the only reference; paths below are relative to
`src/kt_5gbd_dtb`.

This directory holds TLA+ models of that source, configurations that check them with TLC, and
proofs checked by TLAPS.

## 1. Inventory

| Part | State | Operations | Talks to | What is hard | What makes it correct |
|---|---|---|---|---|---|
| frame queue `lib/queue.c` | ring of 64 slots, head, tail, mutex | init, enqueue, dequeue, clean | every thread | any number of producers and consumers; full and empty; four return paths | it is a FIFO; nothing is lost once accepted; the lock is always given back |
| task list `lib/list.c` | chain, 16-bit count | insert, head (unlocked), delete head | OTA, timers | count and chain must agree | count = length |
| OTA `services/cloud_comm.c` 56-458, `services/firmware_updater.c` | download list, mission file, archives on disk, cached uptime of the FKZ9 | heartbeat (60 s), reboot check (30 s), download, check, copy, run, report | cloud, FKZ9, timer thread | a file without a lock; reboots of the FKZ9, restarts of the program; a dozen ssh steps that fail one by one | only verified archives run, once, when promised; reports are true; the queue moves on |
| request dispatch `cloud_comm.c` 665-829 | event_queue, a buffer, the cursor in the handler table | receive, check, find handler, handle, respond | TCP, MQTT, ssh, FTP | a byte stream cut anywhere; the buffer is not cleared; the cursor is kept between messages | every registered request handled, in order, once; true responses |
| cloud connection `net/tcp_client.c` | two pointers, is_connected, attempts, tx_queue | connect, events, reconnect timer, send | libevent, every sender | the thread of the old connection and that of the next share the pointers; the send thread and the loop's thread share an output buffer without a lock; errors reported once, twice or not at all | one connection, kept up, frames in order |
| FKZ9 messages `services/fkz9_comm.c` | event_queue, is_init, is_running | receive from MQTT, forward, device info, heartbeat | MQTT, TCP | blocks under the MQTT lock; two paths of different speed | order; no thread blocks for ever |
| MQTT client `net/mqtt_client.c` | is_conn, lock | connect, publish, subscribe, callbacks | Paho | callback runs with the lock; subscriptions not renewed | subscribed whenever connected |
| navigation `hal/lane_to.c`, `cloud_comm.c` 546-609 | receive buffer, last frame | parse, send at 1 Hz | serial, TCP | sentences cut by the end of a read; an old frame sent again; a read that blocks the timer thread | frames never go back in time; a solution is taken whole; the tick returns |
| serial port `hal/serial.c` | file descriptor | read with timeout, write | LaneTo, modem | partial reads, signs of sizes | what a return value means; how far a buffer is overrun |
| modem `hal/fx650.c` | state, SIM id | AT command sequence | serial | error tests that never hold; answers that are late or in pieces | not "connected" unless the modem said so; every wait ends; the port is closed |
| SSH, FTP `net/ssh_client.c`, `net/ftp_handler.c` | session handles, files on three machines | connect, execute, copy | FKZ9, servers | clean-up on each error path; half an output taken for a whole one; files written over | every handle freed once, none used after that; success means what it says |
| start and shutdown `main.c` | contexts, flags | init, signal, uninit | all | threads started before the flags they test; joins | every thread starts and ends |
| helpers `lib/publib.c` | none | BCD, checksum, files | all | widths, signs | a conversion and its inverse give back the number |
| LEDs, logging, scripts, drivers not in the Makefile (`can.c`, `iic.c`, `usb.c`, `tcp_server.c`, `accept_client.c`), `third_party/` | - | - | - | - | not modelled |

The parts meet in four ways: **shared queues** (each of the three event or transmit queues is a
`lib/queue.c`), **callbacks** (libevent and Paho threads call into the program), **flags without a lock**
(`is_connected`, `is_conn`, `running`), and **files** (mission file, archives).

The hazards that follow from this, each at its line and with the property that covers it, are listed
in `PROJECT.json` under `hazards`.

## 2. Modules

| Module | Models | Composition |
|---|---|---|
| `BoundedFifo` | what `lib/queue.c` promises: a bounded FIFO whose calls begin and end | abstract specification |
| `ThreadSafeQueue` | `enqueue`, `dequeue` statement by statement, for any sets of threads | implements `BoundedFifo` |
| `ThreadSafeQueueProofs` | theorems about the two | extends `ThreadSafeQueue` |
| `OtaUpdate` | timer and download thread, list, mission file, updater, reboots and restarts | - |
| `OtaUpdateProofs` | theorems about it | extends `OtaUpdate` |
| `CloudDispatch` | the way of a request from the TCP stream to a handler and back | uses the queue as the FIFO it is proved to be |
| `CloudDispatchProofs` | theorems about it | extends `CloudDispatch` |
| `TcpClient` | connection threads, event loops, send threads | uses the queue as that FIFO |
| `TcpClientProofs` | theorems about it | extends `TcpClient` |
| `LossyFifo` | what a way from the FKZ9 to the cloud promises: order, nothing made up, losses allowed | abstract specification |
| `Fkz9Forward` | MQTT callbacks, event thread and transmit queue: the ways of messages from the FKZ9 to the cloud | uses the queue as that FIFO; implements `LossyFifo` twice |
| `Fkz9ForwardProofs` | theorems about it | extends `Fkz9Forward` |
| `LifeCycle` | start, signal, joins and shutdown; the lives of all threads and their uses of the shared pointers | the behaviour of each thread in between is in the other modules |
| `LifeCycleProofs` | theorems about it | extends `LifeCycle` |
| `SshClient` | the SSH client in the hands of each of its users, with the FTP and HTTP transfers that follow | - |
| `SshClientProofs` | theorems about it | extends `SshClient` |
| `SerialPort` | `serial_read` call of read by call of read, open and close; what any user of it may do | a specification that both its users are shown to keep to |
| `Fx650` | the initialisation of the modem, command by command | extends `SerialPort` |
| `LaneTo` | the receiver, the parser and the 1 Hz report | extends `SerialPort` |
| `Peripherals` | ssh, modem and receiver, one at a time | composes `SshClient`, `Fx650` and `LaneTo` |
| `Codec` | BCD, byte order and the comparison of checksums | - |
| `PeripheralsProofs` | theorems about the port, the modem and the receiver, and about the numbers of `Codec` | extends `Peripherals`, `Codec` and `SshClientProofs` |
| `MC...` | constants for TLC | each extends the module it checks |

### ThreadSafeQueue

`head`, `tail`, `buffers`, `sizes` and `mutex` are the fields of `ThreadSafeQueue` in `queue.h`; `pc[t]` is
the statement thread `t` is at, `data[t]` its argument or result and `ret[t]` its return value. Each action is one access
to shared memory: `EnqCopy` is the `memcpy` of line 50, `EnqSize` line 51, `EnqHead` line 52 together with the unlock. Frames
are model values with a length, which `EnqSize` stores in 16 bits (`U16`). `memcpy` is not told the size of a slot, so the specification is of callers whose frames fit
(`LengthAssumption`: no frame is longer than a slot, and a slot is shorter than 2^16). `proc_message_cb` and `on_message_cb` do not test that: what a longer piece does to a queue is undefined. For what the cloud sends that is a step of `CloudDispatch` (`Overrun`); the frames of the FKZ9 are taken to fit. `Fifo` is the refinement mapping: the abstract queue is the slots
from tail to head.

### OtaUpdate

The timer thread runs one callback at a time, so its program counter `tpc` covers both callbacks. The
download thread's `dpc` follows `download_upgrade_entry` (unlocked, scan), `do_downlaod_firmware` (fetch,
record, drop), `fkz9_fw_trans_func` (trans), `fkz9_fw_update_func` (update) and `do_ota_report`
(report). It holds `down_task.mutex` from `DownloadLock` to `DownloadUnlock`, the whole list through, because the wait of line 450 never
waits. A boot of the FKZ9 is a number, and an uptime string is the number of the boot it names, 0 for the
empty string. The mission file is a sequence of lines. The chain of ssh steps of one function succeeds or fails
as a whole, with the script having run or not; that is all the rest of the code can tell. The calls of ssh and libcurl are taken to return here; a download thread in one that does not gets no further, and holds its mutex.
`HeartbeatInfo` learns the uptime or, when the output is cut or empty, keeps the one it has and posts all the same. `rm` of the mission file is taken to succeed (`RebootRemove`): its result is ignored, and if it failed the same missions would be queued every 30 s.
`verdict`, `promised`, `runs`, `tried` and `reported` are history, read by properties only. The cloud is
assumed to hand out each task once.

### CloudDispatch

A frame is two parts, a head and a tail, and a read returns any number of parts up to `MaxRead`. `Receive` is `tcp_client_read_cb`
and `proc_message_cb`; `Accept` and `Reject` are `dequeue` and the checks, on the buffer as it is after the copy; `Match`
and `NoMatch` are the loop over the table, whose twelve entries are those of the source in link order; the rest are
the handlers. The checksum is taken to tell the frames of the model apart.

Where the code's behaviour is undefined the model stops, and `broken` says of what: `Overrun` is a read longer than a slot (`tcp_client.c:47` reads up to 1024 bytes, `queue.c:50` copies them into 256), `Misread` the checksum over the
length that a piece which does not begin with a header gives (`cloud_comm.c:810-813`, before the header is tested), and `FetchReadsPast` the error of `sftp_read`, which `ssh_client.c:154` holds in a `size_t` and `fwrite` takes for a count. A wave file may also never come,
since libssh is given no timeout, and `mqtt_publish` may wait for a lock that is never given back; the event thread is `stuck` then. `ftp_upload` does have its timeouts (`ftp_handler.c:78-84`).

### TcpClient

Attempt `k` has a thread, an event base and a bufferevent, all called `k`; `base` and `bev` are what the client's
two pointers hold, so that a thread may use or free an object of another. Using a null pointer or a freed
object sets `dead` and ends the behaviour. `Reconnect` carries the one timing assumption: the 3 s of the timer are longer than
a send thread takes to see that `is_connected` is false. `connect` and the following calls to the loop (lines 101-116) are one
step, as are each free and the assignment after it.

The bufferevent is made without `BEV_OPT_THREADSAFE` (line 92), so `bufferevent_write` of the send thread is two steps, `WriteBegins` and `WriteEnds`, and the loop's thread goes into the same output buffer when the socket takes what is there (`Drain`) or refuses it
(`WriteError`). When it does so in between, or when two send threads meet, the buffer is in `collided`: from then on a frame written to it may be lost, sent once or sent twice, the buffer may be left empty or not, and the program may die.

### Fkz9Forward

Paho calls back from one thread, so `ppc` says whether that thread is inside one that takes more than one step; a long payload is the only one
(`SendPart` for each part, which waits while the transmit queue is full, then `EndLong`), and `mqtt_client_t.lock` is held all that time. The pieces of a long payload have all the length its first frame gives, for `pHdr` stays where it is; if that is 0 the callback
has no end (`OnEndless`), and `SendEmpty` puts frames of no bytes into the transmit queue for ever. A short message is one step that puts it
into `event_queue`; the event thread takes it out (`Dequeue`) and sends it on (`MsgFwToCloud`, `HeartbeatRespEntry`) or drops it (`Discard`); `SendTakes` is the send thread of the cloud connection. The link to the broker is off, connecting, up or lost; a
broker may or may not keep the subscriptions of an earlier session, and Paho may refuse a subscription, whose quality of service the code reads from memory that is no longer valid. `MQTTAsync_subscribe` only
hands the topic to Paho: `asked` are the topics on their way, which `Subscribed` ends one by one, with the broker's yes or no, and which a loss of the connection may end without either. The program's own request comes
back to it when it has subscribed to the topic it publishes on. `out` is what was handed to the cloud connection on each way (through `event_queue`, straight from the callback, or as the device information), `lost`, `refused` and `cut` are history. The test of
`is_connected` and the enqueue of `tcp_client_send` are one step: the race between them is part of `TcpClient`.
The two ways are not ordered with respect to each other, and the code does not try to: a long payload overtakes the short messages still in
`event_queue`.

### LifeCycle

`mpc` is the statement main's thread is about to run, from `fx650_init` through both init functions, the wait for a signal and both uninit functions to `exit`. A worker
thread is `none`, at its `start` (for an event or download thread: the test of its flag), in its `loop` or handling something, or `ended`. `gp` says which of the two global pointers are set; they, and the TCP client, are used untested, and a
use of one that is null or freed ends the program (`dead` says of what). The connection thread is the newest one of `TcpClient`, without that module's three races; it frees its bufferevent when it ends (`ConnEnds`), also when main has broken its loop, and
the send thread writes in a step of its own (`SendTakes`, `SendWrites`), so that it may write to what is gone. A callback or handler that calls what has no timeout may stay there for good (`Blocks`: the read of gpsd's socket, ssh, `http_post_request`; `LongBlocks`: the callback of the FKZ9's payloads). `fx650_init` is one step that
returns; `Fx650` says when it does not. The modem and the broker's client may fail to be set up, and a
message may arrive from either side at any time a thread can receive it. `event_base_loopbreak` does nothing for a loop that has not begun. Two timing assumptions: the
3 s of the reconnect timer outlast the send thread's view of its flag and main's two tests of it, and the timer callbacks of 30 and 60 s come after the few
statements that set the pointers.

### SshClient

One client has one user at a time: `caller` is the function (`init_updater_environment`, the heartbeat, the transfer to the FKZ9, the wave
file, or the fetch of an archive, which uses FTP alone) and `upc` the call it makes next. `session` and `sftp` are what the fields of `SSHClient` point to, so that a
second `ssh_free` or a use after it can be told (`harm`). `SSHClient_Execute` returns 0 at the end of the output, at an error half-way, and
whatever the exit status of the command is, so an `Execute` that returns 0 has one of three `Fates`: whole, cut, or a command that failed; what follows it (`Follow`) goes by what `strstr` and `sscanf` find. A transfer may read short, write short, or take sftp's error for a count
(`Upload`, `Download`, `FtpDownload`); `seen` is the history of what was passed over. Files are opened without being
truncated, so a file on the FKZ9 is missing, old, new, part of the new one, or `mixed` (new with the end of an older one). An archive that `chattr +i` has
locked cannot be written a second time. A boot that fails ends the program; `StartAgain` is the next one, with what is on the FKZ9
as it was left.

### SerialPort

A place of a buffer is an item, a text with the epoch it belongs to. `line` is what the kernel holds, `t` is `t_bytes` and wraps at `Word`:
`read` returning -1 takes one away from it. `SerialNext` is what any user may do; `LineMoves` what any line may.

### Fx650

`mpc` is the step of `fx650_init`, named after the AT command it is about; `apc` says where in `send_at_command` it is. The modem (`Answer`, `ModemSends`) acts on a command and owes an
answer, or owes ERROR, or says nothing, and hands what it owes to the line in pieces at any later time. `Timeout` may come whenever nothing is there. The modem may also say something nobody asked for (`ModemTalks`),
which starts `select` again. `CheckConnection` may stay in libcurl for good (`mpc` is "stuck"). Only the first command's
return value is looked at; the others go by what is in `resp` (`AfterCommand`). `calm` and `credit` are history.

### LaneTo

A solution is a sentence in two halves and a second sentence; an item of the line is one of these with its epoch. `early` and `late` are the
epochs of the fields of `sg_data` that the first and the second half fill. The receiver may send other sentences too (`ReceiverTalks`); a byte lost in the middle of a field is not representable. `Parse` is `message_parser_entry` with `sg_data_parse`. Over gpsd's socket the read blocks; over the
serial port it is `serial_read`, which writes over the buffer of the ticks before. `SendFrame` is part of every way out of the tick.

### Peripherals

The three share nothing, so a behaviour is that of one of them (`unit`) and the run checks the union, not the product.

### Codec

Functions only, with 8- and 16-bit arithmetic. `byte_to_bcd`, `db_to_bcd` and their inverses are those of `publib.c`; `TimeDiff` is the assignment of line 600 of
`cloud_comm.c`, `Int16` the signed variable of the event thread's checksum.

## 3. Runs

| Run | Shows | Bounds |
|---|---|---|
| `queue` | two producers and two consumers on one ring: `MutualExclusion`, `CallsIntact`, refinement of `BoundedFifo`; the lock is held exactly by a call in progress, so each of the four return paths gives it back | 3 slots (so full, empty and wrap-around all occur), 2 frames; threads of a kind, and frames, are interchangeable (symmetry); frames of 1 and of 256 bytes, slots of 256; 219 000 states |
| `ota` | what runs now was verified, a task runs at most once plus once per restart, reports are true, archives of waiting missions are kept, and every queued task leaves the queue | 2 tasks, one of each type, one for the FKZ9 and one local; 2 reboots and 2 restarts anywhere; 727 000 states |
| `dispatch` | order and at-most-once through cut and joined reads and stale buffers; whole frames are not lost while there is room; which requests are served; no false response; the thread comes back unless it is in a call that never returns or the behaviour is undefined | 3 requests out of 4 kinds (first, second and third entry of the table, and unregistered), queue of 2, reads of up to 4 parts, slots of 3; 130 000 states |
| `tcp` | outside two races one connection and one send thread, nothing freed in use, and connecting goes on; outside a third, of two threads in one output buffer, frames in order and no death | 3 attempts, of which 2 in a row, 3 frames, queue of 2; 417 000 states |
| `fkz9` | each way keeps the order and makes nothing up, long payloads arrive whole unless the connection broke, subscriptions and `is_conn` follow the link, the device is introduced at most once, and the callback returns, unless a payload says that its length is 0 | 2 messages, payloads of up to 2 parts, 1 loss of each link, queues of one slot, so that full is common; 2 299 000 states |
| `life` | serving threads run; what the program can die of, and in which window; all threads are joined; a signal ends the program if both timer loops have begun and no thread is in a call that never returns | 2 attempts to connect in a row; requests and messages are only counted as waiting or not; 321 000 states |
| `peripherals` | clients and ports are released; success is true; what `serial_read` can return; each OK of the modem is believed once; what a return value OK of `fx650_init` means; the 1 Hz frames; that both users of the serial port keep its order of calls (`SerialSpec`); and when either keeps its thread for ever | 3 attempts to connect, 3 starts of the program; buffers of 5 places for the modem, whose answers have at most 3, and of 7 for the receiver, with 3 epochs of 3 parts, so that answers and solutions are cut at every place; one read asks for up to 5 and a size wraps at 100; 1 275 000 states |
| `ota_declined`, `ota_stale`, `ota_lost` | violations, see section 5 | 3 tasks (two missions, so that one can be appended while the other is read), 1 reboot |
| `dispatch_registered`, `life_signal` | violations, see section 5 | as above |

Why the bounds are enough: each hazard needs two of something (two producers, a mission and another appended meanwhile, the old and the new
connection) plus one to tell "next" from "last"; the counters that are capped (boots, restarts, attempts, requests)
have no behaviour that depends on their size except the maxima, which are reached. `CHECK_DEADLOCK FALSE` is given for `tcp`, `life`, `peripherals` and the two runs of `CloudDispatch` only: there the program
really may stop, by running out of attempts, by dying or by ending, and a function returns.

Every property of a passing run has a mutant next to the definition it changes (the operators whose names end in `Bug`): a
plausible slip in that code, under which TLC finds the property violated.

### Fairness

* `ThreadSafeQueue`: none; its properties are safety properties.
* `OtaUpdate`: weak fairness of the download thread's steps, which assumes that ssh, curl and scripts return: libssh is given no timeout, libcurl one for FTP only, so `EveryTaskLeaves` is about servers that answer or close the connection; strong fairness of its `DownloadLock`, since the timer
  thread holds the mutex for an insertion once in 30 s. Nothing is assumed of the timer thread, which the spinning download thread may in fact starve.
* `CloudDispatch`: weak fairness of the event thread. Nothing is assumed of the cloud's connection, nor that the calls without a timeout return: from `stuck` there is no step.
* `TcpClient`: weak fairness of every thread, and of an answer (success or error) to a connection attempt, which TCP guarantees by its timeout. Connections that are up may stay up for ever.
* `Fkz9Forward`: weak fairness of the thread that empties the transmit queue and of the callback that is running. Weak fairness is enough for the callback although it competes with the event thread for the free slot: `event_queue` is
  filled only by the thread that is inside the callback, so the competition ends. Nothing is assumed of the broker, of the networks or of the event thread; the callback makes no call that waits for them.
* `Peripherals`: weak fairness of the steps of the program's own threads (`Program`: `FxProgram` of the modem, `LaneProgram` of the receiver). A `select` with a timeout returns, and
  a loop of non-blocking reads goes on. Nothing is assumed of the modem or the receiver, which may say nothing, or never stop talking; nor of the network: libcurl, which is given no timeout (`fx650.c:271-276`), and the read of gpsd's socket (`lane_to.c:472`)
  may never return. Each of these is an exception that `CallsReturn` names. `MaxEpoch` ends what the receiver sends, so the run itself has no receiver that talks for ever; the exception is there because the code needs it.
* `LifeCycle`: weak fairness of main and of every thread's steps; strong fairness of the steps that take the MQTT client's lock and of the wait for `is_conn`, since Paho's thread goes back to the network between two
  callbacks and the wait polls. Nothing is assumed of the networks, nor that a signal comes, nor that a call without a timeout returns:
  `Blocks` and `LongBlocks` may happen at any time and nothing leads out of them, which is the exception of `ShutdownEnds`.

## 4. Proofs

`ThreadSafeQueueProofs` proves, for every number of slots of at least 2 and any sets of threads and frames:

* `TypeCorrect`: `Spec => []TypeOK`
* `OnlyOwnerInside`: `Spec => []MutualExclusion`
* `CallsStayIntact`: `Spec => []CallsIntact`
* `QueueImplementsFifo`: `Spec => ImplementsFifo`, the refinement

The assumptions are those named in `ThreadSafeQueue`: at least two slots, `NoThread`, `NoFrame` outside their sets, and `LengthAssumption`, that no frame is longer than a slot (`LengthStored`: 16 bits hold its length then).

The inductive invariant is `IInv`: types, mutual exclusion, that a thread about to copy still sees a free (or a filled) slot at its
index (`CallsIntact`), and that a call in progress has a frame as its argument (`ArgumentsOK`). Mutual exclusion is what makes `CallsIntact`
inductive: only the owner of the mutex moves head or tail. Lemmas `Step...` show that each action preserves each part.

For the refinement the items of the abstract queue are a sequence computed from head and tail modulo the number of slots. Lemmas
`DistanceFacts` and `SlotFacts` do the modular arithmetic once; `WriteUnseen` shows that a write to the free slot at head does not change
the sequence, `HeadAppends` that advancing head appends the frame written, `TailDrops` that advancing tail drops the first one. `StepRefines` has one case per
action: steps inside a call stutter, the step that moves an index is the abstract end of the call.

`Fkz9ForwardProofs` proves, for all sizes of the queue, numbers of messages, parts and losses:

* `TypeCorrect`: `Spec => []TypeOK`
* `FlagIsTrue`: `Spec => []FlagMeansLink`, and `SubscriptionsMade`: `Spec => []SubscribedUnlessLost`
* `IntroducedOnce`: `Spec => []DevInfoOnce`
* `LongPayloadsWhole`: `Spec => LongPayloadWhole`, an action property
* `WaysAreLossyFifos`: `Spec => WaysKeepOrder`, the refinement of `LossyFifo` on both ways

Its inductive invariant `IInv` adds to the types and the invariants above: `LinkIntact` (callbacks run one after another, so Paho does not report a loss inside
one), `SubscribedSoFar` (which subscriptions the timer thread has asked for; until the first loss `is_conn` stays true once it has been seen so) and `PayloadIntact` (no payload but while one is sent). Two more invariants
serve the temporal theorems: `LongIntact`, that as long as the cloud connection was not down every part the callback is done with was accepted, and `IdsKnown`, that every frame on a way was numbered
before, so that a new message is new. The `Step...` lemmas have one case per action; in the refinement the two ends of a queue map to the abstract put and get, a drop
to a loss, everything else to a stutter.

`SshClientProofs` proves, for any number of attempts and of starts (`TryAssumption`: at least one of each), `TypeCorrect`, `ClientsAreReleased` (`[]ClientsReleased`)
and `SuccessesAreTrue` (`[]SuccessIsTrue`). The inductive invariant `IInv` adds `InTurn`, which calls a function makes (a step of one function says nothing of
another's); `Connected`, that a call to the FKZ9 is made with a connection, except for boot's search for the script, and that the pointer to a freed session of sftp is
not seen by a transfer; `BootKnows`, what boot has learned by each call, or which of the failures that look like success it met; and `FileKnown`, where the file is between the last call and the return.

`PeripheralsProofs` proves of the serial port `PortTypeCorrect` and `OnlyFullReads` (`SerialSpec => []ReadsAreFull`) for any chunk, any buffer up to `MaxCount`, any line and any user that keeps to the order of calls
(`SerialAssumption`: sizes are positive and fit in a word). The invariant is the loop's condition (`Looping`). Of `Peripherals` it proves, for any sizes and numbers:

* `AllTypesCorrect`: `Spec => []TypeOK`
* `UsersKeepOrder`: `Spec => SerialSpec`, the refinement; each step of the modem's initialisation, of the thread that reads the receiver and of their lines is one of `SerialNext` or a stutter, so that `OnlyFullReads` speaks of both
* `PortsStayClosed`: `Spec => []PortsClosed`
* `OksAreOwed`: `Spec => []EveryOkIsOwed`
* `OkStaysTrue`: `Spec => []OkIsTrue`
* `PartsStayTrue`: `Spec => [](ClientsReleased /\ SuccessIsTrue /\ ReadsAreFull)`, what is proved of clients and port by themselves
* `FramesStayInOrder`: `Spec => FramesInOrder`

The assumptions are that an answer fits in the modem's buffer (`RespAssumption`: its 3 items and the zero) and that the receiver has a buffer and sends an epoch at least (`LaneAssumption`); what the kernel keeps of a line may be nothing.
`PeripheralsInv` has, for the unit that is used, an invariant of its own, and for the others that they have not begun (`Resting`).

* Of the modem: `ModemCalls`, at which calls the port is open and `serial_read` is running; `Written`, that what it returned lies in the buffer; `TrueToSim`, that wherever an answer READY is, with the modem, on the line or in the
  buffer, there is a SIM card that is ready, and `SimKnown`, that no step beyond the query is made without it.
  `OksCovered` says that the ends of OK lines on the line and in the buffer are together no more than `credit`, and one from the step that shares its buffer with the query before it (`Slack`); it is inductive because writing over a buffer adds no more ends
  than it writes (`EndsOverlay`) and an OK that is believed has its end in the part that is looked at (`EndsSome`). In the model the modem earns a credit for each end it sends, not one for each time it sends some.
  `CalmInv` follows a line where nothing is late, cut or refused: the answer is whole with the modem, whole on the line, or its first part is in the buffer and the rest on the line (`CalmLine`), and so each step has learned what is so (`CalmDone`).
* Of the receiver: `LaneCalls` as for the modem; `LineOrder` and `BufferOrder`, that epochs never go down from `sg_data` over what has been read to what is on the line, which holds although `serial_read` steps back in its buffer when nothing has come;
  `SockOrder`, that over the socket the line is the last of what was sent with nothing left out, which makes F follow its P directly.

Of `Codec` it proves, for every argument, `ByteRoundTrip` (0 to 99), `NumberRoundTrip` (0 to 9999, as hundreds and the rest), `TimeDiffIsLost` (a byte swapped as 16 bits and stored in 8 is 0) and `ChecksumsAgreeBelow`
(the event thread's comparison accepts exactly the checksums below 0x8000).

`CloudDispatchProofs` proves, for any frames and signs, any number of requests and any sizes of the queue, its slots and a read (`SignAssumption`, `SizeAssumption`):

* `TypeCorrect`: `Spec => []TypeOK`
* `WholeFramesKept`: `Spec => []WholeFramesAccepted`
* `ServesInOrder`: `Spec => []ServesOrderedPrefix`
* `AnswersEarned`: `Spec => []AnswersAreEarned`

`InOrder` says that heads of requests are in the order sent in stream, queue and `accepted`, and each before all in the next of the three. This needs `HeadsHaveTails` (in the stream a head is followed by its tail, so
what a read leaves begins with a tail at worst) and `PiecesBegin`. `Searched` is the cursor: as long as all requests could be served, it stands at the entry of the last one, and from the first one that could not be, at the end of the
table for ever. For that the property, which speaks of the least position of a sign in the table, is restated with `Place`, the one position a sign has (`SignsDiffer`: the twelve entries have twelve signs).

`TcpClientProofs` proves, for any numbers of attempts, frames and slots (`ConstantAssumption`), `TypeCorrect`, `OrderlyStaysSafe` (`[]OrderlyIsSafe`) and `SentStaysInOrder` (`[]SentInOrder`). While neither of the two races of the pointers has
happened (`Orderly`) there is one thing at a time that leads to the next attempt: a thread not yet begun, one that connects, its connection, or the one timer its error started (`Sockets`, `NextThread`).
So the two pointers are those of the one thread that uses them (`Pointers`, `Unfreed`), and the send thread of one connection is over before that of the next begins (`Senders`), which is what keeps the frames in order (`InOrder`) as long as no buffer is in `collided`; and when the program dies, one is. Types
are proved with or without the races.

`LifeCycleProofs` proves, for any number of attempts (`MaxRecntAssumption`), `TypeCorrect`, `ThreadsStayAccountedFor` (`[]ThreadsAccountedFor`) and `DeathsStayExplained` (`[]DeathsExplained`). The invariant says which pointers and flags
are set (`CloudPart`, `Fkz9Part`) and which threads have been created or waited for (`ThreadsThere`, `Joined`) at each statement of main, what a thread that has ended saw (`ThreadsEnd`), and that a connection that main has closed
is not opened again (`Connection`). It is also what places the death of a freed bufferevent between the two joins of `tcp_client_disconnect`.

`OtaUpdateProofs` proves, for any tasks, any number of boots of the FKZ9 and restarts of the program, and responses of any length:

* `TypeCorrect`: `Spec => []TypeOK`
* `VerifiedFirst`: `Spec => []VerifiedBeforeRun`
* `ReportsStayTrue`: `Spec => []ReportsAreTrue`
* `ArchivesStay`: `Spec => []ArchiveKept`
* `RunsStayBounded`: `Spec => []RunsBounded`

The assumptions are `TaskAssumption` and `BoundAssumption`; that the cloud hands out each task once is in the model, and the proof rests on it. `IInv` says where a task can be.
It is with the cloud, in the response or a new node, in one place only (`HandedOutOnce`), and until the download thread is at it nothing was done for it and nothing is recorded of it (`Untouched`). Afterwards it has at
most one line in the mission file and at most one node that is due, and both at once only between the insertion and the removal of the file; a line not yet read and a node that is due stand for a task that
ran at most as often as the program was restarted (`MissionsOnce`), which is why a restart in that window costs one more run and nothing else does. `StageOK` carries what the download thread has learned of its task from one
stage to the next, and `Counted` that lines counted are still there when they are read, because the download thread only appends. Lemmas `Step...`, one per action, have one step per part.
`TypeCorrect` says more than `ShapeOK`, with which the other proofs begin: the 16-bit count of `lib/list.c` is the number of nodes in the chain. It has a hypothesis, that there are fewer than 2^15 tasks. The chain has at most two nodes of a task,
one new and one due (`ListBounded`, from `HandedOutOnce` and `MissionsOnce`), so that no insertion makes the count wrap; nothing in the code bounds the number of tasks.

Only model-checked: everything about liveness (`EveryTaskLeaves`, `ReturnsToQueue`, `KeepsConnecting`, `CallbackReturns`, `ShutdownEnds`, `CallsReturn`), which is out of the prover's reach, and the five runs that
find a counterexample.

## 5. Where the code disagrees with what it says

* **A declined update runs after the next reboot** (`ota_declined`). `cloud_comm.c:407` writes the task to the mission file before the md5 check; after a
  reboot `firmware_updater.c:76-80` skips the check. Line 88 logs that the task is not executed.
* **A mission runs without a reboot** (`ota_stale`). The uptime recorded is the cached one; if the FKZ9 has rebooted since, the next heartbeat makes the
  mission look due. Line 169 logs "when next reboot". (An empty recorded uptime compares equal to everything and never becomes due.)
* **A mission is lost** (`ota_lost`). The file is counted, read and removed without the lock under which the download thread appends.
* **Registered requests are ignored** (`dispatch_registered`). `start` is initialised before the thread's loop; after a request with an unknown sign, or a sign that stands
  earlier in the table than the last one served, no handler is ever found again. `ServesOrderedPrefix` states exactly which requests are served.
* **A signal does not end the program** (`life_signal`). Until the broker is reached the FKZ9's timer thread waits for `is_conn` and looks at nothing else, so the join at `fkz9_comm.c:441`
  waits for ever. `main.c:108` logs "quit...".

Without a document that says otherwise, these are facts of the models only:

* An attempt that `bufferevent_socket_connect` itself refuses (no route, say) is the last one: the thread frees the base and ends, and no timer is left (`KeepsConnecting` names it).
* An old connection's thread may free the next one's objects (`tcp_client.c:118-121`; `Orderly` names it as one of two races). The output buffer of a bufferevent is used by two threads without a lock, which is a third (`collided`). The FKZ9's event thread may end before
  `is_running` is set, although the log says "fkz9_comm init ok" (`ThreadsAccountedFor`). `DeathsExplained` lists the windows at start and shutdown in which a peer that talks, or a frame still in the send thread's hands, ends the program.
* `SSHClient_Destroy` frees the session of sftp a second time if `sftp_init` failed. A first boot, which puts the script on the FKZ9, succeeds without knowing the device's number or the cloud's
  address, and so does one whose script fails: exit statuses are not asked for. A transfer whose reads or writes fail may be reported as done (`SuccessIsTrue` names which). An archive that was locked cannot be transferred again, so that repeating the task fails.
* `serial_read` never reports part of a buffer: it returns -1, in a `size_t`, or a full one. Navigation over the serial port therefore needs a whole buffer of sentences, and one frame may mix two epochs, because reads write over their own buffer.
  A gpsd that closes its socket is not connected to again.
* The answer of the query before `setipinfo` is still in its buffer: its OK may end the wait, and the late answer is then taken for that of `AT+CPIN`. If that fails, `fx650_init` fails and the cloud side is not started.
  `fx650.c:350` logs "attempt to deactivate and reactivate", and the function returns.
* A payload of the FKZ9 whose first frame gives its length as 0 keeps the MQTT client's lock for ever (`CallbackReturns`); a read of more than 256 bytes from the cloud is copied past a slot of `event_queue` (`ReturnsToQueue`).
* `ucTimeDiff` of the navigation frame is always 0 (`TimeDiffIsLost`), and `fkz9_comm.c:264` puts the hour where the minute belongs.

## 6. What is left

Every safety property the passing runs check is a theorem; liveness is not.

Not modelled, and why:

* LEDs and logging: writes to files that nothing reads back.
* `can.c`, `iic.c`, `usb.c`, `tcp_server.c`, `accept_client.c`: not in the Makefile's list of objects, so not part of the program.
* The scripts: they run on other machines or by hand; the program sees their output, and the models have every outcome.
* `third_party/`: cJSON, Paho, spdlog. What the program relies on of Paho, libevent, libssh and libcurl is in the models as their users see it.
* Failed allocations: each is tested and ends in a return or is not tested and ends the program.
* The contents of payloads: copied, not looked at.
* The timer threads' event lists: each is used by one thread only.
