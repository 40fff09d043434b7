# Verification of the BLE bridge firmware

The repository holds firmware for ESP32 boards. Its own code is three programs:

| Program | What it does |
| --- | --- |
| `akbi/ble_ccu` | bridges a phone (BLE GATT) and a vehicle's central control unit, the CCU (serial line) |
| `ble_modbus_bridge` | polls Modbus registers, to be configured over BLE and to report over MQTT |
| `MobiSmartDT` | an earlier copy of the GATT server with an I2C driver and stubbed commands |

`esp_idf_examples` is the SDK's example collection, unmodified, and no part of
this project. `akbi/ble_ccu` is the only program whose logic is complete; its
difficulty is what tests hardly reach, two tasks that share a state machine and a
reply buffer without a lock. Of `ble_modbus_bridge` the part that runs is
modelled: start-up, timers, and the polling of registers.

## 1. The system

### `akbi/ble_ccu`

| Component | State | Operations | Made correct by |
| --- | --- | --- | --- |
| Serial receive path, `akbi_serial_task.c` | `serial_rx_data`, `serial_data_bytes`, `serial_timer_state`, the esp_timer | UART thread reads a byte, appends it, restarts a 100 ms timer; the timer's callback hands over the buffer | nobody appends to a packet in use; every byte delivered once, in order; no byte left without a timer |
| CCU message interpreter, `akbi_ccu_msg_handler.c` | (shared) `bt_state`, `ep_return_message`; firmware version, serial number, scan report | one call per packet, in the timer task | each status ends the wait it answers and stores its code |
| FSM, `akbi_fsm.c` | `bt_state`, table of SSIDs | set, get, `akbi_check_fsm_state_and_respond` | the phone waits exactly while an answer is to come |
| Phone commands, `ble_apis.c` | `saved_messages`, audio buffers, `flag_sending_voice_data` | `read_ble_message`, one `execute_*` per command | the state that waits is set before the request goes out; parts of a command are put together from that command |
| CCU senders, `akbi_ccu_api.c` | `serial_tx_data` | one `ccu_sent_*` per message | complete messages |
| GATT server, `main.c` | `ep_return_message`, advertising data | GATT events, start-up | a read returns the outcome of the last write |
| Task queue, `bt_app_core.c` | a queue of ten | dispatch, handler task | every dispatched parameter is freed once |

The Bluetooth task calls `read_ble_message` for each write and
`akbi_check_fsm_state_and_respond` for each read. Commands set `bt_state` and
send a message on the serial line. The CCU's answers come back through the UART
thread and the timer callback, which runs `akbi_process_rx_serial_data` in the
esp_timer task: it sets `bt_state` and byte 6 (the return code) of
`ep_return_message`. The phone learns of the answer by reading until the code is
no longer NOT_READY (0x55).

Hard here: the timer task preempts the Bluetooth task anywhere; the UART thread
runs on any core; `ESP_ERROR_CHECK` and `abort()` restart the firmware in
mid-conversation; messages sent close together merge into one packet, of which
only the first is read; and answers carry nothing that tells which command they
answer (`trans_id` is always 44 and never looked at).

### `ble_modbus_bridge`

| Component | State | Operations | Hard |
| --- | --- | --- | --- |
| Tasks and IPC, `main_task.c`, `icom_ipc.c`, `icom_cloud_task.c` | one queue of ten per task | create, send, receive | queues used before they are created; a full queue stalls the sender, a timer callback |
| Timers, `icom_timer_api.c` | handle with callback and `repeat_flag` | create, start, re-arm from the callback | callbacks that change their own timer |
| Register polling, `icom_modbus_task.c` | Modbus context, run-time register table | connect, retry, poll | retry callback with a NULL context; fall-through of the poll switch |
| Configuration, `icom_config_storage.c` | start-up and running copy in NVS | read, write, restore | off-by-one of the register index |
| Modbus, `modbus.c`, `modbus-rtu.c` | slave number, message being read | build a request, read an answer step by step, judge it | late, cut and garbled answers on a line that is never flushed |
| Uplink, `icom_wifi.c`, `icom_mqtt.c` | retry count, event bit, MQTT client | events of the Wi-Fi and MQTT stacks | dead code, see section 6 |

`app_main` creates the ping timer, then the cloud task, the BLE task and the
Modbus task. The Modbus task makes a context, a retry timer if it got none, and
one timer per configured register. All timer callbacks run one after the other in
the esp_timer task: the ping callback sends to the cloud task's queue, a poll
callback asks the Modbus device and waits for its answer. A timer is a one-shot
that the wrapper `generic_polling_timer_callback` starts again as long as the
handle's `repeat_flag` is set.

## 2. The modules

| Module | Models | Rests on |
| --- | --- | --- |
| `PacketAssembly` | abstract: what the receive path promises, bytes in consecutive runs, in order, none twice, and none lost but by a restart | |
| `SerialFramer` | `akbi_serial_task.c`, two threads, one step per access to shared state | implements `PacketAssembly` |
| `CcuProtocol` | the tables: commands of the phone, messages of the CCU | |
| `GuardianBridge` | phone, Bluetooth task, timer task, serial line and CCU together | `CcuProtocol` |
| `AudioRelay` | the audio of voice messages and addresses, `store_and_send_*` and their callers in `ble_apis.c` | |
| `WifiSetup` | a Wi-Fi scan from command to menu, and the commands in two parts (`saved_messages`) | |
| `IcomRuntime` | start-up, tasks, timers and the cloud queue of the Modbus gateway | |
| `ModbusRtu` | pure operators: requests, answers and the judging of answers in `modbus.c`, `modbus-rtu.c` | |
| `ModbusPolling` | poll callback, the read functions step by step, devices and serial line | `ModbusRtu` |
| `MCWifiSetup`, `MCModbusPolling` | instances for TLC | the module of that name |
| `PacketAssembly_proofs`, `SerialFramer_proofs`, `GuardianBridge_proofs`, `AudioRelay_proofs`, `WifiSetup_proofs`, `IcomRuntime_proofs`, `ModbusPolling_proofs` | theorems | the module of that name, TLAPS |

### SerialFramer

`uartPc` is where the UART thread is between `select()` and the end of
`check_and_uart_data`; `cbPc` the statement `oneshot_timer_callback` is at.
`serial_timer_state` is the flag of the code, `armed` whether esp_timer really
has the timer armed: the difference between the two is the subject. A byte is
represented by its position on the line, so order and loss can be read off.
`AppendByte`, `StopTimer`, `StartTimer` and `MarkTimer` are the statements of the
two branches; `TimerFires`, `Terminate`, `Process`, `Empty` and `Unmark` those of
the timer task. The model knows nothing of 100 ms: an armed timer may fire at any
step, so what holds here holds for any timing. `esp_timer_stop` of a timer that
is not armed and `esp_timer_start_once` of one that is are errors, and
`ESP_ERROR_CHECK` makes them `Restart`. `restarts` counts them, here and in
`PacketAssembly`, whose only step that loses bytes is the one that raises it: a
framer that dropped a byte in normal operation would not be an implementation.

One assumption is made about the CCU, in `ReadByte` and `BufferAssumption`: it
pauses before it has sent more bytes than the buffer holds (500). The code does
not check.

### CcuProtocol and GuardianBridge

`CommandTable` is `read_ble_message`: for each command the FSM state set on entry,
the return code stored, the second state set, and the message sent to the CCU, in
the order of the code. Commands with several parts are a command per part
(`loginPart`, `login`; `passwordCurrent`, `passwordNew`; ...), and the `Other`
commands carry a data type the code does not know. `StateAfter`, `Reports`,
`ReportedCode`, `Ignored`, `NoVerdict` and `Fatal` are the switch of
`akbi_process_rx_serial_data`.

`btc` is the step the Bluetooth task is at. A write is `Write` (the handler
clears the reply), then `Enter`, `StoreCode`, `Settle`, `Ask`, and for scans three
reads of the state (`Rescan`) and, if none of them found a scan, its setting
(`ForceScan`); a read is `Check`, then `StartNames` or `MarkNotReady` or neither, then
`Respond`. Between any two of them `ProcessPacket`, the timer callback, may run;
it is one step because its task has a higher priority on the same core
(`sdkconfig` pins Bluedroid and esp_timer to core 0, priorities 19 and 22).
`Poll` and `Advertise` are the registration; `Abort` is `abort()`, which restarts
the bridge and may or may not lose what is on the line. The phone writes, reads,
connects and disconnects as it likes; `Patient` makes it read the outcome of a
command before it writes the next.

Auxiliary state, which the code does not have: every command and message carries
a number (`writes`, `n`, `codeFrom`, `reply.from`) so that a property can say
whose answer was read; `asked` is the last command that asked for an answer.
`lost` records that this answer was lost: on the line, in a packet behind another
message, by a restart, or because the bridge knows no such code and drops it
(`akbi_ccu_msg_handler.c:267-279`). `answered` says that the bridge has handled it,
and `stale` that it had when `ForceScan` set the state.

Not in `GuardianBridge`: payloads (SSIDs and the parts of commands are in
`WifiSetup`, audio in `AudioRelay`; the post-login self-test result, which turns a
SUCCESS into 0x79, is in none), the check of the source application bytes, and the
time `ets_delay_us` takes. `ReturnCodes` folds all
codes the CCU reports other than SUCCESS into RESULT.

### AudioRelay

The static variables of `store_and_send_voice_data` and of
`store_and_send_address_visiting_audio_data` are functions of the kind of the
recording; `voice_data_buffer` is one for both, as in the code. `StoreAndSend` is
the body the two functions have in common; `VoiceHeader`, `VoiceEnd`,
`AddressLength`, `AddressStart`, `AddressEnd` and `SendPart` are the branches of
the two handlers that lead to it. `chunk_offset` counts parts of 16 bytes, since
it is a multiple of 16 between any two messages. A part is known by its recording
and its place in it, so loss, repetition and mixing can be read off what the CCU
`heard`. One message is one step: nothing but the Bluetooth task touches this
state, and what the same messages do to the FSM and the return code, which the
timer task shares, is in `GuardianBridge`.

The phone begins a recording whenever it likes, also while one of the same or of
the other kind is under way, and ends one early if it likes; it sends no more
parts than the recording has, and the length of an address before its time stamp.
`kept` and `overlapped` remember which of these liberties it took. Left out is
the file number of a voice message, which passes through unchanged.

### WifiSetup

`GuardianBridge` has the states and codes of a scan and nothing of its contents;
`WifiSetup` has the contents, and of the states only what they depend on:
`SCANNING`, `COMPLETE`, `NAMES`, `WAIT` for any other wait and `REST` for
everything that makes a read answer at once. `btc` is again the step of the
Bluetooth task, and `ProcessMessage`, the timer callback, may come between any
two: a scan clears the table, sets the state, asks the CCU and sets the state
once more unless one of three reads finds a scan (`ClearSsids`, `SetScanning`,
`AskForScan`, `Rescan`, `ForceScan`); a read looks at the
state (`Check`), changes it or fills in a name or a code, and answers
(`Respond`). `StoreName` is the report of one SSID with both workarounds for the
serial driver, which turns each 13 into a 10 (`Wire`): `LengthIn` for a name of
13 characters and `IndexIn` for the thirteenth name. A row of the table is the
network it is of, how many characters of the name it holds, and how many
characters of an older, longer name lie behind them (`Over`). A name is shown as
`akbi_check_fsm_state_and_respond` cuts it (`Shown`).

`akbi_fsm.c:146-161` compares `ssid_index` with nothing, and neither does the
model: a read past the rows finds whatever lies behind the table (`Entries`).
`MaxIndex` bounds only how long a phone goes on with that. A packet holds one
message here; packets that merge several are in `GuardianBridge`.

A part of a command is known by its kind, the number of the write, its length and,
for the choice of a network, its position; `PlaceOf` says which of the two slots
of `saved_messages` it is kept in, and `Sent` what goes to the CCU.

Recorded for the properties: the networks of each scan (`found`), what the phone
has read of its scan (`heard`), its last two parts (`recent`), and three
circumstances in which the code gives a scan no meaning. `hurried`: another scan
was asked for while the end of one was to come. `raced`: the end of a scan came
between the `Check` of a read and its `Respond`, so that the count went into an
answer that was to say NOT_READY, and the next read gives the same answer again.
`astray`: `ForceScan` set the state, because the phone asked for names with no scan
to read or because the answer to an earlier command came between. Each is a finding
about the protocol; drop it from a property and TLC shows how the menu goes wrong. A name
that was read after a race stands one place off, so what network the phone means by
choosing it is taken as unknown (`WriteSsid`, `Nobody`).

### IcomRuntime

`main` is how far `app_main` is, `maker` and `making` where each task that makes
timers is in `icom_create_timer` and `icom_start_timer` and with which timer. The
argument of a timer goes through the one static `generic_timer_args`
(`timerArg`), from which `esp_timer_create` copies it (`argOf`); the two are
steps of their own, as are the setting of the flag and the start of the timer.
`timerTask` and `called` are the esp_timer task: `Expires` begins a callback, the
five callback actions are what the callbacks do, `StartsAgain` is the end of the
wrapper. `StartTimer` of a timer that runs, a ping before the cloud task has its
queue and a retry that succeeds (its handle is NULL) are `Restart`s. Every
`malloc` may fail. A timer that runs may expire at any step: 5 s and 30 s have no
place in the model, so what holds here holds for any interval.

### ModbusRtu and ModbusPolling

A poll callback makes the calls of `Calls`, which has the missing `break`s of the
switch. A call is `SendRequest` (or `CallFails` without a port) and then the three
steps of `_modbus_receive_msg`: `function`, `meta`, `data`, each with the number
of bytes it still wants (`need`). `Receive` takes what has arrived, `Timeout` may
come whenever nothing has, however near the answer is; `Judge` is
`check_integrity` and `check_confirmation`. What a call does not read stays on the
line for the next call, since the context has no error recovery.

Bytes are numbers, so lengths, counts and values are computed as in the code, with
one exception: the two bytes of the CRC. A byte carries the number of the request
it answers, its place and the length of its answer (`n`, `i`, `of`), and
`Intact` says the CRC is right just if the bytes read are one whole answer. That
a CRC finds every error is an idealisation; `CrcBytes` gives the values the bytes
may have when they are read as data.

Devices answer in the order of the requests, as `modbus_reply` does (the gateway's
own copy of libmodbus, taken for the device's), or not at all. The line delivers
bytes in pieces, loses requests and bytes, and garbles bytes.

## 3. The runs

| Run | Asks | Bounds | States |
| --- | --- | --- | --- |
| `serial_framer` | Is the unlocked sharing safe, in order, complete? | 6 bytes, bursts of 4, buffer of 6 | 4,168 |
| `serial_stop` | Does `esp_timer_stop` always find its timer running? No. | 3 bytes | |
| `bridge` | Impatient phone, scans, merged packets: lost wakeups, reads that end waits, waits that never end? | 3 commands of 5 kinds, 1 merged packet | 106,374 |
| `bridge_patient` | Does the phone read the outcome of its own command? | 3 of the 18 commands with an answer or a part of one, 2 codes | 11,187 |
| `bridge_restart` | Lost wakeups with restarts of either side | 2 of all 36 commands, 2 CCU starts, odd codes | 1,597,002 |
| `bridge_read_race` | Is an answer, once in, ever hidden? Yes. | 1 command | |
| `bridge_rescan` | Does an answer that was handled end its wait? Not the end of a scan that comes between the reads of `Rescan` and `ForceScan`. | 2 commands | |
| `audio_relay` | What does the CCU hear of recordings that follow, overlap or break off? | 3 recordings of 1 to 5 parts, 2 buffers of 2 parts | 1,134,040 |
| `wifi_setup` | Does the phone's menu show its scan, and does the CCU join what was chosen? Do commands get their own parts? | 2 scans of 0, 2 or 13 networks, 3 commands, reads up to the 15th name | 3,732,255 |
| `icom_runtime` | Does every timer go on, with its own handle, and never start twice? | 2 registers, queue of 2, 1 early ping | 6,743 |
| `icom_retry` | Does the retry timer end in a connection? No. | 1 register | |
| `modbus_polling` | What do polls store when answers are late, cut or garbled? Do they return? | 2 polls of 3 registers (up to 4 calls), 1 partial arrival, 1 fault | 465,973 |

The bounds. A packet of the receive path needs two bytes to have a middle, and
two packets with a restart between them to be reordered: six bytes allow three
packets with bytes on both sides of a race. In the bridge a hazard needs the
current command and one earlier command whose answer is late; three commands
leave one to spare. `MaxLine` bounds only the notices of a phone that keeps
connecting. One CCU start is needed for the bridge to advertise at all, the
second is a restart in mid-conversation. `bridge_restart` is the instance of the
theorem `AnswerIsStillComing`. Audio of 16, 40, 64 and 71 bytes is one part only,
ends within a part, ends at the end of a part and of a buffer, and goes through
all buffers into the first again; with three recordings one can break off or be
overlapped and another of its kind follow. The theorems hold for the sizes of the
code, 16 parts and 4 buffers. Thirteen networks are the least that reach the
workaround for the thirteenth, a name of 13 characters next to one of 10 that for
the length, and the second scan leaves an older, longer name in each row or finds
nothing. With two registers and the ping two timers of one task and one of another
are made, and a queue of two is filled by a cloud task that does not read. Two
polls, one of them of a bit (two calls, by the fall-through), give a late answer a
later call of the same and of another kind to be mistaken for; one fault and one
partial arrival let an answer be cut at every place. `MaxRestarts` bounds the
pings that come too early, nothing else.

Deadlock. Two configurations switch the check off where the system stops rightly:
`wifi_setup`, once the phone has used up its commands and read all there is to
read, and `icom_runtime`, where every `malloc` may fail and then no timer runs and
all tasks wait.

What they show:

- `BufferOwned`, `NoStrandedBytes`, `PacketsInOrder`: the flag is enough to share
  the buffer, because it is cleared last; `RefinesAssembly` says it once and for
  all, `NoByteLost` that until the firmware restarts the packets and the buffer are
  the line from its first byte on, and `HeldBytesLeave` that a packet is delivered.
- `AnswerStillComing`: while the FSM waits, the answer is on its way or was lost,
  or it is the end of a scan that `ForceScan` wrote over (`stale`). It depends on
  the state being set before the request is sent. `ReceivedEndsWait`, that
  a wait is over once its answer has been handled, is false for the last reason: a
  scan that follows a command still to be answered can stay in progress for ever
  although no message was lost.
- `WaitKept`: a read never ends a wait although it writes the state from an
  earlier look at it. `WaitEnds`: every wait ends unless a message is lost or the
  scan was over when its state was set once more.
- `OwnResult`: a patient phone and a CCU that starts once. For an impatient phone
  it is false, since a late answer ends the wait of the next command; with a CCU
  restart in mid-wait, since CCU_READY makes the next read return the code 0 the
  write handler left; with a code the bridge does not know, since it ends the wait
  and reports none; and for `activate` and `addressStart`, which ask and do not
  wait. TLC finds a counterexample to each, and the theorem excludes just these.
- `HeardWhole`: the CCU gets as many bytes as it was told to expect, except when
  their number is a multiple of 16: then `chunk_offset -= 16 - (length % 16)`
  cuts off a whole part and the CCU lacks the last 16 bytes. No comment says what
  was meant, so the property states what the code does and names the exception.
- `CleanStart`, `NothingLost`, `InOrder`: two counts for one buffer are enough as
  long as recordings of the two kinds do not overlap and each is sent in full.
  Where they overlap the parts of one may overwrite those of the other in the
  buffer, so that what the CCU hears is mixed: `InOrder` and `NothingLost` have the
  exception (`overlapped`), while the bytes are still counted right
  (`HeardWhole`). After a recording that broke off the next of its kind begins with
  what is left of it (`kept`).
- `RowsRead`: the reads of a scan that was neither hurried nor raced stay within
  the rows, since the number, the phone's reads and the index keep step. After a
  race a phone that reads as long as it is told NOT_READY goes past them.
- `MenuIsScan`, `CountIsFound`, `SelectedAsShown`: the workarounds for 13 and 10
  are right for these names, and rows and indices stay in step with the CCU's
  numbers, as long as the scan was neither hurried nor raced. A scan that finds
  nothing reports the count of the scan before, since the first name and not the
  scan clears the report; `CountIsFound` states it. The CCU joins the network the
  phone saw at the position it chose, whatever scans and commands come between the
  choice and the key: the network is kept as a number, and a later scan does not
  touch it. Only a name read after a race is excluded.
- `PartsArrive`: two parts of one command written in a row are sent together and
  whole although all commands share two slots; but a latitude is copied with the
  length of the longitude.
- `ScanUnderWay`: the state says a scan is in progress only while its end is to
  come, with one exception, the second setting of the state (`ForceScan`); then the
  phone is not reading a scan, or asked for it before another was over.
- `OwnHandle`, `StartsAreSafe`, `RepeatNeverLost`: the shared argument is safe
  because `app_main` has made its timer before there is a second task, and the
  flag because it is set before the start; `KeepsFiring` that neither a slow
  cloud task nor a full queue stops a repeating timer.
- `RetryOpens`: the retry timer is made only when there is no context and nobody
  makes one later, so that it fires for ever and the gateway never recovers from a
  failed start; a port that could not be opened is reported as opened and gets no
  retry.
- `UnsetNeverStores`: the gateway, which never sets a slave number, stores nothing
  it reads. Requests go out for slave 255, and no answer has slave number -1. (So
  `Slaves` has a number the code would set if it did, for the other properties to
  be about.)
- `GenuineAnswers`: whatever is lost, late or garbled, a stored value was sent by a
  device in answer to a request for the same kind of table. It may be the value
  of another register: late answers are not flushed. `UndisturbedCallReads`: on a
  quiet line each call stores the answer to itself. `PollEnds`: a poll returns.

The four violations are real disagreements of the code with its comments; they are
described in `PROJECT.json` under "findings". Two more departures from the comment
on `akbi_check_fsm_state_and_respond` ("Return 1 if waiting for message from ccu",
`akbi_fsm.c:66`) need no interleaving to see and have no run: `activate` asks the CCU
without entering a waiting state (`ble_apis.c:511`), so that an early read says
SUCCESS; and a number of an unknown type enters the sending state before its type
is looked at, sends nothing, and leaves the phone reading NOT_READY
(`ble_apis.c:307`). Both are in `CommandTable`, as `activate` and the `Other`
commands.

Fairness. `SerialFramer`: both tasks run again (FreeRTOS schedules them; the UART
thread blocks in `select()` only), no fairness for the CCU. `GuardianBridge`: the
Bluetooth task finishes the handler it is in, the timer task runs, and the CCU
serves the messages it gets; nothing makes the phone read or write or the CCU
start. `WaitEnds` without the CCU's fairness would be false: the code has no
time-out. `IcomRuntime`: the tasks get on with their start and the timer task runs
(weak fairness), and each timer that has expired is served though others expire
again and again (strong fairness of `Expires`: esp_timer keeps its list in the
order of the alarms); nothing is asked of the cloud task once it has its queue.
`ModbusPolling`: the timer task runs; devices and line promise nothing, time-outs
are what makes a poll end.

## 4. The theorems

For every value of the constants, that is any number of bytes, commands, CCU
starts and merged packets:

| Theorem | States | Argument |
| --- | --- | --- |
| `BufferIsOwned` | `BufferOwned` | `Ownership`: what each pair of program counters says about flag and timer |
| `NoByteIsStranded` | `NoStrandedBytes` | `Ownership` with the counting of bytes |
| `FramerTypeOK` | `TypeOK` | `FramerInv`; the index bound needs the counting |
| `FramerImplementsAssembly` | `RefinesAssembly` | every step keeps, grows or hands over the pending bytes, and only `Restart` drops them |
| `AssemblyInOrder`, `FramerInOrder` | `InOrder`, `PacketsInOrder` | proved of `PacketAssembly`, carried over by the refinement |
| `AssemblyUnbroken`, `FramerLosesNoByte` | `Unbroken`, `NoByteLost` | the same, with `InOrder` for the place where the next packet begins |
| `BridgeTypeOK` | `TypeOK` | the tables stay within the types, action by action |
| `WaitIsKept` | `WaitKept` | `NamesRest`: once a read has found a complete scan, no CCU message makes the FSM wait |
| `AnswerIsStillComing` | `AnswerStillComing` | `WaitInv` |
| `PatientReadsOwnResult` | `OwnResult`, of `PatientUse` | `OwnInv` |

`FramerInv` is the conjunction of `Ownership` (control), `Counting` (how many
bytes each side believes there are), the types, and `Contents` (which bytes of
the line are in the buffer). None of the properties is inductive alone: that the
callback may empty the buffer without losing a byte needs to know where the UART
thread cannot be meanwhile.

`AnswerStillComing` is about the idle Bluetooth task. `WaitInv` strengthens it to
the steps of a command: until its last step, `asked < writes`, so nothing is
claimed; from then on any wait is for an answer on its way. The proof follows the
message: `Ask` puts the request on the line (`SendKeepsRequests`), `CcuServes`
turns it into its answer (`ServingAnswers`), `CcuStarts` loses it or not
(`StartingAnswers`), `ProcessPacket` ends the wait, passes by, or loses it
(`PacketAnswers`). A scan has steps after the one that asks: up to `ForceScan` its
answer may come in, which the invariant has to remember. `Accounted`: the last
answer is on its way, lost, or handled; so when `ForceScan` sets the state, either
its end is still to come or the wait it makes is on record as `stale`.

`OwnResult` is about three places at once: the reply the phone has, the code the
bridge would reply with, and the answers on the line. `OwnInv` follows a command
through them. `OneExchange`: there is one request or its answer on the line at
most, and the message that ends its wait is the last of it, so nothing is left
over for the next command; this is what a patient phone gives. `BeforeAsking`: a
command waits before it asks. `AskedThenAnswered`: once it has asked, it either
waits, and a read under way will not tell the phone to stop reading, or its code is
there, unless a read has written NOT_READY over it. `LastReply`: what the phone
holds is of this command only after the question. `PatientUse` is the hypothesis:
the phone is patient, the CCU starts once at most, it uses codes the bridge knows,
and neither `activate` nor `addressStart` is written; section 3 says what goes wrong
without each. It is weaker than the instance of `bridge_patient`, which satisfies it.

The five theorems of `AudioRelay`, for any lengths, any number of buffers of any
size:

| Theorem | States | Argument |
| --- | --- | --- |
| `AudioTypeOK` | `TypeOK` | a part is stored only where the last test has left room |
| `AudioHeardWhole`, `AudioCleanStart` | of these names | `CountsInv`: what the counts of one kind are before, during and after a recording; arithmetic mod 16 in `Remainder` |
| `AudioInOrder`, `AudioNothingLost` | `InOrder`, `NothingLost` | `OrderInv`: the parts in the current buffer continue those heard |

`CountsInv` is proved kind by kind: a message changes the counts of its own kind
(`MessageCounts`) and leaves those of the other alone (`MessageFrame`), whatever
the buffer holds. `OrderInv` adds the contents of the shared buffer, and
`Overlaps`: two recordings in hand at once are on record as overlapping, so a
part stored for one kind cannot disturb a recording of the other of which
something is claimed (`MessageOverlaps`).

The five theorems of `IcomRuntime`, for any number of registers and any queue:

| Theorem | States | Argument |
| --- | --- | --- |
| `RuntimeTypeOK` | `TypeOK` | action by action; `argOf` of a timer that runs is a timer |
| `HandlesAreOwn` | `OwnHandle` | between `Malloc` and `CreateTimer` of one task the other is not in there: `app_main` is past its timer before the Modbus task exists |
| `RepeatIsNeverLost` | `RepeatNeverLost` | a flag is set only by the maker about to start the timer |
| `StartsSafe` | `StartsAreSafe` | a timer is armed only after its maker is past it, and not while it is in the hands of its callback |
| `RetriesLackContext` | why `RetryOpens` fails: no retry ever has a context | `ctx` is written once, before the retry timer is made |

The seven theorems of `WifiSetup`, for any surroundings, texts and numbers of
commands:

| Theorem | States | Argument |
| --- | --- | --- |
| `SetupTypeOK` | `TypeOK`: no name is stored outside the table, whatever a phone reads behind it | `NamesFit`: the names on the line are within the rows the table has |
| `RowsAreRead` | `RowsRead` | `ReadsFit`: the phone has read no more names than there are rows, and `ReadsInStep`: `ssid_index` is their number |
| `PartsArriveWhole` | `PartsArrive` | `PartsKept`: if the last two parts are the two of a command, the slots hold them |
| `ScanIsUnderWay` | `ScanUnderWay` | `ScanSeen`: at each step of the scan command, what is owed and what the state says; `WithScan`: one of the three reads finds the phone's scan in whatever state it is, so that `ForceScan` is not reached |
| `MenuIsOfScan`, `CountIsOfScan` | `MenuIsScan`, `CountIsFound` | `MenuInv` |
| `SelectedIsShown` | `SelectedAsShown` | `ChosenKept`: the position kept with a network is its place in the scan |

`MenuInv` says what each place between the CCU and the phone's menu holds.
`OneScan` and `OnlyScan`: a scan that was not hurried is alone on the line.
`NamesStored`: if the CCU's messages from the k-th name on are still to come, the
first k rows hold the names of this scan, with the lengths they were found with,
and all others are blank; the two workarounds for the byte 13 are right just
because the rows are filled in order and from blank ones (`StoreInTurn`).
`ReadsInStep`: `ssid_index` is the number of answers the phone has, and each is the
name in its row. `ChosenKept` alone is inductive, given the menu: a choice is made
from `heard`, and what is kept is a number that no later scan changes.

The four theorems of `ModbusPolling`, for any registers, tables and devices and
any number of polls, faults and pieces:

| Theorem | States | Argument |
| --- | --- | --- |
| `PollingTypeOK` | `TypeOK`, with the bound of the receive buffer | `Position`: bytes read and bytes wanted at each of the three steps |
| `UnsetStoresNothing` | `UnsetNeverStores` | `AsksNobody`: such a request goes out for slave 255; `ConfirmedAnswer` has no answer for it |
| `AnswersAreGenuine` | `GenuineAnswers` | `GoodCell`: every byte on the line or in the buffer is noise or what the device has at that place of its answer |
| `UndisturbedReads` | `UndisturbedCallReads` | `Answered`: the bytes read, those that wait and those on their way are together the answer |

`ReplyBytes` computes the answer to a request for one register or bit,
`FrameIsGood` puts its bytes on the line, where losing, garbling and cutting keep
every single one good. `ConfirmedAnswer` collects what the tests of
`check_integrity` and `check_confirmation` make sure of, and `StoredIsGood` puts
the value together again from the bytes; that the length of an answer tells a bit
from a register is what makes it true.

`UndisturbedReads` is an action property with an invariant of its own,
`Undisturbed`: while nothing was lost, garbled or timed out, the line is silent
between calls; during a call the request is on its way or the three sequences
`buf`, `line` and `transit` put one after the other are the answer, and the step the
read is at wants just what is left of it. Arriving and receiving only move the
boundaries (`MovedBytes`), and the lengths the three steps compute from the bytes
themselves come out at the end of the answer (`LengthFollows`), so that the last
step judges the whole answer and nothing else (`AnswerJudged`).

The assumptions are those of the modules: `BytesAssumption`, `BufferAssumption`,
`CommandsAssumption`, `CodesAssumption`, `PatientAssumption`,
`BoundsAssumption`, `LengthsAssumption`, `SizesAssumption`, `SurroundingsAssumption`
and the others of `WifiSetup` and `ModbusPolling`.

Only model-checked: the liveness properties (`HeldBytesLeave`, `WaitEnds`,
`KeepsFiring`, `PollEnds`), out of the prover's reach. Every other property of a
passing run is a theorem. The four violations are counterexamples and need no proof;
`RetriesLackContext` explains one of them for all constants.

## 5. Plan

Done: the serial receive path, commands and answers, audio, scans and commands in
parts, the run-time of the gateway, register polling. What is left, in this order:

| Work | What it would add |
| --- | --- |
| `CommandService` | an abstract bridge, a command and an outcome without interleaving, implemented by `GuardianBridge` with a patient phone |
| `GuardianBridge` with `AudioRelay` and `WifiSetup` composed | answers of scans and audio in one state machine; each is checked alone now |

## 6. Not modelled

- `esp_idf_examples` and the copies of SDK files in the programs. They are by far
  most of the tree, are not this project's code and interact with nothing of it;
  the modules cover the three programs only.
- Dead code of the gateway. Wi-Fi and MQTT: `icom_init_station_cfg` and
  `icom_configure_gpio_port`, which would start them, are commented out in
  `app_main` (`main_task.c:98`, `:113`). The serial bridge and the platform task:
  no one creates their tasks. Reading and writing the configuration in NVS: called
  only under `#if 0`; the table is filled with constants. `icom_ble_protocol.c`
  has a syntax error (line 71) and no caller. A model of any of these would be
  about behaviour no build shows.
- The part of libmodbus nobody calls: `modbus-tcp.c`, `modbus-data.c`, the write
  functions and the server's receive.
- `icom_bt.c` of the gateway, the SDK's GATT server demo: it prints what is written
  and answers reads with constants.
- `bt_app_core.c`: no one dispatches to its queue.
- `MobiSmartDT`: a copy of the GATT server with stub commands, and a blocking I2C
  driver without shared state.
- In `akbi/ble_ccu`: prepared writes (their call is commented out), MTU and classic
  Bluetooth events, the layout of messages, the firmware version and serial number.
- In the gateway: `esp_timer_create` failing under `ESP_ERROR_CHECK`
  (`icom_timer_api.c:66`), which restarts it, and `xQueueCreate` returning NULL
  (`icom_ipc.c:221`), which ends in an assertion when the queue is used. Both are a lack
  of memory at start-up.
