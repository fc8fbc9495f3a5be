# SmartAgri in TLA+

A verification project for STM32-SmartAgri: the firmware of a greenhouse
controller (C, STM32F103), the gateway that ties its serial port to an MQTT
broker, and the web service that sends commands and files their results (Python).
The modules are translated from the code at this commit; line numbers in comments
and in `PROJECT.json` refer to it.

Contents: the system, module by module; what the runs check; what is proved; what
is not modelled; the plan.

## 1. The system

```
 browser -> remote_app (2 gunicorn processes) -> publisher --.
                |  database <- mqtt_worker <------------ EMQX broker
                                                         |       ^
            gateway: network thread (paho) <-- commands -'       | results,
                     serial thread, SQLite spool ----------------' telemetry
                                |  serial line
            MCU: command_protocol -> app_control -> actuators; key, adc, dht11, radio
```

| component | state it keeps | operations | who calls it |
|---|---|---|---|
| gateway spool `gateway/spool.py` | tables `mqtt_spool`, `completed_commands` | enqueue + trim, peek, acknowledge; completed_result, remember_completed | both gateway threads, under an RLock |
| gateway transport `gateway/mqtt_transport.py`, `service.py` | `connected` event, paho's queue | publish, drain, connection callbacks | network thread and serial thread at once |
| gateway bridge `gateway/bridge.py`, `serial_transport.py` | pending table, id counter, port, `connected` event | handle a command, execute on the MCU, read answers, reopen the port | network thread; serial thread |
| remote command path `smartagri/remote_app.py`, `mqtt_publisher.py`, `mqtt_worker.py` | rows of `commands`, paho's queue per process | issue a command, publish, file a result | HTTP threads; the worker process |
| firmware control `User/app_control.c`, `Drivers/actuators.c`, `Drivers/buzzer.c` | overrides with deadlines, outputs, pins, `last_buzzer` | evaluate, service overrides, CTRL, BEEP, apply | the main loop; SysTick underneath |
| firmware panel `Drivers/key.c`, `app_control.c` | debouncing, page, thresholds | key_scan, next page and field, adjust, SET | the main loop |
| firmware host link `serial2_printf.c`, `command_protocol.c` | 256-byte ring, line buffer | receive interrupt, line assembly, dispatch | UART interrupt, main loop |
| firmware radio `lora_service.c`, `sx1278.c`, `wifi_service.c`, `esp_uart.c` | state and deadline per service, response buffer | poll, send, receive, switch | the main loop; the ESP's UART interrupt |
| firmware sensors and display `Drivers/adc.c`, `dht11.c`, `oled.c` | frame being read; page, frame and shadow buffers | read, update | the main loop |
| firmware start-up `User/board.c`, `main.c` | latches and directions of the pins | initialisations | reset |
| V1.1 local dashboard `flask_serial.py`, `state_store.py`, `flask_app.py` | pending requests, id counter, port; latest state, subscribers' queues | command, serial worker, disconnect; publish, subscribe, stream | request threads, the worker |
| archived C51 firmware `Legacy_C51/` | key records, page, thresholds, outputs, display cache, tick counter, SBUF | key_scan, tasks of the main loop, timer interrupt, printing | its main loop, timer 0 |
| configuration, accounts, front end, deployment, V1.0 dashboard | - | - | see section 5 |

What makes it hard:

* *Two threads in the gateway.* paho calls `on_message` in its network thread, which
  then publishes - and waits for acknowledgements only that thread could read. The
  serial thread publishes too, so two drains work through snapshots of one table.
  The serial port is tested without the lock and used later.
* *Stops and restarts.* A command is executed, remembered and answered in three
  steps; the broker delivers it again when the process stopped in between. The web
  service commits a row, publishes, and updates the row.
* *Unreliable delivery.* QoS 1 repeats; clean sessions lose; two web processes share
  a client id and take the connection from each other; the serial line garbles.
* *Time.* Timeouts race answers; the MCU's deadlines live on a 32-bit millisecond
  counter that wraps; a short and a long key press differ by a count; the 8051 reads
  its tick counter a byte at a time and loses ticks while interrupts are off.
* *Devices that work by themselves.* The LoRa chip leaves transmission and takes packets
  in when it likes; the ESP answers late, out of step or never; a sensor stops in the
  middle of a frame; the display's bus fails and nobody looks.
* *Unlocked sharing.* The local dashboard's request threads, its serial worker and its
  event streams share a counter, a port and queues, attribute by attribute.
* *Bounds.* The spool evicts, the table of completed commands is pruned.

What would make each part correct: a command reaches the MCU at most once, and the
status reported of it is what happened; nothing leaves the spool but by
acknowledgement or justified eviction, and each topic keeps its order; a command is
never in flight without its audit row, and the row never shows a false outcome; an
override ends at its time and not before; the pins show the decisions; thresholds
stay in order; keys do what the manual says; the drivers' idea of a chip, a display
or a clock agrees with the chip, the display and the time; an answer goes to the one who
asked; nothing is switched on by a reset.

## 2. The modules

Every module has one action per operation or per step at which another actor can
come in between. `PROJECT.json` maps each definition to its lines.

**Spool** (`gateway/spool.py`, the table `mqtt_spool`). `rows` and `nextId` are the
table and its AUTOINCREMENT sequence. Each method is one SQLite transaction under the
lock, so `Enqueue` (insert *and* trim) and `Acknowledge` are one action each. A payload
is its topic (`Kinds`), which gives its priority. It is the abstract specification
(`SpecSpool`) that MqttTransport is shown to implement.

**MqttTransport** (EXTENDS Spool). `publish` and `drain` run in thread `t` in
`{"net", "serial"}`: `PublishNext`, `DrainOffline`/`DrainOnline` (the test of
`connected`, and `peek`), `SendFirst` (`client.publish`, which keeps the message in
`out` even without a connection), then `AcknowledgeItem` or `WaitTimesOut`. `thr[t]`
holds the pc, the publishes still to come in this callback (`script`), the rest of
the snapshot (`todo`) and the row being waited for. `Flush` and `PubAck` are paho's
loop, possible only between callbacks of the network thread; `Crash` leaves only
the table. `delivered`, `evicted` and `lastSeen` are history.

**CommandBridge** (`bridge.py`, `serial_transport.py`, the table
`completed_commands`). `net` is the network thread inside `handle` and `execute`:
the open-port test, the two steps of `_next`, the write under the lock, the wait,
the remembering and the publishing of the result. `worker` is the serial thread:
opening, its own GET, reading answers, noticing a failed port. `Stumble` is a message
that ends the network thread: JSON but no object, or a number that is not finite, raises
what `handle` does not catch. Lines travel in `toMcu` and `toHost`, and may be garbled. Lines
have no checksum: what noise leaves of one is acknowledged, having been carried out as
whatever command it now is, or refused (`acked` records that the MCU acknowledged the line, not
which effect it had), or is answered under an id nobody waits for, or not at all. The model
assumes that noise never makes the id of a line the id of another one in use. `completed_at` is kept as an age, because only its
order matters. History: what the broker was last told (`reported`), lines `sent`,
commands `acked` by the MCU, results `forgotten` by pruning, commands `interrupted` by
a crash between writing and remembering.

**RemoteCommands** (`issue_command`, `MqttCommandPublisher`, `RemoteMqttWorker`). `row`
is `commands.status`, `web` the HTTP thread, `queue` and `online` paho in each web
process, `results` what the broker holds for the worker. The gateway is `handle`
as it is seen from here: it reports received once per new command, one terminal status,
and that status again on redelivery (shown in CommandBridge, up to pruning). `TopicDevice`
is the code's `split("/")[4]`.

**AppControl** (overrides, outputs, pins). `Tick` is the interrupt; everything else is
an activity of the main loop, and ticks also come between the fields of a CTRL command,
whose handler reads the clock per field. `Plus`, `Since` and `Expired` are uint32
arithmetic on a counter of `Width` values. Each activity contains the
`app_evaluate` and `actuators_apply` the code makes in it: `SetOverride` evaluates
and does not apply, `AcknowledgeCtrl` applies, `RefuseField` does neither. Readings and thresholds
are abstracted to the set of actuators they call for. The TTL a command carries is cast to
`TtlWidth` values, the code's uint16_t, before `Acceptable` looks at its range, so 65596
is accepted as 60 s; `OverrideEnds` is about the value that is kept.

**Panel** (keys, pages, thresholds). `ScanChanged` and `ScanUnchanged` are the two
halves of `key_scan` with main's branch on the event; `SetCommand` is SET with its
truncating casts. The levels read are arbitrary.

**HostLink** (`serial2_printf.c`, `command_protocol_poll`). `Receive` and `ReceiveBad` are
the UART interrupt, which comes between any two steps of the main loop; the steps
are `ReadErrors` and `ClearErrors` (the two halves of `serial2_rx_errors`), `CopyByte`
and `TakeByte` (the two halves of `serial2_rx_get`, with the assembly of the line
in the second) and `RingIsEmpty`, which ends the poll. A byte is its number in the
stream and whether it is `\n`, `\r` or another. Only the main loop touches the line,
so `process` needs no step of its own; its commands are in Panel and AppControl.
`taken`, `lost`, `processed` and `unreported` are history.

**LossyFifo** is what HostLink's ring promises: a bounded queue that loses a byte only
when it is full. The refinement maps the queue to the slots from `tail` up to `head`.

**Buzzer** (`buzzer.c`, and the line of `actuators.c` that drives the same pin).
`buzzer_set_mode2` is the sequence of its writes (`Program`), to its two variables and to
TIM3's registers; `BuzzerWrite` does the next one, and `TIM3_IRQHandler` comes between
any two. `TimerUpdate` is the timer. LED3 is on PC14, which the handler toggles in two
of the modes.

**Board** (`board.c`, and what the drivers' initialisations do to the pins). `StartUp` is
the sequence of register writes from reset to the main loop, `BoardStep` the next one
and `BoardReset` a reset at any instant. `Drives(p)` says that the outside sees the pin
at its active level. The relays, LEDs and keys of `board_config.h` are constants, with the
assumption that no two devices share a pin.

**Dht11**, **Adc**, **Oled** (the drivers of the same names, in both firmwares). A DHT11
frame is five bytes, whose bits have the weights `DhtWeights`, read bit by bit; the sensor may fall silent at any
bit and a bit may be misread. The STM32 driver gives up, the archived one goes on reading a
silent line. Adc holds the average of eight conversions and the shifting-in of the ADC0832
(`CoarseWeights`). **Bits** says what the weights of a number's bits are.
In Oled every transmission may fail, in part or altogether, while `shadow` is what the
driver believes the display to show.

**Lora** (`lora_service.c`, `sx1278.c`). `lora_service_poll` is up to six steps (`Service`,
`LoraReceive`, which reads the flags, `LoraClear`, which writes them back, `Fetch`, `Pong`,
`Telemetry`) because the chip's own events
(`ChipSent`, `ChipReceived`) come between them; commands come between two polls.
`lorastate` is the driver's state, `chip` the mode of the SX1278.

**Wifi** (`wifi_service.c`, `esp_uart.c`). `WifiPoll` is one turn of the state machine.
What the module sends is words (OK, ERROR, `>`, SEND OK ...); `Within` is what
`strstr` finds in a word, and a word of an earlier exchange reads as one of
this. Answers come in the order of the commands, from `answers` to `uart` to
`response`, late or never.

**C51Keys, C51App, C51Tick, C51Serial** (the archived firmware). The first two are its
keys, and its thresholds, outputs, display cache and report, as the tasks of its main loop.
C51Tick is the tick counter between timer 0 and `system_millis`, with interrupts off
while it is read and while the DHT11 is. C51Serial prints numbers, turn by turn of the two
loops of `serial2_send_uint`, through SBUF, where a character written too early takes
the place of the one before; `number51` is what the digits on the wire denote so far.

**FlaskSerial** (`flask_serial.py`). `call[c]` is a request thread inside `command()`: three
steps of the unlocked counter, two of the check, registration, write, wait. The worker
has its own GET, which takes an id and is acknowledged like a command, and
`FlaskDisconnect` drops the port in three steps. `waiting` is `self.pending`, `told` the
callers whose event is set, also before they wait for it.

**StateStore** (`state_store.py`, `/api/v1/events`). Snapshots are numbered by the store's
revision. `publishing[p]` is a publisher's pc, `unserved`, `serving` and `dead` its
local lists of queues. Updating is under the lock; `Enumerate`, `LookAt` (full()), `Evict` and `Put`
are not, so publishers and readers interleave between them.

**MCPanels, MCOutputs, MCLinks, MCHosts** are the runs' modules: each puts components that
share no variable side by side. The initial state chooses one, `part`, and only that
one moves, so that the states are the sum of theirs and every behaviour is one of a
component's own; a property of one component is checked in all of its behaviours, and in the
others trivially. **MCRemoteCommands, MCAppControl, MCPanel** give constants that a .cfg
cannot state.

**SpoolProofs, MqttTransportProofs, CommandBridgeProofs, RemoteCommandsProofs,
AppControlProofs, PanelProofs, HostLinkProofs, DeviceProofs** hold the proofs; DeviceProofs
those of the rest of the archived firmware, the drivers, Lora, Buzzer, Board and the local dashboard, and
HostLinkProofs those of Wifi and C51Serial too.

Mutants, the operators named in `PROJECT.json` and marked in the modules, are
plausible bugs of the mapped definitions: with one in place, TLC finds the named
property violated, so the property says something about the code.

## 3. The runs

Passing runs:

| run | what it asks | bounds | size |
|---|---|---|---|
| bridge | At most one execution per command; succeeded means an ACK and failed means none; a terminal status is final; received is followed by another report unless the process stops or the network thread dies. | 2 commands (one invalid), 3 deliveries in all, 1 port failure, 1 crash, results pruned to 1 | 6 x 10^5 states |
| hosts (MCHosts) | The gateway: nothing is lost silently, first deliveries keep their order per topic, evictions are justified, and the table changes only as Spool says (refinement). The local dashboard: an answer is to one's own request unless an id was given twice; an open stream has the newest state unless publications overlapped. The remote server: no command without its row, no false outcome, no row at queued but while it is handled or because its process stopped. | table of 2 rows, 4 inserts, snapshots of 2, 1 disconnection, 1 crash; 2 request threads, 1 disconnect, 1 opening; 2 publishers, 1 stream, 4 publications; 2 web processes, 2 commands, 1 disconnection, crash, loss and repeat each, 2 results with the broker | 1.9 x 10^6 |
| control (MCOutputs) | Overrides end in time and not early over any number of wrap-arounds, the pins and the buzzer follow. The buzzer does what it was last told wherever its interrupt falls; no output is on at any instant of start-up; no DHT11 reading but what was sent; conversions are nearest. | fan and buzzer, TTL limits 2 and 1, a counter of 9 values, service every tick and one tick late, CTRL of up to 2 fields, TTLs of which two are out of range before the cast; all modes; all pins; bytes of 2 bits; converters of 5 and 3 bits | 1.9 x 10^6 |
| panel (MCPanels) | Adjustments accepted, bounces ignored, one step per hold. Undisturbed pages of the display are current. Archived firmware: every press is seen and seen once, thresholds in order, report and screen true, tasks due on time. | limits of two or three values, 20 ms scans, a long press of 80 ms, a count of 7 bits, 8 SET commands; 3 views of 3 pages; 3 keys; temperatures and ADC units of two values, 2 changes between two displays; a counter of 2 digits of 3 values, periods 1 and 3 | 8 x 10^5 |
| hostlink (MCLinks) | The ring is a bounded queue (refinement), a loss is reported, only whole lines are processed. WiFi: an upload counts only when confirmed, no wait is for ever. LoRa: driver and chip agree, a transmission ends. Archived firmware: what is printed denotes the number. | 3 slots, a line buffer of 3, 5 bytes of any kind; deadlines of 1 tick, a module up to 4 words behind, 2 switches; a period of 3 ticks; radix 3, words of 128 values, 5 digits | 5 x 10^5 |

The bounds let the interesting cases happen: a table smaller than the inserts evicts
and a snapshot smaller than the table leaves rows behind; a second delivery meets a
remembered, a pruned and an interrupted command; two threads in `drain` can each hold
the other's rows; a counter of 9 values wraps within one override; a 7-bit `held`
would overflow within one hold if its cap were dropped; five bytes
fill and wrap a ring of three slots and make overlong, empty and torn lines; SET carries values
below, above and beyond a field's type; four publications fill and overflow a queue of two;
two requests and the worker's GET are enough to share an id; two digits of three values
carry at every third tick and wrap at the ninth; a word of 128 values in radix 3 needs
all five digits, as 65536 in radix 10 does; a TTL of three values takes -1 and 3 for 2
and 0, as uint16_t takes -1 and 65536 for 65535 and 0. The archived
firmware's humidity thresholds have one value in the run, as they go through the
same code as the temperature's; that they stay in order for any limits is proved. The
counter's width in `control` is the smallest the assumption `WidthAssumption` allows,
which is the code's situation magnified: there the longest TTL is 1.8 x 10^6 of
4.3 x 10^9 ticks.

Type invariants, `SpoolBounded`, `ThresholdsInRange`, `PongIsSent` and
`FlaskTableIsEmptied` are in no run: they are theorems (section 4).

Runs that end in a violation, each a disagreement of the code with a statement of the
repository:

| run | statement | what happens |
|---|---|---|
| bridge_open | "if serial is temporarily unavailable, the Gateway reports a failure" | `serial.write` raises a SerialException that no handler of `handle` matches; the network thread ends and the command stays at received. |
| transport_backlog | the offline queue persists through a network failure | Without a new event nothing drains again after a wait timed out: `_on_connect` waits in the only thread that could read the acknowledgement. |
| transport_retained | the retained state is the latest | Both threads drain from snapshots; an older state is sent after a newer one and stays. |
| remote_failed | 202 after publishing, 503 otherwise | A command reported as publish_failed stays in paho's queue and is executed on reconnection. |
| remote_outcome | the result is persisted | The worker compares the device with the wrong part of the topic and rejects every result. |
| adc_range | "ADC values are uniformly 0~1023" | Eight readings of 4095 give (4095 + 2) >> 2 = 1024. |
| panel_long | "KEY1 long press: enter or leave the settings" | The release of a long press counts as a short one and re-enters the settings. |

`CHECK_DEADLOCK FALSE` stands in the configurations of the Python programs, where the
model does stop: once the bounded environment has delivered all its commands and the
threads are idle, or the network thread is dead. The firmware never stops, and its
runs check deadlock; HostLink, whose bytes are bounded, can always poll.

**Fairness.** Safety runs use none. CommandBridge's `FairSpec` makes the two gateway
threads go on (WF), because the operating system schedules them and every wait in them has
a timeout; it owes nothing on behalf of the broker, the MCU and the cable, and
opening the port is not owed because the adapter may stay away. MqttTransport's
`FairSpec` adds that callbacks for connections come (WF) and, with SF on `NetLoop`,
that an acknowledgement which is possible again and again comes: it rules out
blaming the timeouts, and `BacklogIsDelivered` fails all the same. RemoteCommands'
`RemoteFairSpec`, used for `OutcomeIsRecorded`, lets an HTTP thread that has begun run on,
the gateway finish, paho reconnect and send, and the worker work, so that the violation
is the code's.

LinksSpec owes what the main loop and the clock owe: that `wifi_service_poll` and
`lora_service_poll` are called again (WF on `WifiPoll`, `LoraPoll`) and that the tick
counter goes on (`WifiTick`); `WifiMoves` needs nothing of the ESP module, which is the
point of its deadlines. For `LoraTxEnds` it also owes `ChipSent`: the driver has no deadline
of its own, so a chip that never reports TxDone keeps the link transmitting for ever.

Exceptions inside properties are part of what they say. `AtMostOnce` excludes
commands interrupted by a crash between writing and remembering and commands whose
result was pruned: there the code does execute again on redelivery.
`SucceededIsAcked` excludes ids given twice: `_next` increments and reads the counter
in two steps without the lock, and two threads can be in it. `PinsFollow` excludes the time
after a CTRL command that failed half way, until the next activity applies.
`BuzzerFollows` excludes a BEEP command in force.

`FailedIsNotAcked` excludes shared ids too. `FlaskAnswerIsOwn` excludes callers that share an id
with another or with the worker's GET, `StoreNewestIsSeen` overlapping
publications, `OledPageIsCurrent` pages whose transmission failed (the driver looks at no
result), `DhtAcceptedIsSent` the archived driver on a line that went silent (it
reads zeroes, whose checksum is right), `C51ReportIsTrue` the time between a key and the next
reading, `QuietStart` a radio's supply between two writes: its pin is made an output
before it is written.

Observations that contradict no statement of the repository and so have no run:

* Gateway: a command result has priority 1, below the retained state's 5, so a full
  spool evicts results first (the test inserts them with 10).
* Control: a BEEP command sets the buzzer without a time to live; the buzzer's
  interrupt toggles PC14, LED3's pin.
* LoRa: telemetry that falls due behind a pong of the same poll is not sent though
  `last_tx` and the sequence move on; LORA PING while sending answers ERR; neither
  `lora_service_configure` nor `wifi_service_configure` has a caller.
* WiFi: the OK of ATE0 is taken for that of the join; a module that is on is not restarted
  by another power command, and NO_AT is left only by switching; "WIFI DISCONNECT"
  contains the CONNECT that is waited for. A module whose answers come so late that
  six words are behind can have an upload counted on the SEND OK of an earlier attempt:
  the prompt of that attempt is taken for the one of this (TLC finds it with `WifiQueue = 6`,
  by three timeouts and three lost networks in a row). `UploadIsConfirmed` excepts
  requests sent on such a prompt, by the history variable `prompted`, and is then a
  theorem for a module however late.
* Archived keys: `C51PressIsSeen` has a bound for each key that holds for the four of the
  board; with five keys pressed and released in turn the last can wait longer.
* Analog: the archived firmware reads air quality and soil from one channel of the ADC0832.
* Local dashboard: `disconnect` leaves the port's name, so the worker opens it again;
  a stream can be sent older snapshots after its first line; a live subscriber can be dropped
  when publishers race or the reader drains between `full()` and `get_nowait()`; a stream
  closed before its first line stays registered.

## 4. The proofs

All theorems hold for every value of the constants that satisfies the named
assumptions, and follow one pattern: an inductive invariant `IInv`, `Init => IInv`,
one step of `IInv /\ [Next]_vars => IInv'` per action, and the property from `IInv`.

* **SpoolProofs.** `TrimBounds`: the kept rows map one to one into the ranks
  `overflow .. depth - 1`, so at most `MaxRows` remain, whatever table trimming
  starts from. It needs finiteness and unique ids, which are invariant because ids
  come from a growing sequence. From it `SpoolStaysBounded` and `SpoolEvictionIsJustified`.
* **MqttTransportProofs.** Every step of the transport is a step of Spool or leaves the
  table alone, so Spool's theorems hold of it; and nothing is lost
  silently, because a row is acknowledged only in pc "acked", where it is in
  `delivered`. First deliveries are in order because of `OrderInv`: what is earlier than a
  row paho holds, and of its kind, has been delivered, or is still in the
  snapshot the thread goes through from its front, which holds all that came before the
  rows it took (`PeekIsPrefix`).
* **CommandBridgeProofs.** At-most-once execution needs that a command in hand is not
  remembered, and that one that was written is in hand, remembered, forgotten or
  interrupted; and that a terminal status is remembered before it is
  published. What a status means needs the answers: ids grow with every command
  (`IdInv`), so a line in flight is there once and an answer on the wire is `Founded` on what
  the MCU did with the line of that id; `MeaningInv` carries `Claim`, what
  "succeeded" and "failed" assert, from the answer through the table to the report.
* **RemoteCommandsProofs.** `Audited` needs that every HTTP thread past its first
  step has a row; `OutcomeIsTrue` needs that every terminal result under way is the
  gateway's, which never leaves a terminal status; `QueuedIsHandled` is inductive
  with the types: a request cannot end without filing what became of it.
* **AppControlProofs.** `OverrideEnds` is not inductive. The invariant says that
  `until - ticks - left` is 0 or one turn of the counter, that at least one tick was left
  at the last service, and that the time since then is bounded. `ExpiredIsExact` turns
  that into: `expired` is true exactly when no time is left. The assumptions are
  that the main loop comes round (`MaxDelay`) and that the longest TTL and the delay
  are below half the counter's range.
* **PanelProofs.** `ThresholdsInRange` is inductive with the type of the thresholds;
  the rest needs `KeysInv`, which counts the equal readings behind `held`, a settled
  level and a step. The assumptions are those of the constants in `key.c` and
  `board_config.h`: a long press beyond one scan, a cap beyond 40 ms and below
  the width of `held`.
* **HostLinkProofs.** `LinkRingIsFifo` is a refinement proof: a byte stored at `head` is
  `Append` to the queue (`StoreAppends`), moving `tail` is `Tail` (`TakeRemoves`), over
  both ways the occupied slots can lie around the end of the ring. It needs `HalfTaken`:
  between copying a byte and moving `tail` the ring is not empty and the byte is still
  the one at `tail`, whatever the interrupt does. The only assumption is a ring of at
  least two slots. `LinkLinesAreWhole` carries the whole history: the lines of the bytes
  taken do not change when a byte is appended, except that an `lf` ends one more, and
  `LineInv` says that the line under way is what was taken since the last `lf`, or has
  outgrown the buffer. `UploadStaysConfirmed` is about Wifi: answers come in order,
  so behind a prompt to this upload there is no word of an earlier one
  (`PromptIsBehind`), and a request sent on it hears none (`RequestIsAnswered`).
  `WireSaysItem` is about C51Serial, for any radix: `SaysNumber` says that each digit in the
  buffer is the remainder of a value of the first loop (`values51`), so the second loop,
  which multiplies up on the wire, comes back through the same values to the number.
* **DeviceProofs.** Parts that share nothing. The archived panel: `AdjustInLimits`
  says that a key leaves its field within limits computed from the partner's value, so
  each pair of thresholds stays in order for any limits; report and screen need that the
  cache and the last reading agree while no key has come between. The archived keys:
  `KeysInv51`, which ties a key's counters to what was read, so that a press is
  reported once; and `WaitInv`, which bounds a press's wait by the samples its key still
  needs and the keys before it that can have had an event in so many scans: a key that
  had one needs at least six samples to the next (`ToEvent`), so with four keys or fewer none
  comes twice. The archived clock: `C51TickInv`, that the counter less a task's last run is the
  number of overflows since, less the lost and the pending one, to one tick; it holds of
  the half-read counter because interrupts are off from the first part to the
  last. LoRa: `LoraInv`, that driver and chip are in step between the
  steps of a poll whatever the chip does by itself; then every ping taken from the chip
  is answered before the next poll. The local dashboard: `FlaskInv`, that an id in
  the table, on the wire or in an answer is the id of a caller that has one, or of a GET; then an answer
  is to one's own request unless the id was given twice, and a table without callers is empty.
  The event streams: `StoreInv`, that while no publications overlap every registered stream is
  served or the one publisher has still to come to it, its snapshot being the newest.
  The buzzer: `BuzzerInv`, that the writes of a call that are done have had their effect; the
  mode is written first, so from then on the handler leaves the pin of a silent mode alone.
  The display: shadow and glass agree on every undisturbed page, those skipped included.
  The sensors: what was shifted in and what is left to send make up what was sent
  (`DhtAdds`, `AdcInv`), by the lemmas on weights of Bits; a misread bit changes one byte by
  less than the modulus, so the sum cannot agree (`RemainderTells`).
  Start-up: `BoardInv`, that latches and directions are what the writes done so far make them,
  and `Sound`, built up over the segments of `StartUp`, that an LED's latch is written before
  its direction and a radio's right after; then nothing is driven but a radio for one instant.

Only model-checked: `ReceivedEnds`, `WifiMoves`, `LoraTxEnds`, which are
liveness properties under fairness and outside this prover; every other property of a passing
run is a theorem. No theorem rests on an induction over data: where a property is about what a loop
computes (digits, bits, lines), the loop is modelled turn by turn and the induction is that
over the steps.
`PROJECT.json` lists the theorems.

## 5. Not modelled

* *Configuration and entry points* (`config.py`, `__main__.py`, `wsgi.py`): values read once
  before anything runs.
* *Accounts, roles and queries*: each request is one transaction of the database, which
  serialises them; nothing is kept between two requests but the rows.
* *Wire protocol helpers* (`protocol.py`, topics, parsing of a line): pure functions;
  where a property depends on one, as on `TopicDevice`, it is in the module that uses it.
* *V1.0 dashboard, web front end, deployment and broker configuration*: a superseded copy of
  the local dashboard, browser code and settings, without state shared with the rest.
* In the modelled components: `GatewayService.stop`, which closes the spool under running
  threads (the crashes of the models cover the loss, not the exceptions);
  demonstration mode, `connect()` and `stop()` of the local dashboard; waveforms, registers
  that only configure, fonts and drawing; the indicator LEDs but LED3.

No model has real time: a timeout may come at any moment, so properties of durations (a
command times out because its answer waits behind a publish) are out of reach so far.

## 6. The plan

Order: the path of a command first, because a wrong execution or a wrong report is
the worst the system can do; then the device; then the compatibility programs.

1. *Done*: Spool, MqttTransport (composed with Spool), CommandBridge, RemoteCommands,
   AppControl, Panel, HostLink (shown to implement LossyFifo), with their proofs.
2. *Done*: Wifi and Lora, the polled state machines with deadlines; the drivers Dht11, Adc,
   Oled, Buzzer and Board; the archived firmware.
3. *Done*: the local dashboard, FlaskSerial and StateStore.
4. CommandLifecycle: RemoteCommands composed with CommandBridge over a QoS 1 broker,
   implementing an abstract command that is issued, executed at least zero and at most
   one times unless interrupted, and reported. GatewayTiming: deadlines of the two
   threads while they wait in each other's way.
5. *Done*: the safety properties of the archived clock, keys and printing, of the drivers, the
   event streams, the WiFi link and start-up as theorems.
6. Theorems: the safety of CommandLifecycle.
