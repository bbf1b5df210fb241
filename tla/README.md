# Verification of the GD32F303 panel host firmware

The repository holds the firmware of a panel host: a GD32F303 board that
connects key panels and a display on serial buses with a cloud server behind a
W5500 Ethernet chip. It stores scenes, key bindings and timer tasks in its own
flash and downloads its own updates. There is no operating system. One
superloop (`src/Template/main.c:29`) alternates `app_timer_poll` and
`app_eventbus_poll` for ever; interrupts (USARTs, DMA, TIMER6 every
millisecond) run between any two of its instructions; the network chip and the
flash keep state of their own.

This directory holds TLA+ modules translated from that code, TLC
configurations that check them on small instances, and TLAPS proofs of what
matters most for every value of the constants. `PROJECT.json` lists the
components, the runs, the lines each definition models, the hazards and the
findings.

Contents: 1 [the system](#1-the-system) - 2 [the modules](#2-the-modules) -
3 [the runs](#3-the-runs) - 4 [the proofs](#4-the-proofs) -
5 [findings](#5-findings) - 6 [order of work](#6-order-of-work) -
7 [what is not modelled](#7-what-is-not-modelled)

## 1 The system

Only `src/Source` and `src/Template` are the program. `src/Firmware`,
`src/Examples`, `src/Utilities` and `src/Doc` are the vendor's package;
`cjson`, `rtt` and most of `w5500/ioLibrary_Driver` are third-party libraries,
of which MQTT, DNS and DHCP were changed here.

| component | state | operations | hard because | correct when |
|---|---|---|---|---|
| **Event bus** `app_evenbus/app_eventbus.c` | ring of 16 events, head, tail, count; handler table | `subscribe`, `publish`, `poll` | the USART interrupts publish into statics that the superloop reads, changes and writes; handlers publish while the poll runs | FIFO, nothing lost or repeated, each handler called once per event, every event is dispatched |
| **Software timers** `app_timer/app_timer.c` | pool of slots; `system_ticks` | `start`, `stop`, `poll`, millisecond interrupt | the interrupt reads slots half stored; callbacks stop and start timers, themselves too; the counter wraps | one live slot per name, no start lost, never early, repeating timers keep firing |
| **Public configuration** `app_public_config/app_public_config.c` | scenes, key bindings, group bindings, timer tasks, in RAM and in flash; counts of three of them | `set_*`, `del_*`, load, save | every save erases and rewrites a whole table; erase, program or power may fail; deletions treat flash and RAM differently | the counts describe the tables, one entry per scene or key, a restart changes nothing saved, a deleted binding is gone |
| **Flash driver** `bsp_flash/bsp_flash.c` | flash pages | `erase_page`, `write_word`, `write_page`, `read` | partial failure, power failure | see the two components that save |
| **Firmware update** `app_network_model/app_http_ota.c`, `app_md5` | state `ota_flag`, `download_step`, the answer collected in `http_buf`, the packet counter, the OTA area | `app_ota_check`, `timer_do_ota` (report, get task, download, report, save), `timer_timeout` | the socket changes between register accesses; name resolution shares socket and buffer; timeouts and resets at any moment; pages of an earlier attempt stay in flash | only whole images are flagged, every download ends, version and image agree |
| **Device information** `dev/dev_info.c` | version, key, OTA flag, network settings in one page | load, `dev_set_save_device_info` | saved in place: a cut save loses everything | the announced version is the installed one |
| **Network link** `app_network_model.c`, `wiz_interface.c` | link status, DHCP lease, task flags, error counts | `app_network_task`, link events, MQTT task, HTTP task | cable in and out during any exchange; error counters; one `ethernet_buf` for everybody | the link comes back after any fault |
| **MQTT client, DNS, DHCP** `w5500/ioLibrary_Driver/Internet` (changed) | protocol state in statics, heartbeat flags | `MQTTYield`, `ConnectNetwork_nb`, `DNS_run_nb`, `DHCP_run` | statics outlive abandoned attempts; two users of one DNS state | a lost server is noticed, an attempt can be started again |
| **Cloud messages** `app_network_model.c` | none of its own | parse JSON, publish events, answer | formatting | each message has its effect once |
| **USART drivers, host frames** `bsp_usart.c`, `app_protocol.c` | receive buffers, DMA, direction and enable pins | receive interrupt, DMA interrupt, transmit | buffers go by reference through the event queue | a handler sees the frame that raised the event |
| **Panel and extension protocol** `app_public_protocol.c` | frame buffers, executed scene, bindings in progress | key presses, 30 s timer task, status frames | DMA sends a buffer that is rebuilt; wait for a pin without bound | a task is executed once when due, frames go out whole |
| **Display protocol** `app_display_protocol.c` | menu page | keys of the display | page arithmetic | a key executes the scene on the page |
| **Real-time clock** `app_rtc.c`, `bsp_i2c.c` | registers over I2C | read, set | registers read one after another | the time read is one the clock showed |
| **Superloop, tick, watchdog** `main.c`, `systick.c`, `gd32f30x_it.c`, `app_watchdog` | - | loop, delays, feeding | blocking calls against a 3 s watchdog | the loop goes round in time |
| **Host board logic** `dev_public_host.c`, `dev_manager.c`, `bsp_board.c` | LEDs, buzzer, temperature, keys | timers and events | mostly input and output | - |
| **Token and helpers** `app_token.c`, `app_base.c` | none | encoding | formatting | - |
| **Disabled code** `app_w5500.c`, `bsp_spi_dma.c`, `app_dns_model.c` | - | compiled out or never called | - | - |

How they interact: interrupts and timer callbacks *publish* events; the poll
calls every *subscriber* with every event; handlers and callbacks *start and
stop timers*, *set configuration* and *send*; the network's handlers start the
timers that drive MQTT and the update; the update saves device information and
*resets*, after which the boot loader (not in this repository) installs a
flagged image. State that is shared without a lock: the ring buffer and the
timer slots (interrupts), receive buffers (interrupts and DMA), `ethernet_buf`
and `http_buf` (DHCP, DNS, MQTT and OTA), HTTP_SOCKET_ID (DNS and OTA).

## 2 The modules

Five modules say what a component promises and nothing of how: `EventQueue`,
`TimerSet`, `BindingStore`, `FirmwareStore` and `MqttSession`. They have no
pages, slots, sockets or indices. The module of the component instantiates its
promise with a refinement mapping, a run checks that it keeps it, and a theorem
says so for every value of the constants.

| promise | kept by | property | its state is read off |
|---|---|---|---|
| `EventQueue`: a bounded FIFO queue | `EventBus` | `FifoUntilRaced` | the window of the ring that the counter delimits |
| `TimerSet`: a set of timers that are on | `SoftTimer` | `ImplementsTimerSet` | the live slots that the poll will not end, and the start in progress |
| `BindingStore`: the bindings in force and a kept copy | `PublicConfig` | `BindingsKept` | the counted entries in RAM, and those flash would give the next boot |
| `FirmwareStore`: the version that runs, and one update at a time | `OtaUpdate` | `UpdatesInOneGo` | `ota_flag` and the saved flag of the boot loader |
| `MqttSession`: clients that live one after the other | `MqttLink` | `ImplementsSession` | how far the attempt of the last link event has come, and the client's flags |

`TimerSet` and `MqttSession` are kept without exception. `EventBus` keeps its promise
until an interrupt hits a read-modify-write (`raced`), `PublicConfig` until a
deletion leaves bindings in RAM (`stale`), `OtaUpdate` until a save of the device
information fails (`failed`). The first two are findings; the third is the price of
saving in place.

Models keep the code's names. Faulty variants (`\* (faulty variant)`) sit
before the definition they stand in for; they show that the properties notice
a plausible bug and are used by no specification.

### EventQueue and EventBus

`EventQueue` is the abstract promise: a bounded queue with `Accept`, `Dispatch`
and `Finish`. `EventBus` is `app_eventbus.c` one memory access at a time. The
variables are its statics, plus `pc`, parameters and two registers, because
`queueSize++` is a load, an addition and a store.

| code | actions |
|---|---|
| `app_eventbus_subscribe` | `Subscribe` |
| `app_eventbus_publish` in the superloop | `PublishCheck`, `PublishSlot`, `PublishHead`, `PublishSize` |
| `app_eventbus_poll` | `PollCheck`, `TakeSlot`, `TakeTail`, `TakeSize`, `HandlerReturn` |
| `app_eventbus_publish` in a USART interrupt | `IsrPublish`, one step, between any two others |
| not volatile: a value may be loaded again before it is used | `Reload` |

A handler is `pc = "handler"`: it may subscribe and publish, or return; `hi` is
the loop's index and `called`, a history, whom it has called for this event. A
publication remembers in `caller` whether a handler or the loop made it. The
refinement mapping (`Bus`) reads the abstract queue off the ring: the window of
`queueSize` slots that begins at `First`. An event joins, and leaves, when
`queueSize` is stored. `raced` records that an interrupt published between a
load and its store; every promise that this breaks says so.

Every interrupt is enabled with the same priority, `nvic_irq_enable(..., 0, 1)`
(`bsp_usart.c:73,93,117,176`, `app_timer.c:64`), so none interrupts another;
nothing masks them while the superloop is at work on the same data.

### SoftTimer

`app_timer.c`. A slot is `state`, `start` and `name` (interval, repeat flag and
callback always go with the name: every caller passes the same ones). `Tick` is
the TIMER6 interrupt. `Start`, `StoreState` and `StoreFields` are
`app_timer_start`: it stops the timer of that name, picks the first free slot,
reads the clock and stores the slot without masking TIMER6. The slot
is assigned as one structure: C leaves open in which order its members are
stored (`volatile` orders the assignments, not the members of one), so either
half may come first. `PollBegin`, `PollSkip`, `PollCall`, `PollReturn`, `RearmTime`,
`RearmState` and `Expire` are `app_timer_poll`, with its index. What callbacks
and handlers do with timers is a constant: scripts of `start`, `stop` and
`reset`, which `MCSoftTimer` takes from the firmware's callers.
`age`, `running` and `torn` are history. `mix` is the group of timers
that a behaviour uses, fixed from the start: timers that never touch each other
need not be interleaved in one run.

`TimerSet` is the promise. A timer is on when a live slot that will stay carries its
name, or a start is storing it; a slot that `app_timer_poll` will end when a
single-shot timer's callback returns does not count (`Ending`), so that the
call itself takes a single-shot timer off the set. `Handle`, `Start`, `Stop`,
`PollCall` and `PollReturn` are the set's operations; ticks, half stored slots and
the rest of the poll change nothing there.

`CallerAssumption` is what the firmware's callers keep to, and what
`ImplementsTimerSet` needs: the pool has a slot for every name in use (10 slots, nine
names), and a callback that stops or restarts its own timer starts only
repeating ones. Without the second a start may reuse the slot that
`app_timer_poll` is at; when the callback returns, the poll takes what is in the
slot for the timer it called, and ends it if it is a single-shot one.

### PublicConfig

`app_public_config.c` over `app_flash_write_word`. Four tables of entries with
two parts, the one that identifies an entry and the rest, in RAM and in flash.
A request changes RAM and starts a `job` (`SetScene`, `SetBind`, `SetGroup`,
`SetTasks`, `DelBind`, `DelScene`); the job erases page by page (`ErasePage`,
`DeletePage`) and programs part by part (`Program`), and may fail (`SaveFails`).
`Boot` may come at any step: a power failure during a job, a restart without.
The differences between the tables are the code's: the search for a scene runs
over the whole table, that for a binding over the counted entries; a group is
the same only if all of it is; the count of bindings is compared with
`SCENE_ID_MAX`; a deletion erases flash, ignores the result and clears the count
of *bindings*, whichever table it was for. A scene may begin on one flash page
and end on the next. `cut`, `gap`, `stale`, `deleted` and `before` are history
and say which guarantees a failed save, a half-erased table or a deletion voids.

The bindings and the groups fit one page; a group is compared as a whole, so a
group that a power failure cut in half counts as another group: it can be added
again, and be cut again, which is why `OneEntryEach` speaks of whole groups only.
`mix` chooses the tables a behaviour works on; tables share nothing but the
flash driver, which is busy with one of them at a time.

`BindingStore` is the promise for the key bindings: `Bind` puts one scene on a key,
then the kept set is emptied and filled again, and may be cut short. Scenes
and groups keep no such promise: a scene may be half on one page and half on the
next, and a group that is cut in half is another group.

### OtaUpdate

`app_http_ota.c`, the HTTP task of `app_network_model.c`, `DNS_run_nb` and the
device information.

| code | actions |
|---|---|
| `app_ota_check` and its callers | `Inform`, `HttpCheck` (`OtaCheck`) |
| `timer_do_ota`, all states that exchange one request and answer | `Request`, `NoAnswer`, `GotAnswer` (`SendPacket`, `Understand`) |
| `timer_do_ota`, OTA_DOWNLOADING | `RequestPacket`, `ReadPacket`, `StillOpen`, `PacketWritten`, `PacketRefused`, `AllDownloaded` |
| `timer_timeout`, NVIC_SystemReset | `Timeout`, `SystemReset` |
| power failure, watchdog, and the boot loader | `Reset` (`BootLoader`) |
| `app_network_http_task` with `DNS_run_nb` | `DnsQuery`, `DnsRepeat`, `DnsEnd`, `HttpCheck` |
| the MQTT task's use of the same `DNS_run_nb` | `MqttDns` |
| MQTT connected, upgrade message, cable out, network lost, settings from the bus | `MqttUp`, `SoftUpdate`, `LinkOff`, `ChipReset`, `SetInfo` |
| the W5500 and the server, at any moment | `Arrive`, `ServerCloses`, `ConnectionLost` |

`timer_do_ota` reads the chip several times per call; where what it reads may
change in between, the call is several steps (`pc`). Abstractions:

- An answer arrives in two parts, the header being in the first: enough to
  tell nothing, a beginning and the whole apart.
- The digest is injective: only the whole image of the announced version
  has the announced digest.
- Packets have a number and a version; a page holds parts of an answer, or
  garbage when the name resolution has written into the shared buffer. The
  server may answer the request for a packet with the packet, with another text
  under status 200 or 206 (a JSON error for one), which `app_parse_http_bin`
  writes and counts like a packet, or with another status, which it refuses.
- Saving the device information succeeds, or leaves the old page, a blank one
  (which reads as defaults) or the new one while the code believes it failed;
  a power failure in the middle is one of these. `failed` records it.
- The boot loader is external: it installs what is in the OTA area when the
  saved flag is set, and clears the flag.
- `connect()` may block longer than the watchdog allows; that is `Reset`.
- `app_timer_start` always finds a slot here (SoftTimer has the full pool), and
  timers fire in any order.

`FirmwareStore` is the promise to the owner: one version runs, and another gets
there only by being assigned, loaded, found whole, marked and installed; until
it is marked it may be given up and nothing has changed. The flag in the device
information is "marked", `ota_flag` says the rest.

### MqttLink

The part of `app_network_model.c` and `wiz_interface.c` that brings the link
up and keeps it: `wizinit_timer` (cable, DHCP), the key that asks for a
connection, the four events, `app_network_mqtt_task`, `app_network_http_task` and
`timer_do_mqtt`, with what they use of the locally changed `DNS_run_nb`,
`ConnectNetwork_nb`, `connect_nb` and MQTT client.

| code | actions |
|---|---|
| `wizinit_timer`, `wiz_phy_link_check`, `wiz_dhcp_task` | `Wizinit` |
| `dev_key_check` | `UserKey` |
| `app_networt_status`, board's handler of EVENT_NETWOR_OFF | `LinkOn`, `LinkOff`, `MqttConnect`, `NetworkLost` |
| MQTT_DNS_INIT | `MqttDnsQuery`, `MqttDnsPending`, `MqttDnsEnd` |
| MQTT_CLIENT_INIT: `ConnectNetwork_nb` over `connect_nb` | `OpenSocket`, `SendConnect`, `AwaitConnect`, `ConnectFailed`, `FirstConnected`, `ClientCreated` |
| MQTT_CLIENT_SUCC, `app_network_http_task` | `ClientSucc`, `HttpDns`, `HttpCheck` |
| `timer_do_mqtt` | `Connect`, `Subscribe`, `KeepAlive`, `KeepAliveNoAck`, `MqttError` |
| publications of the application | `Report` |
| cable, chip, server, time | `LinkDown`, `LinkUp`, `ServerAnswers`, `ConnectionEnds`, `Expire` |

`ran` is the round of the superloop: `app_timer_poll` calls no timer twice before
the events are dispatched. The statics (`dns`, `net`, `conn`) outlive what they
belong to, as in the code. Abstractions:

- A message handler is the topic it was registered for.
- The wait for an acknowledgement takes a second at most and the heartbeat is
  30 s, so that no ping falls due inside one.
- DHCP ends with a lease or goes on: what it exchanges is left out. It takes
  socket 0 for itself, also while an attempt to connect is using it.
- The server has an address other than 0.0.0.0, and the device information
  names at least one device (the early return without any is left out).
- `SlowPhy`: after a reset of the chip the PHY needs longer than the second between two calls of
  `wizinit_timer` to find the link. `LostIsRetried` rests on this; the code
  does too: without it TLC finds a client that is stranded with its loss.

`MqttSession` is the promise: an attempt, asked for by a link event, opens a connection
of its own and makes a client over it, which connects, subscribes and is lost at
most once. How far an attempt has come is `mqtt_task_flag` and whether
`ConnectNetwork_nb` has opened the socket since; sockets, events, timers and the
statics are below it.

### PanelBus

USART2 to the panels and UART3 to the extension boards (`bsp_usart.c`,
`app_protocol.c`), with the handler of panel frames and the execution of scenes
(`app_public_protocol.c`).

| code | actions |
|---|---|
| a panel sends; DMA into `rx2_buf` | `PanelPart` |
| USART2_IRQHandler, line idle | `IsrIdle` |
| DMA from `tx2_buf`; USART2_IRQHandler, all sent | `DmaHalf`, `IsrSent` |
| UART3_IRQHandler | `IsrSent3` |
| event handler, `app_panel_protocol_check` | `Poll`, `Check` |
| scenes asked for by cloud, task or display | `Request` |
| `app_build_panel_frame_by_sid`, `USART2_dma_send_data` | `BuildPanelFrame`, `NoScene`, `Send` |
| `UART3_send_data` | `RaisePin3`, `WriteExt` |
| the icons of the display | `Icons` |

Frames of panels have the part no checksum covers (bytes 0 to 2, the type
among them) and the rest; frames of the host have two halves, so that the DMA can
be between them. `owed`, a history, is the frame that `LastPressActedOn` is about:
one that came alone and entirely. It is owed until the handler has acted on it, or
until bytes of another frame get into the buffer, or until its event finds the
queue full of others and no earlier event is left to find it. Two timing assumptions are made: nothing
comes between the line being idle and the interrupt for it, and the last two
bytes of UART3 (2 ms at 9600 baud) are out before the icons are written (14 ms).
Frames of temperature panels, which are only printed, are left out.

Three things the model shows and no document of the repository contradicts: a mixed
frame does go out on the panels' bus when one key runs two scenes (83 bytes take 86
ms, the work in between 76 ms) and is followed by a whole one; a frame may be
acted on as the type of the frame that overwrites it; and UART3 waits on PD1, the
enable pin of USART4, which nobody raises, instead of its own PD0. The second is
worth spelling out. A key's frame is whole and its event queued; the first three
bytes of a knob's frame come into the same buffer; the host begins to send, which
turns its receiver off, so that the rest of that frame never comes; the handler
then finds the key's bytes 3 to 9, whose checksum is right, under the type KNOB, and
sets a group's brightness. The key is never acted on as a key. `LastPressActedOn`
therefore excludes every frame that another one has begun to overwrite.

### SceneControl

What makes the host execute scenes and what it shows: timer tasks and clock
(`app_public_timer_task`, `app_rtc.c`), the display's menu and alarm
(`app_display_protocol.c`), temperature and buzzer (`dev_public_host.c`), the
status tables and the frames built from them (`app_public_protocol.c`). All of it
is in the superloop, so a handler is one step; but the clock goes on between
the reads of its registers (`BeginCheck`, `FinishCheck`).

| code | actions |
|---|---|
| the clock | `Tick` |
| `app_public_timer_task`, `app_rtc_get_time` | `BeginCheck`, `FinishCheck` |
| clock and tasks set by cloud or host computer | `SetTime`, `CloudSetsTask`, `HostSetsTask` |
| keys of the display | `Turn`, `Enter`, `Back` |
| temperature | `Temperature` |
| a key's beep | `Beep` |
| scenes and extension status from outside | `RunScene`, `SetExtend` |

`HostSetsTask` also sets the clock, because the `case` falls through
(`app_public_protocol.c:104`); the time comes out of a message that has none, which
`EpochTime` stands for. A unit of time is 15 s: shorter than the half minute of
the check, longer than the 3 s by which the watchdog lets the superloop be late.
`DELAY` is that lateness in units, rounded up. The status table is indexed
as the code does it (`WrittenByte` for `StatusByte`); bytes beyond the table are
somebody else's memory and are not modelled. The level of the display's GIF,
icons, LEDs, dimmers, knob values, the keys that are voltages, and dates are
left out.

## 3 The runs

Each run answers one question; its configuration is the file of that name.
Bounds are scaled down from the code's (16 events, 32-bit ticks, kilobyte
packets) to the smallest instance where the interesting cases all happen.

| run | configuration | asks |
|---|---|---|
| `event_bus` | `MCEventBus.cfg` | Is the bus a FIFO queue? |
| `event_bus_race` | `MCEventBusRace.cfg` | *finding*: can an event be left behind? |
| `timers` | `MCSoftTimer.cfg` | Is every start kept, does no timer fire early, does feeddog go on? |
| `config` | `MCPublicConfig.cfg` | Do counts and tables agree, does a restart change anything, what does a power failure leave? |
| `config_delete` | `MCPublicConfigDelete.cfg` | *finding*: does a deleted binding stay deleted? |
| `ota_update` | `MCOtaUpdate.cfg` | Is only a whole image installed, is every page the answer to its own request? |
| `ota_ends` | `MCOtaUpdateLive.cfg` | Does every download end? |
| `ota_cut_short` | `MCOtaUpdateRace.cfg` | *finding*: can a packet be written before all of it has come? |
| `mqtt_link` | `MCMqttLink.cfg` | Does the link come back, from the losses of any layer, without leftovers? |
| `panel_bus` | `MCPanelBus.cfg` | Do the panels know the status, is a frame that nothing overwrites acted on, do all waits end? |
| `scene_control` | `MCSceneControl.cfg` | Are tasks executed in time, does the screen show what it should? |
| `scene_outputs` | `MCSceneOutputs.cfg` | *finding*: does a scene reach every panel and relay it controls? |

**event_bus.** Three slots, two events, one of them published by interrupts,
two handlers in a table of two, and a byte that wraps at 6. The queue fills,
wraps around several times, and overshoots. `Occupancy` ties the counter to the
indices and `FifoUntilRaced` checks the refinement of `EventQueue`: both as long
as no interrupt hit a read-modify-write. `SizeBound` (never more than one above the
capacity) and `CalledOnce` hold without that condition. `CalledOnce` follows the
loop over the handlers: it calls nobody twice, and when it ends it has called
everyone, those included that subscribed while it ran (`HandlerReturnEarly`, its
mutant, leaves out the last). `EventuallyDispatched`
is liveness: an event that was accepted reaches the handlers, although handlers
publish while the poll loops. Three slots are enough for every relation of two
indices (equal, next to each other, apart, wrapped); two handlers for one that
is known and one that is not.

**timers.** Two mixes, {feeddog, mqtt_task, http_task} and {do_ota, timeout, once},
in a pool of three, ticks modulo 3 and intervals of 1 and 2: the counter wraps
every few steps, and every slot is reused by every name. Each mix takes
timers that touch each other; `once` is a single-shot timer whose callback
returns, which the module offers and the firmware does not use yet (its one
single-shot timer resets the device). A start of all three names, and of one that
is still live, needs no fourth slot because `app_timer_start` stops its namesake
first: that is part of what `ImplementsTimerSet` checks (`PollReturnBlind`, its mutant,
loses a start that a callback made in its own slot). `NotEarly` allows for a tick
that hits a half-stored slot (`torn`), which a build that stores the state first
lets happen: the new state is then paired with the last user's start time, and the
timer really is marked early. What `NotEarly` shows is the wrap, not that race.
`PermanentKeepFiring` is the watchdog's timer: `feeddog` is never touched by
anyone after boot, and is called again and again whatever the others do.

**config.** Three mixes: scenes with tasks, groups, bindings. Tables of two (of one
for the tasks) and one more input than entries, so that a full table refuses one;
three flash parts per page, so that the second scene straddles two pages as scenes
do in the 2 KB pages of the chip. Requests, failures and power failures come in any
order and number. Symmetry permutes scene ids, keys and group addresses: the
module compares them with other entries of the same table, with `Blank`, and
never orders them or names one. The properties are about one state or one
step, none is liveness. `PowerFailureKeepsOldOrPrefix` looks at bindings and groups,
whose table is one page; a table of several pages does mix old and new entries, which
`gap` records and `CountedEntriesInUse` excuses. `BindingsKept` checks the steps of
the bindings' table against `BindingStore`, those of the other mixes as stutters; `ProgramShort`,
which leaves out the last entry, is caught because a save then completes with
less than is in force.

**ota_update.** Two versions of two packets, so that an abandoned download
leaves a page of another version, and a packet can land in another's place. The
server, the network, name resolution, resets, the timeout, SoftUpdate, ota/inform
and the cable act at any moment. Saves succeed here, so `failed` stays FALSE and
`UpdatesInOneGo` is checked at full strength: every step is one of `FirmwareStore` or
changes nothing there. `ota_ends` lets saves fail, and checks that downloads end all
the same; what else a failed save destroys no property denies.
`PagesInPlace` says whose answer a page holds, not that it is a packet: the code
looks at the status only, and what it wrote is told from a packet by the digest alone.
`ReadPacketAgain` and `UnderstandResumed` are the mutants that put a page in the
wrong place; `AllDownloadedUnchecked` flags an image that is not whole.

**ota_ends.** One version of one packet; a state machine that waits in
`download_step` 1 for a connection that is gone has nothing left but
`timer_timeout`, so `DownloadEnds` rests on the timeout being armed
(`UnderstandUntimed` shows it) and on its fairness.

**mqtt_link.** Two topics instead of five, so that the one that decides and one that
does not are told apart; error limits of one and two instead of five and ten, so that both
are met and missed; one press of the key (`MaxPresses`), because every press puts one more
event into the bus. Static address and DHCP are both initial states. `NoStaleSuccess`
follows the statics through abandoned attempts: in its mutant the name
resolution does not close the socket, and an attempt finds an abandoned one's connection. `ImplementsSession` says, among other things, why it does not
matter that keepalive notices a loss only once: no client is used after its loss
(`HeartbeatConnected`, which only sets the flag of the loss, is its mutant). `LossNoticed` and `LostIsRetried` are
liveness, the latter only if the cable stays in.

**panel_bus.** A key that two bindings match (two scenes are run one after the
other), a knob, and a key that none matches; two statuses; room for two events. Two
frames fill, overwrite and miss every buffer; nothing counts further.
`PanelsKnowStatus` and `LastPressActedOn` are about the state when everything
has come to rest, because in between both are false in the code as well. The second
compares what `Check` sets the superloop to do with what the frame was sent for: its
type and all its entries; an event that is handled with another frame's bytes, or finds
a frame an earlier event was handled with, must neither lose a frame nor change one.

**scene_control, scene_outputs.** A day of two hours of two minutes of four units:
every turn of minute, hour and day happens, and the check falls on every unit. Three
temperatures around the limit; two task lists with two tasks of one minute, a disabled
one and one of the day's last minute; three sub-frames of two panels, so that bytes
written for the last panels lie beyond the table. `TasksRun` excuses only a minute in
which clock or tasks were set. `AlarmRight` has two parts: heat is alarmed until it
is acknowledged, and the buzzer is on only in an alarm.

### Fairness

No run assumes that the network answers, that a key is pressed or that an
interrupt comes, TIMER6 excepted.

- *EventBus*: weak fairness of the steps inside publish and poll, because the
  processor does not stop between two instructions. Strong fairness of
  `PollCheck` and `HandlerReturn`: the loop enters the poll after every
  `app_timer_poll` however often callbacks publish, and a handler is finite
  code, so it returns although between its publications it need not be ready to.
- *SoftTimer*: weak fairness of `Tick` (the timer runs freely) and of the
  superloop's work (handlers and callbacks are finite). Strong fairness of
  `PollBegin`: main() calls the poll in every round.
- *OtaUpdate*: weak fairness of what `timer_do_ota` does between two accesses of
  the chip. Strong fairness of `Timeout`: nothing stops the timer, only a
  new task starts it again, and a task comes only after the state machine was
  idle; so its 60 s pass, and the poll then calls it, however many other callbacks
  run before. That the poll does this is checked in SoftTimer.

- *MqttLink*: weak fairness of the dispatches; strong fairness of `Wizinit` and of
  `timer_do_mqtt`, because their timers repeat and the poll calls a repeating timer
  again and again (`PermanentKeepFiring`); weak fairness of `Expire`, the passing of
  time. Nothing about cable, server or user.
- *PanelBus*: weak fairness of the DMA, of the two interrupts at the end of a frame
  and of what the superloop has begun. Panels need not send.
- *PublicConfig* and *SceneControl* have no liveness; a task's minute is a deadline,
  which `TasksRun` states as an action property.

### Deadlock

Checked in every run. Every component can always be asked to do something.

## 4 The proofs

Modules of proofs extend the module they are about; `tlapm` checks them to the
last leaf. The constants are only assumed to be what the code's
`#define`s and callers make them (`BusAssumption` of EventBus and PanelBus,
`TimerAssumption`, `CallerAssumption`, `ConfigAssumption`, `OtaAssumption`,
`LinkAssumption`, `SceneAssumption`; TLC evaluates them in the runs). Every invariant
and every action property of the passing runs is proved.

| theorem | says | by |
|---|---|---|
| `EventBusProofs!TypeCorrect` | types, for any size and events | inductive itself |
| `EventBusProofs!SizeBounded` | the counter never wraps, overshoots by at most one | `SizeInv`: what the register may hold in each window; interrupts only count up and never beyond the capacity |
| `EventBusProofs!HandlersCalledOnce` | `CalledOnce`: per event every subscriber once, whoever subscribes or publishes meanwhile | `CallInv`: whom the loop has called is the part of the table it has been through; no handler is in the table twice |
| `EventBusProofs!RingCorrect` | the ring between races | `RingOK`: where head and tail stand in each window, what the register and the slots they delimit hold |
| `EventBusProofs!CounterIsDistance` | counter = distance from tail to head | from `RingCorrect` |
| `EventBusProofs!ImplementsFifo` | the ring implements `EventQueue` until a race | each step of the bus is one of the queue, a stutter or a race; `Calm` collects the steps that move nothing, lemmas about `%` say what a store does to the window |
| `EventBusProofs!OnlyRacesLeaveBehind` | no event stays behind while the poll sees an empty bus, until a race: the limit of finding 1 | from `CounterIsDistance`: at a distance of zero head and tail are equal |
| `SoftTimerProofs!TypeCorrect` | types, with `Book` | `Book`: a start in progress excludes the poll, a live slot belongs to a timer |
| `SoftTimerProofs!NamesUnique` | one live slot per name | `NewIsAlone`: a start has stopped its namesake before it stores |
| `SoftTimerProofs!PendingNotEarly` | never early, across the wrap | `ActiveInTime`, `NewInTime`: until the interval is over, the elapsed ticks are the age |
| `SoftTimerProofs!PoolIsTimerSet` | the pool implements `TimerSet`: no start lost, no stopped timer back | `SlotInv` (`InUse`, `InCallback`, `HalfStored`) with `UniqueInv` and `Calling`: in a callback the poll's slot is still its own, or was filled again with a repeating timer. `PoolSuffices` is the pigeonhole principle over the unique names |
| `PublicConfigProofs!TypeCorrect` | types; the flash driver stays in its table | inductive with `Named` (the tables are functions) and the invariant below |
| `PublicConfigProofs!CountsRight` | counts say which entries are in use | `RamOK`, `FlashOK`: the counted entries are the first ones; `EraseOK`, `ProgramOK`: while a table is saved, its flash holds what is not yet erased, or what is already programmed |
| `PublicConfigProofs!EntriesOnce` | one entry each | the same invariant: an insertion finds the entry there is |
| `PublicConfigProofs!RestartHarmless` | a clean restart changes nothing | `SavedOK`: a saved table is the one in RAM |
| `PublicConfigProofs!OldOrPrefix` | the old table or a prefix of the new one | `EraseOK`, `ProgramOK` |
| `PublicConfigProofs!BindingsAreStored` | bindings, count and flash page implement `BindingStore` until a deletion | `BindIs`: which entry is whose; `InForceSize`: no more bindings are in force than are counted; a lemma for each request and each step of a save (`RequestStore`, `EraseStore`, `ProgramStore`, ...) |
| `PublicConfigProofs!RevivedByBootOnly` | a deleted binding comes back at a boot only: the limit of finding 2 | `BindsItsKey`: an insertion puts its own key, and no other, among the counted entries |
| `OtaUpdateProofs!TypeCorrect` | types, and the bound on `http_buf` | `Collecting`: what is in the buffer and what the connection can still bring are one answer at most |
| `OtaUpdateProofs!FlaggedImagesAreWhole` | `InstalledIsAnnounced` | `Saved`: only the digest's comparison leads to the save that sets the flag, and nothing writes to the area after it |
| `OtaUpdateProofs!UpdatesAreWhole` | device information, flag and boot loader implement `FirmwareStore` until a save fails | `Saved`, step by step; `SameStage` for the many that change nothing there |
| `OtaUpdateProofs!Driven` | `UpdateIsDriven` | inductive itself |
| `OtaUpdateProofs!PagesRight` | `PagesInPlace` | `PageInv`: a readable connection in a download brings the beginning and the rest of the answer to the current packet (`Connected`), and an undamaged buffer holds the beginning of one (`Collected`); what the answer is plays no part |
| `MqttLinkProofs!TypeCorrect` | types, counters at their limits | inductive with `LinkInv` |
| `MqttLinkProofs!AttemptsFresh` | `NoStaleSuccess` | `AttemptInv`: before an attempt has opened the socket, it is closed or the name resolution's, never one that can connect |
| `MqttLinkProofs!HandlersOnce` | `TopicOnce` | `ClientInv`: a client that has not been connected, or is about to subscribe, has no handlers |
| `MqttLinkProofs!LinkIsSession` | the state machines implement `MqttSession`: a client has a connection of its own attempt and is lost once | `StageInv`: how far `timer_do_mqtt` is tells what has become of the client; `ClientInv`: a lost client has no connection to come back on |
| `MqttLinkProofs!LossFound` | a ping timer that has expired over a broken connection stays so, and the next `KeepAlive` finds the loss | `KeepAliveFinds`; only traffic with the server winds the timer up |
| `MqttLinkProofs!LossNotStranded` | if `SlowPhy`, a lost client is never stranded | `RetryUnderWay` is inductive: of loss, reset of the chip, cable and link event one is still to come |
| `PanelBusProofs!TypeCorrect` | types, with `HasJob` | inductive itself |
| `PanelBusProofs!StatusKnown` | `PanelsKnowStatus` | `StatusInv`: the buffer, and what the DMA has fetched of it, is the status, unless the superloop waits with a newer one |
| `PanelBusProofs!ExtensionDriven` | `ScenesAreDriven` | `TailInv`: bytes are still in the shift register only while the icons are awaited, or behind a frame of `app_puublic_set_extend` |
| `PanelBusProofs!LastPressHandled` | `LastPressActedOn` | `OwedInv`: a frame that is owed is all that the buffer holds and is still counted, queued or being checked; `CheckActs`: a check that finds it so acts on it as its type |
| `PanelBusProofs!ExecutionProgresses` | the superloop gets through what it executes in a number of steps known when it begins | `Remaining`, a measure that nothing raises during an execution, and that the superloop, and whatever it waits for, lower |
| `PanelBusProofs!NotLeftDeaf` | the host is deaf exactly while it drives the bus, and never with the bus free | `Driving`, one part of `StatusInv` |
| `SceneControlProofs!TypeCorrect` | types; the menu has no place without a page | `ClockType`, `DisplayType`, `OutputType`, each by itself |
| `SceneControlProofs!PageRight` | `PageFollowsMenu` | inductive itself, action by action |
| `SceneControlProofs!AlarmIsRight` | `AlarmRight`: heat is alarmed, and only an alarm sounds the buzzer | inductive with the types |
| `SceneControlProofs!FirstServed` | `FirstOutputsServed` | `FirstBytes`: division with remainder says that no other panel's byte is that of one of the first sub-frame |
| `SceneControlProofs!TasksInTime` | `TasksOnTime` | `ReadInv`: the minutes read are the present ones or those just over |
| `SceneControlProofs!NoTaskMissed` | `TasksRun` | `RunInv`: the due task has been executed, or no check has begun in this minute, or one that will execute it; needs `PERIOD + DELAY < UNITS` |

The type invariants alone would not be inductive for the timers and the
update: a callback index that may be in the middle of a start, or a buffer that
a connection may go on filling, need `Book` and `Collecting`. `CounterIsDistance`
and `ImplementsFifo` need `RingOK` because in the windows between two stores the
counter is *not* the distance from tail to head. `PanelsKnowStatus` and
`LastPressActedOn` speak of quiet moments only, and their invariants say what is
true in the busy ones.

**Refinements.** Each of the five promises is proved the same way. The mapping is a
few state functions (`Bus!queue`, `On`, `InForce`, ...), and two kinds of lemma
do the work: one says which steps leave every mapped function alone (`Calm`, `Stutter`,
`SameStage`, `SessionFrame`, `BindFrame`), the others take the remaining steps
one by one and name the abstract step that each is. The invariants are those of the
other theorems; they are what makes an abstract guard true when the code's own
condition says less, as when `app_timer_start` never looks at the pool's size, or
when a comparison of digests stands for "found whole".

**Liveness** is out of the prover's reach, as is ENABLED, so
these properties are model-checked only. What each of them owes to single steps is
proved, which leaves to TLC just the part about fairness:

| checked by TLC | rests on the theorem |
|---|---|
| `EventuallyDispatched` | `ImplementsFifo`: an accepted event keeps its place until it is dispatched |
| `PermanentKeepFiring` | `PoolIsTimerSet`: a timer that nobody stops stays on |
| `DownloadEnds` | `Driven`: a download has its two timers |
| `LossNoticed` | `LossFound` |
| `LostIsRetried` | `LossNotStranded` |
| `SuperloopReturns` | `ExecutionProgresses` |
| `ListensAgain` | `NotLeftDeaf` |

## 5 Findings

1. `app_eventbus.c:60` (and :51): `queueSize--` in the superloop against
   `queueSize++` in an interrupt. An increment between load and store is lost;
   the event stays in the ring while the poll sees it empty, until a later
   publication pushes it out, one event late for ever. `event_bus_race`;
   `OnlyRacesLeaveBehind` proves that nothing else does this.
2. `app_public_config.c:441`: deleting bindings leaves them in RAM behind the
   count. The next binding saves the whole array, the next boot counts it.
   `config_delete`; `RevivedByBootOnly` proves that until that boot it is gone.
3. `app_http_ota.c:109`: the receive buffer is read before the status; what
   arrives with the end of the connection in between is thrown away, and the
   short packet is counted. The digest notices at the end. `ota_cut_short`.
4. `app_public_protocol.c:195`: the panels of a sub-frame are indexed with their
   number among all panels, so that from the second sub-frame on a scene sets the
   bytes of others, or bytes beyond the table; and `app_public_protocol.c:419`
   compares `relay_sel_2` (and three more fields) with the frame it has just
   cleared instead of copying it, so that relays 7 to 9 are always off.
   `scene_outputs`; `FirstOutputsServed` says what does work.

Seen in the models but contradicted by no comment, document or test, hence not
listed as findings: the error limit that stops the MQTT callback of a connected
client (`app_network_model.c:354`), the fall-through that sets the clock from a
timer-task message (`app_public_protocol.c:104`), the comparison with the first
binding only (`app_public_protocol.c:149`), the beep that silences an alarm
(`bsp_board.c:14`), the wrong pin of UART3 (`bsp_usart.c:246`), the body of any answer
with status 200 or 206 that is written and counted as a packet
(`app_http_ota.c:132`; the digest refuses the image), and the frame that is
executed as the type of one that was cut off (`app_protocol.c:96`, see PanelBus).

## 6 Order of work

What matters most came first: **EventBus** with **EventQueue** (everything goes
through it), **SoftTimer** (everything periodic, the watchdog and all retries),
**PublicConfig** (the only data users lose), **OtaUpdate** (the only state that
can make a device useless), **MqttLink** (a host that stays offline),
**PanelBus** (what users press), **SceneControl** (what they see and rely on). Each
was model-checked before its invariants were proved.

Worth adding: a watchdog module that adds up the blocking calls of one round of
the loop against 3 s; USART0 and the display's USART1, whose static `evt_buf` is
handed over by reference like `rx2_buf`; the calendar of the real-time clock; the
settings of the device information; the layout of panel frames as functions
compared with a reference definition; and promises for the two components that have
none yet, the panels' bus (what a key press leads to) and the display (what its
pages show).

## 7 What is not modelled

Most of the source tree is not this program: the vendor's package (`Firmware`,
`Examples`, `Utilities`, `Doc`, device headers) and third-party libraries
(`cjson`, `rtt`, the unchanged parts of ioLibrary), seen only as steps that succeed
or fail. Of the program itself the following is left out.

- *Formatting and conversion*: JSON messages, tokens, icons, texts and QR code of
  the display, dates, DHCP and MQTT packets.
- *Plain input and output*: LEDs, voltages that stand for keys, dimmers and knob
  values, the answers to the host computer.
- *Time against the watchdog*: blocking calls are single steps; a reset by the
  watchdog is `Reset` of OtaUpdate.
- *USART0 and USART1*: frames of the host computer and of the display arrive as
  the actions they cause.
- *Messages of the wrong length*: a scene or task message shorter than its
  buffer, which the code completes with older bytes, and the binding message that is
  read one byte beyond its end; the models' messages are complete.
- *An update before the server's name is resolved*: the address is then 0.0.0.0
  and the state machine keeps asking it, which is what `NoAnswer` does.
- *Enter on a page without scenes*: the code executes the scene of that number;
  in SceneControl any scene may be executed at any time.
- *External*: the boot loader, the TCP stack in the W5500, the servers.
- *Disabled code*: compiled out or called by nothing.

Simplifications in the modules that are there: parameters that no caller passes
(null callbacks, zero intervals, types beyond EVENT_COUNT) and the early returns
for them are left out; timer fields that always go together are one; table
entries have two parts; an answer has two parts. In every one the shape of the
state, and each store that another actor can see, is the code's. A single-shot
timer that starts itself again in its own callback would be ended by
`app_timer_poll` when the callback returns; no caller does that, and
`CallerAssumption` of SoftTimer excludes it.

Five simplifications a reader should know of, because the code has a case the
model has not:

- *PanelBus*: the checksum of a panel's frame (`app_public_protocol.c:130`) and the
  copies of its bytes (`:136-139`) are one step, `Check`, so a byte that arrives
  between them is not modelled; and clearing and filling the host's frame
  (`:430`) is one step, `BuildPanelFrame`: a frame that goes out half cleared is, like
  the mixed one, followed by a whole one.
- *MqttLink*: a connection the server has closed but the chip has not
  (SOCK_CLOSE_WAIT) counts as closed; `connect_nb` (`socket.c:319-340`) stays busy in
  that state until its attempt is given up.
- *SceneControl*: a read over I2C succeeds; `rtc_ex_get_time` ignores failures
  (`app_rtc.c:127-132`) and would go on with bytes that were never set.
- *PublicConfig*: the inputs differ from the blank value 0xFF (`ConfigAssumption`);
  `app_bind_scene_info_update` (`app_public_config.c:162-201`) takes such an input
  unchecked, and counts a binding to scene 0xFF that the next boot does not count.
- *PublicConfig* and *OtaUpdate* excuse what the code cannot keep: after a deletion
  (`stale`, `deleted`) and after a failed save (`failed`) the properties that name these
  histories promise nothing.
