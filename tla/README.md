# A verification development of ocor-mouse

Formal models of the firmware of the OCOR gaming mouse and its dongle: TLA+ modules
translated from the C code, TLC configurations that check them on small instances,
and theorems that TLAPS proves for every instance. Paths are relative to the
repository; `gaming_mouse` is `applications/gaming_mouse/src`.

## The system

The **mouse** (nRF52840, `configuration/hitscan_nrf52840`) samples a PAW3395 sensor
and its buttons and reports to a host over USB or over a 2.4 GHz radio (Nordic's ESB
protocol) with a dongle. The **dongle** has two processors: an nRF52820
(`configuration/hitscan52820_nrf52820`) receives from the radio and is SPI master
of a CH32V305 (`dongle-hs-ch32v305`), the high-speed USB device. Most of the nRF
firmware is modules that exchange events through one queue, the application event
manager, dispatched by a cooperative thread; the exceptions, where the hard
interleavings are, are the radio's interrupts, the sensor thread, the dongle's SPI
thread and the CH32's interrupts.

```
 sensor --> fast_path_mouse -----> esb_driver ~~radio~~> esb_rx -> slab+queue -> spi_master
 buttons -> hid_state -> usb_state -> USB host                     (nRF52820)        | SPI
               \-> esb subscriber                     USB host <- endpoint <- halves <-+
 config: host -> config_channel_transport -> event queue -> module or forwarder   (CH32V305)
```

### Inventory

| Component (code) | State | Operations | Interacts by | What is hard | What makes it correct |
|---|---|---|---|---|---|
| HID report queue (`util/hid_reportq.c`) | per queue: owner, enabled reports, window, a list per report, round-robin index | alloc, free, add, sent, subscribe, unsubscribe | calls from `hid_forward`, report and sent events | window and lists at their limits; resubscription with reports under way | the window is exact, order and newest event kept, no starvation |
| HID state (`modules/hid_state.c`) | subscribers with credit, report states, the link from data to a subscriber, items, queue of usages, axes | button, motion, connect, disconnect, report issued, replay, expiry | events, with `usb_state` and the radio as subscribers | routing changes with reports outstanding; queue overflow and expiry; errors | an idle host has the state of the mouse; motion neither lost nor doubled; the assertions hold |
| USB state (`modules/usb_state.c`) | protocol, enabled reports, report buffers, an answer held until the start of a frame | bus state, SET_PROTOCOL, send, sent, SOF | USB callbacks, events | callbacks between an event and its dispatch | a buffer for every report, every report answered |
| Configuration channel (`util/config_channel_transport.c`, `events/config_event.h`) | per transport: state, transport_id, response, timer | get, set, timeout, rsp_receive, disconnect | host polls; config events to modules and the forwarder | late answers, timeouts, several hosts, the id wrapping around | a host reads the answer to its last request, and always gets one |
| Radio state and pairing, mouse (`modules/esb_state.c`, `modules/esb_driver.c`, `util/esb_pairing.c`) | pairing manager, two timers, channel and address, saved configuration | long click, request, response, timeouts, load | radio interrupts, work queue, events | lost packets, timers racing responses, failed saves, power cycles | both sides meet after a pairing, pairing mode ends |
| Radio receiver, dongle (`modules/esb_rx.c`) | state, pairing timer, work item, connection timer, acknowledgement payload | packet received, enter pairing, work, timeouts, report | radio interrupt; SPI thread; work queue | three contexts without a lock | as above; reports are not lost silently in the middle |
| SPI master, dongle (`modules/spi_master.c`) | slab, pointer queue, pending half, one signal | tick, data-ready interrupt, thread loop | signal, SPI | two interrupts share one signal | blocks conserved, stream in order, configurations not lost |
| USB side, dongle (`dongle-hs-ch32v305/User`) | two DMA halves, new-data flag, endpoint, user configuration, main loop | DMA interrupt, SOF, IN, SET_REPORT, load | SPI, a pulse line, USB | buffers shared by DMA, interrupts and USB without a queue | the host never gets older data |
| Mouse fast path (`modules/fast_path_mouse.c`), wheel (`hw_interface/wheel.c`) | button state, wheel accumulator, half of a pair, packet counter; remainder and pending events of the wheel | sample, flush, button, wheel event, turn, power | atomics, the sensor thread, event manager, decoder interrupt, radio FIFO | a thread that is preempted between reading and sending; refused writes, flushed FIFOs | the wheel is conserved, a sample arrives once and in order, input arrives |
| Motion sensor (`hw_interface/motion_sensor.c`), its polling timer and the driver's trigger | state, options with a mask of changed ones, trigger and handler, empty samples | sample, trigger, power, USB, subscription, click, option | semaphore, spin lock, work queue, level interrupt | the thread writes back a state that events change meanwhile | somebody notices the next motion; the sensor has the options last set |
| DFU (`modules/dfu.c`, `util/dfu_lock.c`, `modules/dfu_mcumgr.c`) | owner of the lock, offset, buffer, erasure, four delayable works | start, data, sync, reboot, erase, store, timeout; commands of MCUmgr | configuration channel, MCUmgr's thread, flash, bootloader | two owners, interruptions, loss of power, resumption | one writer at a time; a clean slot holds what was stored; the lock comes back |
| HID forward (`modules/hid_forward.c`) | peripherals, forwarded request, output reports, queues | forwarded request, poll, disconnect | GATT callbacks, events | callbacks after a disconnection | as the peer of the configuration channel; the rest is not modelled |
| Everything else | see `components` in `PROJECT.json` | | | | not modelled, with the reason |

The hazards of the code, each at its line and with the properties aimed at it, are
in `PROJECT.json` under `hazards`.

## The modules

Each definition that models code is listed in `PROJECT.json` under `map` with the
lines it stands for. Definitions whose comment says "Mutant" are the plausible bugs
each property is shown to catch; no specification uses them.

* **`HidReportq`** - the pool of report queues. One action per function; an event is
  its number. `inflight`, `added`, `submitted` and `passed` are history variables.
  `ReportSent` picks one of the events that the transport holds: its order is the
  transport's own. **`HidReportStream`** is what a queue promises, without lists and
  round robin: a stream of events per subscribed report. `KeepsStreams` is the refinement,
  with the mapping `Client`: an event is told at most once and in order, is lost only
  when `Limit` newer ones wait, and subscriptions begin and end with nothing.
* **`HidState`** - the functions of `hid_state.c` as operators on one record `h`, with
  the events they submit in `h.out`; its scans and send loops are closed forms (the first
  queued usage that changes an item, the longest prefix that can be purged), so that they
  can be reasoned about. **`HidPipeline`** extends it with the event
  queue `fifo`, the HID class of `usb_state.c` (`usb.mode` is off or the protocol), the
  radio's subscription, a host and the user. `Dispatch` is one event through all handlers;
  USB callbacks and inputs come between any two dispatches, so that the queue holds events
  about configurations that are gone. Reports are the mouse report and the boot report.
* **`ConfigTransport`** - any number of instances of the transport, the event queue, a
  local module, a forwarding peer that answers late or never, and the
  disconnections and timeouts of the hosts. Requests are numbered, which stands for
  what they carry.
* **`EsbPairing`** - one mouse, a set of dongles, and a radio that loses packets.
  Interrupts come between any two steps of the work queue and of the SPI thread;
  `EnterPairing` and `EnterPairingEnd` are the two sides of the window in
  `enter_pairing_mode`, `SaveConfig` and `SwitchAddress` those of the 100 ms sleep.
  An acknowledgement carries the payload that was loaded before the packet came.
* **`DongleBridge`** - from the radio's interrupt on the nRF through slab, queue,
  signal, SPI and DMA to the armed endpoint and the host, and the way back of a user
  configuration. `k_poll_signal_check` and `k_poll_signal_reset` are two steps, as
  interrupts come between them.
* **`FastPath`** - `fast_path_mouse.c` and `wheel.c`. The thread's steps are reading the
  buttons (`Sample`), taking the wheel (`Drain`) and writing (`Write`); event handlers and
  works preempt it and are one action each, except `report_work_handler`, whose two locked
  sections are two steps, as the decoder's interrupt (`DataReady`) comes between them.
  `due` accounts for every turn of the wheel, `host` is what was heard. Writes fail,
  packets are lost, the full FIFO and a failed packet flush it. Rates are numbers, and the
  packets between two acknowledgements are computed as in the code: of the rate in force for
  a single one, of half of 8 kHz for a pair, on one counter.
* **`MotionSensor`** - the state machine of `motion_sensor.c` with the timer of
  `polling_rate.c`, the level interrupt and trigger work of `paw3395.c`. Every access of
  the thread to shared state is a step; the thread runs when no interrupt or work is ready
  (`Preempted`): its priority `K_PRIO_COOP(15)` is, with 10 cooperative priorities in every
  configuration, the preemptible priority 5, below the work queue. Of 15 options, six
  stand for the kinds: written to the sensor, a rate, the active stage. A host sets any
  value, as `update_config` checks the size only: `Stages` stands for a stage that does not
  exist, whose CPI is whatever lies behind the table (`CpisOf`); a rate out of bounds is
  clamped by the timer (`Clamped`). The sensor may refuse any of the options that one pass of
  `write_config` writes; `lost` are those it refused, which nothing writes again.
* **`Dfu`** - `dfu.c`, `dfu_lock.c`, `dfu_mcumgr.c`, with the flash cell by cell, a host
  tool that follows `dfu.rst` and may vanish at any time, a host that sends empty data
  packets, MCUmgr's thread, failing flash and a loss of power at any step. `marked` is the
  request to the bootloader. `stale` (history) are cells that were written and that `dfu.c`
  takes for erased: what a store had written when a timeout, an empty packet or a failed write
  cut it off, and what MCUmgr writes behind an erasure that had stopped half-way.
* **`MC*`** give the constants that a `.cfg` cannot write; **`*Proofs`** hold the
  theorems.

The modules are not composed into one: what they share is named at their borders.
`HidPipeline` treats the radio as a subscriber that takes no reports, which is what
this product does (the fast path serves the radio); `DongleBridge` starts where
`esb_rx.c` has a report in its hands, and ends a configuration at `esb_write` or
`enter_pairing_mode`, where `EsbPairing` starts. `FastPath` takes from `MotionSensor`
only that sampling starts, stops and changes its rate at any time, and ends at the radio,
where `DongleBridge` takes reports in any order and number.

## The runs

| Run | Instance | What it shows |
|---|---|---|
| `hid_reportq` | 1 queue handed between 2 subscribers, 3 reports, lists of 2, window of 1 or 2, 3 events per subscription | `WindowExact`, `NoStarvation`, `QueuedLeaves`, the refinement `KeepsStreams` |
| `hid_pipeline_sync` | 2 buttons, motion beyond a boot report's range, 4 inputs, 3 changes by the host, expiry | `LinkRouted`, `MotionConserved`, `HostCatchesUp` |
| `hid_pipeline_errors` | 2 interchangeable buttons of which a report holds one, pipeline of 2 with answers held until SOF, queue of 2, 1 report refused, no expiry | `BufferForEveryReport`, `CreditExact`, `NoStuckKey` |
| `config` | a host on USB with 4 requests, one on the radio with 1, ids 0..2 so that they wrap | `WaitsForSomething`, `ReadyAnswersLast`, `MatchIsAwaited`, `HostIsAnswered` |
| `esb_pairing` | 2 dongles, 3 commands to pair, 1 power cycle | `DonglePairingEnds`, `PairedMeet`, `OnlyPairingPairs`, `PairingModeEnds` |
| `esb_pairing_again` | 1 dongle, 3 commands | violates `PairingModeAsks`, finding 1 |
| `dongle_bridge` | slab of 2, 3 reports (single, dual, configuration), 1 configuration of the host, 1 fault | `BlocksAccounted`, `StreamIntact`, `HostNeverGoesBack`, `StreamDrains`, no deadlock |
| `dongle_bridge_config` | 1 configuration | violates `ConfigDelivered`, finding 2 |
| `motion_sensor` | 2 CPI stages and one that does not exist, 2 rates out of bounds, 2 motions, 2 inputs, 1 failed read or write | `NeverDeaf`, `SensorFollowsOptions`, `MotionIsSampled` |
| `motion_wakeup` | 1 motion, 2 inputs | violates `WokenIsSampled`, finding 3 |
| `fast_path` | 1 button, a wheel step of 2 units, FIFO of 2, rates of 4 and 8 kHz with an acknowledgement every 2 packets, or 4 single ones at 8 kHz, 2 samples, 2 inputs, 1 fault | `WheelConserved`, `MotionOnce`, `InputArrives` |
| `dfu` | 2 images of 3 cells, buffer of 2, 3 hosts, 2 commands of MCUmgr, 1 HID report, 1 failure, 1 reboot | `OneWriter`, `SlotIsPrefix`, `LockIsReleased` |

Why the bounds are enough. Three reports with lists of two are the least for a round
robin that can skip one and for a list that overflows. In the pipeline, three
changes by the host include every pair of configure, protocol, reset and radio and
one change in the middle; two buttons fill the report's items, the second of two
finds a report of one item full, and a queue of two overflows. `hid_pipeline_errors` uses
the symmetry of the buttons, which is sound as its properties are invariants; it is without
expiry, because the purge of expired usages (below) breaks `NoStuckKey`. Four requests on ids
0..2 let the id wrap; the second host needs one request to stand in the way. Two dongles are
one to leave and one to come to. A slab
of two is full with one dual report waiting and one report queued. Two inputs put a mouse
on USB and back, to sleep and awake, or change an option twice or around a click, at every
step of the thread; two stages tell a new CPI from an old one, and the rates 0 and 9 around
the bounds 1 and 8 tell a default and a clamped rate from the one before. Two samples make a pair,
and a third, not told apart, follows it; a turn of -3 units is a step and a remainder
against one of 2. Three hosts are one that is interrupted, one with the other image and
one that resumes; three cells with a buffer of two are a whole and a partial store, and
MCUmgr's two commands the erasure and a write. The bounds limit
the environment only (inputs, faults, requests), named `Max...` in each module; the
proofs hold whatever their values.

`CHECK_DEADLOCK FALSE` stands where the bounds on inputs let the system come to
rest. `DongleBridge` never rests, because its timer ticks, and is checked for
deadlock.

### Fairness

* `HidReportq`: a transport reports every event it holds as sent.
* `HidPipeline`: the event manager's work item runs while the queue holds events, a
  configured host polls, frames start. Each is weak fairness with the enabling
  condition written out.
* `ConfigTransport`: the delayed work of a running timer is executed and hosts read
  until they have an answer. Nothing is assumed of the queue or of the peer.
* `EsbPairing`: timers expire, queued work and the SPI thread run. Every packet may be
  lost, so no pairing need succeed.
* `MotionSensor`: interrupt, trigger work and the wake-up event are handled, the timer
  ticks and the thread runs when it is not preempted. Nothing is assumed of the user,
  the hosts, power and the sensor.
* `FastPath`: the thread, the work queue and the radio go on. Every packet may be lost
  while `MaxFaults` lasts.
* `Dfu`: delayable works run, the timeout at least when no store renews it, a command of
  MCUmgr that has begun ends and a requested reboot happens. A host may stop at any step.
* `DongleBridge`: the 8 kHz timer ticks and the SPI thread runs. The CH32, USB and
  interrupts are not fair.

### Findings

1. `esb_state.c:240`: a mouse that has paired since its start enters pairing mode
   again, but asks for nothing until the timeout, because `pairing_start` refuses.
2. `spi_master.c:503`: a data-ready interrupt between `k_poll_signal_check` and
   `k_poll_signal_reset` is lost (a tick can overwrite its result, too), and with it the
   host's configuration.
3. `motion_sensor.c:1000`: a motion that wakes the suspended mouse enters FETCHING with
   the trigger still armed. The level interrupt and its work then alternate on the work
   queue, above the thread that alone could release the pin. The same happens when USB
   becomes active, or the subscriber is lost and comes back, between the thread's write of
   IDLE and its arming of the trigger.

Checked without a run of their own:

* `hid_state.c:892`: with `CalmHost = FALSE` in `HidPipeline_errors.cfg`, TLC finds
  `IssuedWasCounted` violated: the answer to a report that was submitted before a report
  state was disconnected and connected again (a host switches the protocol away and back)
  trips `__ASSERT_NO_MSG(rs->cnt > 0)`.
* `hid_state.c:281`: with `HostKeysAreDown` added to `HidPipeline_sync.cfg`, TLC finds a
  release purged as expired whose press was replayed already, so that the host keeps a
  pressed key, which `doc/hid_state.rst:219` rules out.
* `dfu.c:421`: with `MarkedIsWhole` added to `Dfu.cfg`, TLC finds an image marked for the
  bootloader that is not the one sent. A store that is cut off in the first buffer (by an
  empty data packet, or by a timeout that is in the queue when the store begins, as
  `handle_dfu_sync` does not renew it) has written cells, but `cur_offset` is 0 and
  `is_flash_area_clean` stays true: the next start takes another image and writes it over
  them. The bootloader has to find that out.
* `motion_sensor.c:763`: with `StageHasItsCpi` added to `MotionSensor.cfg`, TLC finds the
  thread that sets the CPI of the active stage it read before (757) and so overwrites a click
  in between: the new stage is active with the CPI of the former one.

Met while modelling: a full event queue of a connected
subscriber drops releases (`hid_state.c:1245`); the retry of an empty SPI read looks at
the first answer (`spi_master.c:642`); `usb_active` is never assigned
(`esb_state.c:37`), so that the radio is not suspended by USB; the cursors of
`hid_forward.c:500` and `config_event.h:108` are shared by hosts that enumerate at a
time; the half packet of 8 kHz goes out after the report of a button event that followed
it, with the buttons from before (`fast_path_mouse.c:330`); a configuration answer in the
radio's FIFO is flushed with the reports (`esb_driver.c:404`), though `esb_state.c:117`
has a "Retry loop to ensure config passes even in interference"; a `dfu start` in the
middle of a store empties the buffer under it (`dfu.c:454`, assertion at 346); after a failed
write the slot keeps the cells written so far and still counts as clean (`dfu.c:365`), and
after a failed erasure `erase_offset` stays where it was (`dfu.c:285`), so that the next
erasure goes on from there over cells that MCUmgr may have written meanwhile; the timeout of
MCUmgr trips its assertion when it runs late, after a refused command
(`dfu_mcumgr.c:77`); `update_config` stores any number as the active stage
(`motion_sensor.c:682`), and `write_config` indexes `motion_sensor_cpi_stage` with it, out of
bounds (759); an option that the sensor refuses is logged and not written again
(`motion_sensor.c:740`); `fast_path_mouse.c` reads the rate once for the packet and again for
the acknowledgement (306, 128), and one `packet_counter` serves the intervals of two rates, so
that it lies above the interval in force after a change of the rate, and for single packets
and pairs of 8 kHz in turn.

### Assumptions

* `CalmHost` (runs `hid_pipeline_sync` and `hid_pipeline_errors`): the host changes the
  configuration when no report of the former one is outstanding. Without it the assertion
  at `hid_state.c:892` stops the system (above); nothing in the code makes a host wait. It is
  the hypothesis of the theorems on credits, buffers and types; those on routing, motion and
  buttons hold for every host.
* `ConfigTransport`: `NextIdIsFree`: a transport does not drop so many requests that
  the id comes around (255) while the first is still under way.
* `EsbPairing`: a dongle restarts with a configuration that was saved. If saving fails
  (its result is ignored, `esb_rx.c:177`) or the power goes first, the two have to be
  paired again. The manager's timer does not outlast the module's, which is started
  after it with the same 60 s.
* `DongleBridge`: an SPI transfer and the DMA interrupt at its end are one step;
  `SPI_Update_Tx_Data` does not run in the middle of a transfer (if it does, the receiving
  DMA is misaligned); a user configuration is for the mouse or for the dongle.
  `HostNeverGoesBack` is about mouse reports only: after another transfer the code does
  send an older half again (see the hazards).
* `FastPath`: the packet counter is counted and the packet written in one step (the thread
  and an event that preempts it between the two may count alike). `InputArrives` has the
  buttons arrive while samples go on; a mouse at rest that loses the packet of a button
  event says nothing more.
* `MotionSensor`: `MotionIsSampled` excuses a mouse that nobody listens to, and the thread
  that `Starved` describes, which is finding 3; `SensorFollowsOptions` says of the rate that
  it follows, within the timer's bounds, as long as USB was never active, and nothing of an
  option whose write the sensor refused, until that is set again.
* `Dfu`: no host starts, or sends data, in the middle of a store, nor a start shorter than
  its header (which only empties the buffer); and MCUmgr's timeout runs when it is due.
  `SlotIsPrefix` excuses the stale cells, and holds for all others through failures of the
  flash; the first part of `LockIsReleased` is about flash that has not failed yet.
* The radio's library, Zephyr's queues, signals and timers, and the USB controllers are
  external, modelled by how the code uses them.

## The proofs

TLAPS proves, for every value of the constants:

* **`HidReportqProofs`**: types, `WindowExact`, the wait condition, list limits, the
  assertions of `hid_reportq_alloc`, `OrderKept` with `NewestKept`, and `NoStarvation`.
  Inductive invariant: these and `TurnComes`: the events of others that passed a waiting
  report and its distance from the round-robin index add up to at most the number of
  reports. `NoStarvation` alone says nothing of where the index stands.
  Its second half proves that `HidReportq` implements `HidReportStream` (`KeepsStreams`), one
  lemma per action. Beside the invariant above the mapping needs that a list has no gaps
  (`Gapless`), so that the event an overflow drops is the one `Limit` before the newest, and
  that a report without a subscription has no past.
* **`HidPipelineProofs`**: `LinkRouted`, `MotionConserved` and `NoStuckKey` for every host;
  `CreditExact`, `BufferForEveryReport` and types for a calm one. None is
  inductive, because `hid_state.c` learns of everything through a queue. The invariant says
  what the queued events will make of it: `Leads` takes a phase (a subscriber gone, connected
  or subscribed; a button up or down) through the events in their order, refuses one that
  cannot come in that phase, and ends where the peer or the button is now (`Sessions`,
  `Buttons`). So `hid_state.c` meets sessions in their order, and presses and releases in turn.
  `NoStuckKey` also needs what it then has recorded of a button: the item and, after it, the
  usages in `evq` lead to the button, also when a clean-up has cut the front off (`KeyOK`).
  Credits are exact because a counter is a sum over three places (events to the device, its
  buffers, answers on the way back), at most `Pipeline`, and nothing is awaited before an announced
  session begins (`Announcements`): this is where a calm host is needed.
  Every handler of `hid_state.c` is proved once against what the invariant needs of it (`Keeps`,
  `Sends`, `Turned`, `Balanced`), and `usb_state.c` likewise (`Serves`, `Accepts`); the steps
  of `HidPipeline` then are compositions.
* **`ConfigTransportProofs`**: types, `TimerExact`, `ReadyAnswersLast`, `MatchIsAwaited`,
  `WaitsForSomething`. Strengthened by `OneMatch`: no two events carry the id a transport
  waits for, so that taking one cannot leave another that would be taken for a response
  later; and by what is known of the request waited for.
* **`EsbPairingProofs`**: types, `MousePairingCleared`, `DonglePairingEnds` with
  `DongleReturns`, `PairedMeet` and the action property `OnlyPairingPairs`. `PairedMeet` is
  not inductive; `Committed` is what it rests on: whoever knows of a dongle's response, that
  dongle has taken the configuration before. The invariant is proved record by record
  (`MouseInv`, `DongleInv`).
* **`DongleBridgeProofs`**: types, `BlocksAccounted`, `StreamIntact`, that the branch of
  `send_hid_report` for a full pointer queue is dead (`QueueNeverFull`), and the action
  property `HostNeverGoesBack`. The three
  invariants are inductive together: a report is written into a free block, which
  disturbs nothing under way because no block under way is free. `NewestActive` continues
  them from SPI to the host: the active half is the newest, and the armed one, into which the
  DMA may still write, is no older than what the host had. It rests on `StreamIntact`,
  which makes the half that is written newer than both.
* **`FastPathProofs`**: types, `WheelConserved` and `MotionOnce`. Both speak of the reports on
  their way, the concatenation of the packets in the FIFO, and the first of a sum over them;
  half of the module are lemmas on sums and concatenations. The invariant adds that a thread
  at rest has no report, that a half packet waits for its other half only (the thread then is
  at rest or builds that half), and that the FIFO, the half and the thread's report, in this order, have samples in order, newer
  than the host's last and up to the sensor's (`Ordered`). The packet counter is below the
  interval of one of the rates (types), though it may lie above that of the rate in force.
* **`DfuProofs`**: types, `OneWriter` and `SlotIsPrefix`. The invariant adds what makes them
  hold together: the buffer is the next part of the image (`BufferOK`), the tool knows where
  the device is whenever it sends (`HostOK`), the cells below `erase_offset` are erased or
  stale, and a clean slot has none below it (`EraseOK`), and whenever the lock is, or was last, MCUmgr's, `dfu.c` knows that the slot
  was used by others (`LockOK`).
* **`MotionSensorProofs`**: types (the timer's rate within its bounds, whatever rate the hosts
  set), `NeverDeaf` and `SensorFollowsOptions`. The invariant adds where a change may be on its
  way: an attribute that differs from its option is lost, in the mask or with the thread
  (`AttrOK`), so is a rate that differs from the timer's (`RateOK`), the
  thread's copy of an option is current or the option is in the mask again (`LocalOK`), and
  the mask holds nothing of which the thread neither knows nor will be told (`MaskOK`).

They rest on the named assumptions on the constants only (sizes positive, `NoSub` not a
subscriber, the slab finite, one or two report buffers, `HostOptions` among the options).
Every invariant that a run checks is proved, and every safety property of its steps.

Where a proof needs induction (sums over a queue, concatenations, the purge of expired
usages), it takes the least element of a set of counterexamples (`LeastNatural`,
`Induction`, `FiniteInduction`), because the library's induction theorems have an operator as
a parameter, which the installed provers cannot instantiate. The models that are proved
about therefore use folds, `CHOOSE` over finite sets and quantifiers, no RECURSIVE operator.

Only model-checked: all liveness (`QueuedLeaves`, `HostCatchesUp`, `HostIsAnswered`,
`PairingModeEnds`, `StreamDrains`, `MotionIsSampled`, `InputArrives`, `LockIsReleased`), since
fairness needs ENABLED, which the prover does not handle; and the three violated properties,
for which a counterexample is the result. `NoStuckKey` says nothing with expiry, where the
code violates it, and the three theorems with `CalmHost` nothing of a host that is not calm,
where the assertion at `hid_state.c:892` (`IssuedWasCounted`) is violated.

## Not modelled

Of the tree's 67 000 lines the modules stand for some 5 800, and little more could be
modelled faithfully:

* two thirds are the vendor's library for the CH32V305 and its register definitions
  (`dongle-hs-ch32v305/Peripheral`, `Core`, `Startup`), descriptors and demonstration code that
  the main loop does not call: single register accesses without a state of their own;
* Bluetooth LE (`ble_*.c`, `hids.c`, `bas.c`, `fast_pair.c`, `swift_pair.c`, most of
  `hid_forward.c`) is off in the product's configurations, and right only with respect to a
  host stack outside the tree;
* `esb_tx.c` and `motion_sensor_ori.c` are earlier versions that nothing builds;
* the PAW3395 driver beyond its trigger is register sequences with delays, right only
  with respect to the chip;
* LEDs, power, clocks, batteries, watchdog and the like set the hardware from one event;
* tools, web pages, device trees, configurations and report descriptors are data.

What is left of the components that are modelled partly is named in their notes in
`PROJECT.json`: suspend and resume of the radio with the configuration channel over it, USB power,
and the enumeration of the CH32.

## The plan

Done: report queue with its refinement; HID state with USB; configuration channel;
pairing; the dongle's bridge; motion sensor; fast path with wheel; DFU; the proofs of all
their safety properties. Next:

1. Proofs: what the findings leave: `NoStuckKey` under expiry for usages whose press has not
   been replayed, and the credits of a host that is not calm until it first changes the
   configuration under a report. The safety part of each liveness property (who holds what is waited
   for) as an invariant.
2. **RadioLink**: suspend and resume of `esb_driver.c` and the configuration answer of
   `esb_state.c`, in the FIFO of `FastPath` and as the radio's transport of `ConfigTransport`.
3. **ConfigModule**: the cursor of `GEN_CONFIG_EVENT_HANDLERS` under two hosts, as an
   answering module of `ConfigTransport`.
