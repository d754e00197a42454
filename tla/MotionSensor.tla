---------------------------- MODULE MotionSensor ----------------------------
(***************************************************************************)
(* The motion sensor of the mouse: hw_interface/motion_sensor.c, the       *)
(* polling timer of polling_rate.c, and the trigger of the sensor's driver *)
(* (paw3395.c).                                                            *)
(*                                                                         *)
(* While the mouse rests, the level interrupt of the sensor's motion pin   *)
(* is armed (IDLE); the first motion turns it off and starts a timer       *)
(* (FETCHING), at each tick of which a thread takes a sample, until        *)
(* NODATA_LIMIT samples were empty.  Event handlers and the driver's       *)
(* trigger work run on the system work queue, which preempts the thread    *)
(* between any two of its steps, and each of them is one action; the       *)
(* thread runs when the queue has nothing to do.                           *)
(***************************************************************************)
EXTENDS Naturals, FiniteSets

CONSTANTS
    Stages,       \* SENSOR_CPI_STAGE_COUNT; stage i has the CPI i
    Rates,        \* the polling rates a host sets, checked by nobody
    MinRate, MaxRate,  \* CONFIG_POLLING_RATE_MIN_HZ and _MAX_HZ
    DefaultRate,  \* DEFAULT_POLLING_RATE_HZ, which the option of USB starts with
    EsbRate,      \* what the option of ESB starts with
    HostOptions,  \* the options a host sets
    NoDataLimit,  \* NODATA_LIMIT
    MaxMoves,     \* bound: movements of the mouse
    MaxInputs,    \* bound: options set, clicks, changes of subscribers and of the
                  \*    USB state, suspensions, together
    MaxErrors     \* bound: failed reads of the sensor and writes of its attributes

ASSUME SizesAssumption == Stages \in Nat \ {0} /\ NoDataLimit \in Nat
ASSUME RatesAssumption ==
    /\ MinRate \in Nat /\ MaxRate \in Nat /\ DefaultRate \in MinRate .. MaxRate
    /\ EsbRate \in Nat /\ Rates \subseteq Nat

VARIABLES
    state,     \* state.state
    peers,     \* peer_count
    usb,       \* usb_is_connected
    option,    \* option, and option_mask as a set
    mask,
    poll,      \* the polling timer: is it on, current_rate_hz
    sem,       \* the binary semaphore of the thread
    nodata,    \* motion_read's count of empty samples
    thread,    \* where motion_thread_fn is, and the mask it has read
    local,     \* its copy of the options, the rate or stage it has read
    driver,    \* those that hold: data_ready_handler is set, the interrupt line is
               \*    enabled, trigger_handler_work is queued
    pin,       \* the sensor: motion pin
    attr,      \*    and attributes
    lost,      \* history: the attributes whose last write failed
    power,     \* those that hold: the mouse is asleep, a wake_up_event is queued
    count      \* inputs so far, for the bounds and the properties

vars == <<state, peers, usb, option, mask, poll, sem, nodata, thread, local, driver, pin, attr,
          lost, power, count>>

States == {"DISCONNECTED", "IDLE", "FETCHING", "SUSPENDED"}
Options == {"cpi", "stage", "poll_esb", "poll_usb", "sleep_enable", "sleep3"}
AttrOptions == {"cpi", "sleep_enable", "sleep3"}
NoLocal == [option |-> [o \in {} |-> 0], read |-> 0]  \* what is out of scope

\* Of a stage and of a CPI, Stages stands for every number of no stage.
Values(o) == CASE o \in {"cpi", "stage"} -> 0 .. Stages
               [] o \in {"poll_esb", "poll_usb"} -> Rates \cup {DefaultRate, EsbRate}
               [] OTHER -> BOOLEAN
HostValues(o) == IF o \in {"poll_esb", "poll_usb"} THEN Rates ELSE Values(o)

ASSUME OptionsAssumption == HostOptions \subseteq Options

\* After set_default_configuration and init of module_state_event.
Init ==
    /\ state = "DISCONNECTED"
    /\ peers = 0
    /\ usb = FALSE
    /\ option = [o \in Options |-> CASE o \in {"cpi", "stage"} -> 0
                                     [] o = "poll_esb" -> EsbRate
                                     [] o = "poll_usb" -> DefaultRate
                                     [] o = "sleep_enable" -> TRUE
                                     [] o = "sleep3" -> FALSE]
    /\ mask = Options
    /\ poll = [timer |-> "off", rate |-> DefaultRate]
    /\ sem = TRUE
    /\ nodata = 0
    /\ thread = [pc |-> "wait", bm |-> {}]
    /\ local = NoLocal
    /\ driver = {"handler", "line"}
    /\ pin = FALSE
    /\ attr = [o \in AttrOptions |-> option[o]]
    /\ lost = {}
    /\ power = {}
    /\ count = [moves |-> 0, host |-> 0, usb |-> 0, power |-> 0, errors |-> 0]

-----------------------------------------------------------------------------
(* Helpers.                                                                *)

Count(what, max) == count[what] < max /\ count' = [count EXCEPT ![what] = @ + 1]

Input(what) ==
    /\ count.host + count.usb + count.power < MaxInputs
    /\ count' = [count EXCEPT ![what] = @ + 1]

\* get_polling_rate_hz
Rate(isUsb) ==
    LET rate == IF isUsb THEN option["poll_usb"] ELSE option["poll_esb"]
    IN  IF rate = 0 THEN DefaultRate ELSE rate

\* Mutant: only a rate that is too low is clamped.
ClampedBelow(rate) == IF rate < MinRate THEN MinRate ELSE rate

\* The bounds of polling_rate_set_hz.
Clamped(rate) == IF rate < MinRate THEN MinRate
                 ELSE IF rate > MaxRate THEN MaxRate ELSE rate

\* start_polling with polling_rate_set_hz and polling_rate_start; stop_polling.
Polling(rate) == [timer |-> "on", rate |-> Clamped(rate)]
Stopped == [poll EXCEPT !.timer = "off"]

\* Mutant: the handler is set and the interrupt line is not enabled.
HandlerOnly == driver \cup {"handler"}

\* enable_trigger and disable_trigger: paw3395_trigger_set.
Armed == driver \cup {"handler", "line"}
Disarmed == driver \ {"handler", "line"}

\* set_option: value and mask under the lock, then the semaphore.
SetOption(o, v) ==
    /\ option' = [option EXCEPT ![o] = v]
    /\ mask' = mask \cup {o}
    /\ sem' = TRUE
KeepOptions == UNCHANGED <<option, mask>>

-----------------------------------------------------------------------------
(* The chip and its interrupt.                                             *)

\* The mouse is moved: the pin is active until the motion is read.
Move ==
    /\ Count("moves", MaxMoves)
    /\ pin' = TRUE
    /\ UNCHANGED <<state, peers, usb, option, mask, poll, sem, nodata, thread, local,
                   driver, attr, lost, power>>

\* irq_handler, a level interrupt.
Irq ==
    /\ "line" \in driver /\ pin
    /\ driver' = (driver \ {"line"}) \cup {"work"}
    /\ UNCHANGED <<state, peers, usb, option, mask, poll, sem, nodata, thread, local, pin,
                   attr, lost, power, count>>

\* counter_handler with polling_callback.
Tick ==
    /\ poll.timer = "on"
    /\ sem' = TRUE
    /\ UNCHANGED <<state, peers, usb, option, mask, poll, nodata, thread, local, driver,
                   pin, attr, lost, power, count>>

\* data_ready_handler by state.
DataReady ==
    \/ /\ state \in {"IDLE", "DISCONNECTED"}
       /\ driver' = Disarmed \ {"work"}
       /\ state' = "FETCHING"
       /\ poll' = Polling(Rate(usb))
       /\ sem' = TRUE
       /\ UNCHANGED power
    \/ /\ state = "SUSPENDED"
       /\ power' = power \cup {"wake"}
       /\ driver' = (driver \cup {"line"}) \ {"work"}
       /\ UNCHANGED <<state, poll, sem>>
    \/ /\ state = "FETCHING"
       /\ driver' = (driver \cup {"line"}) \ {"work"}
       /\ UNCHANGED <<state, poll, sem, power>>

\* trigger_handler: without a handler the line stays disabled, and with the
\* handler still set when it returns it is enabled again.
TriggerHandler ==
    /\ "work" \in driver
    /\ IF "handler" \in driver
       THEN DataReady
       ELSE /\ driver' = driver \ {"work"}
            /\ UNCHANGED <<state, poll, sem, power>>
    /\ UNCHANGED <<peers, usb, option, mask, nodata, thread, local, pin, attr, lost, count>>

-----------------------------------------------------------------------------
(* The application events.                                                 *)

\* power_down_event
PowerDown ==
    /\ "asleep" \notin power
    /\ Input("power")
    /\ power' = power \cup {"asleep"}
    /\ poll' = Stopped
    /\ driver' = Armed
    /\ state' = "SUSPENDED"
    /\ UNCHANGED <<peers, usb, option, mask, sem, nodata, thread, local, pin, attr, lost>>

\* wake_up_event, of this module or of another one.
WakeUp ==
    /\ power # {}
    /\ power' = {}
    /\ IF state = "SUSPENDED"
       THEN /\ poll' = Polling(Rate(usb))
            /\ state' = "FETCHING"
            /\ sem' = TRUE
       ELSE UNCHANGED <<poll, state, sem>>
    /\ UNCHANGED <<peers, usb, option, mask, nodata, thread, local, driver, pin, attr, lost,
                   count>>

\* Mutant: the state stays when the last subscriber has gone.
ConnectedDeaf(n) ==
    IF state = "DISCONNECTED" /\ n # 0
    THEN state' = "IDLE" /\ driver' = Armed /\ UNCHANGED poll
    ELSE IF n = 0
    THEN driver' = Disarmed /\ poll' = Stopped /\ UNCHANGED state
    ELSE UNCHANGED <<state, driver, poll>>

\* The state machine of hid_report_subscription_event.
Connected(n) ==
    IF state = "DISCONNECTED" /\ n # 0
    THEN state' = "IDLE" /\ driver' = Armed /\ UNCHANGED poll
    ELSE IF n = 0
    THEN state' = "DISCONNECTED" /\ driver' = Disarmed /\ poll' = Stopped
    ELSE UNCHANGED <<state, driver, poll>>

\* hid_report_subscription_event with set_sampling_time_in_sleep3.
Subscription(n) ==
    /\ n \in {peers + 1, peers - 1} /\ n \in 0 .. 2
    /\ Input("host")
    /\ peers' = n
    /\ SetOption("sleep3", n # 0)
    /\ Connected(n)
    /\ UNCHANGED <<usb, nodata, thread, local, pin, attr, lost, power>>

\* handle_usb_state_event of USB_STATE_ACTIVE and USB_STATE_SUSPENDED.
UsbActive ==
    /\ Input("usb")
    /\ usb' = TRUE
    /\ IF state \in {"IDLE", "DISCONNECTED", "FETCHING"} THEN poll' = Polling(Rate(TRUE))
                                                         ELSE UNCHANGED poll
    /\ IF state \in {"IDLE", "DISCONNECTED"}
       THEN driver' = Disarmed /\ state' = "FETCHING" /\ sem' = TRUE
       ELSE UNCHANGED <<driver, state, sem>>
    /\ UNCHANGED <<peers, option, mask, nodata, thread, local, pin, attr, lost, power>>
UsbSuspended ==
    /\ Input("usb")
    /\ usb' = FALSE
    /\ IF state = "FETCHING" THEN poll' = Polling(Rate(FALSE)) ELSE UNCHANGED poll
    /\ UNCHANGED <<state, peers, option, mask, sem, nodata, thread, local, driver, pin,
                   attr, lost, power>>

\* handle_usb_state_event of USB_STATE_POWERED and USB_STATE_DISCONNECTED.
UsbPower(on) ==
    /\ option["sleep_enable"] = on
    /\ Input("usb")
    /\ SetOption("sleep_enable", ~on)
    /\ UNCHANGED <<state, peers, usb, poll, nodata, thread, local, driver, pin, attr, lost,
                   power>>

\* The stage after i; a number that is no stage may be followed by any.
NextStages(i) == IF i < Stages THEN {(i + 1) % Stages} ELSE 0 .. Stages - 1

\* click_event_handler: the active stage changes without its bit in the mask.
Click ==
    /\ Input("host")
    /\ \E i \in NextStages(option["stage"]) :
           option' = [option EXCEPT !["stage"] = i, !["cpi"] = i]
    /\ mask' = mask \cup {"cpi"}
    /\ sem' = TRUE
    /\ UNCHANGED <<state, peers, usb, poll, nodata, thread, local, driver, pin, attr, lost,
                   power>>

\* update_config of a config_event.
UpdateConfig ==
    /\ Input("host")
    /\ \E o \in HostOptions : \E v \in HostValues(o) : SetOption(o, v)
    /\ UNCHANGED <<state, peers, usb, poll, nodata, thread, local, driver, pin, attr, lost,
                   power>>

-----------------------------------------------------------------------------
(* The thread, at a lower priority than the interrupt and the work queue.  *)

\* An interrupt or a work item is ready: the thread does not run.
Preempted == ("line" \in driver /\ pin) \/ "work" \in driver \/ "wake" \in power

At(pc) == ~Preempted /\ thread.pc = pc
AfterFetch == IF thread.bm = {} THEN "wait" ELSE "config"
Goto(pc) == thread' = [thread EXCEPT !.pc = pc]

\* k_sem_take, and state and option_mask read under the lock.
Take ==
    /\ At("wait") /\ sem
    /\ sem' = FALSE
    /\ thread' = [pc |-> IF state = "FETCHING" THEN "fetch"
                         ELSE IF mask = {} THEN "wait" ELSE "config",
                  bm |-> mask]
    /\ UNCHANGED <<state, peers, usb, option, mask, poll, nodata, local, driver, pin, attr,
                   lost, power, count>>

\* What motion_read does with a sample: an empty one past the limit ends sampling.
Sample(empty) ==
    IF ~empty THEN nodata' = 0 /\ Goto(AfterFetch)
    ELSE IF nodata < NoDataLimit THEN nodata' = nodata + 1 /\ Goto(AfterFetch)
    ELSE nodata' = 0 /\ Goto("stop")

\* motion_read: reading the motion releases the pin.
Fetch ==
    /\ At("fetch")
    /\ Sample(~pin)
    /\ pin' = FALSE
    /\ UNCHANGED <<state, peers, usb, option, mask, poll, sem, local, driver, attr, lost, power,
                   count>>

\* motion_read when the read fails: the test is of values never written.
FetchFails ==
    /\ At("fetch")
    /\ pin
    /\ Count("errors", MaxErrors)
    /\ \E empty \in BOOLEAN : Sample(empty)
    /\ UNCHANGED <<state, peers, usb, option, mask, poll, sem, local, driver, pin, attr, lost,
                   power>>

\* No data: stop_polling, then IDLE whatever the state is now, then the trigger.
StopPolling ==
    /\ At("stop")
    /\ poll' = Stopped
    /\ Goto("idle")
    /\ UNCHANGED <<state, peers, usb, option, mask, sem, nodata, local, driver, pin, attr, lost,
                   power, count>>
BecomeIdle ==
    /\ At("idle")
    /\ state' = "IDLE"
    /\ Goto("arm")
    /\ UNCHANGED <<peers, usb, option, mask, poll, sem, nodata, local, driver, pin, attr, lost,
                   power, count>>

Arm ==
    /\ At("arm")
    /\ driver' = Armed
    /\ Goto(AfterFetch)
    /\ UNCHANGED <<state, peers, usb, option, mask, poll, sem, nodata, local, pin, attr, lost,
                   power, count>>

\* Mutant: option_mask is cleared when the attributes have been written.
MaskAfterLate(step) == IF step = "write" THEN {} ELSE mask
MaskAfter(step) == IF step = "copy" THEN {} ELSE mask

\* write_config: options and mask are copied and the mask cleared under the lock,
\* then the attributes are written; an error is logged, and not retried.
CopyConfig ==
    /\ At("config")
    /\ thread' = [pc |-> "attr", bm |-> mask]
    /\ local' = [NoLocal EXCEPT !.option = [o \in AttrOptions |-> option[o]]]
    /\ mask' = MaskAfter("copy")
    /\ UNCHANGED <<state, peers, usb, option, poll, sem, nodata, driver, pin, attr, lost, power,
                   count>>
WriteAttributes ==
    /\ At("attr")
    /\ \E failed \in SUBSET (thread.bm \cap AttrOptions) :
        /\ count.errors + Cardinality(failed) <= MaxErrors
        /\ count' = [count EXCEPT !.errors = @ + Cardinality(failed)]
        /\ attr' = [o \in AttrOptions |-> IF o \in thread.bm \ failed THEN local.option[o]
                                                                     ELSE attr[o]]
        /\ lost' = (lost \ thread.bm) \cup failed
    /\ Goto("rate")
    /\ local' = NoLocal
    /\ mask' = MaskAfter("write")
    /\ UNCHANGED <<state, peers, usb, option, poll, sem, nodata, driver, pin, power>>

\* is_fetching, then start_polling: the rate is read, then set.
CheckRate ==
    /\ At("rate")
    /\ Goto(IF state = "FETCHING" /\ thread.bm \cap {"poll_esb", "poll_usb"} # {}
            THEN "restart" ELSE "stage")
    /\ UNCHANGED <<state, peers, usb, option, mask, poll, sem, nodata, local, driver, pin,
                   attr, lost, power, count>>
ReadRate ==
    /\ At("restart")
    /\ Goto("start")
    /\ local' = [NoLocal EXCEPT !.read = Rate(usb)]
    /\ UNCHANGED <<state, peers, usb, option, mask, poll, sem, nodata, driver, pin, attr, lost,
                   power, count>>
StartPolling ==
    /\ At("start")
    /\ poll' = Polling(local.read)
    /\ Goto("stage")
    /\ local' = NoLocal
    /\ UNCHANGED <<state, peers, usb, option, mask, sem, nodata, driver, pin, attr, lost, power,
                   count>>

\* motion_sensor_cpi_stage[i] is read out of its bounds when i is no stage.
CpisOf(i) == IF i < Stages THEN {i} ELSE Values("cpi")

\* The CPI of the active stage is read under the lock and set after it.
ReadStage ==
    /\ At("stage")
    /\ IF "stage" \in thread.bm
       THEN /\ Goto("cpi")
            /\ \E cpi \in CpisOf(option["stage"]) : local' = [NoLocal EXCEPT !.read = cpi]
       ELSE thread' = [pc |-> "wait", bm |-> {}] /\ UNCHANGED local
    /\ UNCHANGED <<state, peers, usb, option, mask, poll, sem, nodata, driver, pin, attr, lost,
                   power, count>>
SetStageCpi ==
    /\ At("cpi")
    /\ SetOption("cpi", local.read)
    /\ thread' = [pc |-> "wait", bm |-> {}]
    /\ local' = NoLocal
    /\ UNCHANGED <<state, peers, usb, poll, nodata, driver, pin, attr, lost, power, count>>

Thread == \/ Take \/ Fetch \/ FetchFails \/ StopPolling \/ BecomeIdle \/ Arm
          \/ CopyConfig \/ WriteAttributes \/ CheckRate \/ ReadRate \/ StartPolling
          \/ ReadStage \/ SetStageCpi

Next ==
    \/ Move \/ Irq \/ Tick \/ TriggerHandler
    \/ PowerDown \/ WakeUp
    \/ \E n \in 0 .. 2 : Subscription(n)
    \/ UsbActive \/ UsbSuspended
    \/ \E on \in BOOLEAN : UsbPower(on)
    \/ Click \/ UpdateConfig
    \/ Thread

Spec == Init /\ [][Next]_vars

\* The interrupt, the work queue and the timer run; the thread runs whenever it
\* is not preempted.  Users, hosts and power need not do anything.
Fairness ==
    /\ WF_vars(Irq) /\ WF_vars(TriggerHandler) /\ WF_vars("wake" \in power /\ WakeUp)
    /\ WF_vars(Tick) /\ WF_vars(Thread)

FairSpec == Spec /\ Fairness

-----------------------------------------------------------------------------
(* Properties.                                                             *)

\* The variables stay within the ranges of the code: whatever rate a host sets, the
\* timer's is within its bounds; one semaphore count, no more empty samples than the limit.
TypeOK ==
    /\ state \in States
    /\ peers \in 0 .. 2
    /\ usb \in BOOLEAN /\ sem \in BOOLEAN
    /\ DOMAIN option = Options /\ \A o \in Options : option[o] \in Values(o)
    /\ mask \subseteq Options
    /\ poll \in [timer : {"off", "on"}, rate : MinRate .. MaxRate]
    /\ nodata \in 0 .. NoDataLimit
    /\ thread \in [pc : {"wait", "fetch", "stop", "idle", "arm", "config", "attr", "rate",
                         "restart", "start", "stage", "cpi"},
                   bm : SUBSET Options]
    /\ driver \subseteq {"handler", "line", "work"}
    /\ lost \subseteq AttrOptions
    /\ power \subseteq {"asleep", "wake"}

\* Something will notice the next motion: the polling timer runs, or the trigger
\* is armed.  The exceptions are a mouse without a subscriber and the thread
\* between stop_polling and enable_trigger; in FETCHING the timer itself runs,
\* as the trigger's handler does nothing there.
Listening == "handler" \in driver /\ driver \cap {"line", "work"} # {}
NeverDeaf ==
    /\ poll.timer = "on" \/ Listening \/ state = "DISCONNECTED" \/ thread.pc \in {"idle", "arm"}
    /\ state = "FETCHING" => poll.timer = "on" \/ thread.pc = "idle"

\* When the thread has nothing left to do, the sensor has the options last set, but for
\* those whose write failed, and, as long as USB was never active, the timer has the
\* rate last set, within its bounds: no order of write_config and of a host, a click or
\* a subscription loses a change.
SensorFollowsOptions ==
    thread.pc = "wait" /\ ~sem =>
        /\ mask = {}
        /\ \A o \in AttrOptions \ lost : attr[o] = option[o]
        /\ state = "FETCHING" /\ count.usb = 0 => poll.rate = Clamped(Rate(FALSE))

\* A motion is read by the thread, unless the mouse has no subscriber or the thread is
\* starved: the trigger is armed while sampling goes on, so that interrupt and work keep
\* the processor from it.
Starved == state = "FETCHING" /\ Listening
MotionIsSampled == pin ~> (~pin \/ state = "DISCONNECTED" \/ Starved)

\* The same without the excuse, as motion.rst has it of STATE_FETCHING.  The code
\* violates it: wake_up_event enters FETCHING with the level interrupt still armed,
\* and the work queue starves the thread.
WokenIsSampled == pin ~> (~pin \/ state \in {"SUSPENDED", "DISCONNECTED"})

\* The active CPI is that of the active stage, as long as a host sets no CPI itself.
\* The code violates it: the thread sets the CPI of the stage it has read after the
\* lock, and overwrites that of a click which came between (write_config).
StageHasItsCpi ==
    thread.pc = "wait" /\ ~sem /\ option["stage"] < Stages => option["cpi"] = option["stage"]
=============================================================================
