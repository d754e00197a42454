------------------------- MODULE MotionSensorProofs -------------------------
(***************************************************************************)
(* Proofs about MotionSensor: for any stages, rates and numbers of inputs  *)
(* the next motion is noticed, and no option that is set is lost between   *)
(* the thread and the handlers that preempt it.                            *)
(***************************************************************************)
EXTENDS MotionSensor, FiniteSetTheorems, TLAPS

-----------------------------------------------------------------------------
(* The inductive invariant.                                                *)

CountOK ==
    /\ count \in [moves : Nat, host : Nat, usb : Nat, power : Nat, errors : Nat]
    /\ count.usb = 0 => ~usb

\* What the thread has copied is what was set, or it will be told.
LocalOK ==
    /\ thread.pc = "attr" => \A o \in AttrOptions : o \in mask \/ local.option[o] = option[o]
    /\ thread.pc = "start" =>
           /\ local.read \in Nat
           /\ count.usb = 0 => local.read = Rate(FALSE) \/ "poll_esb" \in mask
    /\ thread.pc = "cpi" => local.read \in 0 .. Stages

\* Nothing is in the mask of which the thread neither knows nor will be told.
MaskOK ==
    ~sem =>
        /\ thread.pc \in {"fetch", "stop", "idle", "arm"} => mask \subseteq thread.bm
        /\ thread.pc \notin {"fetch", "stop", "idle", "arm", "config"} => mask = {}

\* A difference between an option and the sensor is in the mask or with the thread, or
\* the write has failed.
AttrOK ==
    \A o \in AttrOptions \ lost :
        attr[o] = option[o] \/ o \in mask \/ (thread.pc = "attr" /\ o \in thread.bm)

\* So is one between the rate that is set and the timer's, while it samples.
RateOK ==
    state = "FETCHING" /\ count.usb = 0 =>
        \/ poll.rate = Clamped(Rate(FALSE))
        \/ "poll_esb" \in mask
        \/ thread.pc \in {"attr", "rate"} /\ "poll_esb" \in thread.bm
        \/ thread.pc \in {"restart", "start"}

IInv == TypeOK /\ CountOK /\ NeverDeaf /\ LocalOK /\ MaskOK /\ AttrOK /\ RateOK

-----------------------------------------------------------------------------
(* Helpers.                                                                *)

LEMMA CountKept == ASSUME CountOK, UNCHANGED <<count, usb>> PROVE CountOK'
  BY DEF CountOK

LEMMA CountMore ==
    ASSUME CountOK, UNCHANGED usb,
           NEW what \in {"moves", "host", "usb", "power", "errors"},
           count' = [count EXCEPT ![what] = @ + 1]
    PROVE  CountOK' /\ (count'.usb = 0 => count.usb = 0)
  BY DEF CountOK

LEMMA CountUsb ==
    ASSUME CountOK, count' = [count EXCEPT !["usb"] = @ + 1]
    PROVE  CountOK' /\ count'.usb # 0
  BY DEF CountOK

LEMMA SetOptionFacts ==
    ASSUME TypeOK, NEW o \in Options, NEW v \in Values(o), SetOption(o, v)
    PROVE  /\ DOMAIN option' = Options /\ \A x \in Options : option'[x] \in Values(x)
           /\ option'[o] = v /\ \A x \in Options : x # o => option'[x] = option[x]
           /\ mask' = mask \cup {o} /\ mask' \subseteq Options /\ sem'
<1>1. option' = [option EXCEPT ![o] = v] /\ mask' = mask \cup {o} /\ sem' = TRUE
  BY DEF SetOption
<1>. QED BY <1>1 DEF TypeOK

\* Nothing of what the thread and the mask know changes.
LEMMA KnowledgeKept ==
    ASSUME LocalOK, MaskOK, AttrOK, UNCHANGED <<option, mask, thread, local, attr, lost>>,
           sem' = sem \/ sem' = TRUE, count'.usb = 0 => count.usb = 0
    PROVE  LocalOK' /\ MaskOK' /\ AttrOK'
  BY DEF LocalOK, Rate, MaskOK, AttrOK

\* A handler sets options: their bits are in the mask, and the thread will be told.
LEMMA KnowledgeOfOptions ==
    ASSUME LocalOK, AttrOK, UNCHANGED <<thread, local, attr, lost>>, sem',
           count'.usb = 0 => count.usb = 0, mask \subseteq mask',
           \A x \in AttrOptions \cup {"poll_esb"} : x \notin mask' => option'[x] = option[x]
    PROVE  LocalOK' /\ MaskOK' /\ AttrOK'
<1>1. LocalOK'
  BY DEF LocalOK, Rate
<1>2. AttrOK'
  BY DEF AttrOK
<1>. QED BY <1>1, <1>2 DEF MaskOK

\* Whatever rate is asked for, the timer gets one within its bounds.
LEMMA ClampedFacts == ASSUME NEW rate \in Nat PROVE Clamped(rate) \in MinRate .. MaxRate
  BY RatesAssumption DEF Clamped

LEMMA RatesInNat == ASSUME TypeOK, NEW isUsb \in BOOLEAN PROVE Rate(isUsb) \in Nat
<1>1. option["poll_esb"] \in Nat /\ option["poll_usb"] \in Nat
  BY RatesAssumption DEF TypeOK, Options, Values
<1>. QED BY <1>1, RatesAssumption DEF Rate

\* The polling timer with the rate of the transport that is in use, or stopped.
LEMMA RateFacts ==
    ASSUME TypeOK, NEW isUsb \in BOOLEAN
    PROVE  /\ Polling(Rate(isUsb)) \in [timer : {"off", "on"}, rate : MinRate .. MaxRate]
           /\ Polling(Rate(isUsb)).timer = "on"
           /\ ~isUsb => Polling(Rate(isUsb)).rate = Clamped(Rate(FALSE))
<1>1. Rate(isUsb) \in Nat
  BY RatesInNat
<1>2. Clamped(Rate(isUsb)) \in MinRate .. MaxRate
  BY <1>1, ClampedFacts
<1>. QED BY <1>2 DEF Polling

LEMMA StoppedFacts ==
    ASSUME TypeOK
    PROVE  /\ Stopped \in [timer : {"off", "on"}, rate : MinRate .. MaxRate]
           /\ Stopped.timer = "off" /\ Stopped.rate = poll.rate
  BY DEF TypeOK, Stopped

-----------------------------------------------------------------------------
(* The chip, its interrupt and the application events.                     *)

LEMMA MoveStep == ASSUME IInv, Move PROVE IInv'
<1>1. CountOK' /\ (count'.usb = 0 => count.usb = 0)
  BY CountMore DEF IInv, Move, Count
<1>2. TypeOK'
  BY DEF IInv, TypeOK, Move
<1>3. NeverDeaf'
  BY DEF IInv, NeverDeaf, Listening, Move
<1>4. LocalOK' /\ MaskOK' /\ AttrOK'
  BY <1>1, KnowledgeKept DEF IInv, Move
<1>5. RateOK'
  BY <1>1 DEF IInv, RateOK, Rate, Move
<1>. QED BY <1>1, <1>2, <1>3, <1>4, <1>5 DEF IInv

LEMMA IrqStep == ASSUME IInv, Irq PROVE IInv'
<1>1. CountOK' /\ (count'.usb = 0 => count.usb = 0)
  BY CountKept DEF IInv, Irq
<1>2. TypeOK'
  BY DEF IInv, TypeOK, Irq
<1>3. NeverDeaf'
  BY DEF IInv, NeverDeaf, Listening, Irq
<1>4. LocalOK' /\ MaskOK' /\ AttrOK'
  BY <1>1, KnowledgeKept DEF IInv, Irq
<1>5. RateOK'
  BY <1>1 DEF IInv, RateOK, Rate, Irq
<1>. QED BY <1>1, <1>2, <1>3, <1>4, <1>5 DEF IInv

LEMMA TickStep == ASSUME IInv, Tick PROVE IInv'
<1>1. CountOK' /\ (count'.usb = 0 => count.usb = 0)
  BY CountKept DEF IInv, Tick
<1>2. TypeOK'
  BY DEF IInv, TypeOK, Tick
<1>3. NeverDeaf'
  BY DEF IInv, NeverDeaf, Listening, Tick
<1>4. LocalOK' /\ MaskOK' /\ AttrOK'
  BY <1>1, KnowledgeKept DEF IInv, Tick
<1>5. RateOK'
  BY <1>1 DEF IInv, RateOK, Rate, Tick
<1>. QED BY <1>1, <1>2, <1>3, <1>4, <1>5 DEF IInv

LEMMA TriggerHandlerStep == ASSUME IInv, TriggerHandler PROVE IInv'
<1>1. /\ Polling(Rate(usb)) \in [timer : {"off", "on"}, rate : MinRate .. MaxRate]
      /\ Polling(Rate(usb)).timer = "on"
      /\ count.usb = 0 => Polling(Rate(usb)).rate = Clamped(Rate(FALSE))
  BY RateFacts DEF IInv, TypeOK, CountOK
<1>2. CountOK' /\ (count'.usb = 0 => count.usb = 0)
  BY CountKept DEF IInv, TriggerHandler
<1>3. TypeOK'
  BY <1>1 DEF IInv, TypeOK, TriggerHandler, DataReady, Disarmed, States
<1>4. NeverDeaf'
  BY <1>1 DEF IInv, TypeOK, States, NeverDeaf, Listening, TriggerHandler, DataReady, Disarmed
<1>5. LocalOK' /\ MaskOK' /\ AttrOK'
  BY <1>2, KnowledgeKept DEF IInv, TriggerHandler, DataReady
<1>6. RateOK'
  BY <1>1, <1>2 DEF IInv, RateOK, Rate, TriggerHandler, DataReady
<1>. QED BY <1>2, <1>3, <1>4, <1>5, <1>6 DEF IInv

LEMMA PowerDownStep == ASSUME IInv, PowerDown PROVE IInv'
<1>1. CountOK' /\ (count'.usb = 0 => count.usb = 0)
  BY CountMore DEF IInv, PowerDown, Input
<1>2. TypeOK'
  BY StoppedFacts DEF IInv, TypeOK, PowerDown, Armed, States
<1>3. NeverDeaf'
  BY DEF NeverDeaf, Listening, PowerDown, Armed
<1>4. LocalOK' /\ MaskOK' /\ AttrOK'
  BY <1>1, KnowledgeKept DEF IInv, PowerDown
<1>5. RateOK'
  BY DEF RateOK, Rate, PowerDown
<1>. QED BY <1>1, <1>2, <1>3, <1>4, <1>5 DEF IInv

LEMMA WakeUpStep == ASSUME IInv, WakeUp PROVE IInv'
<1>1. /\ Polling(Rate(usb)) \in [timer : {"off", "on"}, rate : MinRate .. MaxRate]
      /\ Polling(Rate(usb)).timer = "on"
      /\ count.usb = 0 => Polling(Rate(usb)).rate = Clamped(Rate(FALSE))
  BY RateFacts DEF IInv, TypeOK, CountOK
<1>2. CountOK' /\ (count'.usb = 0 => count.usb = 0)
  BY CountKept DEF IInv, WakeUp
<1>3. TypeOK'
  BY <1>1 DEF IInv, TypeOK, WakeUp, States
<1>4. NeverDeaf'
  BY <1>1 DEF IInv, NeverDeaf, Listening, WakeUp
<1>5. LocalOK' /\ MaskOK' /\ AttrOK'
  BY <1>2, KnowledgeKept DEF IInv, WakeUp
<1>6. RateOK'
  BY <1>1, <1>2 DEF IInv, RateOK, Rate, WakeUp
<1>. QED BY <1>2, <1>3, <1>4, <1>5, <1>6 DEF IInv

LEMMA SubscriptionStep == ASSUME IInv, NEW n \in 0 .. 2, Subscription(n) PROVE IInv'
<1>1. /\ DOMAIN option' = Options /\ \A x \in Options : option'[x] \in Values(x)
      /\ \A x \in Options : x # "sleep3" => option'[x] = option[x]
      /\ mask' = mask \cup {"sleep3"} /\ mask' \subseteq Options /\ sem'
  <2>1. "sleep3" \in Options /\ (n # 0) \in Values("sleep3")
    BY DEF IInv, TypeOK, LocalOK, Rate, Options, Values, Subscription
  <2>2. SetOption("sleep3", (n # 0))
    BY DEF Subscription
  <2>. QED BY <2>1, <2>2, SetOptionFacts DEF IInv
<1>2. CountOK' /\ (count'.usb = 0 => count.usb = 0)
  BY CountMore DEF IInv, Subscription, Input
<1>3. TypeOK'
  BY <1>1, StoppedFacts DEF IInv, TypeOK, Subscription, Connected, Armed, Disarmed, States
<1>4. NeverDeaf'
  BY StoppedFacts DEF IInv, TypeOK, NeverDeaf, Listening, Subscription, Connected, Armed, Disarmed
<1>5. LocalOK' /\ MaskOK' /\ AttrOK'
  BY <1>1, <1>2, KnowledgeOfOptions DEF IInv, Subscription, AttrOptions, Options
<1>6. RateOK'
  BY <1>1, <1>2 DEF IInv, RateOK, Rate, Subscription, Connected, Options
<1>. QED BY <1>2, <1>3, <1>4, <1>5, <1>6 DEF IInv

LEMMA UsbActiveStep == ASSUME IInv, UsbActive PROVE IInv'
<1>1. /\ Polling(Rate(TRUE)) \in [timer : {"off", "on"}, rate : MinRate .. MaxRate]
      /\ Polling(Rate(TRUE)).timer = "on"
  BY RateFacts DEF IInv
<1>2. count'.usb # 0
  BY CountUsb DEF IInv, UsbActive, Input
<1>3. CountOK' /\ (count'.usb = 0 => count.usb = 0)
  BY CountUsb DEF IInv, UsbActive, Input
<1>4. TypeOK'
  BY <1>1 DEF IInv, TypeOK, UsbActive, Disarmed, States
<1>5. NeverDeaf'
  BY <1>1 DEF IInv, NeverDeaf, Listening, UsbActive
<1>6. LocalOK' /\ MaskOK' /\ AttrOK'
  BY <1>3, KnowledgeKept DEF IInv, UsbActive
<1>7. RateOK'
  BY <1>2 DEF RateOK, Rate
<1>. QED BY <1>3, <1>4, <1>5, <1>6, <1>7 DEF IInv

LEMMA UsbSuspendedStep == ASSUME IInv, UsbSuspended PROVE IInv'
<1>1. /\ Polling(Rate(FALSE)) \in [timer : {"off", "on"}, rate : MinRate .. MaxRate]
      /\ Polling(Rate(FALSE)).timer = "on"
  BY RateFacts DEF IInv
<1>2. count'.usb # 0
  BY CountUsb DEF IInv, UsbSuspended, Input
<1>3. CountOK' /\ (count'.usb = 0 => count.usb = 0)
  BY CountUsb DEF IInv, UsbSuspended, Input
<1>4. TypeOK'
  BY <1>1 DEF IInv, TypeOK, UsbSuspended
<1>5. NeverDeaf'
  BY <1>1 DEF IInv, NeverDeaf, Listening, UsbSuspended
<1>6. LocalOK' /\ MaskOK' /\ AttrOK'
  BY <1>3, KnowledgeKept DEF IInv, UsbSuspended
<1>7. RateOK'
  BY <1>2 DEF RateOK, Rate
<1>. QED BY <1>3, <1>4, <1>5, <1>6, <1>7 DEF IInv

LEMMA UsbPowerStep == ASSUME IInv, NEW on \in BOOLEAN, UsbPower(on) PROVE IInv'
<1>1. /\ DOMAIN option' = Options /\ \A x \in Options : option'[x] \in Values(x)
      /\ \A x \in Options : x # "sleep_enable" => option'[x] = option[x]
      /\ mask' = mask \cup {"sleep_enable"} /\ mask' \subseteq Options /\ sem'
  <2>1. "sleep_enable" \in Options /\ (~on) \in Values("sleep_enable")
    BY DEF IInv, TypeOK, LocalOK, Rate, Options, Values, UsbPower
  <2>2. SetOption("sleep_enable", (~on))
    BY DEF UsbPower
  <2>. QED BY <2>1, <2>2, SetOptionFacts DEF IInv
<1>2. CountOK' /\ (count'.usb = 0 => count.usb = 0)
  BY CountUsb DEF IInv, CountOK, UsbPower, Input
<1>3. TypeOK'
  BY <1>1 DEF IInv, TypeOK, UsbPower
<1>4. NeverDeaf'
  BY DEF IInv, NeverDeaf, Listening, UsbPower
<1>5. LocalOK' /\ MaskOK' /\ AttrOK'
  BY <1>1, <1>2, KnowledgeOfOptions DEF IInv, UsbPower, AttrOptions, Options
<1>6. RateOK'
  BY <1>1, <1>2 DEF IInv, RateOK, Rate, UsbPower, Options
<1>. QED BY <1>2, <1>3, <1>4, <1>5, <1>6 DEF IInv

LEMMA ClickStep == ASSUME IInv, Click PROVE IInv'
<1>1. /\ DOMAIN option' = Options /\ \A x \in Options : option'[x] \in Values(x)
      /\ \A x \in Options \ {"cpi", "stage"} : option'[x] = option[x]
      /\ mask' = mask \cup {"cpi"} /\ mask' \subseteq Options /\ sem'
  <2>1. option["stage"] \in 0 .. Stages /\ Stages \in Nat /\ Stages > 0
    BY SizesAssumption DEF IInv, TypeOK, Options, Values
  <2>2. NextStages(option["stage"]) \subseteq 0 .. Stages
    BY <2>1, SMT DEF NextStages
  <2>3. PICK i \in NextStages(option["stage"]) :
            option' = [option EXCEPT !["stage"] = i, !["cpi"] = i]
    BY DEF Click
  <2>4. i \in Values("stage") /\ i \in Values("cpi")
    BY <2>2 DEF Values
  <2>5. mask' = mask \cup {"cpi"} /\ sem' = TRUE
    BY DEF Click
  <2>. QED BY <2>3, <2>4, <2>5 DEF IInv, TypeOK, Options
<1>2. CountOK' /\ (count'.usb = 0 => count.usb = 0)
  BY CountMore DEF IInv, Click, Input
<1>3. TypeOK'
  BY <1>1 DEF IInv, TypeOK, Click
<1>4. NeverDeaf'
  BY DEF IInv, NeverDeaf, Listening, Click
<1>5. LocalOK' /\ MaskOK' /\ AttrOK'
  BY <1>1, <1>2, KnowledgeOfOptions DEF IInv, Click, AttrOptions, Options
<1>6. RateOK'
  BY <1>1, <1>2 DEF IInv, RateOK, Rate, Click, Options
<1>. QED BY <1>2, <1>3, <1>4, <1>5, <1>6 DEF IInv

LEMMA UpdateConfigStep == ASSUME IInv, UpdateConfig PROVE IInv'
<1>1. PICK o \in HostOptions : \E v \in HostValues(o) : SetOption(o, v)
  BY DEF UpdateConfig
<1>2. PICK v \in HostValues(o) : SetOption(o, v)
  BY <1>1
<1>3. o \in Options /\ v \in Values(o)
  BY OptionsAssumption DEF HostValues, Values
<1>4. /\ DOMAIN option' = Options /\ \A x \in Options : option'[x] \in Values(x)
      /\ \A x \in Options : x # o => option'[x] = option[x]
      /\ mask' = mask \cup {o} /\ mask' \subseteq Options /\ sem'
  BY <1>2, <1>3, SetOptionFacts DEF IInv
<1>5. CountOK' /\ (count'.usb = 0 => count.usb = 0)
  BY CountMore DEF IInv, UpdateConfig, Input
<1>6. TypeOK'
  BY <1>4 DEF IInv, TypeOK, UpdateConfig
<1>7. NeverDeaf'
  BY DEF IInv, NeverDeaf, Listening, UpdateConfig
<1>8. LocalOK' /\ MaskOK' /\ AttrOK'
  BY <1>4, <1>5, KnowledgeOfOptions DEF IInv, UpdateConfig, AttrOptions, Options
<1>9. RateOK'
  BY <1>4, <1>5 DEF IInv, RateOK, Rate, UpdateConfig, Options
<1>. QED BY <1>5, <1>6, <1>7, <1>8, <1>9 DEF IInv

-----------------------------------------------------------------------------
(* The thread.                                                             *)

LEMMA GotoFacts ==
    ASSUME TypeOK, NEW pc, Goto(pc)
    PROVE  thread'.pc = pc /\ thread'.bm = thread.bm
  BY DEF TypeOK, Goto

LEMMA TakeStep == ASSUME IInv, Take PROVE IInv'
<1>1. /\ thread' \in [pc : {"wait", "fetch", "stop", "idle", "arm", "config", "attr", "rate",
                         "restart", "start", "stage", "cpi"},
                   bm : SUBSET Options]
      /\ thread.pc = "wait" /\ thread'.bm = mask
      /\ state = "FETCHING" => thread'.pc = "fetch"
      /\ state # "FETCHING" => thread'.pc = IF mask = {} THEN "wait" ELSE "config"
  BY DEF IInv, TypeOK, Take, At
<1>2. CountOK' /\ (count'.usb = 0 => count.usb = 0)
  BY CountKept DEF IInv, Take
<1>3. TypeOK'
  BY <1>1 DEF IInv, TypeOK, Take
<1>4. NeverDeaf'
  BY <1>1 DEF IInv, NeverDeaf, Listening, Take
<1>5. LocalOK' /\ MaskOK' /\ AttrOK'
  <2>1. LocalOK'
    BY <1>1, <1>2 DEF IInv, LocalOK, Rate, Take
  <2>2. MaskOK'
    BY <1>1 DEF IInv, TypeOK, MaskOK, Take
  <2>3. AttrOK'
    BY <1>1 DEF IInv, AttrOK, Take
  <2>. QED BY <2>1, <2>2, <2>3
<1>6. RateOK'
  BY <1>1, <1>2 DEF IInv, RateOK, Rate, Take
<1>. QED BY <1>2, <1>3, <1>4, <1>5, <1>6 DEF IInv

LEMMA SampleFacts ==
    ASSUME TypeOK, NEW empty \in BOOLEAN, Sample(empty)
    PROVE  /\ thread' \in [pc : {"wait", "fetch", "stop", "idle", "arm", "config", "attr", "rate",
                         "restart", "start", "stage", "cpi"},
                   bm : SUBSET Options]
           /\ thread'.bm = thread.bm /\ nodata' \in 0 .. NoDataLimit
           /\ thread'.pc \in {"stop", "wait", "config"}
           /\ thread'.pc = "wait" => thread.bm = {}
<1>1. AfterFetch \in {"wait", "config"} /\ (AfterFetch = "wait" => thread.bm = {})
  BY DEF AfterFetch
<1>2. nodata' \in 0 .. NoDataLimit
  BY SizesAssumption DEF TypeOK, Sample
<1>3. thread' = [thread EXCEPT !.pc = "stop"] \/ thread' = [thread EXCEPT !.pc = AfterFetch]
  BY DEF Sample, Goto
<1>. QED BY <1>1, <1>2, <1>3 DEF TypeOK

LEMMA FetchStep == ASSUME IInv, Fetch PROVE IInv'
<1>1. /\ thread' \in [pc : {"wait", "fetch", "stop", "idle", "arm", "config", "attr", "rate",
                         "restart", "start", "stage", "cpi"},
                   bm : SUBSET Options]
      /\ thread.pc = "fetch" /\ thread'.bm = thread.bm /\ nodata' \in 0 .. NoDataLimit
      /\ thread'.pc \in {"stop", "wait", "config"} /\ (thread'.pc = "wait" => thread.bm = {})
  <2>1. thread.pc = "fetch" /\ Sample(~pin)
    BY DEF Fetch, At
  <2>. QED BY <2>1, SampleFacts DEF IInv
<1>2. CountOK' /\ (count'.usb = 0 => count.usb = 0)
  BY CountKept DEF IInv, Fetch
<1>3. TypeOK'
  BY <1>1 DEF IInv, TypeOK, Fetch
<1>4. NeverDeaf'
  BY <1>1 DEF IInv, NeverDeaf, Listening, Fetch
<1>5. LocalOK' /\ MaskOK' /\ AttrOK'
  <2>1. LocalOK'
    BY <1>1, <1>2 DEF IInv, LocalOK, Rate, Fetch
  <2>2. MaskOK'
    BY <1>1 DEF IInv, TypeOK, MaskOK, Fetch
  <2>3. AttrOK'
    BY <1>1 DEF IInv, AttrOK, Fetch
  <2>. QED BY <2>1, <2>2, <2>3
<1>6. RateOK'
  BY <1>1, <1>2 DEF IInv, RateOK, Rate, Fetch
<1>. QED BY <1>2, <1>3, <1>4, <1>5, <1>6 DEF IInv

LEMMA FetchFailsStep == ASSUME IInv, FetchFails PROVE IInv'
<1>1. /\ thread' \in [pc : {"wait", "fetch", "stop", "idle", "arm", "config", "attr", "rate",
                         "restart", "start", "stage", "cpi"},
                   bm : SUBSET Options]
      /\ thread.pc = "fetch" /\ thread'.bm = thread.bm /\ nodata' \in 0 .. NoDataLimit
      /\ thread'.pc \in {"stop", "wait", "config"} /\ (thread'.pc = "wait" => thread.bm = {})
  <2>1. thread.pc = "fetch" /\ \E empty \in BOOLEAN : Sample(empty)
    BY DEF FetchFails, At
  <2>. QED BY <2>1, SampleFacts DEF IInv
<1>2. CountOK' /\ (count'.usb = 0 => count.usb = 0)
  BY CountMore DEF IInv, FetchFails, Count
<1>3. TypeOK'
  BY <1>1 DEF IInv, TypeOK, FetchFails
<1>4. NeverDeaf'
  BY <1>1 DEF IInv, NeverDeaf, Listening, FetchFails
<1>5. LocalOK' /\ MaskOK' /\ AttrOK'
  <2>1. LocalOK'
    BY <1>1, <1>2 DEF IInv, LocalOK, Rate, FetchFails
  <2>2. MaskOK'
    BY <1>1 DEF IInv, TypeOK, MaskOK, FetchFails
  <2>3. AttrOK'
    BY <1>1 DEF IInv, AttrOK, FetchFails
  <2>. QED BY <2>1, <2>2, <2>3
<1>6. RateOK'
  BY <1>1, <1>2 DEF IInv, RateOK, Rate, FetchFails
<1>. QED BY <1>2, <1>3, <1>4, <1>5, <1>6 DEF IInv

LEMMA StopPollingStep == ASSUME IInv, StopPolling PROVE IInv'
<1>1. /\ thread' \in [pc : {"wait", "fetch", "stop", "idle", "arm", "config", "attr", "rate",
                         "restart", "start", "stage", "cpi"},
                   bm : SUBSET Options]
      /\ thread.pc = "stop" /\ thread'.pc = "idle" /\ thread'.bm = thread.bm
  BY DEF IInv, TypeOK, StopPolling, At, Goto
<1>2. CountOK' /\ (count'.usb = 0 => count.usb = 0)
  BY CountKept DEF IInv, StopPolling
<1>3. TypeOK'
  BY <1>1, StoppedFacts DEF IInv, TypeOK, StopPolling
<1>4. NeverDeaf'
  BY <1>1 DEF IInv, NeverDeaf, Listening, StopPolling
<1>5. LocalOK' /\ MaskOK' /\ AttrOK'
  <2>1. LocalOK'
    BY <1>1, <1>2 DEF IInv, LocalOK, Rate, StopPolling
  <2>2. MaskOK'
    BY <1>1 DEF IInv, TypeOK, MaskOK, StopPolling
  <2>3. AttrOK'
    BY <1>1 DEF IInv, AttrOK, StopPolling
  <2>. QED BY <2>1, <2>2, <2>3
<1>6. RateOK'
  BY <1>1, <1>2, StoppedFacts DEF IInv, RateOK, Rate, StopPolling
<1>. QED BY <1>2, <1>3, <1>4, <1>5, <1>6 DEF IInv

LEMMA BecomeIdleStep == ASSUME IInv, BecomeIdle PROVE IInv'
<1>1. /\ thread' \in [pc : {"wait", "fetch", "stop", "idle", "arm", "config", "attr", "rate",
                         "restart", "start", "stage", "cpi"},
                   bm : SUBSET Options]
      /\ thread.pc = "idle" /\ thread'.pc = "arm" /\ thread'.bm = thread.bm
  BY DEF IInv, TypeOK, BecomeIdle, At, Goto
<1>2. CountOK' /\ (count'.usb = 0 => count.usb = 0)
  BY CountKept DEF IInv, BecomeIdle
<1>3. TypeOK'
  BY <1>1 DEF IInv, TypeOK, BecomeIdle, States
<1>4. NeverDeaf'
  BY <1>1 DEF IInv, NeverDeaf, Listening, BecomeIdle
<1>5. LocalOK' /\ MaskOK' /\ AttrOK'
  <2>1. LocalOK'
    BY <1>1, <1>2 DEF IInv, LocalOK, Rate, BecomeIdle
  <2>2. MaskOK'
    BY <1>1 DEF IInv, TypeOK, MaskOK, BecomeIdle
  <2>3. AttrOK'
    BY <1>1 DEF IInv, AttrOK, BecomeIdle
  <2>. QED BY <2>1, <2>2, <2>3
<1>6. RateOK'
  BY <1>1, <1>2 DEF IInv, RateOK, Rate, BecomeIdle
<1>. QED BY <1>2, <1>3, <1>4, <1>5, <1>6 DEF IInv

LEMMA ArmStep == ASSUME IInv, Arm PROVE IInv'
<1>1. /\ thread' \in [pc : {"wait", "fetch", "stop", "idle", "arm", "config", "attr", "rate",
                         "restart", "start", "stage", "cpi"},
                   bm : SUBSET Options]
      /\ thread.pc = "arm" /\ thread'.bm = thread.bm
      /\ thread'.pc \in {"wait", "config"} /\ (thread'.pc = "wait" => thread.bm = {})
  BY DEF IInv, TypeOK, Arm, At, Goto, AfterFetch
<1>2. CountOK' /\ (count'.usb = 0 => count.usb = 0)
  BY CountKept DEF IInv, Arm
<1>3. TypeOK'
  BY <1>1 DEF IInv, TypeOK, Arm, Armed
<1>4. NeverDeaf'
  BY <1>1 DEF IInv, NeverDeaf, Listening, Arm, Armed
<1>5. LocalOK' /\ MaskOK' /\ AttrOK'
  <2>1. LocalOK'
    BY <1>1, <1>2 DEF IInv, LocalOK, Rate, Arm
  <2>2. MaskOK'
    BY <1>1 DEF IInv, TypeOK, MaskOK, Arm
  <2>3. AttrOK'
    BY <1>1 DEF IInv, AttrOK, Arm
  <2>. QED BY <2>1, <2>2, <2>3
<1>6. RateOK'
  BY <1>1, <1>2 DEF IInv, RateOK, Rate, Arm
<1>. QED BY <1>2, <1>3, <1>4, <1>5, <1>6 DEF IInv

LEMMA CopyConfigStep == ASSUME IInv, CopyConfig PROVE IInv'
<1>1. /\ thread' \in [pc : {"wait", "fetch", "stop", "idle", "arm", "config", "attr", "rate",
                         "restart", "start", "stage", "cpi"},
                   bm : SUBSET Options]
      /\ thread.pc = "config" /\ thread'.pc = "attr" /\ thread'.bm = mask /\ mask' = {}
      /\ \A o \in AttrOptions : local'.option[o] = option[o]
  BY DEF IInv, TypeOK, CopyConfig, At, MaskAfter, NoLocal
<1>2. CountOK' /\ (count'.usb = 0 => count.usb = 0)
  BY CountKept DEF IInv, CopyConfig
<1>3. TypeOK'
  BY <1>1 DEF IInv, TypeOK, CopyConfig
<1>4. NeverDeaf'
  BY <1>1 DEF IInv, NeverDeaf, Listening, CopyConfig
<1>5. LocalOK' /\ MaskOK' /\ AttrOK'
  <2>1. LocalOK'
    BY <1>1, <1>2 DEF IInv, LocalOK, Rate, CopyConfig
  <2>2. MaskOK'
    BY <1>1 DEF IInv, TypeOK, MaskOK, CopyConfig
  <2>3. AttrOK'
    BY <1>1 DEF IInv, AttrOK, CopyConfig
  <2>. QED BY <2>1, <2>2, <2>3
<1>6. RateOK'
  BY <1>1, <1>2 DEF IInv, RateOK, Rate, CopyConfig
<1>. QED BY <1>2, <1>3, <1>4, <1>5, <1>6 DEF IInv

LEMMA WriteAttributesStep == ASSUME IInv, WriteAttributes PROVE IInv'
<1>1. /\ thread' \in [pc : {"wait", "fetch", "stop", "idle", "arm", "config", "attr", "rate",
                         "restart", "start", "stage", "cpi"},
                   bm : SUBSET Options]
      /\ thread.pc = "attr" /\ thread'.pc = "rate" /\ thread'.bm = thread.bm /\ mask' = mask
      /\ lost' \subseteq AttrOptions /\ lost \ thread.bm \subseteq lost'
      /\ \A o \in AttrOptions \ lost' :
             attr'[o] = IF o \in thread.bm THEN local.option[o] ELSE attr[o]
  BY DEF IInv, TypeOK, WriteAttributes, At, Goto, MaskAfter
<1>2. CountOK' /\ (count'.usb = 0 => count.usb = 0)
  <2>1. PICK failed \in SUBSET (thread.bm \cap AttrOptions) :
            count' = [count EXCEPT !.errors = @ + Cardinality(failed)]
    BY DEF WriteAttributes
  <2>2. Cardinality(failed) \in Nat
    <3>1. IsFiniteSet(AttrOptions)
      <4>1. IsFiniteSet({"cpi"})
        BY FS_Singleton
      <4>2. IsFiniteSet({"cpi"} \cup {"sleep_enable"})
        BY <4>1, FS_AddElement
      <4>3. IsFiniteSet(({"cpi"} \cup {"sleep_enable"}) \cup {"sleep3"})
        BY <4>2, FS_AddElement
      <4>4. AttrOptions = ({"cpi"} \cup {"sleep_enable"}) \cup {"sleep3"}
        BY DEF AttrOptions
      <4>. QED BY <4>3, <4>4
    <3>2. IsFiniteSet(failed)
      BY <3>1, FS_Subset
    <3>. QED BY <3>2, FS_CardinalityType
  <2>. QED BY <2>1, <2>2 DEF IInv, CountOK, WriteAttributes
<1>3. TypeOK'
  BY <1>1 DEF IInv, TypeOK, WriteAttributes
<1>4. NeverDeaf'
  BY <1>1 DEF IInv, NeverDeaf, Listening, WriteAttributes
<1>5. LocalOK' /\ MaskOK' /\ AttrOK'
  <2>1. LocalOK'
    BY <1>1, <1>2 DEF IInv, LocalOK, WriteAttributes, LocalOK, Rate
  <2>2. MaskOK'
    BY <1>1 DEF IInv, TypeOK, MaskOK, WriteAttributes, LocalOK, Rate
  <2>3. AttrOK'
    BY <1>1 DEF IInv, AttrOK, WriteAttributes, LocalOK, Rate
  <2>. QED BY <2>1, <2>2, <2>3
<1>6. RateOK'
  BY <1>1, <1>2 DEF IInv, RateOK, Rate, WriteAttributes
<1>. QED BY <1>2, <1>3, <1>4, <1>5, <1>6 DEF IInv

LEMMA CheckRateStep == ASSUME IInv, CheckRate PROVE IInv'
<1>1. /\ thread' \in [pc : {"wait", "fetch", "stop", "idle", "arm", "config", "attr", "rate",
                         "restart", "start", "stage", "cpi"},
                   bm : SUBSET Options]
      /\ thread.pc = "rate" /\ thread'.bm = thread.bm /\ thread'.pc \in {"restart", "stage"}
      /\ state = "FETCHING" /\ "poll_esb" \in thread.bm => thread'.pc = "restart"
  BY DEF IInv, TypeOK, CheckRate, At, Goto
<1>2. CountOK' /\ (count'.usb = 0 => count.usb = 0)
  BY CountKept DEF IInv, CheckRate
<1>3. TypeOK'
  BY <1>1 DEF IInv, TypeOK, CheckRate
<1>4. NeverDeaf'
  BY <1>1 DEF IInv, NeverDeaf, Listening, CheckRate
<1>5. LocalOK' /\ MaskOK' /\ AttrOK'
  <2>1. LocalOK'
    BY <1>1, <1>2 DEF IInv, LocalOK, Rate, CheckRate
  <2>2. MaskOK'
    BY <1>1 DEF IInv, TypeOK, MaskOK, CheckRate
  <2>3. AttrOK'
    BY <1>1 DEF IInv, AttrOK, CheckRate
  <2>. QED BY <2>1, <2>2, <2>3
<1>6. RateOK'
  BY <1>1, <1>2 DEF IInv, RateOK, Rate, CheckRate
<1>. QED BY <1>2, <1>3, <1>4, <1>5, <1>6 DEF IInv

LEMMA ReadRateStep == ASSUME IInv, ReadRate PROVE IInv'
<1>1. /\ thread' \in [pc : {"wait", "fetch", "stop", "idle", "arm", "config", "attr", "rate",
                         "restart", "start", "stage", "cpi"},
                   bm : SUBSET Options]
      /\ thread.pc = "restart" /\ thread'.pc = "start" /\ thread'.bm = thread.bm
      /\ local'.read \in Nat /\ (count.usb = 0 => local'.read = Rate(FALSE))
  <2>1. Rate(usb) \in Nat
    BY RatesInNat DEF IInv, TypeOK
  <2>2. local'.read = Rate(usb)
    BY DEF ReadRate, NoLocal
  <2>. QED BY <2>1, <2>2 DEF IInv, TypeOK, CountOK, ReadRate, At, Goto
<1>2. CountOK' /\ (count'.usb = 0 => count.usb = 0)
  BY CountKept DEF IInv, ReadRate
<1>3. TypeOK'
  BY <1>1 DEF IInv, TypeOK, ReadRate
<1>4. NeverDeaf'
  BY <1>1 DEF IInv, NeverDeaf, Listening, ReadRate
<1>5. LocalOK' /\ MaskOK' /\ AttrOK'
  <2>1. LocalOK'
    BY <1>1, <1>2 DEF IInv, LocalOK, Rate, ReadRate
  <2>2. MaskOK'
    BY <1>1 DEF IInv, TypeOK, MaskOK, ReadRate
  <2>3. AttrOK'
    BY <1>1 DEF IInv, AttrOK, ReadRate
  <2>. QED BY <2>1, <2>2, <2>3
<1>6. RateOK'
  BY <1>1, <1>2 DEF IInv, RateOK, Rate, ReadRate
<1>. QED BY <1>2, <1>3, <1>4, <1>5, <1>6 DEF IInv

LEMMA StartPollingStep == ASSUME IInv, StartPolling PROVE IInv'
<1>1. /\ thread' \in [pc : {"wait", "fetch", "stop", "idle", "arm", "config", "attr", "rate",
                         "restart", "start", "stage", "cpi"},
                   bm : SUBSET Options]
      /\ thread.pc = "start" /\ thread'.pc = "stage" /\ thread'.bm = thread.bm
      /\ poll' \in [timer : {"off", "on"}, rate : MinRate .. MaxRate]
      /\ poll'.timer = "on" /\ poll'.rate = Clamped(local.read)
  BY ClampedFacts DEF IInv, TypeOK, LocalOK, Rate, StartPolling, At, Goto, Polling
<1>2. CountOK' /\ (count'.usb = 0 => count.usb = 0)
  BY CountKept DEF IInv, StartPolling
<1>3. TypeOK'
  BY <1>1 DEF IInv, TypeOK, StartPolling
<1>4. NeverDeaf'
  BY <1>1 DEF IInv, NeverDeaf, Listening, StartPolling
<1>5. LocalOK' /\ MaskOK' /\ AttrOK'
  <2>1. LocalOK'
    BY <1>1, <1>2 DEF IInv, LocalOK, Rate, StartPolling
  <2>2. MaskOK'
    BY <1>1 DEF IInv, TypeOK, MaskOK, StartPolling
  <2>3. AttrOK'
    BY <1>1 DEF IInv, AttrOK, StartPolling
  <2>. QED BY <2>1, <2>2, <2>3
<1>6. RateOK'
  BY <1>1, <1>2 DEF IInv, RateOK, StartPolling, LocalOK, Rate
<1>. QED BY <1>2, <1>3, <1>4, <1>5, <1>6 DEF IInv

LEMMA ReadStageStep == ASSUME IInv, ReadStage PROVE IInv'
<1>1. /\ thread' \in [pc : {"wait", "fetch", "stop", "idle", "arm", "config", "attr", "rate",
                         "restart", "start", "stage", "cpi"},
                   bm : SUBSET Options]
      /\ thread.pc = "stage" /\ thread'.pc \in {"cpi", "wait"}
      /\ thread'.pc = "cpi" => local'.read \in 0 .. Stages
  <2>1. CpisOf(option["stage"]) \subseteq 0 .. Stages
    <3>1. option["stage"] \in 0 .. Stages
      BY DEF IInv, TypeOK, Options, Values
    <3>. QED BY <3>1 DEF CpisOf, Values
  <2>. QED BY <2>1 DEF IInv, TypeOK, ReadStage, At, Goto, NoLocal
<1>2. CountOK' /\ (count'.usb = 0 => count.usb = 0)
  BY CountKept DEF IInv, ReadStage
<1>3. TypeOK'
  BY <1>1 DEF IInv, TypeOK, ReadStage
<1>4. NeverDeaf'
  BY <1>1 DEF IInv, NeverDeaf, Listening, ReadStage
<1>5. LocalOK' /\ MaskOK' /\ AttrOK'
  <2>1. LocalOK'
    BY <1>1, <1>2 DEF IInv, LocalOK, Rate, ReadStage
  <2>2. MaskOK'
    BY <1>1 DEF IInv, TypeOK, MaskOK, ReadStage
  <2>3. AttrOK'
    BY <1>1 DEF IInv, AttrOK, ReadStage
  <2>. QED BY <2>1, <2>2, <2>3
<1>6. RateOK'
  BY <1>1, <1>2 DEF IInv, RateOK, Rate, ReadStage
<1>. QED BY <1>2, <1>3, <1>4, <1>5, <1>6 DEF IInv

LEMMA SetStageCpiStep == ASSUME IInv, SetStageCpi PROVE IInv'
<1>1. /\ thread' \in [pc : {"wait", "fetch", "stop", "idle", "arm", "config", "attr", "rate",
                         "restart", "start", "stage", "cpi"},
                   bm : SUBSET Options]
      /\ thread.pc = "cpi" /\ thread'.pc = "wait" /\ thread'.bm = {}
  BY DEF IInv, TypeOK, SetStageCpi, At
<1>2. /\ DOMAIN option' = Options /\ \A x \in Options : option'[x] \in Values(x)
      /\ \A x \in Options : x # "cpi" => option'[x] = option[x]
      /\ mask' = mask \cup {"cpi"} /\ mask' \subseteq Options /\ sem'
  <2>1. "cpi" \in Options /\ local.read \in Values("cpi")
    BY DEF IInv, TypeOK, LocalOK, Rate, Options, Values, SetStageCpi, At
  <2>2. SetOption("cpi", local.read)
    BY DEF SetStageCpi, At
  <2>. QED BY <2>1, <2>2, SetOptionFacts DEF IInv
<1>3. CountOK' /\ (count'.usb = 0 => count.usb = 0)
  BY CountKept DEF IInv, SetStageCpi
<1>4. TypeOK'
  BY <1>1, <1>2 DEF IInv, TypeOK, SetStageCpi
<1>5. NeverDeaf'
  BY <1>1 DEF IInv, NeverDeaf, Listening, SetStageCpi
<1>6. LocalOK' /\ MaskOK' /\ AttrOK'
  <2>1. LocalOK'
    BY <1>1 DEF LocalOK, Rate
  <2>2. MaskOK'
    BY <1>2 DEF MaskOK
  <2>3. AttrOK'
    BY <1>1, <1>2 DEF IInv, AttrOK, SetStageCpi, AttrOptions, Options
  <2>. QED BY <2>1, <2>2, <2>3
<1>7. RateOK'
  BY <1>1, <1>2, <1>3 DEF IInv, RateOK, Rate, SetStageCpi, Options
<1>. QED BY <1>3, <1>4, <1>5, <1>6, <1>7 DEF IInv

-----------------------------------------------------------------------------
(* The theorems.                                                           *)

LEMMA InitIInv == Init => IInv
<1> SUFFICES ASSUME Init PROVE IInv
  OBVIOUS
<1>1. DefaultRate \in MinRate .. MaxRate
  BY RatesAssumption
<1>2. 0 \in 0 .. Stages
  BY SizesAssumption
<1>3. DOMAIN option = Options /\ \A o \in Options : option[o] \in Values(o)
  BY <1>1, <1>2 DEF Init, Options, Values
<1>4. TypeOK
  <2>1. /\ poll \in [timer : {"off", "on"}, rate : MinRate .. MaxRate] /\ 0 \in 0 .. 2
        /\ 0 \in 0 .. NoDataLimit
    BY <1>1, <1>3, SizesAssumption DEF Init
  <2>2. /\ thread \in [pc : {"wait", "fetch", "stop", "idle", "arm", "config", "attr", "rate",
                            "restart", "start", "stage", "cpi"},
                      bm : SUBSET Options]
    BY DEF Init
  <2>. QED BY <1>3, <2>1, <2>2 DEF Init, TypeOK, States
<1>5. CountOK /\ NeverDeaf
  BY DEF Init, CountOK, NeverDeaf, Listening
<1>6. LocalOK /\ MaskOK /\ AttrOK /\ RateOK
  BY DEF Init, LocalOK, MaskOK, AttrOK, RateOK, Rate
<1>. QED BY <1>4, <1>5, <1>6 DEF IInv

LEMMA StutterStep == ASSUME IInv, UNCHANGED vars PROVE IInv'
<1>1. TypeOK' /\ CountOK' /\ NeverDeaf'
  BY DEF IInv, vars, TypeOK, CountOK, NeverDeaf, Listening
<1>2. LocalOK' /\ MaskOK' /\ AttrOK' /\ RateOK'
  BY DEF IInv, vars, LocalOK, MaskOK, AttrOK, RateOK, Rate
<1>. QED BY <1>1, <1>2 DEF IInv

LEMMA IInvNext == IInv /\ [Next]_vars => IInv'
<1> SUFFICES ASSUME IInv, [Next]_vars PROVE IInv'
  OBVIOUS
<1>1. CASE Thread
  BY <1>1, TakeStep, FetchStep, FetchFailsStep, StopPollingStep, BecomeIdleStep, ArmStep,
     CopyConfigStep, WriteAttributesStep, CheckRateStep, ReadRateStep, StartPollingStep,
     ReadStageStep, SetStageCpiStep DEF Thread
<1>2. CASE Next /\ ~Thread
  BY <1>2, MoveStep, IrqStep, TickStep, TriggerHandlerStep, PowerDownStep, WakeUpStep,
     SubscriptionStep, UsbActiveStep, UsbSuspendedStep, UsbPowerStep, ClickStep,
     UpdateConfigStep DEF Next
<1>3. CASE UNCHANGED vars
  BY <1>3, StutterStep
<1>. QED BY <1>1, <1>2, <1>3

LEMMA Invariance == Spec => []IInv
  BY InitIInv, IInvNext, PTL DEF Spec

\* Every variable keeps its type, for any rates and options a host sets and any number
\* of inputs: the polling timer's rate is within its bounds.
THEOREM TypeCorrect == Spec => []TypeOK
<1>1. IInv => TypeOK
  BY DEF IInv
<1>. QED BY <1>1, Invariance, PTL

\* Somebody notices the next motion, whatever USB, power, subscribers and failed reads
\* do between the steps of the thread.
THEOREM NeverDeafCorrect == Spec => []NeverDeaf
<1>1. IInv => NeverDeaf
  BY DEF IInv
<1>. QED BY <1>1, Invariance, PTL

\* No option that is set is lost but those whose write failed: a thread that waits has
\* written the others, and the timer runs at the rate last set, within its bounds, as long
\* as USB was never active.
THEOREM OptionsFollowed == Spec => []SensorFollowsOptions
<1>1. IInv => SensorFollowsOptions
  BY DEF IInv, MaskOK, AttrOK, RateOK, Rate, SensorFollowsOptions
<1>. QED BY <1>1, Invariance, PTL
=============================================================================
