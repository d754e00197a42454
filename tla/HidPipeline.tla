---------------------------- MODULE HidPipeline ----------------------------
(***************************************************************************)
(* The wired HID report path of the mouse: modules/hid_state.c, the USB    *)
(* HID class of modules/usb_state.c (legacy stack) and the HID subscriber  *)
(* of modules/esb_driver.c, connected by the application event manager.    *)
(*                                                                         *)
(* The event manager is one FIFO.  Dispatch takes its first event through  *)
(* hid_state and then usb_state; events they submit go to its end.  USB    *)
(* callbacks (bus state, protocol, a report taken by the host) and inputs  *)
(* run between two dispatches, so the FIFO may hold events of a            *)
(* configuration that is already gone.                                     *)
(*                                                                         *)
(* The radio subscriber takes part in the routing only: in this product    *)
(* nothing answers the reports hid_state addresses to it (the radio is     *)
(* served by fast_path_mouse.c).                                           *)
(***************************************************************************)
EXTENDS HidState

CONSTANTS
    SentOnSof,   \* CONFIG_DESKTOP_USB_HID_REPORT_SENT_ON_SOF
    Motions,     \* displacements of a motion event
    MaxInputs,   \* bound: button and motion events
    MaxHost,     \* bound: changes of bus state, protocol and radio link
    MaxErrors,   \* bound: reports refused by the USB stack
    Backlog,     \* bound: length of the FIFO at which inputs wait
    Expiry,      \* queued usages expire while no host is connected
    CalmHost     \* the host lets outstanding reports settle, see Calm

ASSUME ConstantsAssumption ==
    /\ SentOnSof = (Pipeline = 2)
    /\ Motions \subseteq Int
    /\ {MaxInputs, MaxHost, MaxErrors, Backlog} \subseteq Nat
    /\ Expiry \in BOOLEAN /\ CalmHost \in BOOLEAN

VARIABLES
    h,       \* the state of hid_state.c
    fifo,    \* the event manager's queue
    usb,     \* usb_hid_device: hid_protocol while it is enabled (mode), report_enabled,
             \* report_bufs (the first is the one being sent), report_sent_on_sof
    radio,   \* esb_hid_device.enabled
    host,    \* what the host has: pressed keys and the sum of motion
    down,    \* the keys physically pressed
    moved,   \* history: the motion the linked host is owed, see MotionConserved
    count    \* inputs, host changes and errors so far, for the bounds

vars == <<h, fifo, usb, radio, host, down, moved, count>>

\* Events; a hid_report_event is a HidReport of HidState.
Usb(r) == <<"usb", r>>
Sent(r, error) == [t |-> IF error THEN "failed" ELSE "sent", l |-> Usb(r)]
Subscriber(s, to) == [t |-> "subscriber", s |-> s, to |-> to]
Subscription(l, to) == [t |-> "subscription", l |-> l, to |-> to]

NoReport == "none"
Protocol(r) == IF r = "boot" THEN "BOOT" ELSE "REPORT"

Init ==
    /\ h = InitHid
    /\ fifo = <<>>
    /\ usb = [mode |-> "off", report_enabled |-> {}, bufs |-> <<>>, sof |-> NoReport]
    /\ radio = "off"
    /\ host = [keys |-> {}, x |-> 0]
    /\ down = {}
    /\ moved = 0
    /\ count = [inputs |-> 0, host |-> 0, errors |-> 0]

-----------------------------------------------------------------------------
(* usb_state.c, as functions on [usb, ev]: ev collects submitted events.   *)

(* report_sent of the buffer being sent, without its last step: with       *)
(* SentOnSof the event of a success waits for the next start of frame, and *)
(* a later one, or an error, pushes it out.                                *)
ReportSent(d, error) ==
    LET r == d.usb.bufs[1].l[2]
        held == IF d.usb.sof = NoReport THEN <<>> ELSE <<Sent(d.usb.sof, FALSE)>>
        hold == SentOnSof /\ ~error
    IN  [usb |-> [d.usb EXCEPT !.bufs = Tail(@), !.sof = IF hold THEN r ELSE NoReport],
         ev |-> d.ev \o held \o IF hold THEN <<>> ELSE <<Sent(r, error)>>]

\* can_send_hid_report
CanSend(u, r) == u.mode = Protocol(r)

(* usb_hid_buf_send of the first buffer, behind which there is no other:   *)
(* one of the two has just been freed, or it is the first to be filled.    *)
(* accepted is the answer of hid_int_ep_write.                             *)
BufSend(d, accepted) ==
    IF d.usb.bufs = <<>> \/ (accepted /\ CanSend(d.usb, d.usb.bufs[1].l[2])) THEN d
    ELSE ReportSent(d, TRUE)

\* handle_hid_report_event; usb_hid_buf_alloc must find a buffer (BufferForEveryReport).
AcceptReport(d, e, accepted) ==
    LET g == [usb |-> [d.usb EXCEPT !.bufs = Append(@, e)], ev |-> d.ev]
    IN  IF Len(g.usb.bufs) = 1 THEN BufSend(g, accepted) ELSE g

\* broadcast_subscription_change
BroadcastSubscription(d) ==
    LET now == {r \in Reports : d.usb.mode = Protocol(r)}
        Change(r) == IF (r \in now) = (r \in d.usb.report_enabled) THEN <<>>
                     ELSE <<Subscription(Usb(r), IF r \in now THEN "on" ELSE "off")>>
    IN  [usb |-> [d.usb EXCEPT !.report_enabled = now],
         ev |-> d.ev \o Change("mouse") \o Change("boot")]

\* update_usb_hid: the reports of a lost host are answered, before the
\* subscriber is withdrawn.
Enable(d) ==
    BroadcastSubscription([usb |-> [d.usb EXCEPT !.mode = "REPORT"],
                           ev |-> Append(d.ev, Subscriber("usb", "on"))])
Disable(d) ==
    LET off == [usb |-> [d.usb EXCEPT !.mode = "off", !.sof = NoReport],
                ev |-> IF d.usb.sof = NoReport THEN d.ev
                       ELSE Append(d.ev, Sent(d.usb.sof, FALSE))]
        idle == IF off.usb.bufs = <<>> THEN off ELSE BufSend(ReportSent(off, TRUE), TRUE)
        b == BroadcastSubscription(idle)
    IN  [usb |-> b.usb, ev |-> Append(b.ev, Subscriber("usb", "off"))]

-----------------------------------------------------------------------------
(* The event manager.                                                      *)

\* hid_state's app_event_handler
HidHandler(e) ==
    CASE e.t = "report"       -> h
      [] e.t = "sent"         -> ReportIssued(h, e.l, FALSE)
      [] e.t = "failed"       -> ReportIssued(h, e.l, TRUE)
      [] e.t = "subscriber"   -> IF e.to = "on" THEN ConnectSubscriber(h, e.s)
                                 ELSE DisconnectSubscriber(h, e.s)
      [] e.t = "subscription" -> IF e.to = "on" THEN Connect(h, e.l) ELSE Disconnect(h, e.l)
      [] e.t = "button"       -> UpdateKey(h, e.key, e.val)
      [] e.t = "motion"       -> Motion(h, e.dx)

ToUsb(e) == e.t = "report" /\ e.l[1] = "usb"

\* Motion of the host, of the reports on their way to it, and accumulated.
InFlight(q) == SumFunction([i \in DOMAIN q |-> IF ToUsb(q[i]) THEN q[i].dx ELSE 0])
MotionTotal == host.x + InFlight(fifo) + InFlight(usb.bufs) + h.axis

\* Handling e may discard motion: a change of the link, a failed report, or a
\* full event queue.
MayDiscard(e) == \/ e.t \in {"subscriber", "subscription", "failed"}
                 \/ e.t = "button" /\ Len(h.evq) = EventQueueSize

\* hid_state has made g of e: its reports are submitted, and usb_state takes e.
Deliver(e, g, accepted) ==
    LET d == [usb |-> usb, ev |-> Tail(fifo) \o g.out]
        f == IF ToUsb(e) THEN AcceptReport(d, e, accepted) ELSE d
    IN  h' = [g EXCEPT !.out = <<>>] /\ usb' = f.usb /\ fifo' = f.ev

\* accepted is the stack's answer to the report that reaches it, if any.
Dispatch(accepted) ==
    /\ fifo # <<>>
    /\ accepted \/ (ToUsb(Head(fifo)) /\ count.errors < MaxErrors)
    /\ Deliver(Head(fifo), HidHandler(Head(fifo)), accepted)
    /\ count' = IF accepted THEN count ELSE [count EXCEPT !.errors = @ + 1]
    /\ UNCHANGED <<radio, host, down>>
    /\ LET e == Head(fifo)
       IN  moved' = IF MayDiscard(e) THEN MotionTotal'
                    ELSE IF e.t = "motion" THEN moved + e.dx ELSE moved

(* The USB host.                                                           *)
\* The host takes the report being sent: report_sent_cb_legacy.
HostPoll ==
    /\ usb.bufs # <<>>
    /\ LET e == usb.bufs[1]
           d == BufSend(ReportSent([usb |-> usb, ev |-> fifo], FALSE), TRUE)
       IN  /\ host' = [keys |-> e.keys, x |-> host.x + e.dx]
           /\ usb' = d.usb /\ fifo' = d.ev
    /\ UNCHANGED <<h, radio, down, moved, count>>

\* report_sent_sof
Sof ==
    /\ usb.sof # NoReport
    /\ fifo' = Append(fifo, Sent(usb.sof, FALSE))
    /\ usb' = [usb EXCEPT !.sof = NoReport]
    /\ UNCHANGED <<h, radio, host, down, moved, count>>

\* Reports of r that have been submitted and whose answer has not been handled.
Outstanding(r) ==
    LET Awaited(e) == e.t \in {"report", "sent", "failed"} /\ e.l = Usb(r)
        Of(q) == SumFunction([i \in DOMAIN q |-> IF Awaited(q[i]) THEN 1 ELSE 0])
    IN  Of(fifo) + Of(usb.bufs) + IF usb.sof = r THEN 1 ELSE 0

\* CalmHost: a report the host enables again has nothing outstanding, and its
\* last subscription has been handled.
Calm(r) == CalmHost => /\ Outstanding(r) = 0
                       /\ \A i \in DOMAIN fifo, to \in {"on", "off"} :
                             fifo[i] # Subscription(Usb(r), to)

HostChange == /\ count.host < MaxHost
              /\ count' = [count EXCEPT !.host = @ + 1]
              /\ UNCHANGED <<h, down, moved>>

\* The host configures the device: it starts without pressed keys.
Configure ==
    /\ HostChange
    /\ usb.mode = "off" /\ \A r \in Reports : Calm(r)
    /\ LET d == Enable([usb |-> usb, ev |-> fifo]) IN usb' = d.usb /\ fifo' = d.ev
    /\ host' = [host EXCEPT !.keys = {}]
    /\ UNCHANGED radio

\* Reset, disconnection, or SET_CONFIGURATION(0).
Reset ==
    /\ HostChange
    /\ usb.mode # "off"
    /\ LET d == Disable([usb |-> usb, ev |-> fifo]) IN usb' = d.usb /\ fifo' = d.ev
    /\ host' = [host EXCEPT !.keys = {}]
    /\ UNCHANGED radio

\* protocol_change; the host keeps its view of the buttons.
SetProtocol ==
    /\ HostChange
    /\ usb.mode # "off"
    /\ \E r \in Reports :
          /\ usb.mode # Protocol(r) /\ Calm(r)
          /\ LET d == BroadcastSubscription([usb |-> [usb EXCEPT !.mode = Protocol(r)],
                                             ev |-> fifo])
             IN  usb' = d.usb /\ fifo' = d.ev
    /\ UNCHANGED <<radio, host>>

(* update_esb_hid of the radio's subscriber.                               *)
RadioChange ==
    /\ HostChange
    /\ radio' = IF radio = "on" THEN "off" ELSE "on"
    /\ fifo' = fifo \o LET mouse == Subscription(<<"esb", "mouse">>, radio')
                           esb == Subscriber("esb", radio')
                       IN  IF radio = "on" THEN <<mouse, esb>> ELSE <<esb, mouse>>
    /\ UNCHANGED <<usb, host>>

(* Inputs and time.                                                        *)
Input == /\ count.inputs < MaxInputs /\ Len(fifo) < Backlog
         /\ count' = [count EXCEPT !.inputs = @ + 1]
         /\ UNCHANGED <<h, usb, radio, host, moved>>

Button(key) ==
    /\ Input
    /\ fifo' = Append(fifo, [t |-> "button", key |-> key, val |-> IF key \in down THEN -1 ELSE 1])
    /\ down' = IF key \in down THEN down \ {key} ELSE down \union {key}

Move(dx) ==
    /\ Input
    /\ fifo' = Append(fifo, [t |-> "motion", dx |-> dx])
    /\ UNCHANGED down

\* CONFIG_DESKTOP_HID_REPORT_EXPIRATION (500 ms) passes for the first n queued
\* usages.  With a host the queue is replayed in a few frames.
Expire(n) ==
    /\ n > ExpiredCount(h.evq)
    /\ Expiry /\ ~Linked(h)
    /\ h' = [h EXCEPT !.evq = [i \in DOMAIN h.evq |->
                 [key |-> h.evq[i].key, val |-> h.evq[i].val,
                  age |-> IF i <= n THEN "old" ELSE "fresh"]]]
    /\ UNCHANGED <<fifo, usb, radio, host, down, moved, count>>

Next ==
    \/ Dispatch(TRUE) \/ Dispatch(FALSE)
    \/ HostPoll \/ Sof
    \/ Configure \/ Reset \/ SetProtocol \/ RadioChange
    \/ \E key \in Keys : Button(key)
    \/ \E dx \in Motions : Move(dx)
    \/ \E n \in 1 .. Len(h.evq) : Expire(n)

Spec == Init /\ [][Next]_vars

\* The event manager is a work item that is submitted while the FIFO holds
\* events; a configured host polls the endpoint, and every frame starts.  Each
\* is WF_vars(A) with ENABLED <<A>>_vars written out: TLC is then spared
\* computing the successors of A in every state.
Fairness ==
    /\ []<>(fifo = <<>>) \/ []<><<Dispatch(TRUE)>>_vars
    /\ []<>(usb.bufs = <<>>) \/ []<><<HostPoll>>_vars
    /\ []<>(usb.sof = NoReport) \/ []<><<Sof>>_vars
FairSpec == Spec /\ Fairness

-----------------------------------------------------------------------------
Values == {1, -1}
Usages == [key : Keys, val : Values, age : {"fresh", "old"}]
HidReports == [t : {"report"}, l : ReportStates, keys : SUBSET Keys, dx : Int]
Events ==
    HidReports \union [t : {"sent", "failed"}, l : {"usb"} \X Reports]
    \union [t : {"subscriber"}, s : Subs, to : {"on", "off"}]
    \union [t : {"subscription"}, l : ReportStates, to : {"on", "off"}]
    \union [t : {"button"}, key : Keys, val : Values] \union [t : {"motion"}, dx : Motions]
HidStates ==
    [on : SUBSET Subs, report_cnt : [Subs -> Nat],
     state : [ReportStates -> {"DISCONNECTED", "IDLE", "BUSY"}], cnt : [ReportStates -> Nat],
     upd : SUBSET ReportStates, rd : [ReportStates -> {"none", "data", "empty"}],
     link : ReportStates \union {NoLink}, items : [Keys -> Nat], evq : Seq(Usages),
     axis : Int, out : Seq(HidReports)]
UsbStates ==
    [mode : {"off", "BOOT", "REPORT"}, report_enabled : SUBSET Reports,
     bufs : Seq(HidReports), sof : Reports \union {NoReport}]

(* Every field stays in its range; report_cnt does not wrap around.        *)
TypeOK ==
    /\ h \in HidStates /\ h.out = <<>>
    /\ \A s \in Subs : h.report_cnt[s] <= Depth(s)
    /\ \A l \in ReportStates : h.cnt[l] <= Depth(l[1])
    /\ Cardinality(Pressed(h)) <= ItemCountMax /\ Len(h.evq) <= EventQueueSize
    /\ fifo \in Seq(Events)
    /\ usb \in UsbStates /\ Len(usb.bufs) <= Pipeline
    /\ radio \in {"on", "off"} /\ down \subseteq Keys
    /\ host \in [keys : SUBSET Keys, x : Int] /\ moved \in Int

\* The assertion of report_issued (hid_state.c:892) holds for the next event: a
\* report that a connected report state is told about was counted by it.  The code
\* violates it for a host that is not calm (README), so no run checks it.
IssuedWasCounted ==
    fifo # <<>> /\ Head(fifo).t \in {"sent", "failed"} => IssuedAsserts(h, Head(fifo).l)

\* The assertion of handle_hid_report_event (usb_state.c:503) holds for the
\* next event: the credit of hid_state keeps a buffer free for every report.
BufferForEveryReport ==
    fifo # <<>> /\ ToUsb(Head(fifo)) => Len(usb.bufs) < Pipeline

\* report_cnt of a subscriber is the number of its reports that wait for an
\* answer, wherever they are: in the FIFO, in a buffer, or as an answer in the
\* FIFO or held back until the start of a frame; and so is cnt of each of its
\* connected report states.
CreditExact ==
    /\ "usb" \in h.on => h.report_cnt["usb"] = Outstanding("mouse") + Outstanding("boot")
    /\ \A r \in Reports : Connected(h, Usb(r)) => h.cnt[Usb(r)] = Outstanding(r)

\* The report data is linked to a connected report state of the highest
\* priority, and to none only if none is connected.
LinkRouted ==
    LET Candidates == {l \in ReportStates : Connected(h, l)}
    IN  IF Linked(h)
        THEN /\ h.link \in Candidates /\ h.rd[h.link] = "data"
             /\ \A l \in Candidates : Priority(l[1]) <= Priority(h.link[1])
        ELSE Candidates = {}

\* A usage is recorded as pressed only while its button is down or its release
\* is on its way, so that a released key cannot stay pressed.  (Without expiry:
\* a release can be purged as expired after its press was replayed, see README.)
ReleaseComes(key) ==
    \/ \E i \in DOMAIN h.evq : h.evq[i].key = key /\ h.evq[i].val < 0
    \/ \E i \in DOMAIN fifo : fifo[i].t = "button" /\ fifo[i].key = key /\ fifo[i].val < 0
NoStuckKey == ~Expiry => \A key \in Pressed(h) : key \in down \/ ReleaseComes(key)

\* When nothing is on its way, no key is pressed on the host that the user has
\* released (doc/hid_state.rst:219-220).  The code does not keep this promise, as an
\* expired press can be sent to the host without its release (README).
Quiet == fifo = <<>> /\ usb.bufs = <<>> /\ usb.sof = NoReport
HostKeysAreDown == Quiet /\ h.link[1] = "usb" => host.keys \subseteq down

\* Motion reaches the host once, neither lost nor doubled by the splitting into
\* reports and by the pipeline: what the host has, what is on its way and what
\* is accumulated add up to what the motion events carried since the link last
\* changed, a report failed or the event queue overflowed.
Undisturbed == \A i \in DOMAIN fifo : fifo[i].t \notin {"subscriber", "subscription", "failed"}
MotionConserved == h.link[1] = "usb" /\ Undisturbed => MotionTotal = moved

\* Once the inputs and the host's changes are over, a host that the mouse is
\* linked to by USB ends up with the state of the buttons and all the motion.
HostCatchesUp ==
    <>[](h.link[1] = "usb" => host.keys = Pressed(h) /\ h.axis = 0 /\ h.evq = <<>>)
=============================================================================
