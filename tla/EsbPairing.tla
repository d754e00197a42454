----------------------------- MODULE EsbPairing -----------------------------
(***************************************************************************)
(* Pairing of the mouse with a dongle over the 2.4 GHz radio.              *)
(*                                                                         *)
(* The mouse (modules/esb_state.c, util/esb_pairing.c and the radio calls  *)
(* of modules/esb_driver.c) enters pairing mode on a long click: it moves  *)
(* to the discovery channel and repeats a request until a response comes   *)
(* or 60 s have passed.  A dongle (modules/esb_rx.c) enters pairing mode   *)
(* on a command of its host.  A request makes it load the response, which  *)
(* only the acknowledgement of the NEXT packet carries, and its work item  *)
(* saves the configuration, waits 100 ms and leaves the discovery channel, *)
(* whether the mouse has the response or not.                              *)
(*                                                                         *)
(* On both sides the work items of the system work queue exclude each      *)
(* other; radio interrupts come between any two steps.  On the dongle      *)
(* enter_pairing_mode runs in the SPI thread, so also while a work item    *)
(* sleeps.  A dongle's address is made from its hardware id: here the      *)
(* dongle itself.                                                          *)
(***************************************************************************)
EXTENDS Naturals

CONSTANTS
    Dongles,
    None,         \* no dongle
    MaxPresses,   \* bound: commands to enter pairing mode
    MaxReboots    \* bound: power cycles, of all devices together

ASSUME NoneAssumption == None \notin Dongles
ASSUME BoundsAssumption == MaxPresses \in Nat /\ MaxReboots \in Nat

VARIABLES
    mouse,        \* esb_state.c, the pairing manager and the radio
    mouseFlash,   \* the dongle in the mouse's settings
    dongle,       \* esb_rx.c, the pairing manager and the radio, of every dongle
    dongleFlash,  \* whether a dongle's settings hold its configuration
    presses, reboots

mouseVars == <<mouse, mouseFlash>>
dongleVars == <<dongle, dongleFlash>>
vars == <<mouse, mouseFlash, dongle, dongleFlash, presses, reboots>>

-----------------------------------------------------------------------------
(* Where a radio is: on the discovery channel with the broadcast address,  *)
(* on the default channel and address, or on those of a dongle.            *)
\* Mutant: the configuration is used without a look at valid.
PlaceUnchecked(cfg) == cfg
Place(cfg) == IF cfg = None THEN "default" ELSE cfg
DonglePlace(d, valid) == IF valid THEN d ELSE "default"

\* init of esb_state.c and pairing_manager_init; esb_rx.c likewise.
BootMouse(cfg) ==
    [manager |-> "IDLE",          \* pairing_manager.state
     managerTimer |-> FALSE,      \* its timeout_work
     cfg |-> cfg,                 \* its config, None if not valid
     radio |-> Place(cfg),
     req |-> FALSE,               \* pairing_req_work
     timer |-> FALSE,             \* pairing_timeout_work
     rsp |-> None,                \* pending_rsp, and whether pairing_rsp_work is queued
     shown |-> "NONE"]            \* the last esb_state_event
BootDongle(d, valid) ==
    [state |-> "DISABLED",
     valid |-> valid,             \* pairing_manager.config.valid
     radio |-> DonglePlace(d, valid),
     ack |-> FALSE,               \* a response is loaded for the next acknowledgement
     entering |-> FALSE,          \* enter_pairing_mode has not started the timer
     timer |-> FALSE,             \* pairing_timeout_work
     queued |-> FALSE,            \* pairing_work is queued
     asleep |-> FALSE,            \* pairing_work is in k_msleep
     connected |-> FALSE,
     shown |-> "NONE"]

Init ==
    /\ mouse = BootMouse(None) /\ mouseFlash = None
    /\ dongle = [d \in Dongles |-> BootDongle(d, FALSE)]
    /\ dongleFlash = [d \in Dongles |-> FALSE]
    /\ presses = 0 /\ reboots = 0

-----------------------------------------------------------------------------
(* The mouse                                                               *)

\* click_event_handler: enter_pairing_mode_tx.  The result of pairing_start
\* is ignored: it refuses when the manager is waiting or has completed.
Starts == mouse.manager \in {"IDLE", "TIMEOUT"}
LongClick ==
    /\ presses < MaxPresses /\ presses' = presses + 1
    /\ mouse' = [mouse EXCEPT !.shown = "PAIRING", !.radio = "discovery",
                              !.req = TRUE, !.timer = TRUE,
                              !.manager = IF Starts THEN "WAITING_RESPONSE" ELSE @,
                              !.managerTimer = Starts \/ @]
    /\ UNCHANGED <<mouseFlash, dongleVars, reboots>>

\* pairing_req_handler when there is nothing to ask for any more.  Without a
\* configuration it sets the address of a radio that may be sending, which
\* then refuses.
StopAsking ==
    /\ mouse.req /\ mouse.manager # "WAITING_RESPONSE"
    /\ \E place \in IF mouse.manager # "TIMEOUT" THEN {mouse.radio}
                    ELSE IF mouse.cfg # None THEN {Place(mouse.cfg)}
                    ELSE {mouse.radio, "default"} :
          mouse' = [mouse EXCEPT !.req = FALSE, !.radio = place]
    /\ UNCHANGED <<mouseFlash, dongleVars, presses, reboots>>

\* pairing_timeout_handler of util/esb_pairing.c.
ManagerTimeout ==
    /\ mouse.managerTimer
    /\ mouse' = [mouse EXCEPT !.managerTimer = FALSE,
                              !.manager = IF @ = "WAITING_RESPONSE" THEN "TIMEOUT" ELSE @]
    /\ UNCHANGED <<mouseFlash, dongleVars, presses, reboots>>

\* Mutant: without a configuration the mouse has nothing to revert.
PairingTimeoutIfPaired ==
    /\ mouse.timer /\ ~mouse.managerTimer /\ mouse.cfg # None
    /\ mouse' = [mouse EXCEPT !.timer = FALSE, !.req = FALSE, !.manager = "TIMEOUT",
                              !.radio = Place(mouse.cfg), !.shown = "DISCONNECTED"]
    /\ UNCHANGED <<mouseFlash, dongleVars, presses, reboots>>
\* pairing_timeout_handler of esb_state.c.  Both timers have the same length
\* and the manager's is never started later.
PairingTimeout ==
    /\ mouse.timer /\ ~mouse.managerTimer
    /\ mouse' = [mouse EXCEPT !.timer = FALSE, !.req = FALSE, !.manager = "TIMEOUT",
                              !.radio = Place(mouse.cfg), !.shown = "DISCONNECTED"]
    /\ UNCHANGED <<mouseFlash, dongleVars, presses, reboots>>

\* Mutant: a response is taken whenever it comes.
HandleResponseAnytime(saved) ==
    /\ mouse.rsp # None
    /\ mouseFlash' = IF saved THEN mouse.rsp ELSE mouseFlash
    /\ mouse' = IF saved
                THEN [mouse EXCEPT !.rsp = None, !.cfg = mouse.rsp, !.manager = "COMPLETE",
                                   !.managerTimer = FALSE, !.radio = mouse.rsp,
                                   !.shown = "ACTIVE", !.req = FALSE, !.timer = FALSE]
                ELSE [mouse EXCEPT !.rsp = None, !.cfg = mouse.rsp, !.manager = "COMPLETE",
                                   !.managerTimer = FALSE]
    /\ UNCHANGED <<dongleVars, presses, reboots>>
\* pairing_rsp_handler: pairing_handle_response and, if the configuration
\* could be saved, the switch of the radio.
HandleResponse(saved) ==
    /\ mouse.rsp # None
    /\ IF mouse.manager # "WAITING_RESPONSE"
       THEN mouse' = [mouse EXCEPT !.rsp = None] /\ UNCHANGED mouseFlash
       ELSE /\ mouseFlash' = IF saved THEN mouse.rsp ELSE mouseFlash
            /\ mouse' = IF saved
                THEN [mouse EXCEPT !.rsp = None, !.cfg = mouse.rsp, !.manager = "COMPLETE",
                                   !.managerTimer = FALSE, !.radio = mouse.rsp,
                                   !.shown = "ACTIVE", !.req = FALSE, !.timer = FALSE]
                ELSE [mouse EXCEPT !.rsp = None, !.cfg = mouse.rsp, !.manager = "COMPLETE",
                                   !.managerTimer = FALSE]
    /\ UNCHANGED <<dongleVars, presses, reboots>>

RebootMouse ==
    /\ reboots < MaxReboots /\ reboots' = reboots + 1
    /\ mouse' = BootMouse(mouseFlash)
    /\ UNCHANGED <<mouseFlash, dongleVars, presses>>

-----------------------------------------------------------------------------
(* The radio.  A packet of the mouse reaches some of the dongles on its    *)
(* place, and at most one acknowledgement reaches the mouse.               *)
Hears(d) == dongle[d].radio = mouse.radio

\* Mutant: the dongle does not take the configuration it responds with.
TakesRequestSlowly(d) ==
    [dongle[d] EXCEPT !.ack = TRUE, !.timer = FALSE, !.state = "ACTIVE"]
\* event_handler: a pairing request in pairing mode.
TakesRequest(d) ==
    [dongle[d] EXCEPT !.ack = TRUE, !.valid = TRUE, !.timer = FALSE, !.state = "ACTIVE",
                      !.queued = TRUE]

\* event_handler after the packets: a connection that is new is announced.
Connected(c) ==
    [c EXCEPT !.connected = TRUE,
              !.shown = IF ~c.connected /\ c.state # "PAIRING" THEN "ACTIVE" ELSE @]

\* event_handler on dongle d: a pairing request, or any other packet.
Received(d, isRequest) ==
    Connected(IF isRequest /\ dongle[d].state = "PAIRING" THEN TakesRequest(d)
              ELSE [dongle[d] EXCEPT !.ack = FALSE])

\* on_esb_rx_data: the response that an acknowledgement carries.
Acknowledged(d) ==
    IF d # None /\ dongle[d].ack /\ mouse.manager = "WAITING_RESPONSE" THEN d ELSE mouse.rsp

\* pairing_req_handler sends a request, or fast_path_mouse.c a report.
Send(isRequest, receivers, acker) ==
    /\ isRequest => mouse.req /\ mouse.manager = "WAITING_RESPONSE"
    /\ \A d \in receivers : Hears(d)
    /\ acker \in receivers \union {None}
    /\ mouse' = [mouse EXCEPT !.rsp = Acknowledged(acker)]
    /\ dongle' = [d \in Dongles |->
                    IF d \in receivers THEN Received(d, isRequest) ELSE dongle[d]]
    /\ UNCHANGED <<mouseFlash, dongleFlash, presses, reboots>>

-----------------------------------------------------------------------------
(* A dongle                                                                *)

\* The system work queue is free to run an item.
QueueRuns(d) == ~dongle[d].asleep /\ ~dongle[d].entering

\* enter_pairing_mode up to state = STATE_PAIRING.
EnterPairing(d) ==
    /\ presses < MaxPresses /\ presses' = presses + 1
    /\ ~dongle[d].entering
    /\ dongle' = [dongle EXCEPT ![d] = [@ EXCEPT !.radio = "discovery", !.state = "PAIRING",
                                                 !.entering = TRUE]]
    /\ UNCHANGED <<mouseVars, dongleFlash, reboots>>

\* Mutant: the timer of pairing mode is not started.
EnterPairingNoTimer(d) ==
    /\ dongle[d].entering
    /\ dongle' = [dongle EXCEPT ![d] = [@ EXCEPT !.entering = FALSE, !.shown = "PAIRING"]]
    /\ UNCHANGED <<mouseVars, dongleFlash, presses, reboots>>
\* The rest of enter_pairing_mode; a request may have come in between.
EnterPairingEnd(d) ==
    /\ dongle[d].entering
    /\ dongle' = [dongle EXCEPT ![d] = [@ EXCEPT !.entering = FALSE, !.timer = TRUE,
                                                 !.shown = "PAIRING"]]
    /\ UNCHANGED <<mouseVars, dongleFlash, presses, reboots>>

\* pairing_work_handler up to k_msleep.  It ignores a failure to save.
SaveConfig(d, saved) ==
    /\ dongle[d].queued /\ QueueRuns(d)
    /\ dongle' = [dongle EXCEPT ![d] = [@ EXCEPT !.queued = FALSE, !.asleep = TRUE]]
    /\ dongleFlash' = [dongleFlash EXCEPT ![d] = saved \/ @]
    /\ UNCHANGED <<mouseVars, presses, reboots>>

\* pairing_work_handler after k_msleep.
SwitchAddress(d) ==
    /\ dongle[d].asleep /\ ~dongle[d].entering
    /\ dongle' = [dongle EXCEPT ![d] = [@ EXCEPT !.asleep = FALSE, !.state = "ACTIVE",
                                                 !.radio = DonglePlace(d, dongle[d].valid)]]
    /\ UNCHANGED <<mouseVars, dongleFlash, presses, reboots>>

\* pairing_timeout_handler of esb_rx.c.
DongleTimeout(d) ==
    /\ dongle[d].timer /\ QueueRuns(d)
    /\ dongle' = [dongle EXCEPT ![d] =
                    IF dongle[d].state = "PAIRING"
                    THEN [@ EXCEPT !.timer = FALSE, !.state = "ACTIVE",
                                   !.radio = DonglePlace(d, dongle[d].valid),
                                   !.shown = "DISCONNECTED"]
                    ELSE [@ EXCEPT !.timer = FALSE]]
    /\ UNCHANGED <<mouseVars, dongleFlash, presses, reboots>>

\* connection_timeout_handler, CONNECTION_TIMEOUT_MS after the last packet.
ConnectionTimeout(d) ==
    /\ dongle[d].connected /\ QueueRuns(d)
    /\ dongle' = [dongle EXCEPT ![d] =
                    [@ EXCEPT !.connected = FALSE,
                              !.shown = IF dongle[d].state # "PAIRING" THEN "DISCONNECTED"
                                                                       ELSE dongle[d].shown]]
    /\ UNCHANGED <<mouseVars, dongleFlash, presses, reboots>>

(* A dongle loses its power, but not between its response and the save of  *)
(* its configuration: the assumption under which a mouse and its dongle    *)
(* agree, since the mouse may have saved its own by then.                  *)
RebootDongle(d) ==
    /\ reboots < MaxReboots /\ reboots' = reboots + 1
    /\ dongle[d].valid => dongleFlash[d]
    /\ dongle' = [dongle EXCEPT ![d] = BootDongle(d, dongleFlash[d])]
    /\ UNCHANGED <<mouseVars, dongleFlash, presses>>

-----------------------------------------------------------------------------
Packet == \E isRequest \in BOOLEAN, receivers \in SUBSET Dongles, acker \in Dongles \union {None} :
             Send(isRequest, receivers, acker)

Next ==
    \/ LongClick \/ StopAsking \/ ManagerTimeout \/ PairingTimeout \/ RebootMouse
    \/ \E saved \in BOOLEAN : HandleResponse(saved)
    \/ Packet
    \/ \E d \in Dongles :
          \/ EnterPairing(d) \/ EnterPairingEnd(d) \/ SwitchAddress(d)
          \/ DongleTimeout(d) \/ ConnectionTimeout(d) \/ RebootDongle(d)
          \/ \E saved \in BOOLEAN : SaveConfig(d, saved)

Spec == Init /\ [][Next]_vars

\* Timers expire, queued work and the SPI thread run; packets may all be lost.
Fairness ==
    /\ WF_vars(ManagerTimeout) /\ WF_vars(PairingTimeout)
    /\ \A d \in Dongles :
          /\ WF_vars(EnterPairingEnd(d)) /\ WF_vars(SwitchAddress(d))
          /\ WF_vars(DongleTimeout(d)) /\ WF_vars(\E saved \in BOOLEAN : SaveConfig(d, saved))
FairSpec == Spec /\ Fairness

-----------------------------------------------------------------------------
Places == Dongles \union {"default", "discovery"}
MouseType ==
    [manager : {"IDLE", "WAITING_RESPONSE", "COMPLETE", "TIMEOUT"}, managerTimer : BOOLEAN,
     cfg : Dongles \union {None}, radio : Places, req : BOOLEAN, timer : BOOLEAN,
     rsp : Dongles \union {None}, shown : {"NONE", "PAIRING", "ACTIVE", "DISCONNECTED"}]
DongleType ==
    [state : {"DISABLED", "ACTIVE", "PAIRING"}, valid : BOOLEAN, radio : Places,
     ack : BOOLEAN, entering : BOOLEAN, timer : BOOLEAN, queued : BOOLEAN, asleep : BOOLEAN,
     connected : BOOLEAN, shown : {"NONE", "PAIRING", "ACTIVE", "DISCONNECTED"}]

\* Every variable has its type.
TypeOK ==
    /\ mouse \in MouseType /\ mouseFlash \in Dongles \union {None}
    /\ dongle \in [Dongles -> DongleType] /\ dongleFlash \in [Dongles -> BOOLEAN]
    /\ presses \in Nat /\ reboots \in Nat

\* Once the timer of pairing mode has gone, however the pairing ended, the
\* mouse is on the channel of its configuration and no work item of the
\* pairing is left that could move it.
MousePairingCleared ==
    ~mouse.timer => /\ mouse.radio = Place(mouse.cfg)
                    /\ ~mouse.req /\ ~mouse.managerTimer
                    /\ mouse.manager # "WAITING_RESPONSE"

\* Whatever the SPI thread, the work items and the radio interrupt interleave
\* to, something is under way that ends a dongle's pairing mode.
DonglePairingEnds ==
    \A d \in Dongles : dongle[d].state = "PAIRING" =>
        dongle[d].entering \/ dongle[d].timer \/ dongle[d].asleep

\* A dongle away from the channel of its configuration is in pairing mode or
\* about to return.
DongleReturns ==
    \A d \in Dongles : dongle[d].radio # DonglePlace(d, dongle[d].valid) =>
        dongle[d].state = "PAIRING" \/ dongle[d].queued \/ dongle[d].asleep

\* A mouse and the dongle it is configured for meet on the same channel and
\* address when neither has a pairing under way: lost packets, late
\* responses, timeouts and power cycles leave no half of a pairing behind.
PairedMeet ==
    \A d \in Dongles :
        /\ mouse.cfg = d /\ ~mouse.timer
        /\ dongle[d].state # "PAIRING" /\ ~dongle[d].queued /\ ~dongle[d].asleep
        => Hears(d)

\* Only a mouse that shows pairing mode changes its dongle, or one that starts
\* up; a response that comes late changes nothing.
OnlyPairingPairs ==
    [][mouse'.cfg # mouse.cfg => mouse.shown = "PAIRING" \/ reboots' # reboots]_vars

\* REQ-RADIO-001: "A fresh pair completes within 10 s of entering pairing
\* mode."  A mouse in pairing mode sends no request, and takes no response,
\* when its manager has completed the pairing before.
PairingModeAsks ==
    mouse.shown = "PAIRING" /\ mouseFlash = mouse.cfg => mouse.manager # "COMPLETE"

\* Pairing mode ends on the mouse, and on every dongle.
PairingModeEnds ==
    /\ mouse.shown = "PAIRING" ~> mouse.shown # "PAIRING"
    /\ \A d \in Dongles : dongle[d].state = "PAIRING" ~> dongle[d].state # "PAIRING"
=============================================================================
