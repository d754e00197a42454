------------------------------- MODULE FastPath -------------------------------
(***************************************************************************)
(* The fast path of the mouse's input: modules/fast_path_mouse.c, which    *)
(* builds a mouse report at every sample of the sensor, every button event *)
(* and every wheel event and writes it to the FIFO of the radio, and       *)
(* hw_interface/wheel.c, where the wheel events come from.                 *)
(*                                                                         *)
(* Samples come on the motion thread.  Event handlers and works run on the *)
(* system work queue, which preempts the thread between any two of its     *)
(* steps, and each of them is one action; the decoder's interrupt comes    *)
(* between any two steps of both.  esb_write_data holds a mutex and is one *)
(* step, here together with the counting of packets before it.  The drop   *)
(* of a report while a configuration answer is being sent is left out:     *)
(* that flag is set and cleared within one work.                           *)
(***************************************************************************)
EXTENDS Integers, SequencesExt

CONSTANTS
    Keys,        \* the buttons of fast_keymap
    Divider,     \* divider_mdeg
    Turns,       \* the deltas the decoder reports
    WheelLimit,  \* WHEEL_SEND_LIMIT
    Rates,       \* the polling rates, and the one of 8000 Hz
    EightK,
    AckTime,     \* CONFIG_DESKTOP_ESB_TX_ACK_INTERVAL_MS / 1000: a time, in
    Second,      \*    parts of the second
    Capacity,    \* CONFIG_ESB_TX_FIFO_SIZE
    MaxSamples,  \* bound: samples that are told apart; those after are alike
    MaxInputs,   \* bound: turns of the wheel, button events, changes of the polling
                 \*    rate and suspensions, together
    MaxFaults    \* bound: failed writes, packets lost or not acknowledged

ASSUME SizesAssumption ==
    /\ {Divider, WheelLimit, Capacity, Second} \subseteq Nat \ {0}
    /\ Rates \subseteq Nat /\ EightK \in Nat /\ AckTime \in Nat
    /\ {MaxSamples, MaxInputs, MaxFaults} \subseteq Nat
    /\ Turns \subseteq Int

VARIABLES
    rate,    \* polling_rate_get_hz()
    active,  \* the motion thread samples
    thread,  \* where the thread is in fast_path_motion_handler, and the report it builds
    half,    \* pending_report, while has_pending_report: none or one report
    btn,     \* g_btn_state
    acc,     \* g_wheel_acc
    sent,    \* packet_counter
    wheel,   \* wheel.c: wheel_accumulator_mdeg, pending_events, wheel events submitted
    qdec,    \* wheel.c: is it on, is report_work scheduled, is its handler half way
    fifo,    \* the packets in the radio's FIFO
    host,    \* the host: the last sample and the buttons it was told
    due,     \* the turns of the wheel that are neither told to the host nor given up
    count,   \* samples and inputs so far, and faults, for the bounds
    faults

vars == <<rate, active, thread, half, btn, acc, sent, wheel, qdec, fifo, host, due,
          faults, count>>

Report(i, b, w) == [id |-> i, btn |-> b, wheel |-> w]
NoReport == Report(0, {}, 0)
Reports == [id : 0 .. MaxSamples, btn : SUBSET Keys, wheel : -WheelLimit .. WheelLimit]
Packets == [reports : Seq(Reports), ack : BOOLEAN]
AtRest == [pc |-> "rest", kind |-> "single", report |-> NoReport]

Init ==
    /\ rate \in Rates
    /\ active = FALSE
    /\ thread = AtRest
    /\ half = <<>>
    /\ btn = {}
    /\ acc = 0
    /\ sent = 0
    /\ wheel = [rem |-> 0, pending |-> 0, events |-> <<>>]
    /\ qdec = {"on"}
    /\ fifo = <<>>
    /\ host = [last |-> 0, btn |-> {}]
    /\ due = 0
    /\ faults = 0
    /\ count = [samples |-> 0, inputs |-> 0]

-----------------------------------------------------------------------------
(* Helpers.                                                                *)

Input == count.inputs < MaxInputs /\ count' = [count EXCEPT !.inputs = @ + 1]
Fault == faults < MaxFaults /\ faults' = faults + 1

\* Division of C, which truncates.
Quotient(n) == IF n >= 0 THEN n \div Divider ELSE -((-n) \div Divider)

\* What one report takes of the accumulator.
Drained(n) == IF n > WheelLimit THEN WheelLimit ELSE IF n < -WheelLimit THEN -WheelLimit ELSE n

WheelOf(reports) == SumFunction([i \in DOMAIN reports |-> reports[i].wheel])
InFifo(packets) == FlattenSeq([i \in 1 .. Len(packets) |-> packets[i].reports])

\* n wheel events, or those of some reports, are told to the host or given up.
Settled(n) == due' = due - Divider * n
SettledReports(reports) == Settled(WheelOf(reports))

\* The host takes the reports of a packet.
HostAfter(packet) ==
    LET rs == packet.reports
        ids == {rs[i].id : i \in 1 .. Len(rs)}
    IN  [last |-> IF ids = {0} THEN host.last ELSE CHOOSE i \in ids : \A j \in ids : j <= i,
         btn |-> rs[Len(rs)].btn]

\* The packets of AckTime, at least one: a single packet counts with the polling rate,
\* a pair with half of 8000 Hz.
PairRate == EightK \div 2
Interval(hz) == IF (hz * AckTime) \div Second = 0 THEN 1 ELSE (hz * AckTime) \div Second
RateOf(kind) == IF kind = "single" THEN rate ELSE PairRate

\* Both count in packet_counter; the packet that completes its interval asks for an
\* acknowledgement.  Mutant: the one after it.
AckDueLate(kind) == sent + 1 > Interval(RateOf(kind))
AckDue(kind) == sent + 1 >= Interval(RateOf(kind))
Counted(kind) == sent' = IF AckDue(kind) THEN 0 ELSE sent + 1

\* esb_flush_tx: the packet on the air may still be heard.
Flushed ==
    /\ host' \in {host, HostAfter(Head(fifo))}
    /\ SettledReports(InFifo(fifo))

\* esb_write_data succeeds; a full FIFO is emptied first.
Written(packet) ==
    \/ /\ Len(fifo) < Capacity
       /\ fifo' = Append(fifo, packet)
       /\ UNCHANGED <<host, due>>
    \/ /\ Len(fifo) = Capacity
       /\ Flushed
       /\ fifo' = <<packet>>

-----------------------------------------------------------------------------
(* The events: each sends a report with no motion.                         *)

\* What send_mouse_report leaves in the accumulator n when the write failed.
\* Mutant: what was taken is not put back.
RestoredNot(n) == n - Drained(n)
Restored(n) == n

\* send_mouse_report(0, 0) with the buttons b and the accumulator n.
SendNow(b, n) ==
    /\ Counted("single")
    /\ \/ /\ Written([reports |-> <<Report(0, b, Drained(n))>>, ack |-> AckDue("single")])
          /\ acc' = n - Drained(n)
          /\ UNCHANGED faults
       \/ /\ Fault
          /\ acc' = Restored(n)
          /\ UNCHANGED <<fifo, host, due>>

\* button_event: update_button_state.
Button ==
    /\ "half" \notin qdec
    /\ Input
    /\ \E k \in Keys :
          LET b == IF k \in btn THEN btn \ {k} ELSE btn \cup {k}
          IN  btn' = b /\ SendNow(b, acc)
    /\ UNCHANGED <<rate, active, thread, half, wheel, qdec>>

\* wheel_event.
WheelEvent ==
    /\ "half" \notin qdec
    /\ wheel.events # <<>>
    /\ SendNow(btn, acc + Head(wheel.events))
    /\ wheel' = [wheel EXCEPT !.events = Tail(@)]
    /\ UNCHANGED <<rate, active, thread, half, btn, qdec, count>>

-----------------------------------------------------------------------------
(* The wheel.                                                              *)

\* data_ready_handler, for a turn of d.  Events of the other direction that are
\* pending are given up; report_work_handler sends the events one by one.
DataReady(d) ==
    /\ "on" \in qdec
    /\ Input
    /\ LET steps == Quotient(wheel.rem + d)
           reverse == wheel.pending * steps < 0
           given == IF reverse THEN wheel.pending ELSE 0
       IN  /\ wheel' = [wheel EXCEPT
                 !.rem = @ + d - steps * Divider,
                 !.pending = @ - given + steps]
           /\ qdec' = IF steps # 0 /\ (reverse \/ wheel.pending = 0)
                      THEN qdec \cup {"work"} ELSE qdec
           /\ due' = due + d - Divider * given
    /\ UNCHANGED <<rate, active, thread, half, btn, acc, sent, fifo, host, faults>>

\* report_work_handler up to its second lock: one event is submitted.
ReportStep ==
    /\ "work" \in qdec /\ "half" \notin qdec
    /\ LET v == IF wheel.pending > 0 THEN 1 ELSE IF wheel.pending < 0 THEN -1 ELSE 0
       IN  wheel' = [wheel EXCEPT !.pending = @ - v,
                                  !.events = IF v = 0 THEN @ ELSE Append(@, v)]
    /\ qdec' = (qdec \ {"work"}) \cup {"half"}
    /\ UNCHANGED <<rate, active, thread, half, btn, acc, sent, fifo, host, due, faults, count>>

\* The rest of it.  Mutant: it is not scheduled again.
AgainNever == FALSE
Again == wheel.pending # 0
ReportEnds ==
    /\ "half" \in qdec
    /\ qdec' = (qdec \ {"half"}) \cup (IF Again THEN {"work"} ELSE {})
    /\ UNCHANGED <<rate, active, thread, half, btn, acc, sent, wheel, fifo, host, due, faults, count>>

\* power_down_event: disable_qdec clears what is pending, and the motion sensor's
\* handler stops the sampling.
PowerDown ==
    /\ "half" \notin qdec /\ "on" \in qdec
    /\ Input
    /\ wheel' = [wheel EXCEPT !.pending = 0]
    /\ qdec' = {}
    /\ Settled(wheel.pending)
    /\ active' = FALSE
    /\ UNCHANGED <<rate, thread, half, btn, acc, sent, fifo, host, faults>>

\* wake_up_event: enable_qdec; the motion sensor samples again.
WakeUp ==
    /\ "half" \notin qdec /\ "on" \notin qdec
    /\ qdec' = qdec \cup {"on"}
    /\ active' = TRUE
    /\ UNCHANGED <<rate, thread, half, btn, acc, sent, wheel, fifo, host, due, faults, count>>

-----------------------------------------------------------------------------
(* The motion thread.                                                      *)

\* The sensor reports motion: the thread is started.
MotionBegins ==
    /\ "half" \notin qdec /\ "on" \in qdec /\ ~active
    /\ count.samples < MaxSamples
    /\ active' = TRUE
    /\ UNCHANGED <<rate, thread, half, btn, acc, sent, wheel, qdec, fifo, host, due, faults, count>>

\* start_polling sets another rate: from the motion thread, which applies an option, or
\* from the work queue, between two steps of a sample.
RateChanges ==
    /\ "half" \notin qdec
    /\ Input
    /\ \E r \in Rates \ {rate} : rate' = r
    /\ UNCHANGED <<active, thread, half, btn, acc, sent, wheel, qdec, fifo, host, due, faults>>

\* fast_path_motion_handler: single, first or second of a pair.  A half packet of the
\* former rate is dropped.  Then send_mouse_report or populate_report_buffer reads the
\* buttons, ...  Mutant: the half packet is kept.
HalfKept == half
HalfAfter == IF rate = EightK THEN half ELSE <<>>
Kind == IF rate # EightK THEN "single" ELSE IF half = <<>> THEN "first" ELSE "second"
Sample ==
    /\ "half" \notin qdec /\ active /\ thread.pc = "rest"
    /\ LET more == count.samples < MaxSamples
       IN  /\ count' = IF more THEN [count EXCEPT !.samples = @ + 1] ELSE count
           /\ thread' = [pc |-> "drain", kind |-> Kind,
                         report |-> Report(IF more THEN count'.samples ELSE 0, btn, 0)]
    /\ half' = HalfAfter
    /\ Settled(WheelOf(half) - WheelOf(half'))
    /\ UNCHANGED <<rate, active, btn, acc, sent, wheel, qdec, fifo, host, faults>>

\* ... and the accumulator, by compare and swap.  The first of a pair is kept.
Drain ==
    /\ "half" \notin qdec /\ thread.pc = "drain"
    /\ acc' = acc - Drained(acc)
    /\ LET r == [thread.report EXCEPT !.wheel = Drained(acc)]
       IN  IF thread.kind = "first"
           THEN half' = <<r>> /\ thread' = AtRest
           ELSE half' = half /\ thread' = [thread EXCEPT !.pc = "write", !.report = r]
    /\ UNCHANGED <<rate, active, btn, sent, wheel, qdec, fifo, host, due, faults, count>>

\* The write of send_mouse_report or send_dual_report.  When it fails the first puts
\* the wheel back, the second does not.
Write ==
    /\ "half" \notin qdec /\ thread.pc = "write"
    /\ Counted(thread.kind)
    /\ LET r == thread.report
           pair == thread.kind = "second"
           rs == IF pair THEN half \o <<r>> ELSE <<r>>
       IN  /\ \/ Written([reports |-> rs, ack |-> AckDue(thread.kind)]) /\ UNCHANGED <<acc, faults>>
              \/ /\ Fault
                 /\ acc' = IF pair THEN acc ELSE acc + r.wheel
                 /\ Settled(IF pair THEN WheelOf(rs) ELSE 0)
                 /\ UNCHANGED <<fifo, host>>
           /\ half' = IF pair THEN <<>> ELSE half
    /\ thread' = AtRest
    /\ UNCHANGED <<rate, active, btn, wheel, qdec, count>>

\* NODATA_LIMIT samples were empty: fast_path_flush_handler, and the sampling stops.
Flush ==
    /\ "half" \notin qdec /\ active /\ thread.pc = "rest"
    /\ active' = FALSE
    /\ half' = <<>>
    /\ IF half = <<>>
       THEN UNCHANGED <<fifo, host, due, faults>>
       ELSE \/ Written([reports |-> half, ack |-> FALSE]) /\ UNCHANGED faults
            \/ Fault /\ SettledReports(half) /\ UNCHANGED <<fifo, host>>
    /\ UNCHANGED <<rate, thread, btn, acc, sent, wheel, qdec, count>>

-----------------------------------------------------------------------------
(* The radio.                                                              *)

\* The packet at the head is sent, and heard.
Heard ==
    /\ fifo # <<>>
    /\ host' = HostAfter(Head(fifo))
    /\ SettledReports(Head(fifo).reports)
    /\ fifo' = Tail(fifo)
    /\ UNCHANGED <<rate, active, thread, half, btn, acc, sent, wheel, qdec, faults, count>>

\* Nobody hears a packet that asks for no acknowledgement.
Unheard ==
    /\ fifo # <<>> /\ ~Head(fifo).ack
    /\ Fault
    /\ SettledReports(Head(fifo).reports)
    /\ fifo' = Tail(fifo)
    /\ UNCHANGED <<rate, active, thread, half, btn, acc, sent, wheel, qdec, host, count>>

\* ESB_EVENT_TX_FAILED: the FIFO is emptied.
TxFailed ==
    /\ fifo # <<>> /\ Head(fifo).ack
    /\ Fault
    /\ Flushed
    /\ fifo' = <<>>
    /\ UNCHANGED <<rate, active, thread, half, btn, acc, sent, wheel, qdec, count>>

-----------------------------------------------------------------------------
Thread == Sample \/ Drain \/ Write \/ Flush
Next ==
    \/ Button \/ WheelEvent
    \/ \E d \in Turns : DataReady(d)
    \/ ReportStep \/ ReportEnds \/ PowerDown \/ WakeUp
    \/ MotionBegins \/ RateChanges
    \/ Thread
    \/ Heard \/ Unheard \/ TxFailed

Spec == Init /\ [][Next]_vars

\* The thread and the work queue run on; the radio goes on sending.
FairSpec ==
    /\ Spec
    /\ WF_vars(Thread)
    /\ WF_vars(WheelEvent) /\ WF_vars(ReportStep) /\ WF_vars(ReportEnds)
    /\ WF_vars(Heard)

-----------------------------------------------------------------------------
(* Properties.                                                             *)

\* Types, and: no more than WheelLimit in a report, which has a signed byte for it; the
\* FIFO within its size; the counter below the interval of some kind of packet; a half
\* packet is one report.
TypeOK ==
    /\ rate \in Rates /\ active \in BOOLEAN
    /\ thread \in [pc : {"rest", "drain", "write"},
                   kind : {"single", "first", "second"}, report : Reports]
    /\ half \in Seq(Reports) /\ Len(half) <= 1
    /\ thread.kind = "second" => Len(half) = 1
    /\ btn \subseteq Keys /\ acc \in Int /\ sent \in Nat
    /\ \E hz \in Rates \cup {PairRate} : sent < Interval(hz)
    /\ wheel \in [rem : 1 - Divider .. Divider - 1, pending : Int, events : Seq({-1, 1})]
    /\ qdec \subseteq {"on", "work", "half"}
    /\ fifo \in Seq(Packets) /\ Len(fifo) <= Capacity
    /\ host \in [last : 0 .. MaxSamples, btn : SUBSET Keys]
    /\ due \in Int /\ faults \in 0 .. MaxFaults
    /\ count \in [samples : 0 .. MaxSamples, inputs : 0 .. MaxInputs]

\* Every turn of the wheel that is neither told to the host nor given up is in one
\* place: the remainder, an event that is pending or submitted, the accumulator, or a
\* report that is being built, kept or queued, whatever the thread, the work queue and
\* the interrupt do between each other's steps and whichever write fails.
WheelConserved ==
    due = wheel.rem + Divider * (wheel.pending + SumFunction(wheel.events) + acc
                                 + thread.report.wheel + WheelOf(half)
                                 + WheelOf(InFifo(fifo)))

\* A sample reaches the host at most once and in order: what is on its way, in the FIFO,
\* as half a packet or with the thread, is newer than the host's, and each newer than
\* those before it, also when the rate changes between the halves of a packet.
InOrder(way, last) ==
    \A j \in 1 .. Len(way) :
        way[j].id # 0 => /\ way[j].id > last
                         /\ \A i \in 1 .. j - 1 : way[i].id < way[j].id
MotionOnce == InOrder(InFifo(fifo) \o half \o <<thread.report>>, host.last)

\* What the user does arrives.  Wheel events do not stay pending, and once the losses
\* are over, sampling shows the host the buttons as they are, though reports with older
\* ones overtook or were lost.
InputArrives ==
    /\ wheel.pending # 0 ~> wheel.pending = 0
    /\ wheel.events # <<>> ~> wheel.events = <<>>
    /\ host.btn # btn ~> (host.btn = btn \/ ~active)
=============================================================================
