---------------------------- MODULE DongleBridge ----------------------------
(***************************************************************************)
(* The data path of the high-speed dongle.  Its nRF52820 takes reports     *)
(* from the radio (modules/esb_rx.c, in the radio's interrupt) through a   *)
(* memory slab and a queue of pointers to the thread of                    *)
(* modules/spi_master.c, which writes one report to the SPI at each tick   *)
(* of an 8 kHz timer.  Its CH32V305 (dongle-hs-ch32v305/User) takes them   *)
(* from SPI by DMA into two halves of a buffer, arms the USB endpoint at   *)
(* the start of a frame, and passes user configurations of the host back:  *)
(* it loads them for SPI and pulses a line that interrupts the nRF.        *)
(*                                                                         *)
(* A mouse report is one half, a dual report two, each sent as a report of *)
(* its own.  Halves are numbered as they are accepted; the configurations  *)
(* of the host are numbered as they come; 0 is none.                       *)
(***************************************************************************)
EXTENDS Integers, Sequences, FiniteSets

CONSTANTS
    Blocks,      \* blocks of tx_slab, and capacity of slab_ptr_msgq
    None,        \* NULL
    MaxReports,  \* bound: reports accepted from the radio
    MaxConfigs,  \* bound: configurations the host sets
    MaxFaults    \* bound: failed SPI transfers, suspensions and resets of USB

ASSUME BlocksAssumption == IsFiniteSet(Blocks) /\ None \notin Blocks

VARIABLES
    free,      \* free blocks of tx_slab
    mem,       \* the report in each block: its kind and its first half
    msgq,      \* slab_ptr_msgq
    pending,   \* pending_dual_sample_ptr
    sig,       \* rx_signal: the result it was raised with, "none" when reset
    thread,    \* where thread_fn is, and its local result
    halves,    \* history: halves accepted from the radio, and put on SPI
    slave,     \* the CH32's buffers and main loop
    usb,       \* USBHS_DevEnumStatus, and endpoint 3: busy, its DMA address
    host,      \* history: the half in the last report the host took
    config,    \* history: configurations set by the host, and handled
    mixed,     \* history: something else than a mouse report was on SPI
    count      \* reports and faults so far, for the bounds

nrf == <<free, mem, msgq, pending>>
vars == <<free, mem, msgq, pending, sig, thread, halves, slave, usb, host, config, mixed, count>>

Kinds == {"mouse", "dual", "config"}
Halves(kind) == IF kind = "dual" THEN 2 ELSE 1
Half == {1, 2}

Init ==
    /\ free = Blocks
    /\ mem = [b \in Blocks |-> [kind |-> "mouse", first |-> 0]]
    /\ msgq = <<>>
    /\ pending = None
    /\ sig = "none"
    /\ thread = [pc |-> "poll", result |-> "none", read |-> 0]
    /\ halves = [accepted |-> 0, wire |-> 0]
    /\ slave = [rx |-> 1, active |-> 1, new |-> FALSE, buf |-> [h \in Half |-> 0],
                tx |-> 0, at |-> 1, data |-> 0, received |-> FALSE, pc |-> "loop"]
    /\ usb = [up |-> FALSE, busy |-> FALSE, dma |-> 1]
    /\ host = 0
    /\ config = [set |-> 0, done |-> 0]
    /\ mixed = FALSE
    /\ count = [reports |-> 0, faults |-> 0]

-----------------------------------------------------------------------------
(* The nRF's interrupts.                                                   *)

\* send_hid_report, and event_handler that calls it: without a free block the
\* report is dropped.
SendHidReport(kind) ==
    /\ count.reports < MaxReports
    /\ count' = [count EXCEPT !.reports = @ + 1]
    /\ \/ /\ free = {}
          /\ UNCHANGED <<nrf, halves>>
       \/ LET b == CHOOSE x \in free : TRUE
          IN /\ free # {}
             /\ mem' = [mem EXCEPT ![b] = [kind |-> kind, first |-> halves.accepted + 1]]
             /\ IF Len(msgq) < Cardinality(Blocks)
                THEN /\ free' = free \ {b}
                     /\ msgq' = Append(msgq, b)
                     /\ halves' = [halves EXCEPT !.accepted = @ + Halves(kind)]
                ELSE UNCHANGED <<free, msgq, halves>>
             /\ UNCHANGED pending
    /\ UNCHANGED <<sig, thread, slave, usb, host, config, mixed>>

\* k_poll_signal_raise: a signal that is raised again keeps its last result.
Raise(result) == sig' = result

\* spi_8k_callback
Tick ==
    /\ Raise("tick")
    /\ UNCHANGED <<nrf, thread, halves, slave, usb, host, config, mixed, count>>

-----------------------------------------------------------------------------
(* The SPI between them.  Transfers of 14 bytes go both ways: the CH32's   *)
(* DMA fills and sends the halves of its buffers in turn.                  *)

\* Mutants: the buffer does not wrap around; the half to come is announced.
TransferredNoWrap(id, n) ==
    slave' = [slave EXCEPT !.rx = @ + 1, !.at = 3 - @, !.active = slave.rx,
                           !.new = @ \/ id # "read",
                           !.buf = IF id = "mouse" THEN [slave.buf EXCEPT ![slave.rx] = n]
                                                ELSE slave.buf]
TransferredOther(id, n) ==
    slave' = [slave EXCEPT !.rx = 3 - @, !.at = 3 - @, !.active = 3 - slave.rx,
                           !.new = @ \/ id # "read",
                           !.buf = IF id = "mouse" THEN [slave.buf EXCEPT ![slave.rx] = n]
                                                ELSE slave.buf]
\* The interrupt of DMA channel 4 after a transfer that wrote half n of id.
Transferred(id, n) ==
    slave' = [slave EXCEPT !.rx = 3 - @, !.at = 3 - @, !.active = slave.rx,
                           !.new = @ \/ id # "read",
                           !.buf = IF id = "mouse" THEN [slave.buf EXCEPT ![slave.rx] = n]
                                                ELSE slave.buf]

\* What a transfer takes from TxData: its second half is never written.
TxData == IF slave.at = 1 THEN slave.tx ELSE 0

\* optimized_burst_write_with_transceive of half n: an error is only logged.
Write(id, n) ==
    /\ \/ /\ Transferred(id, n)
          /\ mixed' = (mixed \/ id # "mouse")
          /\ UNCHANGED count
       \/ /\ count.faults < MaxFaults
          /\ count' = [count EXCEPT !.faults = @ + 1]
          /\ UNCHANGED <<slave, mixed>>
    /\ halves' = [halves EXCEPT !.wire = n]
    /\ UNCHANGED <<usb, host, config>>

-----------------------------------------------------------------------------
(* thread_fn: k_poll returns when the signal is raised.  (It also returns  *)
(* while msgq holds a report, to no effect: the thread then spins.)        *)

\* k_poll_signal_check
Check ==
    /\ thread.pc = "poll" /\ sig # "none"
    /\ thread' = [thread EXCEPT !.pc = "checked", !.result = sig]
    /\ UNCHANGED <<nrf, sig, halves, slave, usb, host, config, mixed, count>>

\* k_poll_signal_reset
Reset ==
    /\ thread.pc = "checked"
    /\ sig' = "none"
    /\ thread' = [thread EXCEPT !.pc = "handle"]
    /\ UNCHANGED <<nrf, halves, slave, usb, host, config, mixed, count>>

Handle(result) ==
    /\ thread.pc = "handle" /\ thread.result = result
    /\ UNCHANGED sig
Handled == thread' = [pc |-> "poll", result |-> "none", read |-> 0]

\* A tick with the second half of a dual report pending.
TickSecond ==
    /\ Handle("tick") /\ pending # None
    /\ Write("mouse", mem[pending].first + 1)
    /\ free' = free \union {pending}
    /\ pending' = None
    /\ Handled /\ UNCHANGED <<mem, msgq>>

\* Mutants: the block of a dual report is freed with its first half; the
\* pointer to it is not kept.
TickDualFrees ==
    /\ Handle("tick") /\ pending = None /\ msgq # <<>>
    /\ LET b == Head(msgq)
       IN  /\ mem[b].kind = "dual"
           /\ Write("mouse", mem[b].first)
           /\ pending' = b
           /\ free' = free \union {b}
    /\ msgq' = Tail(msgq)
    /\ Handled /\ UNCHANGED mem
TickDualForgets ==
    /\ Handle("tick") /\ pending = None /\ msgq # <<>>
    /\ LET b == Head(msgq)
       IN  /\ mem[b].kind = "dual"
           /\ Write("mouse", mem[b].first)
           /\ free' = free \union {b}
    /\ msgq' = Tail(msgq)
    /\ Handled /\ UNCHANGED <<mem, pending>>
\* A tick that fetches a dual report: its block is kept for the next tick.
TickDual ==
    /\ Handle("tick") /\ pending = None /\ msgq # <<>>
    /\ LET b == Head(msgq)
       IN  /\ mem[b].kind = "dual"
           /\ Write("mouse", mem[b].first)
           /\ pending' = b
    /\ msgq' = Tail(msgq)
    /\ Handled /\ UNCHANGED <<free, mem>>

\* A tick that fetches any other report.
TickSingle ==
    /\ Handle("tick") /\ pending = None /\ msgq # <<>>
    /\ LET b == Head(msgq)
       IN  /\ mem[b].kind # "dual"
           /\ Write(mem[b].kind, mem[b].first)
           /\ free' = free \union {b}
    /\ msgq' = Tail(msgq)
    /\ Handled /\ UNCHANGED <<mem, pending>>

\* A tick with nothing to send.
TickIdle ==
    /\ Handle("tick") /\ pending = None /\ msgq = <<>>
    /\ Handled
    /\ UNCHANGED <<nrf, halves, slave, usb, host, config, mixed, count>>

\* optimized_burst_read of a transfer that brings TxData.
Transfer(next, read) ==
    /\ Transferred("read", 0)
    /\ mixed' = TRUE
    /\ thread' = [pc |-> next, result |-> "none", read |-> read]
    /\ UNCHANGED count
\* Mutant: an error ends the thread's loop.
FailedReadStops ==
    /\ count.faults < MaxFaults
    /\ count' = [count EXCEPT !.faults = @ + 1]
    /\ thread' = [thread EXCEPT !.pc = "stopped"] /\ UNCHANGED <<slave, mixed>>
\* An error, which is logged.
FailedRead ==
    /\ count.faults < MaxFaults
    /\ count' = [count EXCEPT !.faults = @ + 1]
    /\ Handled /\ UNCHANGED <<slave, mixed>>

\* An interrupt: the thread reads; a report id 0 makes it read again.
Read ==
    /\ Handle("rx")
    /\ \/ slave.at = 2 /\ Transfer("retry", 0)
       \/ slave.at = 1 /\ Transfer(IF TxData = 0 THEN "poll" ELSE "forward", TxData)
       \/ FailedRead
    /\ UNCHANGED <<nrf, halves, usb, host, config>>

\* The second read, 500 us later.  report_id and recipient are those of the
\* first: whatever it brings is not looked at.
Retry ==
    /\ thread.pc = "retry"
    /\ Transfer("poll", 0) \/ FailedRead
    /\ UNCHANGED <<nrf, sig, halves, usb, host, config>>

\* esb_write or enter_pairing_mode, which sleep between their attempts.
Forward ==
    /\ thread.pc = "forward"
    /\ config' = [config EXCEPT !.done = thread.read]
    /\ Handled
    /\ UNCHANGED <<nrf, sig, halves, slave, usb, host, mixed, count>>

\* A step of the thread.
ThreadStep == \/ Check \/ Reset \/ TickSecond \/ TickDual \/ TickSingle \/ TickIdle
              \/ Read \/ Retry \/ Forward

-----------------------------------------------------------------------------
(* The CH32: its USB interrupt and its main loop.                          *)

\* HID_SET_REPORT of a user configuration: the last one overwrites.
SetReport ==
    /\ usb.up /\ config.set < MaxConfigs
    /\ config' = [config EXCEPT !.set = @ + 1]
    /\ slave' = [slave EXCEPT !.data = config.set + 1, !.received = TRUE]
    /\ UNCHANGED <<nrf, sig, thread, halves, usb, host, mixed, count>>

\* The main loop: clear the flag; SPI_Update_Tx_Data, which restarts the SPI at
\* the first half; and, after 50 us, the pulse that data_ready_handler sees.
Loop(pc, next) == slave.pc = pc /\ slave' = [next EXCEPT !.pc = CASE pc = "loop" -> "load"
                                                                  [] pc = "load" -> "pulse"
                                                                  [] pc = "pulse" -> "loop"]
ClearReceived ==
    /\ usb.up /\ slave.received
    /\ Loop("loop", [slave EXCEPT !.received = FALSE])
    /\ UNCHANGED <<nrf, sig, thread, halves, usb, host, config, mixed, count>>
UpdateTxData ==
    /\ Loop("load", [slave EXCEPT !.tx = slave.data, !.at = 1])
    /\ UNCHANGED <<nrf, sig, thread, halves, usb, host, config, mixed, count>>
SignalDataReady ==
    /\ Loop("pulse", slave)
    /\ Raise("rx")
    /\ UNCHANGED <<nrf, thread, halves, usb, host, config, mixed, count>>

\* Start of a frame: the half that was last written by DMA is armed.
Sof ==
    /\ usb.up /\ slave.new /\ ~usb.busy
    /\ usb' = [usb EXCEPT !.busy = TRUE, !.dma = slave.active]
    /\ slave' = [slave EXCEPT !.new = FALSE]
    /\ UNCHANGED <<nrf, sig, thread, halves, host, config, mixed, count>>

\* The host takes what the armed half holds by then.
In ==
    /\ usb.up /\ usb.busy
    /\ host' = slave.buf[usb.dma]
    /\ usb' = [usb EXCEPT !.busy = FALSE]
    /\ UNCHANGED <<nrf, sig, thread, halves, slave, config, mixed, count>>

\* SET_CONFIGURATION or resume; suspend; bus reset, which frees the endpoint.
UsbUp ==
    /\ ~usb.up
    /\ usb' = [usb EXCEPT !.up = TRUE]
    /\ UNCHANGED <<nrf, sig, thread, halves, slave, host, config, mixed, count>>
UsbDown ==
    /\ usb.up /\ count.faults < MaxFaults
    /\ count' = [count EXCEPT !.faults = @ + 1]
    /\ \E busy \in {usb.busy, FALSE} : usb' = [usb EXCEPT !.up = FALSE, !.busy = busy]
    /\ UNCHANGED <<nrf, sig, thread, halves, slave, host, config, mixed>>

Next ==
    \/ \E kind \in Kinds : SendHidReport(kind)
    \/ Tick \/ ThreadStep
    \/ SetReport \/ ClearReceived \/ UpdateTxData \/ SignalDataReady
    \/ Sof \/ In \/ UsbUp \/ UsbDown

Spec == Init /\ [][Next]_vars

\* The timer keeps ticking, and the cooperative thread runs when it can.
Fairness == WF_vars(Tick) /\ WF_vars(ThreadStep)
FairSpec == Spec /\ Fairness

-----------------------------------------------------------------------------
Queued == {msgq[i] : i \in DOMAIN msgq}

(* Every variable has its type.                                            *)
TypeOK ==
    /\ free \subseteq Blocks
    /\ mem \in [Blocks -> [kind : Kinds, first : Nat]]
    /\ msgq \in Seq(Blocks)
    /\ pending \in Blocks \union {None}
    /\ sig \in {"none", "tick", "rx"}
    /\ thread \in [pc : {"poll", "checked", "handle", "retry", "forward"},
                   result : {"none", "tick", "rx"}, read : Nat]
    /\ halves \in [accepted : Nat, wire : Nat]
    /\ slave \in [rx : Half, active : Half, new : BOOLEAN, buf : [Half -> Nat],
                  tx : Nat, at : Half, data : Nat, received : BOOLEAN,
                  pc : {"loop", "load", "pulse"}]
    /\ usb \in [up : BOOLEAN, busy : BOOLEAN, dma : Half]
    /\ host \in Nat /\ config \in [set : Nat, done : Nat] /\ mixed \in BOOLEAN
    /\ count \in [reports : Nat, faults : Nat]

(* Every block of the slab is either free, or in the queue once, or waits  *)
(* with its second half: none leaks and none is freed while it is in use.  *)
BlocksAccounted ==
    /\ \A i, j \in DOMAIN msgq : msgq[i] = msgq[j] => i = j
    /\ free \intersect Queued = {}
    /\ pending \notin free \union Queued
    /\ Blocks \ {pending} = free \union Queued

(* Between the radio and SPI no half is lost, doubled or out of order: what *)
(* has not been on SPI is the second half that waits, and then the halves  *)
(* of the queue, up to the last one accepted.                              *)
Last(b) == mem[b].first + Halves(mem[b].kind) - 1
StreamIntact ==
    /\ pending # None => mem[pending].kind = "dual" /\ mem[pending].first = halves.wire
    /\ LET start == halves.wire + IF pending = None THEN 0 ELSE 1
       IN  IF msgq = <<>> THEN halves.accepted = start
           ELSE /\ mem[Head(msgq)].first = start + 1
                /\ \A i \in 1 .. Len(msgq) - 1 :
                      mem[msgq[i + 1]].first = Last(msgq[i]) + 1
                /\ halves.accepted = Last(msgq[Len(msgq)])

(* The host never gets a report that is older than the one it had, however *)
(* transfers, frames and the host's polls interleave, as long as nothing   *)
(* but mouse reports is on SPI.                                            *)
HostNeverGoesBack == [][~mixed => host' >= host]_vars

(* Whatever the radio delivered goes out on SPI, also when interrupts of    *)
(* the CH32 overwrite ticks.                                               *)
StreamDrains == <>[](halves.wire = halves.accepted)

(* A configuration of the host reaches the nRF: when nothing is under way, *)
(* the last one has been handled (spi_master.c:499, "We handle both RX     *)
(* Interrupts and 8K Timer Ticks here").                                   *)
ConfigDelivered ==
    /\ slave.pc = "loop" /\ ~slave.received
    /\ thread.pc = "poll" /\ sig = "none"
    => config.done = config.set
=============================================================================
