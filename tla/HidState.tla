------------------------------ MODULE HidState ------------------------------
(***************************************************************************)
(* The HID data pipeline of modules/hid_state.c for one report data (the   *)
(* mouse), as functions on its state.  Every handler of the module runs to *)
(* completion on the application event manager's thread; HidPipeline makes *)
(* actions of them and connects them with the subscribers.                 *)
(*                                                                         *)
(* The state is a record.  Of the subscribers it keeps                     *)
(*   on          those that are connected,                                 *)
(*   report_cnt  their counters of reports;                                *)
(* of the report states, named by subscriber and report,                   *)
(*   state, cnt  as in the code,                                           *)
(*   upd         those with update_needed,                                 *)
(*   rd          linked_rd: "data", "empty" (empty_rd) or "none" (NULL);   *)
(* of the report data                                                      *)
(*   link        linked_rs,                                                *)
(*   items       the reference counter of every pressed usage,             *)
(*   evq         the event queue, with the age of every event,             *)
(*   axis        the accumulated motion of one axis;                       *)
(* and in out the HID reports that the handler has submitted.              *)
(* Axis sums are kept small by the bounds of the instances, far from the   *)
(* limits of an int16_t.                                                   *)
(***************************************************************************)
EXTENDS Integers, SequencesExt

CONSTANTS
    Keys,            \* usages of the mouse report (its buttons)
    ItemCountMax,    \* item_count_max: pressed usages a report can hold
    EventQueueSize,  \* CONFIG_DESKTOP_HID_EVENT_QUEUE_SIZE
    Pipeline,        \* pipeline_size and report_max of the USB subscriber
    XYMax,           \* MOUSE_REPORT_XY_MAX, the largest motion of a report
    XYMaxBoot        \* INT8_MAX, the largest motion of a boot report

\* usb_state.c builds with one or two report buffers only.
ASSUME PipelineAssumption ==
    /\ IsFiniteSet(Keys) /\ ItemCountMax \in Nat \ {0} /\ EventQueueSize \in Nat \ {0}
    /\ Pipeline \in 1 .. 2
    /\ XYMaxBoot \in Nat \ {0} /\ XYMax \in Nat /\ XYMax >= XYMaxBoot

Subs == {"usb", "esb"}
Reports == {"mouse", "boot"}
ReportStates == Subs \X Reports
NoLink == <<"none", "none">>

\* USB_SUBSCRIBER_PRIORITY and ESB_SUBSCRIBER_PRIORITY
Priority(s) == IF s = "usb" THEN 255 ELSE 100
\* pipeline_size, and report_max, which both subscribers make equal to it.
Depth(s) == IF s = "usb" THEN Pipeline ELSE 1
\* Report states are visited in the order of report_state_index.
After(l) == <<l[1], IF l[2] = "mouse" THEN "boot" ELSE "mouse">>

NoItems == [k \in Keys |-> 0]
InitHid ==
    [on |-> {}, report_cnt |-> [s \in Subs |-> 0],
     state |-> [l \in ReportStates |-> "DISCONNECTED"], cnt |-> [l \in ReportStates |-> 0],
     upd |-> {}, rd |-> [l \in ReportStates |-> "none"],
     link |-> NoLink, items |-> NoItems, evq |-> <<>>, axis |-> 0, out |-> <<>>]

Linked(h) == h.link # NoLink
Connected(h, l) == h.state[l] # "DISCONNECTED"
Held(items) == {k \in Keys : items[k] > 0}
Pressed(h) == Held(h.items)
Clip(x, max) == IF x > max THEN max ELSE IF x < -max THEN -max ELSE x

\* Mutant: queued usages are dropped, the recorded ones stay.
ClearKeepsItems(h) == [h EXCEPT !.evq = <<>>, !.axis = 0]

ClearReportData(h) == [h EXCEPT !.items = NoItems, !.evq = <<>>, !.axis = 0]

-----------------------------------------------------------------------------
(* eventq_cleanup.  The first n events have expired.  Of these, the longest*)
(* prefix is purged in which every key down has its key up.                *)

\* Position of the key up that closes the key down at c, 0 if not in 2 .. n.
PairOf(q, n, c) ==
    LET Value(i) == IF q[i].key = q[c].key THEN q[i].val ELSE 0
        Closes == {j \in c + 1 .. n : q[j].key = q[c].key
                                      /\ SumFunction([i \in c .. j |-> Value(i)]) = 0}
    IN  IF Closes = {} THEN 0 ELSE Min(Closes)

\* The scan stops at a key down without its key up.  Up to c, it has seen the
\* key ups of maxfound and before: if that is c itself, the region is purged.
Purged(q, n) ==
    LET Downs(c) == {i \in 1 .. c : q[i].val > 0}
        maxfound(c) == Max({1} \union {PairOf(q, n, i) : i \in Downs(c)})
        Ends == {c \in 1 .. n : /\ \A i \in Downs(c) : PairOf(q, n, i) # 0
                                /\ c = maxfound(c)}
    IN  IF Ends = {} THEN 0 ELSE Max(Ends)

Cleanup(q, n) == SubSeq(q, Purged(q, n) + 1, Len(q))

\* Timestamps are in queue order: the expired events are at the front.
ExpiredCount(q) == Cardinality({i \in DOMAIN q : q[i].age = "old"})

(* enqueue: a full queue is cleaned up as if its oldest events had expired,*)
(* one more each time; if that frees nothing, or a subscriber is connected,*)
(* everything recorded is dropped.                                         *)
Enqueue(h, key, val, connected) ==
    LET q == Cleanup(h.evq, ExpiredCount(h.evq))
        Frees == {i \in DOMAIN q : Len(Cleanup(q, i)) < EventQueueSize}
        g == IF Len(q) < EventQueueSize THEN [h EXCEPT !.evq = q]
             ELSE IF ~connected /\ Frees # {} THEN [h EXCEPT !.evq = Cleanup(q, Min(Frees))]
             ELSE ClearReportData(h)
    IN  [g EXCEPT !.evq = Append(@, [key |-> key, val |-> val, age |-> "fresh"])]

-----------------------------------------------------------------------------
(* key_value_set: a key up of a usage that is not pressed is ignored, and  *)
(* so is a key down when the report is full.                               *)
Changes(items, key, val) ==
    items[key] > 0 \/ (val > 0 /\ Cardinality(Held(items)) < ItemCountMax)
KeyValueSet(items, key, val) ==
    IF Changes(items, key, val) THEN [items EXCEPT ![key] = @ + val] ELSE items

(* update_report: replay queued events until one changes an item.          *)
Replay(h) ==
    LET Hits == {i \in DOMAIN h.evq : Changes(h.items, h.evq[i].key, h.evq[i].val)}
        i == Min(Hits)
    IN  IF Hits = {} THEN [h EXCEPT !.evq = <<>>]
        ELSE [h EXCEPT !.evq = SubSeq(@, i + 1, Len(@)),
                       !.items = KeyValueSet(@, h.evq[i].key, h.evq[i].val),
                       !.upd = @ \union {h.link}]
UpdateReport(h, l) == IF h.rd[l] = "empty" THEN h ELSE Replay(h)

HidReport(l, keys, dx) == [t |-> "report", l |-> l, keys |-> keys, dx |-> dx]

\* Mutant: the motion that does not fit into the report is lost.
SendReportLosesRest(h, l) ==
    LET empty == h.rd[l] = "empty"
        dx == IF empty THEN 0 ELSE Clip(h.axis, IF l[2] = "boot" THEN XYMaxBoot ELSE XYMax)
        keys == IF empty THEN {} ELSE Pressed(h)
    IN  [h EXCEPT !.axis = IF empty THEN @ ELSE 0,
                  !.upd = @ \ {l},
                  !.cnt[l] = @ + 1,
                  !.report_cnt[l[1]] = @ + 1,
                  !.out = Append(@, HidReport(l, keys, dx))]

(* send_report_mouse, send_report_boot_mouse: encode and submit, request   *)
(* an update for the motion that did not fit.                              *)
SendReport(h, l) ==
    LET empty == h.rd[l] = "empty"
        dx == IF empty THEN 0 ELSE Clip(h.axis, IF l[2] = "boot" THEN XYMaxBoot ELSE XYMax)
        keys == IF empty THEN {} ELSE Pressed(h)
    IN  [h EXCEPT !.axis = @ - dx,
                  !.upd = IF empty \/ h.axis = dx THEN @ \ {l} ELSE @ \union {l},
                  !.cnt[l] = @ + 1,
                  !.report_cnt[l[1]] = @ + 1,
                  !.out = Append(@, HidReport(l, keys, dx))]

(* report_send of a report state; the loop fills the pipeline.             *)
\* Mutant: one report more than the subscriber can take.
HasRoomForOneMore(h, l) == h.cnt[l] <= Depth(l[1]) /\ h.report_cnt[l[1]] <= Depth(l[1])
HasRoom(h, l) == h.cnt[l] < Depth(l[1]) /\ h.report_cnt[l[1]] < Depth(l[1])

\* A round of the loop that finds no room or nothing to send ends it, and the
\* next would find the same; with at most two buffers there are two rounds.
SendRound(h, l, always) ==
    LET g == UpdateReport(h, l)
    IN  IF ~HasRoom(h, l) THEN h ELSE IF l \in g.upd \/ always THEN SendReport(g, l) ELSE g
FillPipeline(h, l, always) == SendRound(SendRound(h, l, always), l, always)

ReportSend(h, l, check, always) ==
    LET f == FillPipeline(h, l, always)
        g == IF check /\ ~Connected(h, l) THEN h
             ELSE IF f.cnt[l] # 0 THEN [f EXCEPT !.state[l] = "BUSY"] ELSE f
    IN  IF always /\ g.out = h.out THEN [g EXCEPT !.upd = @ \union {l}] ELSE g

(* report_send for the report data; without a linked report state it does  *)
(* nothing.                                                                *)
ReportSendData(h, check, always) ==
    IF Linked(h) THEN ReportSend(h, h.link, check, always) ELSE h

-----------------------------------------------------------------------------
(* report_issued: a report of l has left its subscriber.  report_cnt is a  *)
(* uint8_t.                                                                *)
\* The assertion on rs->cnt.
IssuedAsserts(h, l) == l[1] \in h.on /\ Connected(h, l) => h.cnt[l] > 0

TrySend(h, l) ==
    IF Connected(h, l) /\ h.cnt[l] = 0 /\ (h.rd[l] = "empty" \/ ~Linked(h) \/ h.link = l)
    THEN ReportSend(h, l, FALSE, FALSE) ELSE h

\* Mutant: the search ends before it is back at the report that was sent.
SendNextSkipsLast(h, l, unblocked) ==
    IF unblocked THEN TrySend(h, After(l)) ELSE TrySend(h, l)

\* A subscriber that was blocked starts with the next report in turn.
SendNext(h, l, unblocked) ==
    LET f == IF unblocked THEN TrySend(h, After(l)) ELSE h
    IN  IF f.out # h.out THEN f ELSE TrySend(f, l)

\* Mutant: the credit of a report that is no longer connected is not returned.
AnsweredIfConnected(h, l) ==
    IF Connected(h, l)
    THEN [h EXCEPT !.report_cnt[l[1]] = (@ - 1) % 256, !.cnt[l] = @ - 1,
                   !.state[l] = IF h.cnt[l] = 1 THEN "IDLE" ELSE @]
    ELSE h

Answered(h, l) ==
    LET g == [h EXCEPT !.report_cnt[l[1]] = (@ - 1) % 256]
    IN  IF Connected(h, l)
        THEN [g EXCEPT !.cnt[l] = @ - 1, !.state[l] = IF h.cnt[l] = 1 THEN "IDLE" ELSE @]
        ELSE g

ReportIssued(h, l, error) ==
    IF l[1] \notin h.on THEN h
    ELSE IF error /\ h.link = l /\ Connected(h, l) /\ h.rd[l] = "data"
    THEN ClearReportData(Answered(h, l))
    ELSE SendNext(Answered(h, l), l, h.report_cnt[l[1]] = Depth(l[1]))

-----------------------------------------------------------------------------
(* find_next_report_state: the connected report state of the highest       *)
(* priority that uses the report data, other than the former one.          *)
FindNext(h, former) ==
    LET Users == {l \in ReportStates : l[1] \in h.on /\ h.rd[l] # "none" /\ l # former}
    IN  IF Users = {} THEN NoLink
        ELSE CHOOSE l \in Users : \A m \in Users : Priority(l[1]) >= Priority(m[1])

\* Hand the report data over to next and refresh its host.
Relink(h, next) ==
    LET g == [ClearReportData(h) EXCEPT !.link = next]
    IN  IF next = NoLink THEN g ELSE ReportSendData([g EXCEPT !.rd[next] = "data"], TRUE, TRUE)

(* connect: a subscriber of higher priority takes the report data over and *)
(* the former one gets an empty report that releases its buttons.          *)
ForceUnlink(h) ==
    LET g == [ClearReportData(h) EXCEPT !.link = NoLink, !.upd = @ \union {h.link},
                                        !.rd[h.link] = "empty"]
    IN  ReportSend(g, h.link, TRUE, FALSE)

\* Mutant: the lower priority takes over.
OutranksSwapped(h, s) == Linked(h) /\ Priority(h.link[1]) > Priority(s)
Outranks(h, s) == Linked(h) /\ Priority(h.link[1]) < Priority(s)

LinkTo(h, l) ==
    ReportSendData([h EXCEPT !.link = l, !.axis = 0, !.evq = Cleanup(@, ExpiredCount(@))],
                   FALSE, TRUE)
Connect(h, l) ==
    LET c == [h EXCEPT !.state[l] = "IDLE", !.rd[l] = "data"]
        u == IF Outranks(c, l[1]) THEN ForceUnlink(c) ELSE c
    IN  IF l[1] \notin h.on THEN h ELSE IF Linked(u) THEN u ELSE LinkTo(u, l)

Disconnect(h, l) ==
    LET g == [h EXCEPT !.state[l] = "DISCONNECTED", !.cnt[l] = 0, !.rd[l] = "none"]
    IN  IF l[1] \notin h.on THEN h ELSE IF h.link = l THEN Relink(g, FindNext(g, l)) ELSE g

(* connect_subscriber and disconnect_subscriber.                           *)
ConnectSubscriber(h, s) == [h EXCEPT !.on = @ \union {s}, !.report_cnt[s] = 0]

UnlinkState(h, l) ==
    LET g == [h EXCEPT !.rd[l] = "none"]
    IN  IF h.link = l THEN Relink(g, FindNext(g, l)) ELSE h

\* The memset of a subscriber.
Forget(h, s) ==
    LET Of(value, f) == [l \in ReportStates |-> IF l[1] = s THEN value ELSE f[l]]
    IN  [h EXCEPT !.on = @ \ {s}, !.report_cnt[s] = 0, !.state = Of("DISCONNECTED", @),
                  !.cnt = Of(0, @), !.upd = {l \in @ : l[1] # s}, !.rd = Of("none", @)]
DisconnectSubscriber(h, s) ==
    IF s \in h.on THEN Forget(UnlinkState(UnlinkState(h, <<s, "mouse">>), <<s, "boot">>), s)
    ELSE h

-----------------------------------------------------------------------------
(* Input events.                                                           *)
\* handle_motion_event
Motion(h, dx) == ReportSendData([h EXCEPT !.axis = @ + dx], TRUE, TRUE)

\* update_key: usages are recorded in order, so while some are queued the
\* next one is queued behind them.
UpdateKey(h, key, val) ==
    IF ~Linked(h) \/ h.evq # <<>> THEN Enqueue(h, key, val, Linked(h))
    ELSE IF Changes(h.items, key, val)
    THEN ReportSendData([h EXCEPT !.items = KeyValueSet(@, key, val)], FALSE, TRUE)
    ELSE h

=============================================================================
