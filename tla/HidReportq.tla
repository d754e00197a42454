----------------------------- MODULE HidReportq -----------------------------
(***************************************************************************)
(* The pool of HID report queues of util/hid_reportq.c.                    *)
(*                                                                         *)
(* A queue belongs to one HID subscriber.  It hands at most report_max     *)
(* events to the subscriber's transport at a time, keeps the rest in one   *)
(* bounded list per input report, and on every hid_report_sent_event hands *)
(* over the next one, round robin over the reports.                        *)
(*                                                                         *)
(* All functions run on the cooperative thread of the application event    *)
(* manager, so each of them is one action.  An event is its number in the  *)
(* order of hid_reportq_report_add since the report was subscribed: its    *)
(* data is never looked at.                                                *)
(***************************************************************************)
EXTENDS Naturals, Sequences

CONSTANTS
    NQueues,       \* CONFIG_DESKTOP_HID_REPORTQ_QUEUE_COUNT
    Subs,          \* the subscribers (sub_id, a non-NULL pointer)
    NoSub,         \* a NULL sub_id
    NReports,      \* ARRAY_SIZE(input_reports)
    MaxEnqueued,   \* CONFIG_DESKTOP_HID_REPORTQ_MAX_ENQUEUED_REPORTS
    MaxReportMax,  \* largest report_max of a subscriber (a uint8_t)
    MaxAdds        \* bound: reports added per subscription of a report

ASSUME SizesAssumption ==
    /\ NQueues \in Nat /\ NReports \in Nat \ {0}
    /\ MaxEnqueued \in Nat \ {0}
    /\ MaxReportMax \in 1 .. 255
    /\ MaxAdds \in Nat
ASSUME NoSubAssumption == NoSub \notin Subs

Queues == 1 .. NQueues
Reports == 0 .. NReports - 1

VARIABLES
    sub_id,        \* owner of each queue, NoSub when the queue is free
    enabled,       \* the reports of enabled_report_idx_bm
    last_sent,     \* last_sent_report_idx
    report_max,
    report_cnt,
    report_lists,  \* the counted lists, oldest event first
    inflight,      \* history: events submitted and not reported sent yet
    added,         \* history: events added since the report was subscribed
    submitted,     \* history: number of the latest event submitted
    passed         \* history: events of other reports that left the queue
                   \*          while this report had one waiting

codeVars == <<sub_id, enabled, last_sent, report_max, report_cnt, report_lists>>
vars == <<codeVars, inflight, added, submitted, passed>>

-----------------------------------------------------------------------------
Allocated(q) == sub_id[q] # NoSub

Waiting(q) == {r \in Reports : report_lists[q][r] # <<>>}

\* Steps of get_next_enqueued_event from index i to index r; N back to i.
Distance(i, r) == IF r > i THEN r - i ELSE r - i + NReports

\* Mutant: the search starts at the first report each time.
IsNextFromFirst(q, r) ==
    /\ r \in Waiting(q)
    /\ \A s \in Waiting(q) : r <= s

\* The report get_next_enqueued_event finds first, searching from last + 1.
IsNext(q, r) ==
    /\ r \in Waiting(q)
    /\ \A s \in Waiting(q) : Distance(last_sent[q], r) <= Distance(last_sent[q], s)

\* Mutant: a full list refuses the new event.
EnqueueRefuse(list, event) ==
    IF Len(list) < MaxEnqueued THEN Append(list, event) ELSE list

\* enqueue_event: at the limit the oldest event makes room for the new one.
Enqueue(list, event) ==
    Append(IF Len(list) < MaxEnqueued THEN list ELSE Tail(list), event)

NoLists == [r \in Reports |-> <<>>]
Zeros == [r \in Reports |-> 0]

Init ==
    /\ sub_id = [q \in Queues |-> NoSub]
    /\ enabled = [q \in Queues |-> {}]
    /\ last_sent = [q \in Queues |-> 0]
    /\ report_max = [q \in Queues |-> 0]
    /\ report_cnt = [q \in Queues |-> 0]
    /\ report_lists = [q \in Queues |-> NoLists]
    /\ inflight = [q \in Queues |-> 0]
    /\ added = [q \in Queues |-> Zeros]
    /\ submitted = [q \in Queues |-> Zeros]
    /\ passed = [q \in Queues |-> Zeros]

-----------------------------------------------------------------------------
(* hid_reportq_alloc takes the first free queue; it asserts, and does not  *)
(* restore, the cleanness of the other fields (see FreeQueueIsClean).      *)
Alloc(q, s, max) ==
    /\ ~Allocated(q)
    /\ \A p \in Queues : p < q => Allocated(p)
    /\ \A p \in Queues : sub_id[p] # s
    /\ sub_id' = [sub_id EXCEPT ![q] = s]
    /\ report_max' = [report_max EXCEPT ![q] = max]
    /\ UNCHANGED <<enabled, last_sent, report_cnt, report_lists,
                   inflight, added, submitted, passed>>

(* hid_reportq_free: the subscriber disconnected, its transport forgets    *)
(* the events it still holds.                                              *)
Free(q) ==
    /\ Allocated(q)
    /\ sub_id' = [sub_id EXCEPT ![q] = NoSub]
    /\ enabled' = [enabled EXCEPT ![q] = {}]
    /\ last_sent' = [last_sent EXCEPT ![q] = 0]
    /\ report_max' = [report_max EXCEPT ![q] = 0]
    /\ report_cnt' = [report_cnt EXCEPT ![q] = 0]
    /\ report_lists' = [report_lists EXCEPT ![q] = NoLists]
    /\ inflight' = [inflight EXCEPT ![q] = 0]
    /\ added' = [added EXCEPT ![q] = Zeros]
    /\ submitted' = [submitted EXCEPT ![q] = Zeros]
    /\ passed' = [passed EXCEPT ![q] = Zeros]

\* Mutants: one event too many is submitted; the index is stored off by one.
AddSubmitOverMax(q, r) ==
    /\ report_cnt[q] <= report_max[q]
    /\ last_sent' = [last_sent EXCEPT ![q] = r]
    /\ report_cnt' = [report_cnt EXCEPT ![q] = @ + 1]
    /\ inflight' = [inflight EXCEPT ![q] = @ + 1]
    /\ submitted' = [submitted EXCEPT ![q][r] = added[q][r] + 1]
    /\ UNCHANGED <<report_lists, passed>>
AddSubmitIndexOff(q, r) ==
    /\ report_cnt[q] < report_max[q]
    /\ last_sent' = [last_sent EXCEPT ![q] = r + 1]
    /\ report_cnt' = [report_cnt EXCEPT ![q] = @ + 1]
    /\ inflight' = [inflight EXCEPT ![q] = @ + 1]
    /\ submitted' = [submitted EXCEPT ![q][r] = added[q][r] + 1]
    /\ UNCHANGED <<report_lists, passed>>

(* hid_reportq_report_add with room in the transport: submitted at once.   *)
AddSubmit(q, r) ==
    /\ report_cnt[q] < report_max[q]
    /\ last_sent' = [last_sent EXCEPT ![q] = r]
    /\ report_cnt' = [report_cnt EXCEPT ![q] = @ + 1]
    /\ inflight' = [inflight EXCEPT ![q] = @ + 1]
    /\ submitted' = [submitted EXCEPT ![q][r] = added[q][r] + 1]
    /\ UNCHANGED <<report_lists, passed>>

(* hid_reportq_report_add with a full transport: enqueue_event.            *)
AddEnqueue(q, r) ==
    /\ ~(report_cnt[q] < report_max[q])
    /\ report_lists' = [report_lists EXCEPT ![q][r] = Enqueue(@, added[q][r] + 1)]
    /\ UNCHANGED <<last_sent, report_cnt, inflight, submitted, passed>>

(* hid_reportq_report_add; it returns -EACCES, changing nothing, when the  *)
(* report is not subscribed.                                               *)
ReportAdd(q, r) ==
    /\ Allocated(q)
    /\ r \in enabled[q]
    /\ added[q][r] < MaxAdds
    /\ AddSubmit(q, r) \/ AddEnqueue(q, r)
    /\ added' = [added EXCEPT ![q][r] = @ + 1]
    /\ UNCHANGED <<sub_id, enabled, report_max>>

(* hid_reportq_report_sent with a report waiting: its oldest event takes   *)
(* the place of the one that was sent.                                     *)
SentNext(q, r) ==
    /\ IsNext(q, r)
    /\ last_sent' = [last_sent EXCEPT ![q] = r]
    /\ report_lists' = [report_lists EXCEPT ![q][r] = Tail(@)]
    /\ submitted' = [submitted EXCEPT ![q][r] = Head(report_lists[q][r])]
    /\ passed' = [passed EXCEPT ![q] =
                    [s \in Reports |-> IF s \in Waiting(q) \ {r} THEN @[s] + 1 ELSE 0]]
    /\ UNCHANGED <<report_cnt, inflight>>

\* Mutant: the lists are not looked at.
SentLastUnchecked(q) ==
    /\ report_cnt' = [report_cnt EXCEPT ![q] = @ - 1]
    /\ inflight' = [inflight EXCEPT ![q] = @ - 1]
    /\ UNCHANGED <<last_sent, report_lists, submitted, passed>>

(* hid_reportq_report_sent with nothing waiting.                           *)
SentLast(q) ==
    /\ Waiting(q) = {}
    /\ report_cnt' = [report_cnt EXCEPT ![q] = @ - 1]
    /\ inflight' = [inflight EXCEPT ![q] = @ - 1]
    /\ UNCHANGED <<last_sent, report_lists, submitted, passed>>

(* hid_reportq_report_sent: a transport reports each event it was given    *)
(* once, whether it was sent or failed (rep_id and err are not used).      *)
ReportSent(q) ==
    /\ Allocated(q)
    /\ inflight[q] > 0
    /\ (\E r \in Reports : SentNext(q, r)) \/ SentLast(q)
    /\ UNCHANGED <<sub_id, enabled, report_max, added>>

(* hid_reportq_subscribe                                                   *)
Subscribe(q, r) ==
    /\ Allocated(q)
    /\ r \notin enabled[q]
    /\ enabled' = [enabled EXCEPT ![q] = @ \cup {r}]
    /\ UNCHANGED <<sub_id, last_sent, report_max, report_cnt, report_lists,
                   inflight, added, submitted, passed>>

(* hid_reportq_unsubscribe: what waits is dropped, what was submitted is   *)
(* still going to be reported sent.                                        *)
Unsubscribe(q, r) ==
    /\ Allocated(q)
    /\ r \in enabled[q]
    /\ enabled' = [enabled EXCEPT ![q] = @ \ {r}]
    /\ report_lists' = [report_lists EXCEPT ![q][r] = <<>>]
    /\ added' = [added EXCEPT ![q][r] = 0]
    /\ submitted' = [submitted EXCEPT ![q][r] = 0]
    /\ passed' = [passed EXCEPT ![q][r] = 0]
    /\ UNCHANGED <<sub_id, last_sent, report_max, report_cnt, inflight>>

Next ==
    \E q \in Queues :
        \/ \E s \in Subs, max \in 1 .. MaxReportMax : Alloc(q, s, max)
        \/ Free(q)
        \/ ReportSent(q)
        \/ \E r \in Reports : ReportAdd(q, r) \/ Subscribe(q, r) \/ Unsubscribe(q, r)

Spec == Init /\ [][Next]_vars

\* A transport reports every event sent in the end: see README.
FairSpec == Spec /\ \A q \in Queues : WF_vars(ReportSent(q))

-----------------------------------------------------------------------------
(* The fields hold values of their C types, the lists event numbers.       *)
TypeOK ==
    /\ sub_id \in [Queues -> Subs \cup {NoSub}]
    /\ enabled \in [Queues -> SUBSET Reports]
    /\ last_sent \in [Queues -> Reports]
    /\ report_max \in [Queues -> 0 .. 255]
    /\ report_cnt \in [Queues -> 0 .. 255]
    /\ report_lists \in [Queues -> [Reports -> Seq(Nat)]]
    /\ inflight \in [Queues -> Nat]
    /\ added \in [Queues -> [Reports -> Nat]]
    /\ submitted \in [Queues -> [Reports -> Nat]]
    /\ passed \in [Queues -> [Reports -> Nat]]

(* report_cnt is the number of events the transport really holds, and the  *)
(* transport never holds more than it asked for: report_cnt-- never wraps. *)
WindowExact ==
    \A q \in Queues : report_cnt[q] = inflight[q] /\ report_cnt[q] <= report_max[q]

(* A report waits only while the transport is full, so that every waiting  *)
(* report has a hid_report_sent_event to come that will fetch it.          *)
WaitsOnlyWhenFull ==
    \A q \in Queues : Waiting(q) # {} => report_cnt[q] = report_max[q]

(* Nothing waits for a report that is not subscribed, and no list grows    *)
(* over its limit: the assertions of hid_reportq_subscribe and of          *)
(* enqueue_report.                                                         *)
QueuedIsSubscribed ==
    \A q \in Queues, r \in Reports :
        /\ report_lists[q][r] # <<>> => r \in enabled[q]
        /\ Len(report_lists[q][r]) <= MaxEnqueued

(* The assertions of hid_reportq_alloc: a free queue carries nothing over  *)
(* from its previous subscriber.                                           *)
FreeQueueIsClean ==
    \A q \in Queues : ~Allocated(q) =>
        /\ enabled[q] = {} /\ last_sent[q] = 0
        /\ report_max[q] = 0 /\ report_cnt[q] = 0
        /\ report_lists[q] = NoLists

InOrder(list, low, high) ==
    \A i \in 1 .. Len(list) :
        /\ low < list[i] /\ list[i] <= high
        /\ \A j \in 1 .. i - 1 : list[j] < list[i]

(* The events of one report reach the transport in the order they were     *)
(* added: an event that is submitted at once never overtakes a queued one. *)
OrderKept ==
    \A q \in Queues, r \in Reports :
        InOrder(report_lists[q][r], submitted[q][r], added[q][r])

(* The newest event of a subscribed report is never the one that is lost:  *)
(* it was submitted or is the last of its list.                            *)
NewestKept ==
    \A q \in Queues, r \in Reports :
        LET list == report_lists[q][r] IN
        \/ submitted[q][r] = added[q][r]
        \/ list # <<>> /\ list[Len(list)] = added[q][r]

(* Round robin: while a report waits, at most NReports - 1 events of the   *)
(* other reports leave the queue before one of its own does.               *)
NoStarvation ==
    \A q \in Queues, r \in Reports : passed[q][r] <= NReports - 1

\* What a queue is to its subscriber.
Contents(list) == {list[i] : i \in 1 .. Len(list)}
Client(q) ==
    [sub |-> sub_id[q], max |-> report_max[q], held |-> report_cnt[q], open |-> enabled[q],
     stream |-> [r \in Reports |->
        [added |-> added[q][r], sent |-> submitted[q][r],
         waiting |-> Contents(report_lists[q][r])]]]

Stream == INSTANCE HidReportStream WITH
    Limit <- MaxEnqueued, MaxMax <- MaxReportMax, client <- [q \in Queues |-> Client(q)]

(* The queues keep the promise of HidReportStream: a free queue and a new  *)
(* subscription start with nothing, the assertions of hid_reportq_alloc    *)
(* and hid_reportq_subscribe, an event that is submitted at once never     *)
(* overtakes one that waits, the oldest one leaves first, and only an      *)
(* overflow loses events, the oldest.                                      *)
KeepsStreams == Stream!Spec

(* Every event that waits leaves its list: it is submitted, dropped for a  *)
(* newer one, or dropped with the subscription.                            *)
QueuedLeaves ==
    \A q \in Queues, r \in Reports, n \in 1 .. MaxAdds :
        LET Queued == \E i \in 1 .. Len(report_lists[q][r]) : report_lists[q][r][i] = n
        IN  Queued ~> ~Queued
=============================================================================
