--------------------------- MODULE HidReportStream ---------------------------
(***************************************************************************)
(* What the queues of util/hid_reportq.c promise a subscriber, without the *)
(* lists and the round robin that bring it about: a stream of events per   *)
(* subscribed report, of which each event is told to the transport at most *)
(* once and in order, and is lost only when Limit newer ones wait; and a   *)
(* transport that never holds more events than it asked for.               *)
(***************************************************************************)
EXTENDS Naturals

CONSTANTS
    Queues,
    Subs,
    NoSub,
    Reports,
    Limit,  \* the events of one report that may wait
    MaxMax  \* the largest number of events a transport asks for

VARIABLE client  \* per queue: its subscriber, how many events the subscriber's
                 \*    transport takes and holds, its reports, and their streams

Fresh == [added |-> 0, sent |-> 0, waiting |-> {}]
Idle == [sub |-> NoSub, max |-> 0, held |-> 0, open |-> {},
         stream |-> [r \in Reports |-> Fresh]]

Init == client = [q \in Queues |-> Idle]

\* The subscriber of q has the reports open, its transport holds held events and the
\* stream of r is s.
Becomes(q, open, held, r, s) ==
    client' = [client EXCEPT ![q] =
        [sub |-> client[q].sub, max |-> client[q].max, held |-> held, open |-> open,
         stream |-> [client[q].stream EXCEPT ![r] = s]]]

\* Every subscriber begins with nothing, and leaves nothing behind.
Attach(q, s, max) ==
    /\ client[q] = Idle
    /\ \A p \in Queues : client[p].sub # s
    /\ client' = [client EXCEPT ![q] =
           [sub |-> s, max |-> max, held |-> Idle.held, open |-> Idle.open,
            stream |-> Idle.stream]]
Detach(q) ==
    /\ client[q].sub # NoSub
    /\ client' = [client EXCEPT ![q] = Idle]

\* So does every subscription of a report.
Open(q, r) ==
    /\ client[q].sub # NoSub
    /\ r \notin client[q].open /\ client[q].stream[r] = Fresh
    /\ Becomes(q, client[q].open \cup {r}, client[q].held, r, Fresh)
Close(q, r) ==
    /\ r \in client[q].open
    /\ Becomes(q, client[q].open \ {r}, client[q].held, r, Fresh)

\* An event is told at once, while the transport has room, or waits.
AddNow(q, r) ==
    LET s == client[q].stream[r]
        n == s.added + 1 IN
    /\ r \in client[q].open
    /\ client[q].held < client[q].max
    /\ s.waiting = {}
    /\ Becomes(q, client[q].open, client[q].held + 1, r,
               [added |-> n, sent |-> n, waiting |-> {}])
AddLater(q, r) ==
    LET s == client[q].stream[r]
        n == s.added + 1 IN
    /\ r \in client[q].open
    /\ client[q].held = client[q].max
    /\ Becomes(q, client[q].open, client[q].held, r,
               [added |-> n, sent |-> s.sent,
                waiting |-> (s.waiting \cup {n}) \ {n - Limit}])

\* The transport is done with an event: the oldest one of some report takes its place.
Replace(q, r, n) ==
    LET s == client[q].stream[r] IN
    /\ \A m \in s.waiting : n <= m
    /\ Becomes(q, client[q].open, client[q].held, r,
               [added |-> s.added, sent |-> n, waiting |-> s.waiting \ {n}])
Done(q) ==
    /\ client[q].held > 0
    /\ \A r \in Reports : client[q].stream[r].waiting = {}
    /\ client' = [client EXCEPT ![q].held = client[q].held - 1]

Next ==
    \E q \in Queues :
        \/ \E s \in Subs, max \in 1 .. MaxMax : Attach(q, s, max)
        \/ Detach(q)
        \/ \E r \in Reports : Open(q, r) \/ Close(q, r) \/ AddNow(q, r) \/ AddLater(q, r)
        \/ \E r \in Reports : \E n \in client[q].stream[r].waiting : Replace(q, r, n)
        \/ Done(q)

Spec == Init /\ [][Next]_client
=============================================================================
