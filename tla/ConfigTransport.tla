-------------------------- MODULE ConfigTransport --------------------------
(***************************************************************************)
(* The configuration channel: util/config_channel_transport.c, which each  *)
(* host transport (USB, radio, Bluetooth LE) has an instance of, and the   *)
(* modules that answer its requests.                                       *)
(*                                                                         *)
(* A host writes a request and then reads until the status is no longer    *)
(* "PENDING".  The request travels as a config_event through the event     *)
(* manager: a local module answers it at once, modules/hid_forward.c       *)
(* forwards it to a peer that answers later or never, and one that nobody  *)
(* takes comes back to the transport itself.  A timeout or a disconnection *)
(* gives the request up, and its answer may still arrive: transport_id     *)
(* tells it from the answer to a later request.                            *)
(*                                                                         *)
(* transport_id is base << 8 | low, with a base of its own for every       *)
(* instance: here the pair of the instance and low.  The requests of an    *)
(* instance are numbered, which stands for the content they carry.         *)
(***************************************************************************)
EXTENDS Integers, Sequences

CONSTANTS
    Transports,   \* the instances
    LowMax,       \* largest low byte of a transport_id, 255
    MaxRequests   \* bound: requests of each instance

ASSUME LowAssumption == LowMax \in Nat \ {0}
ASSUME BoundAssumption == MaxRequests \in [Transports -> Nat]

VARIABLES
    tr,     \* struct config_channel_transport, and what its data is about
    fifo,   \* config_events of the event manager's queue
    peer,   \* cfg_chan_rsp of the forwarding module: the request it works on
    last    \* number of the last request that was accepted

vars == <<tr, fifo, peer, last>>

\* The recipient of a request: this device, a peer, or neither.
Recipients == {"local", "peer", "nobody"}
Answers == {"SUCCESS", "REJECT", "WRITE_FAIL", "TIMEOUT", "DISCONNECTED"}
PeerAnswers == {"SUCCESS", "WRITE_FAIL", "TIMEOUT"}
States == {"IDLE", "WAIT_RSP", "RSP_READY"}
Events == [req : BOOLEAN, t : Transports, low : 0 .. LowMax, of : Nat, to : Recipients,
           status : Answers \union {"PENDING"}]
NoRequest == [req |-> FALSE]

\* config_channel_transport_init
Init ==
    /\ tr = [t \in Transports |->
                [state |-> "IDLE", low |-> 0, timer |-> FALSE, status |-> "PENDING", of |-> 0]]
    /\ fifo = <<>>
    /\ peer = NoRequest
    /\ last = [t \in Transports |-> 0]

\* Mutant: the low byte carries into the base.
NextIdNoWrap(low) == low + 1
\* drop_transactions
NextId(low) == (IF low = LowMax THEN 0 ELSE low) + 1

\* An event of t that carries id low.
Carries(e, t, low) == e.t = t /\ e.low = low

\* The low byte wraps around after LowMax dropped requests.  No answer takes
\* that long (every dropped request takes a timeout of 10 s or a reconnection).
NextIdIsFree(t) ==
    /\ \A i \in DOMAIN fifo : ~Carries(fifo[i], t, NextId(tr[t].low))
    /\ peer # NoRequest => ~Carries(peer, t, NextId(tr[t].low))

\* Mutant: a busy transport accepts a request.
SetBusyToo(t, to) ==
    /\ last[t] < MaxRequests[t]
    /\ last' = [last EXCEPT ![t] = @ + 1]
    /\ fifo' = Append(fifo, [req |-> TRUE, t |-> t, low |-> tr[t].low, of |-> last[t] + 1,
                             to |-> to, status |-> "PENDING"])
    /\ tr' = [tr EXCEPT ![t] = [@ EXCEPT !.state = "WAIT_RSP", !.timer = TRUE,
                                         !.status = "PENDING", !.of = last[t] + 1]]
    /\ UNCHANGED peer
(* The host writes a request.  An unread response is overwritten, a busy   *)
(* transport refuses.                                                      *)
Set(t, to) ==
    /\ tr[t].state # "WAIT_RSP"
    /\ last[t] < MaxRequests[t]
    /\ last' = [last EXCEPT ![t] = @ + 1]
    /\ fifo' = Append(fifo, [req |-> TRUE, t |-> t, low |-> tr[t].low, of |-> last[t] + 1,
                             to |-> to, status |-> "PENDING"])
    /\ tr' = [tr EXCEPT ![t] = [@ EXCEPT !.state = "WAIT_RSP", !.timer = TRUE,
                                         !.status = "PENDING", !.of = last[t] + 1]]
    /\ UNCHANGED peer

\* The host reads a response; reading at another time changes nothing.
Get(t) ==
    /\ tr[t].state = "RSP_READY"
    /\ tr' = [tr EXCEPT ![t].state = "IDLE"]
    /\ UNCHANGED <<fifo, peer, last>>

\* timeout_fn, a work item of the thread that runs the event manager.
Timeout(t) ==
    /\ tr[t].timer
    /\ NextIdIsFree(t)
    /\ tr' = [tr EXCEPT ![t] = [@ EXCEPT !.state = "RSP_READY", !.timer = FALSE,
                                         !.status = "TIMEOUT", !.low = NextId(tr[t].low)]]
    /\ UNCHANGED <<fifo, peer, last>>

\* Mutant: its id is kept.
DisconnectKeepsId(t) ==
    /\ tr' = [tr EXCEPT ![t] = [@ EXCEPT !.state = "IDLE", !.timer = FALSE]]
    /\ UNCHANGED <<fifo, peer, last>>
\* config_channel_transport_disconnect
Disconnect(t) ==
    /\ tr[t].state = "WAIT_RSP" => NextIdIsFree(t)
    /\ tr' = [tr EXCEPT ![t] = [@ EXCEPT !.state = "IDLE", !.timer = FALSE,
                                         !.low = IF tr[t].state = "WAIT_RSP" THEN NextId(tr[t].low)
                                                                             ELSE tr[t].low]]
    /\ UNCHANGED <<fifo, peer, last>>

-----------------------------------------------------------------------------
(* The event manager dispatches its first event: first to the modules,     *)
(* then to the transports.                                                 *)
Response(e, status) == [e EXCEPT !.req = FALSE, !.status = status]

\* A local module answers (GEN_CONFIG_EVENT_HANDLERS), or the forwarding
\* module refuses: it works on a request, has no connection or cannot write.
Answer ==
    /\ fifo # <<>> /\ Head(fifo).req
    /\ \/ Head(fifo).to = "local" /\ fifo' = Append(Tail(fifo), Response(Head(fifo), "SUCCESS"))
       \/ /\ Head(fifo).to = "peer"
          /\ \E status \in {"REJECT", "WRITE_FAIL"} :
                fifo' = Append(Tail(fifo), Response(Head(fifo), status))
    /\ UNCHANGED <<tr, peer, last>>

\* Mutant: the forwarding module takes a request while it works on another.
ForwardBusyToo ==
    /\ fifo # <<>> /\ Head(fifo).req /\ Head(fifo).to = "peer"
    /\ peer' = Head(fifo) /\ fifo' = Tail(fifo)
    /\ UNCHANGED <<tr, last>>
\* handle_config_event of the forwarding module takes the request.
Forward ==
    /\ fifo # <<>> /\ Head(fifo).req /\ Head(fifo).to = "peer"
    /\ peer = NoRequest
    /\ peer' = Head(fifo) /\ fifo' = Tail(fifo)
    /\ UNCHANGED <<tr, last>>

\* The peer answers, or its connection is lost, or the forwarding module gives
\* it up after CFG_CHAN_MAX_RSP_POLL_CNT polls.
PeerAnswer(status) ==
    /\ peer # NoRequest
    /\ fifo' = Append(fifo, Response(peer, status)) /\ peer' = NoRequest
    /\ UNCHANGED <<tr, last>>

\* Mutant: the timer is cancelled before the id is compared.
ReceiveCancelsFirst ==
    /\ fifo # <<>>
    /\ LET e == Head(fifo)
       IN  /\ e.req => e.to = "nobody"
           /\ tr' = IF e.low = tr[e.t].low
                    THEN [tr EXCEPT ![e.t] =
                            [@ EXCEPT !.state = "RSP_READY", !.timer = FALSE, !.of = e.of,
                                      !.status = IF e.req THEN "DISCONNECTED" ELSE e.status]]
                    ELSE [tr EXCEPT ![e.t].timer = FALSE]
    /\ fifo' = Tail(fifo)
    /\ UNCHANGED <<peer, last>>
\* config_channel_transport_rsp_receive of every transport.  A request that
\* no module took is answered by the transport it came from.
Receive ==
    /\ fifo # <<>>
    /\ LET e == Head(fifo)
       IN  /\ e.req => e.to = "nobody"
           /\ tr' = IF e.low = tr[e.t].low
                    THEN [tr EXCEPT ![e.t] =
                            [@ EXCEPT !.state = "RSP_READY", !.timer = FALSE, !.of = e.of,
                                      !.status = IF e.req THEN "DISCONNECTED" ELSE e.status]]
                    ELSE tr
    /\ fifo' = Tail(fifo)
    /\ UNCHANGED <<peer, last>>

Next ==
    \/ \E t \in Transports, to \in Recipients : Set(t, to)
    \/ \E t \in Transports : Get(t) \/ Timeout(t) \/ Disconnect(t)
    \/ Answer \/ Forward \/ Receive
    \/ \E status \in PeerAnswers : PeerAnswer(status)

Spec == Init /\ [][Next]_vars

\* Timers expire, and hosts read the responses they wait for.
Fairness == \A t \in Transports : WF_vars(Timeout(t)) /\ WF_vars(Get(t))
FairSpec == Spec /\ Fairness

-----------------------------------------------------------------------------
TransportType == [state : States, low : 0 .. LowMax, timer : BOOLEAN, of : Nat,
                  status : Answers \union {"PENDING"}]

(* Every variable has its type.                                            *)
TypeOK ==
    /\ tr \in [Transports -> TransportType]
    /\ fifo \in Seq(Events)
    /\ peer \in Events \union {NoRequest}
    /\ last \in [Transports -> Nat]

\* The timer runs exactly while a response is awaited: timeout_fn's assertion
\* holds, and no transport waits without a timer.
TimerExact == \A t \in Transports : tr[t].timer <=> tr[t].state = "WAIT_RSP"

\* A response that a host finds is the answer to its last request, however
\* late the answers to the requests before come in.
ReadyAnswersLast ==
    \A t \in Transports :
        tr[t].state = "RSP_READY" => tr[t].of = last[t] /\ tr[t].status # "PENDING"

\* An event that a transport will take is about the request it waits for: no
\* other state accepts one (rsp_receive does not look at the state).
Awaited(e) == tr[e.t].state = "WAIT_RSP" /\ e.of = last[e.t]
MatchIsAwaited ==
    /\ \A i \in DOMAIN fifo : fifo[i].low = tr[fifo[i].t].low => Awaited(fifo[i])
    /\ peer # NoRequest /\ peer.low = tr[peer.t].low => Awaited(peer)

\* A transport that waits does so for something: its request or the answer is
\* in the queue or with the peer.
WaitsForSomething ==
    \A t \in Transports : tr[t].state = "WAIT_RSP" =>
        \/ \E i \in DOMAIN fifo : Carries(fifo[i], t, tr[t].low)
        \/ peer # NoRequest /\ Carries(peer, t, tr[t].low)

\* A host is never left without a response, also when the peer never answers
\* (unless LowMax requests were dropped and the first of them is still under way).
HostIsAnswered ==
    \A t \in Transports :
        tr[t].state = "WAIT_RSP" ~> tr[t].state = "IDLE" \/ ~NextIdIsFree(t)
=============================================================================
