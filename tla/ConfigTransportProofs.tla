----------------------- MODULE ConfigTransportProofs -----------------------
(***************************************************************************)
(* The safety invariants of ConfigTransport, for every set of transports,  *)
(* every width of the transport_id and any number of requests.             *)
(***************************************************************************)
EXTENDS ConfigTransport, TLAPS

Matches(e) == e.low = tr[e.t].low

\* A request in flight is the last one of its transport.
WaitingIsLast ==
    \A t \in Transports : tr[t].state = "WAIT_RSP" => tr[t].of = last[t]

\* Answers carry a final status.
AnswersAreFinal ==
    \A i \in DOMAIN fifo : ~fifo[i].req => fifo[i].status # "PENDING"

\* At most one event of a transport carries the id it waits for: what keeps a
\* response from being overwritten by another.
OneMatch ==
    /\ \A i, j \in DOMAIN fifo :
          Matches(fifo[i]) /\ Matches(fifo[j]) /\ fifo[i].t = fifo[j].t => i = j
    /\ peer # NoRequest /\ Matches(peer) =>
          \A i \in DOMAIN fifo : Matches(fifo[i]) => fifo[i].t # peer.t

IInv ==
    /\ TypeOK
    /\ TimerExact
    /\ ReadyAnswersLast
    /\ MatchIsAwaited
    /\ WaitsForSomething
    /\ WaitingIsLast
    /\ AnswersAreFinal
    /\ OneMatch

-----------------------------------------------------------------------------
(* What appending to a queue and taking its first element leave in it.     *)
LEMMA AppendFacts ==
    ASSUME NEW S, NEW list \in Seq(S), NEW e \in S
    PROVE  /\ Append(list, e) \in Seq(S)
           /\ DOMAIN Append(list, e) = 1 .. Len(list) + 1
           /\ Len(list) \in Nat /\ DOMAIN list = 1 .. Len(list)
           /\ Append(list, e)[Len(list) + 1] = e
           /\ \A i \in 1 .. Len(list) : Append(list, e)[i] = list[i] /\ list[i] \in S
OBVIOUS

LEMMA TailFacts ==
    ASSUME NEW S, NEW list \in Seq(S), list # <<>>
    PROVE  /\ Head(list) \in S /\ Head(list) = list[1]
           /\ Tail(list) \in Seq(S)
           /\ Len(list) \in Nat \ {0} /\ DOMAIN list = 1 .. Len(list)
           /\ DOMAIN Tail(list) = 1 .. Len(list) - 1
           /\ \A i \in 1 .. Len(list) - 1 :
                 i + 1 \in 1 .. Len(list) /\ Tail(list)[i] = list[i + 1] /\ list[i + 1] \in S
OBVIOUS

(* drop_transactions keeps the low byte a byte and changes it, unless the  *)
(* byte has but one value in use.                                          *)
LEMMA NextIdInRange ==
    ASSUME NEW low \in 0 .. LowMax PROVE NextId(low) \in 0 .. LowMax
BY LowAssumption DEF NextId

(* The request that the forwarding module works on is an event.            *)
LEMMA PeerIsEvent == ASSUME TypeOK, peer # NoRequest PROVE peer \in Events
BY DEF TypeOK

(* The kinds of events that the queue and the peer hold.                   *)
LEMMA EventFields ==
    ASSUME NEW e \in Events
    PROVE  /\ e.t \in Transports /\ e.low \in 0 .. LowMax /\ e.of \in Nat
           /\ e # NoRequest \/ ~e.req
BY DEF Events, NoRequest

LEMMA ResponseFields ==
    ASSUME NEW e \in Events, NEW status \in Answers
    PROVE  /\ Response(e, status) \in Events
           /\ Response(e, status).t = e.t /\ Response(e, status).low = e.low
           /\ Response(e, status).of = e.of /\ ~Response(e, status).req
           /\ Response(e, status).status = status
BY DEF Events, Response, Answers

THEOREM InitIInv == Init => IInv
<1> SUFFICES ASSUME Init PROVE IInv
  OBVIOUS
<1> USE LowAssumption DEF Init
<1>1. TypeOK
  BY DEF TypeOK, TransportType, States, NoRequest
<1>2. DOMAIN fifo = {} /\ peer = NoRequest
  OBVIOUS
<1>3. TimerExact /\ ReadyAnswersLast /\ WaitsForSomething /\ WaitingIsLast
  BY DEF TimerExact, ReadyAnswersLast, WaitsForSomething, WaitingIsLast
<1>4. MatchIsAwaited /\ AnswersAreFinal /\ OneMatch
  BY <1>2 DEF MatchIsAwaited, AnswersAreFinal, OneMatch
<1> QED
  BY <1>1, <1>3, <1>4 DEF IInv

-----------------------------------------------------------------------------
(* A transport that ends up waiting for nothing, with an id that no event  *)
(* carries: what reading a response, a timeout and a disconnection have in *)
(* common.                                                                 *)
LEMMA AtRest ==
    ASSUME IInv, NEW t \in Transports, NEW c \in TransportType,
           c.state # "WAIT_RSP", ~c.timer,
           c.state = "RSP_READY" => c.of = last[t] /\ c.status # "PENDING",
           \A i \in DOMAIN fifo : ~Carries(fifo[i], t, c.low),
           peer # NoRequest => ~Carries(peer, t, c.low),
           tr' = [tr EXCEPT ![t] = c], UNCHANGED <<fifo, peer, last>>
    PROVE  IInv'
<1>0. /\ TypeOK /\ TimerExact /\ ReadyAnswersLast /\ MatchIsAwaited
      /\ WaitsForSomething /\ WaitingIsLast /\ AnswersAreFinal /\ OneMatch
  BY DEF IInv
<1>1. /\ tr'[t] = c /\ \A u \in Transports : u # t => tr'[u] = tr[u]
      /\ tr' \in [Transports -> TransportType]
      /\ fifo' = fifo /\ peer' = peer /\ last' = last
  BY <1>0 DEF TypeOK
<1>2. /\ \A i \in DOMAIN fifo : fifo[i] \in Events /\ fifo[i].t \in Transports
      /\ peer # NoRequest => peer.t \in Transports
  BY <1>0, PeerIsEvent, EventFields DEF TypeOK
<1>3. TypeOK'
  BY <1>0, <1>1 DEF TypeOK
<1>4. TimerExact' /\ ReadyAnswersLast' /\ WaitsForSomething' /\ WaitingIsLast'
  BY <1>0, <1>1 DEF TimerExact, ReadyAnswersLast, WaitsForSomething, WaitingIsLast
<1>5. /\ \A i \in DOMAIN fifo : fifo[i].low = tr'[fifo[i].t].low =>
            fifo[i].t # t /\ Matches(fifo[i])
      /\ peer # NoRequest /\ peer.low = tr'[peer.t].low => peer.t # t /\ Matches(peer)
  BY <1>1, <1>2 DEF Matches, Carries
<1>6. MatchIsAwaited'
  BY <1>0, <1>1, <1>2, <1>5 DEF MatchIsAwaited, Awaited, Matches
<1>7. AnswersAreFinal'
  BY <1>0, <1>1 DEF AnswersAreFinal
<1>8. OneMatch'
  BY <1>0, <1>1, <1>5 DEF OneMatch, Matches
<1> QED
  BY <1>3, <1>4, <1>6, <1>7, <1>8 DEF IInv

LEMMA GetStep == ASSUME IInv, NEW t \in Transports, Get(t) PROVE IInv'
<1> DEFINE c == [tr[t] EXCEPT !.state = "IDLE"]
<1>0. TypeOK /\ TimerExact /\ MatchIsAwaited
  BY DEF IInv
<1>1. tr[t] \in TransportType
  BY <1>0 DEF TypeOK
<1>2. /\ c \in TransportType /\ c.state = "IDLE" /\ c.timer = tr[t].timer
      /\ c.low = tr[t].low /\ ~c.timer
  BY <1>0, <1>1 DEF Get, TimerExact, TransportType, States
<1>3. /\ \A i \in DOMAIN fifo : ~Carries(fifo[i], t, c.low)
      /\ peer # NoRequest => ~Carries(peer, t, c.low)
  BY <1>0, <1>2 DEF Get, MatchIsAwaited, Awaited, Carries
<1>4. tr' = [tr EXCEPT ![t] = c] /\ UNCHANGED <<fifo, peer, last>>
  BY DEF Get
<1> HIDE DEF c
<1> QED
  BY <1>2, <1>3, <1>4, AtRest

LEMMA TimeoutStep == ASSUME IInv, NEW t \in Transports, Timeout(t) PROVE IInv'
<1> DEFINE c == [tr[t] EXCEPT !.state = "RSP_READY", !.timer = FALSE,
                              !.status = "TIMEOUT", !.low = NextId(tr[t].low)]
<1>0. TypeOK /\ TimerExact /\ WaitingIsLast
  BY DEF IInv
<1>1. tr[t] \in TransportType /\ tr[t].low \in 0 .. LowMax
  BY <1>0 DEF TypeOK, TransportType
<1>2. NextId(tr[t].low) \in 0 .. LowMax
  BY <1>1, NextIdInRange
<1>3. /\ c \in TransportType /\ c.state = "RSP_READY" /\ ~c.timer /\ c.of = tr[t].of
      /\ c.low = NextId(tr[t].low) /\ c.status = "TIMEOUT"
  BY <1>1, <1>2 DEF TransportType, States, Answers
<1>4. c.of = last[t]
  BY <1>0, <1>3 DEF Timeout, TimerExact, WaitingIsLast
<1>5. /\ \A i \in DOMAIN fifo : ~Carries(fifo[i], t, c.low)
      /\ peer # NoRequest => ~Carries(peer, t, c.low)
  BY <1>3 DEF Timeout, NextIdIsFree
<1>6. tr' = [tr EXCEPT ![t] = c] /\ UNCHANGED <<fifo, peer, last>>
  BY DEF Timeout
<1> HIDE DEF c
<1> QED
  BY <1>3, <1>4, <1>5, <1>6, AtRest

LEMMA DisconnectStep == ASSUME IInv, NEW t \in Transports, Disconnect(t) PROVE IInv'
<1> DEFINE c == [tr[t] EXCEPT !.state = "IDLE", !.timer = FALSE,
                              !.low = IF tr[t].state = "WAIT_RSP" THEN NextId(tr[t].low)
                                                                  ELSE tr[t].low]
<1>0. TypeOK /\ MatchIsAwaited
  BY DEF IInv
<1>1. tr[t] \in TransportType /\ tr[t].low \in 0 .. LowMax
  BY <1>0 DEF TypeOK, TransportType
<1>2. NextId(tr[t].low) \in 0 .. LowMax
  BY <1>1, NextIdInRange
<1>3. /\ c \in TransportType /\ c.state = "IDLE" /\ ~c.timer
      /\ c.low = IF tr[t].state = "WAIT_RSP" THEN NextId(tr[t].low) ELSE tr[t].low
  BY <1>1, <1>2 DEF TransportType, States
<1>4. /\ \A i \in DOMAIN fifo : ~Carries(fifo[i], t, c.low)
      /\ peer # NoRequest => ~Carries(peer, t, c.low)
  BY <1>0, <1>3 DEF Disconnect, NextIdIsFree, MatchIsAwaited, Awaited, Carries
<1>5. tr' = [tr EXCEPT ![t] = c] /\ UNCHANGED <<fifo, peer, last>>
  BY DEF Disconnect
<1> HIDE DEF c
<1> QED
  BY <1>3, <1>4, <1>5, AtRest

-----------------------------------------------------------------------------
LEMMA SetStep ==
    ASSUME IInv, NEW t \in Transports, NEW to \in Recipients, Set(t, to) PROVE IInv'
<1> DEFINE n == last[t] + 1
           c == [tr[t] EXCEPT !.state = "WAIT_RSP", !.timer = TRUE, !.status = "PENDING",
                              !.of = n]
           e == [req |-> TRUE, t |-> t, low |-> tr[t].low, of |-> n, to |-> to,
                 status |-> "PENDING"]
<1>0. /\ TypeOK /\ TimerExact /\ ReadyAnswersLast /\ MatchIsAwaited
      /\ WaitsForSomething /\ WaitingIsLast /\ AnswersAreFinal /\ OneMatch
  BY DEF IInv
<1>1. /\ tr[t] \in TransportType /\ tr[t].low \in 0 .. LowMax /\ n \in Nat
      /\ fifo \in Seq(Events)
  BY <1>0 DEF TypeOK, TransportType
<1>2. /\ c \in TransportType /\ c.state = "WAIT_RSP" /\ c.timer /\ c.of = n
      /\ c.low = tr[t].low
  BY <1>1 DEF TransportType, States
<1>3. e \in Events /\ e.t = t /\ e.low = tr[t].low /\ e.of = n /\ e.req
  BY <1>1 DEF Events
<1>4. /\ tr[t].state # "WAIT_RSP" /\ last' = [last EXCEPT ![t] = n]
      /\ fifo' = Append(fifo, e) /\ tr' = [tr EXCEPT ![t] = c] /\ peer' = peer
  BY DEF Set
<1> HIDE DEF c, e, n
<1>5. /\ tr'[t] = c /\ \A u \in Transports : u # t => tr'[u] = tr[u]
      /\ tr' \in [Transports -> TransportType]
      /\ last'[t] = n /\ \A u \in Transports : u # t => last'[u] = last[u]
      /\ last' \in [Transports -> Nat]
  BY <1>0, <1>1, <1>2, <1>4 DEF TypeOK
<1>6. /\ fifo' \in Seq(Events) /\ Len(fifo) \in Nat
      /\ DOMAIN fifo = 1 .. Len(fifo) /\ DOMAIN fifo' = 1 .. Len(fifo) + 1
      /\ fifo'[Len(fifo) + 1] = e
      /\ \A i \in 1 .. Len(fifo) : fifo'[i] = fifo[i] /\ fifo[i] \in Events
  BY <1>1, <1>3, <1>4, AppendFacts
<1>7. /\ \A i \in 1 .. Len(fifo) : fifo[i].t \in Transports
      /\ peer # NoRequest => peer.t \in Transports
  BY <1>0, <1>6, PeerIsEvent, EventFields
<1>8. \A i \in 1 .. Len(fifo) + 1 : i = Len(fifo) + 1 \/ i \in 1 .. Len(fifo)
  BY <1>6
<1>9. /\ \A i \in 1 .. Len(fifo) : fifo[i].low = tr'[fifo[i].t].low =>
            fifo[i].t # t /\ Matches(fifo[i])
      /\ peer # NoRequest /\ peer.low = tr'[peer.t].low => peer.t # t /\ Matches(peer)
  <2>1. /\ \A i \in 1 .. Len(fifo) : fifo[i].low = tr[fifo[i].t].low => fifo[i].t # t
        /\ peer # NoRequest /\ peer.low = tr[peer.t].low => peer.t # t
    BY <1>0, <1>4, <1>6 DEF MatchIsAwaited, Awaited
  <2>2. \A u \in Transports : tr'[u].low = tr[u].low
    BY <1>2, <1>5
  <2>. QED BY <1>7, <2>1, <2>2 DEF Matches
<1>10. TypeOK'
  BY <1>0, <1>4, <1>5, <1>6 DEF TypeOK
<1>11. TimerExact' /\ ReadyAnswersLast' /\ WaitingIsLast'
  BY <1>0, <1>2, <1>5 DEF TimerExact, ReadyAnswersLast, WaitingIsLast
<1>12. MatchIsAwaited'
  BY <1>0, <1>2, <1>3, <1>4, <1>5, <1>6, <1>7, <1>8, <1>9
     DEF MatchIsAwaited, Awaited, Matches
<1>13. WaitsForSomething'
  <2> SUFFICES ASSUME NEW u \in Transports, tr'[u].state = "WAIT_RSP"
               PROVE  \/ \E i \in DOMAIN fifo' : Carries(fifo'[i], u, tr'[u].low)
                      \/ peer' # NoRequest /\ Carries(peer', u, tr'[u].low)
    BY DEF WaitsForSomething
  <2>1. CASE u = t
    <3>1. Len(fifo) + 1 \in DOMAIN fifo'
      BY <1>6
    <3> QED
      BY <2>1, <3>1, <1>2, <1>3, <1>5, <1>6 DEF Carries
  <2>2. CASE u # t
    <3>1. \A i \in DOMAIN fifo : i \in DOMAIN fifo'
      BY <1>6
    <3> QED
      BY <2>2, <3>1, <1>0, <1>4, <1>5, <1>6 DEF WaitsForSomething
  <2> QED
    BY <2>1, <2>2
<1>14. AnswersAreFinal'
  BY <1>0, <1>3, <1>6, <1>8 DEF AnswersAreFinal
<1>15. OneMatch'
  <2>1. \A i, j \in DOMAIN fifo' :
          fifo'[i].low = tr'[fifo'[i].t].low /\ fifo'[j].low = tr'[fifo'[j].t].low
             /\ fifo'[i].t = fifo'[j].t => i = j
    BY <1>0, <1>3, <1>6, <1>8, <1>9 DEF OneMatch
  <2>2. peer' # NoRequest /\ peer'.low = tr'[peer'.t].low =>
          \A i \in DOMAIN fifo' : fifo'[i].low = tr'[fifo'[i].t].low => fifo'[i].t # peer'.t
    BY <1>0, <1>3, <1>4, <1>6, <1>8, <1>9 DEF OneMatch
  <2> QED
    BY <2>1, <2>2 DEF OneMatch, Matches
<1> QED
  BY <1>10, <1>11, <1>12, <1>13, <1>14, <1>15 DEF IInv

-----------------------------------------------------------------------------
(* The first event of the queue leaves it and its response, if there is    *)
(* one, joins the queue last.                                              *)
LEMMA AnswerStep == ASSUME IInv, Answer PROVE IInv'
<1>0. /\ TypeOK /\ TimerExact /\ ReadyAnswersLast /\ MatchIsAwaited
      /\ WaitsForSomething /\ WaitingIsLast /\ AnswersAreFinal /\ OneMatch
  BY DEF IInv
<1>1. PICK status \in Answers : fifo' = Append(Tail(fifo), Response(Head(fifo), status))
  BY DEF Answer, Answers
<1> DEFINE e == Response(Head(fifo), status)
           n == Len(fifo)
<1>2. /\ fifo # <<>> /\ fifo \in Seq(Events)
      /\ tr' = tr /\ peer' = peer /\ last' = last
  BY <1>0 DEF Answer, TypeOK
<1>3. /\ Head(fifo) = fifo[1] /\ Head(fifo) \in Events /\ Tail(fifo) \in Seq(Events)
      /\ n \in Nat \ {0} /\ DOMAIN fifo = 1 .. n /\ DOMAIN Tail(fifo) = 1 .. n - 1
      /\ Len(Tail(fifo)) = n - 1
      /\ \A i \in 1 .. n - 1 :
            i + 1 \in 1 .. n /\ Tail(fifo)[i] = fifo[i + 1] /\ fifo[i + 1] \in Events
  BY <1>2, TailFacts
<1>4. /\ e \in Events /\ e.t = fifo[1].t /\ e.low = fifo[1].low /\ e.of = fifo[1].of
      /\ ~e.req /\ e.status # "PENDING"
  BY <1>3, ResponseFields DEF Answers
<1> HIDE DEF e
<1>5. /\ fifo' \in Seq(Events) /\ DOMAIN fifo' = 1 .. n /\ fifo'[n] = e
      /\ \A i \in 1 .. n - 1 : fifo'[i] = fifo[i + 1]
  <2>1. fifo' = Append(Tail(fifo), e)
    BY <1>1 DEF e
  <2>2. (n - 1) + 1 = n
    BY <1>3
  <2> QED
    BY <2>1, <2>2, <1>3, <1>4, AppendFacts
<1> HIDE DEF n
<1>6. /\ \A i \in 1 .. n : i = n \/ i \in 1 .. n - 1
      /\ \A i \in 1 .. n : i = 1 \/ (i - 1 \in 1 .. n - 1 /\ (i - 1) + 1 = i)
      /\ 1 \in 1 .. n /\ n \in 1 .. n
      /\ \A i, j \in 1 .. n - 1 : i + 1 # 1 /\ (i + 1 = j + 1 => i = j)
  BY <1>3
<1> DEFINE From(i) == IF i = n THEN 1 ELSE i + 1
<1>7. \A i \in 1 .. n : /\ From(i) \in 1 .. n
                        /\ fifo'[i].t = fifo[From(i)].t
                        /\ fifo'[i].low = fifo[From(i)].low
                        /\ fifo'[i].of = fifo[From(i)].of
  BY <1>3, <1>4, <1>5, <1>6
<1>8. \A i, j \in 1 .. n : From(i) = From(j) => i = j
  BY <1>3
<1> HIDE DEF From
<1>9. TypeOK'
  BY <1>0, <1>2, <1>5 DEF TypeOK
<1>10. TimerExact' /\ ReadyAnswersLast' /\ WaitingIsLast'
  BY <1>0, <1>2 DEF TimerExact, ReadyAnswersLast, WaitingIsLast
<1>11. MatchIsAwaited'
  <2>1. ASSUME NEW i \in 1 .. n, fifo'[i].low = tr[fifo'[i].t].low
        PROVE  tr[fifo'[i].t].state = "WAIT_RSP" /\ fifo'[i].of = last[fifo'[i].t]
    <3> DEFINE k == From(i)
    <3>1. /\ k \in DOMAIN fifo /\ fifo'[i].t = fifo[k].t /\ fifo'[i].low = fifo[k].low
          /\ fifo'[i].of = fifo[k].of
      BY <1>3, <1>7
    <3> HIDE DEF k
    <3> QED
      BY <2>1, <3>1, <1>0 DEF MatchIsAwaited, Awaited
  <2> QED
    BY <2>1, <1>0, <1>2, <1>5 DEF MatchIsAwaited, Awaited
<1>12. WaitsForSomething'
  <2> SUFFICES ASSUME NEW u \in Transports, tr[u].state = "WAIT_RSP",
                      NEW i \in 1 .. n, Carries(fifo[i], u, tr[u].low)
               PROVE  \E j \in 1 .. n : Carries(fifo'[j], u, tr[u].low)
    BY <1>0, <1>2, <1>3, <1>5 DEF WaitsForSomething
  <2>1. CASE i = 1
    BY <2>1, <1>4, <1>5, <1>6 DEF Carries
  <2>2. CASE i # 1
    <3>1. i - 1 \in 1 .. n - 1 /\ i - 1 \in 1 .. n /\ (i - 1) + 1 = i
      BY <2>2, <1>3
    <3>2. fifo'[i - 1] = fifo[i]
      BY <3>1, <1>5
    <3> QED
      BY <3>1, <3>2
  <2> QED
    BY <2>1, <2>2
<1>13. AnswersAreFinal'
  BY <1>0, <1>3, <1>4, <1>5, <1>6 DEF AnswersAreFinal
<1>14. OneMatch'
  <2>1. ASSUME NEW i \in 1 .. n, fifo'[i].low = tr[fifo'[i].t].low
        PROVE  /\ \A j \in 1 .. n :
                     fifo'[j].low = tr[fifo'[j].t].low /\ fifo'[i].t = fifo'[j].t => i = j
               /\ peer # NoRequest /\ peer.low = tr[peer.t].low => fifo'[i].t # peer.t
    <3> DEFINE k == From(i)
    <3>1. /\ k \in DOMAIN fifo /\ fifo'[i].t = fifo[k].t /\ fifo'[i].low = fifo[k].low
          /\ Matches(fifo[k])
      BY <2>1, <1>3, <1>7 DEF Matches
    <3>2. ASSUME NEW j \in 1 .. n, fifo'[j].low = tr[fifo'[j].t].low,
                 fifo'[i].t = fifo'[j].t
          PROVE  i = j
      <4> DEFINE l == From(j)
      <4>1. l \in DOMAIN fifo /\ fifo'[j].t = fifo[l].t /\ Matches(fifo[l])
        BY <3>2, <1>3, <1>7 DEF Matches
      <4>2. k = l => i = j
        BY <1>8
      <4> HIDE DEF k, l
      <4> QED
        BY <3>1, <3>2, <4>1, <4>2, <1>0 DEF OneMatch
    <3> HIDE DEF k
    <3>3. peer # NoRequest /\ peer.low = tr[peer.t].low => fifo'[i].t # peer.t
      BY <3>1, <1>0 DEF OneMatch, Matches
    <3> QED
      BY <3>2, <3>3
  <2> QED
    BY <2>1, <1>2, <1>5 DEF OneMatch, Matches
<1> QED
  BY <1>9, <1>10, <1>11, <1>12, <1>13, <1>14 DEF IInv

-----------------------------------------------------------------------------
(* The events behind the first one match one at a time, and none together  *)
(* with the first.                                                         *)
LEMMA TailMatches ==
    ASSUME OneMatch, NEW n, n = Len(fifo), fifo \in Seq(Events), fifo # <<>>,
           NEW f, f = Tail(fifo)
    PROVE  /\ \A i, j \in 1 .. n - 1 :
                 Matches(f[i]) /\ Matches(f[j]) /\ f[i].t = f[j].t => i = j
           /\ \A i \in 1 .. n - 1 :
                 Matches(f[i]) /\ Matches(fifo[1]) => f[i].t # fifo[1].t
           /\ peer # NoRequest /\ Matches(peer) =>
                 /\ Matches(fifo[1]) => fifo[1].t # peer.t
                 /\ \A i \in 1 .. n - 1 : Matches(f[i]) => f[i].t # peer.t
<1>1. /\ n \in Nat \ {0} /\ DOMAIN fifo = 1 .. n
      /\ \A i \in 1 .. n - 1 : f[i] = fifo[i + 1]
  BY TailFacts
<1>2. 1 \in DOMAIN fifo /\ \A i \in 1 .. n - 1 : i + 1 \in DOMAIN fifo /\ i + 1 # 1
  BY <1>1
<1>3. ASSUME NEW i \in 1 .. n - 1, Matches(f[i])
      PROVE  /\ \A j \in 1 .. n - 1 : Matches(f[j]) /\ f[i].t = f[j].t => i = j
             /\ Matches(fifo[1]) => f[i].t # fifo[1].t
             /\ peer # NoRequest /\ Matches(peer) => f[i].t # peer.t
  <2>1. i + 1 \in DOMAIN fifo /\ f[i] = fifo[i + 1] /\ i + 1 # 1 /\ Matches(fifo[i + 1])
    BY <1>1, <1>2, <1>3
  <2>2. ASSUME NEW j \in 1 .. n - 1, Matches(f[j]), f[i].t = f[j].t
        PROVE  i = j
    <3>1. j + 1 \in DOMAIN fifo /\ f[j] = fifo[j + 1] /\ Matches(fifo[j + 1])
      BY <1>1, <1>2, <2>2
    <3>2. i + 1 = j + 1
      BY <2>1, <2>2, <3>1 DEF OneMatch
    <3> QED
      BY <3>2
  <2>3. Matches(fifo[1]) => fifo[i + 1].t # fifo[1].t
    BY <1>2, <2>1 DEF OneMatch
  <2>4. peer # NoRequest /\ Matches(peer) => fifo[i + 1].t # peer.t
    BY <2>1 DEF OneMatch
  <2> QED
    BY <2>1, <2>2, <2>3, <2>4
<1>4. peer # NoRequest /\ Matches(peer) /\ Matches(fifo[1]) => fifo[1].t # peer.t
  BY <1>2 DEF OneMatch
<1> QED
  BY <1>3, <1>4

(* The first event of the queue moves to the forwarding module.            *)
LEMMA ForwardStep == ASSUME IInv, Forward PROVE IInv'
<1> DEFINE n == Len(fifo)
<1>0. /\ TypeOK /\ TimerExact /\ ReadyAnswersLast /\ MatchIsAwaited
      /\ WaitsForSomething /\ WaitingIsLast /\ AnswersAreFinal /\ OneMatch
  BY DEF IInv
<1>1. /\ fifo # <<>> /\ fifo \in Seq(Events) /\ peer = NoRequest
      /\ peer' = Head(fifo) /\ fifo' = Tail(fifo) /\ tr' = tr /\ last' = last
  BY <1>0 DEF Forward, TypeOK
<1>2. /\ peer' = fifo[1] /\ fifo[1] \in Events /\ fifo' \in Seq(Events)
      /\ n \in Nat \ {0} /\ DOMAIN fifo = 1 .. n /\ DOMAIN fifo' = 1 .. n - 1
      /\ \A i \in 1 .. n - 1 : i + 1 \in 1 .. n /\ fifo'[i] = fifo[i + 1]
  BY <1>1, TailFacts
<1> HIDE DEF n
<1>3. /\ 1 \in 1 .. n
      /\ \A i \in 1 .. n : i = 1 \/ (i - 1 \in 1 .. n - 1 /\ (i - 1) + 1 = i)
      /\ \A i, j \in 1 .. n - 1 : i + 1 # 1 /\ (i + 1 = j + 1 => i = j)
  BY <1>2
<1>4. peer' # NoRequest
  BY <1>1, <1>2 DEF Forward, Events, NoRequest
<1>5. TypeOK'
  BY <1>0, <1>1, <1>2 DEF TypeOK
<1>6. TimerExact' /\ ReadyAnswersLast' /\ WaitingIsLast'
  BY <1>0, <1>1 DEF TimerExact, ReadyAnswersLast, WaitingIsLast
<1>7. MatchIsAwaited'
  BY <1>0, <1>1, <1>2, <1>3 DEF MatchIsAwaited, Awaited
<1>8. WaitsForSomething'
  <2> SUFFICES ASSUME NEW u \in Transports, tr[u].state = "WAIT_RSP",
                      NEW i \in 1 .. n, Carries(fifo[i], u, tr[u].low)
               PROVE  \/ \E j \in 1 .. n - 1 : Carries(fifo'[j], u, tr[u].low)
                      \/ Carries(peer', u, tr[u].low)
    BY <1>0, <1>1, <1>2, <1>4 DEF WaitsForSomething
  <2>1. CASE i = 1
    BY <2>1, <1>2
  <2>2. CASE i # 1
    <3>1. i - 1 \in 1 .. n - 1 /\ fifo'[i - 1] = fifo[i]
      BY <2>2, <1>2, <1>3
    <3> QED
      BY <3>1
  <2> QED
    BY <2>1, <2>2
<1>9. AnswersAreFinal'
  BY <1>0, <1>2 DEF AnswersAreFinal
<1>10. OneMatch'
  <2>1. ASSUME NEW i \in 1 .. n - 1, Matches(fifo'[i])
        PROVE  /\ \A j \in 1 .. n - 1 : Matches(fifo'[j]) /\ fifo'[i].t = fifo'[j].t => i = j
               /\ Matches(fifo[1]) => fifo'[i].t # fifo[1].t
    BY <2>1, <1>0, <1>1, TailMatches DEF n
  <2> QED
    BY <2>1, <1>1, <1>2 DEF OneMatch, Matches
<1> QED
  BY <1>5, <1>6, <1>7, <1>8, <1>9, <1>10 DEF IInv

(* The response to the request of the forwarding module joins the queue.   *)
LEMMA PeerAnswerStep ==
    ASSUME IInv, NEW status \in PeerAnswers, PeerAnswer(status) PROVE IInv'
<1> DEFINE e == Response(peer, status)
           n == Len(fifo)
<1>0. /\ TypeOK /\ TimerExact /\ ReadyAnswersLast /\ MatchIsAwaited
      /\ WaitsForSomething /\ WaitingIsLast /\ AnswersAreFinal /\ OneMatch
  BY DEF IInv
<1>1. /\ peer # NoRequest /\ fifo \in Seq(Events) /\ fifo' = Append(fifo, e)
      /\ peer' = NoRequest /\ tr' = tr /\ last' = last
  BY <1>0 DEF PeerAnswer, TypeOK
<1>2. peer \in Events /\ status \in Answers /\ status # "PENDING"
  BY <1>0, <1>1, PeerIsEvent DEF Answers, PeerAnswers
<1>3. /\ e \in Events /\ e.t = peer.t /\ e.low = peer.low /\ e.of = peer.of /\ ~e.req
      /\ e.status = status
  BY <1>2, ResponseFields
<1> HIDE DEF e
<1>4. /\ fifo' \in Seq(Events) /\ n \in Nat
      /\ DOMAIN fifo = 1 .. n /\ DOMAIN fifo' = 1 .. n + 1 /\ fifo'[n + 1] = e
      /\ \A i \in 1 .. n : fifo'[i] = fifo[i]
  BY <1>1, <1>3, AppendFacts
<1> HIDE DEF n
<1>5. /\ \A i \in 1 .. n + 1 : i = n + 1 \/ i \in 1 .. n
      /\ \A i \in 1 .. n : i \in 1 .. n + 1
      /\ n + 1 \in 1 .. n + 1
  BY <1>4
<1>6. TypeOK'
  BY <1>0, <1>1, <1>4 DEF TypeOK
<1>7. TimerExact' /\ ReadyAnswersLast' /\ WaitingIsLast'
  BY <1>0, <1>1 DEF TimerExact, ReadyAnswersLast, WaitingIsLast
<1>8. MatchIsAwaited'
  BY <1>0, <1>1, <1>3, <1>4, <1>5 DEF MatchIsAwaited, Awaited
<1>9. WaitsForSomething'
  BY <1>0, <1>1, <1>3, <1>4, <1>5 DEF WaitsForSomething, Carries
<1>10. AnswersAreFinal'
  BY <1>0, <1>2, <1>3, <1>4, <1>5 DEF AnswersAreFinal
<1>11. OneMatch'
  BY <1>0, <1>1, <1>3, <1>4, <1>5 DEF OneMatch, Matches
<1> QED
  BY <1>6, <1>7, <1>8, <1>9, <1>10, <1>11 DEF IInv

-----------------------------------------------------------------------------
(* The transport that the first event of the queue matches, if there is    *)
(* one, has its response, and no other event of the transport matches.     *)
LEMMA ReceiveStep == ASSUME IInv, Receive PROVE IInv'
<1> DEFINE e == Head(fifo)
           n == Len(fifo)
           c == [tr[e.t] EXCEPT !.state = "RSP_READY", !.timer = FALSE, !.of = e.of,
                                !.status = IF e.req THEN "DISCONNECTED" ELSE e.status]
<1>0. /\ TypeOK /\ TimerExact /\ ReadyAnswersLast /\ MatchIsAwaited
      /\ WaitsForSomething /\ WaitingIsLast /\ AnswersAreFinal /\ OneMatch
  BY DEF IInv
<1>1. /\ fifo # <<>> /\ fifo \in Seq(Events) /\ fifo' = Tail(fifo)
      /\ peer' = peer /\ last' = last
      /\ tr' = IF e.low = tr[e.t].low THEN [tr EXCEPT ![e.t] = c] ELSE tr
  BY <1>0 DEF Receive, TypeOK
<1>2. /\ e = fifo[1] /\ e \in Events /\ fifo' \in Seq(Events)
      /\ n \in Nat \ {0} /\ DOMAIN fifo = 1 .. n /\ DOMAIN fifo' = 1 .. n - 1
      /\ \A i \in 1 .. n - 1 : /\ i + 1 \in 1 .. n /\ fifo'[i] = fifo[i + 1]
                              /\ fifo[i + 1] \in Events
  BY <1>1, TailFacts
<1>3. /\ e.t \in Transports /\ tr[e.t] \in TransportType
      /\ \A i \in 1 .. n - 1 : fifo'[i].t \in Transports
      /\ peer # NoRequest => peer.t \in Transports
  BY <1>0, <1>2, PeerIsEvent, EventFields DEF TypeOK
<1>4. /\ c \in TransportType /\ c.state = "RSP_READY" /\ ~c.timer /\ c.of = e.of
      /\ c.low = tr[e.t].low
  BY <1>2, <1>3 DEF TransportType, States, Events, Answers
<1>5. c.status # "PENDING"
  BY <1>0, <1>2, <1>3 DEF AnswersAreFinal, TransportType
<1> HIDE DEF e, n, c
<1>6. /\ 1 \in 1 .. n
      /\ \A i \in 1 .. n : i = 1 \/ (i - 1 \in 1 .. n - 1 /\ (i - 1) + 1 = i)
      /\ \A i, j \in 1 .. n - 1 : i + 1 # 1 /\ (i + 1 = j + 1 => i = j)
  BY <1>2
<1>7. /\ tr' \in [Transports -> TransportType]
      /\ \A u \in Transports : tr'[u] = tr[u] \/ (u = e.t /\ Matches(e) /\ tr'[u] = c)
      /\ \A u \in Transports : tr'[u].low = tr[u].low
      /\ Matches(e) => tr'[e.t] = c
  <2>1. tr \in [Transports -> TransportType]
    BY <1>0 DEF TypeOK
  <2>2. CASE Matches(e)
    <3>1. tr' = [tr EXCEPT ![e.t] = c]
      BY <1>1, <2>2 DEF Matches
    <3> QED
      BY <2>1, <2>2, <3>1, <1>3, <1>4
  <2>3. CASE ~Matches(e)
    <3>1. tr' = tr
      BY <1>1, <2>3 DEF Matches
    <3> QED
      BY <2>1, <2>3, <3>1
  <2> QED
    BY <2>2, <2>3
<1>8. Matches(e) => tr[e.t].state = "WAIT_RSP" /\ e.of = last[e.t]
  BY <1>0, <1>2, <1>6 DEF MatchIsAwaited, Awaited, Matches
<1>9. /\ \A i \in 1 .. n - 1 : Matches(fifo'[i]) /\ Matches(e) => fifo'[i].t # e.t
      /\ peer # NoRequest /\ Matches(peer) /\ Matches(e) => peer.t # e.t
  BY <1>0, <1>1, <1>2, TailMatches DEF n
<1>10. TypeOK'
  BY <1>0, <1>1, <1>2, <1>7 DEF TypeOK
<1>11. TimerExact' /\ ReadyAnswersLast' /\ WaitingIsLast'
  BY <1>0, <1>1, <1>4, <1>5, <1>7, <1>8 DEF TimerExact, ReadyAnswersLast, WaitingIsLast
<1>12. MatchIsAwaited'
  <2>1. ASSUME NEW i \in 1 .. n - 1, fifo'[i].low = tr'[fifo'[i].t].low
        PROVE  tr'[fifo'[i].t].state = "WAIT_RSP" /\ fifo'[i].of = last[fifo'[i].t]
    <3>1. fifo'[i] = fifo[i + 1] /\ i + 1 \in DOMAIN fifo /\ fifo'[i].t \in Transports
      BY <1>2, <1>3
    <3>2. Matches(fifo'[i])
      BY <2>1, <3>1, <1>7 DEF Matches
    <3>3. tr'[fifo'[i].t] = tr[fifo'[i].t]
      BY <3>1, <3>2, <1>7, <1>9
    <3>4. tr[fifo[i + 1].t].state = "WAIT_RSP" /\ fifo[i + 1].of = last[fifo[i + 1].t]
      BY <3>1, <3>2, <1>0 DEF MatchIsAwaited, Awaited, Matches
    <3> QED
      BY <3>1, <3>3, <3>4
  <2>2. ASSUME peer # NoRequest, peer.low = tr'[peer.t].low
        PROVE  tr'[peer.t].state = "WAIT_RSP" /\ peer.of = last[peer.t]
    BY <2>2, <1>0, <1>3, <1>7, <1>9 DEF MatchIsAwaited, Awaited, Matches
  <2> QED
    BY <2>1, <2>2, <1>1, <1>2 DEF MatchIsAwaited, Awaited
<1>13. WaitsForSomething'
  <2> SUFFICES ASSUME NEW u \in Transports, tr'[u].state = "WAIT_RSP"
               PROVE  \/ \E j \in 1 .. n - 1 : Carries(fifo'[j], u, tr[u].low)
                      \/ peer # NoRequest /\ Carries(peer, u, tr[u].low)
    BY <1>1, <1>2, <1>7 DEF WaitsForSomething
  <2>1. tr[u].state = "WAIT_RSP" /\ ~Carries(e, u, tr[u].low)
    BY <1>4, <1>7 DEF Carries, Matches
  <2>2. CASE peer # NoRequest /\ Carries(peer, u, tr[u].low)
    BY <2>2
  <2>3. ASSUME NEW i \in 1 .. n, Carries(fifo[i], u, tr[u].low)
        PROVE  \E j \in 1 .. n - 1 : Carries(fifo'[j], u, tr[u].low)
    <3>1. i # 1
      BY <2>1, <2>3, <1>2
    <3>2. i - 1 \in 1 .. n - 1 /\ fifo'[i - 1] = fifo[i]
      BY <3>1, <1>2, <1>6
    <3> QED
      BY <3>2, <2>3
  <2> QED
    BY <2>1, <2>2, <2>3, <1>0, <1>2 DEF WaitsForSomething
<1>14. AnswersAreFinal'
  BY <1>0, <1>2 DEF AnswersAreFinal
<1>15. OneMatch'
  <2>1. /\ \A i \in 1 .. n - 1 : fifo'[i].low = tr'[fifo'[i].t].low => Matches(fifo'[i])
        /\ peer # NoRequest /\ peer.low = tr'[peer.t].low => Matches(peer)
    BY <1>3, <1>7 DEF Matches
  <2>2. /\ \A i, j \in 1 .. n - 1 :
              Matches(fifo'[i]) /\ Matches(fifo'[j]) /\ fifo'[i].t = fifo'[j].t => i = j
        /\ peer # NoRequest /\ Matches(peer) =>
              \A i \in 1 .. n - 1 : Matches(fifo'[i]) => fifo'[i].t # peer.t
    BY <1>0, <1>1, TailMatches DEF n
  <2>3. \A i, j \in 1 .. n - 1 :
              fifo'[i].low = tr'[fifo'[i].t].low /\ fifo'[j].low = tr'[fifo'[j].t].low
                 /\ fifo'[i].t = fifo'[j].t => i = j
    BY <2>1, <2>2
  <2>4. peer # NoRequest /\ peer.low = tr'[peer.t].low =>
          \A i \in 1 .. n - 1 : fifo'[i].low = tr'[fifo'[i].t].low => fifo'[i].t # peer.t
    BY <2>1, <2>2
  <2> QED
    BY <2>3, <2>4, <1>1, <1>2 DEF OneMatch, Matches
<1> QED
  BY <1>10, <1>11, <1>12, <1>13, <1>14, <1>15 DEF IInv

-----------------------------------------------------------------------------
THEOREM NextIInv == IInv /\ [Next]_vars => IInv'
<1> SUFFICES ASSUME IInv, [Next]_vars PROVE IInv'
  OBVIOUS
<1>1. ASSUME NEW t \in Transports, NEW to \in Recipients, Set(t, to) PROVE IInv'
  BY <1>1, SetStep
<1>2. ASSUME NEW t \in Transports, Get(t) PROVE IInv'
  BY <1>2, GetStep
<1>3. ASSUME NEW t \in Transports, Timeout(t) PROVE IInv'
  BY <1>3, TimeoutStep
<1>4. ASSUME NEW t \in Transports, Disconnect(t) PROVE IInv'
  BY <1>4, DisconnectStep
<1>5. CASE Answer
  BY <1>5, AnswerStep
<1>6. CASE Forward
  BY <1>6, ForwardStep
<1>7. CASE Receive
  BY <1>7, ReceiveStep
<1>8. ASSUME NEW status \in PeerAnswers, PeerAnswer(status) PROVE IInv'
  BY <1>8, PeerAnswerStep
<1>9. CASE UNCHANGED vars
  BY <1>9 DEF vars, IInv, TypeOK, TimerExact, ReadyAnswersLast, MatchIsAwaited, Awaited,
              WaitsForSomething, WaitingIsLast, AnswersAreFinal, OneMatch, Matches
<1> QED
  BY <1>1, <1>2, <1>3, <1>4, <1>5, <1>6, <1>7, <1>8, <1>9 DEF Next

THEOREM Invariance == Spec => []IInv
BY InitIInv, NextIInv, PTL DEF Spec

(* Every variable of the configuration channel has its type, whatever the  *)
(* order of requests, answers, timeouts and disconnections: drop_transac-  *)
(* tions never leaves the low byte.                                        *)
THEOREM TypeCorrect == Spec => []TypeOK
<1>1. IInv => TypeOK
  BY DEF IInv
<1> QED
  BY <1>1, Invariance, PTL

(* timeout_fn's assertion holds: the timer runs exactly while a response   *)
(* is awaited.                                                             *)
THEOREM TimerCorrect == Spec => []TimerExact
<1>1. IInv => TimerExact
  BY DEF IInv
<1> QED
  BY <1>1, Invariance, PTL

(* No host ever reads the answer to another request than its last one,     *)
(* however late the answers to the requests it gave up arrive.             *)
THEOREM ResponseCorrect == Spec => []ReadyAnswersLast
<1>1. IInv => ReadyAnswersLast
  BY DEF IInv
<1> QED
  BY <1>1, Invariance, PTL

(* An event that config_channel_transport_rsp_receive takes is awaited:    *)
(* why the function need not look at the transport's state.                *)
THEOREM MatchCorrect == Spec => []MatchIsAwaited
<1>1. IInv => MatchIsAwaited
  BY DEF IInv
<1> QED
  BY <1>1, Invariance, PTL

(* No request is lost on its way: a transport that waits does so for an    *)
(* event that exists.                                                      *)
THEOREM NothingLost == Spec => []WaitsForSomething
<1>1. IInv => WaitsForSomething
  BY DEF IInv
<1> QED
  BY <1>1, Invariance, PTL
=============================================================================
