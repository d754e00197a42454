------------------------- MODULE DongleBridgeProofs -------------------------
(***************************************************************************)
(* Proofs about DongleBridge, for a slab of any size and any number of     *)
(* reports, configurations and faults.                                     *)
(*                                                                         *)
(* The invariant is TypeOK with the two facts about the nRF's memory: who  *)
(* holds each block, and which halves they hold.  They need each other: a  *)
(* report is written into a free block, so it does not disturb the halves  *)
(* that are under way because no block under way is free.                  *)
(* NewestActive continues it from SPI to the host.                         *)
(***************************************************************************)
EXTENDS DongleBridge, TLAPS, FiniteSetTheorems, FunctionTheorems

NrfOK ==
    /\ free \subseteq Blocks
    /\ mem \in [Blocks -> [kind : Kinds, first : Nat]]
    /\ msgq \in Seq(Blocks)
    /\ pending \in Blocks \union {None}
    /\ halves \in [accepted : Nat, wire : Nat]
RestOK ==
    /\ sig \in {"none", "tick", "rx"}
    /\ thread \in [pc : {"poll", "checked", "handle", "retry", "forward"},
                   result : {"none", "tick", "rx"}, read : Nat]
    /\ slave \in [rx : Half, active : Half, new : BOOLEAN, buf : [Half -> Nat],
                  tx : Nat, at : Half, data : Nat, received : BOOLEAN,
                  pc : {"loop", "load", "pulse"}]
    /\ usb \in [up : BOOLEAN, busy : BOOLEAN, dma : Half]
    /\ host \in Nat /\ config \in [set : Nat, done : Nat] /\ mixed \in BOOLEAN
    /\ count \in [reports : Nat, faults : Nat]

\* The inductive invariant.
IInv == TypeOK /\ BlocksAccounted /\ StreamIntact

-----------------------------------------------------------------------------
(* Sequences by their elements.                                            *)
LEMMA AppendFacts ==
    ASSUME NEW S, NEW s \in Seq(S), NEW e \in S
    PROVE  /\ Append(s, e) \in Seq(S) /\ Len(Append(s, e)) = Len(s) + 1
           /\ Append(s, e) # <<>>
           /\ \A i \in 1 .. Len(s) : Append(s, e)[i] = s[i]
           /\ Append(s, e)[Len(s) + 1] = e
           /\ DOMAIN s = 1 .. Len(s) /\ DOMAIN Append(s, e) = 1 .. Len(s) + 1
           /\ Len(s) \in Nat
           /\ s # <<>> => Head(Append(s, e)) = Head(s)
           /\ s = <<>> => Head(Append(s, e)) = e
<1>1. /\ Append(s, e) \in Seq(S) /\ Len(Append(s, e)) = Len(s) + 1 /\ Len(s) \in Nat
      /\ DOMAIN s = 1 .. Len(s) /\ DOMAIN Append(s, e) = 1 .. Len(s) + 1
      /\ \A i \in 1 .. Len(s) : Append(s, e)[i] = s[i]
      /\ Append(s, e)[Len(s) + 1] = e
  OBVIOUS
<1>2. /\ Append(s, e) # <<>>
      /\ Head(Append(s, e)) = Append(s, e)[1]
  BY <1>1
<1>3. ASSUME s # <<>> PROVE Len(s) > 0 /\ Head(s) = s[1]
  BY <1>3
<1>4. s = <<>> => Len(s) = 0
  OBVIOUS
<1>. QED BY <1>1, <1>2, <1>3, <1>4

LEMMA TailFacts ==
    ASSUME NEW S, NEW s \in Seq(S), s # <<>>
    PROVE  /\ Head(s) \in S /\ Head(s) = s[1]
           /\ Tail(s) \in Seq(S) /\ Len(Tail(s)) = Len(s) - 1
           /\ \A i \in 1 .. Len(s) - 1 : Tail(s)[i] = s[i + 1]
           /\ Len(s) \in Nat /\ Len(s) >= 1
           /\ DOMAIN s = 1 .. Len(s) /\ DOMAIN Tail(s) = 1 .. Len(s) - 1
           /\ Tail(s) # <<>> => Head(Tail(s)) = s[2] /\ Len(s) >= 2
           /\ Tail(s) = <<>> => Len(s) = 1
<1>1. /\ Head(s) \in S /\ Head(s) = s[1]
      /\ Tail(s) \in Seq(S) /\ Len(Tail(s)) = Len(s) - 1
      /\ \A i \in 1 .. Len(s) - 1 : Tail(s)[i] = s[i + 1]
      /\ Len(s) \in Nat /\ Len(s) >= 1
      /\ DOMAIN s = 1 .. Len(s) /\ DOMAIN Tail(s) = 1 .. Len(s) - 1
  OBVIOUS
<1>2. Tail(s) # <<>> => Head(Tail(s)) = Tail(s)[1] /\ Len(Tail(s)) >= 1
  BY <1>1
<1>3. Len(<<>>) = 0
  OBVIOUS
<1>4. Tail(s) = <<>> => Len(Tail(s)) = 0
  BY <1>3, Zenon
<1>5. \A m, n : n \in Nat /\ m = n - 1 /\ m = 0 => n = 1
  OBVIOUS
<1>6. Len(s) \in Nat /\ Len(Tail(s)) = Len(s) - 1
  BY <1>1
<1>7. Len(Tail(s)) = 0 => Len(s) = 1
  BY <1>5, <1>6, Zenon
<1>. QED BY <1>1, <1>2, <1>4, <1>7

LEMMA TypeParts == TypeOK <=> NrfOK /\ RestOK
  BY DEF TypeOK, NrfOK, RestOK

LEMMA TypePartsNext == TypeOK' <=> NrfOK' /\ RestOK'
  BY DEF TypeOK, NrfOK, RestOK

-----------------------------------------------------------------------------
(* Steps that leave the nRF's memory alone.                                *)
LEMMA MemoryUnchanged ==
    ASSUME IInv, UNCHANGED <<nrf, halves>>, RestOK'
    PROVE  IInv'
<1>1. NrfOK'
  BY TypeParts DEF IInv, NrfOK, nrf
<1>2. BlocksAccounted'
  BY DEF IInv, BlocksAccounted, Queued, nrf
<1>3. StreamIntact'
  BY DEF IInv, StreamIntact, Last, nrf
<1>. QED BY <1>1, <1>2, <1>3, TypePartsNext DEF IInv

LEMMA TransferredType ==
    ASSUME RestOK, NEW id, NEW n \in Nat, Transferred(id, n)
    PROVE  slave' \in [rx : Half, active : Half, new : BOOLEAN, buf : [Half -> Nat],
                       tx : Nat, at : Half, data : Nat, received : BOOLEAN,
                       pc : {"loop", "load", "pulse"}]
<1>1. (slave.new \/ id # "read") \in BOOLEAN
  BY Zenon
<1>2. 3 - slave.rx \in Half /\ 3 - slave.at \in Half
  BY DEF RestOK, Half
<1>3. (IF id = "mouse" THEN [slave.buf EXCEPT ![slave.rx] = n] ELSE slave.buf) \in [Half -> Nat]
  BY DEF RestOK
<1>. QED BY <1>1, <1>2, <1>3 DEF RestOK, Transferred

LEMMA WriteType ==
    ASSUME RestOK, NEW id, NEW n \in Nat, Write(id, n), Handled, UNCHANGED sig
    PROVE  RestOK'
<1>1. slave' \in [rx : Half, active : Half, new : BOOLEAN, buf : [Half -> Nat],
                  tx : Nat, at : Half, data : Nat, received : BOOLEAN,
                  pc : {"loop", "load", "pulse"}]
  BY TransferredType DEF Write, RestOK
<1>2. mixed' \in BOOLEAN
  BY DEF Write, RestOK
<1>3. count' \in [reports : Nat, faults : Nat]
  BY DEF Write, RestOK
<1>4. thread' \in [pc : {"poll", "checked", "handle", "retry", "forward"},
                   result : {"none", "tick", "rx"}, read : Nat]
  BY DEF Handled
<1>. QED BY <1>1, <1>2, <1>3, <1>4 DEF Write, RestOK

-----------------------------------------------------------------------------
(* Steps of the nRF.                                                       *)

\* The second half of a dual report goes out and its block is freed.
LEMMA SecondStep == ASSUME IInv, TickSecond PROVE IInv'
<1>. DEFINE p == pending
<1>1. NrfOK /\ RestOK /\ BlocksAccounted /\ StreamIntact
  BY TypeParts DEF IInv
<1>2. /\ p \in Blocks /\ pending' = None /\ free' = free \union {p}
      /\ mem' = mem /\ msgq' = msgq /\ p # None
  BY <1>1, BlocksAssumption DEF TickSecond, NrfOK
<1>3. /\ mem[p].first \in Nat /\ mem[p].first = halves.wire
      /\ halves' = [halves EXCEPT !.wire = mem[p].first + 1]
  BY <1>1, <1>2 DEF TickSecond, Write, NrfOK, StreamIntact
<1>4. NrfOK'
  BY <1>1, <1>2, <1>3 DEF NrfOK
<1>5. RestOK'
  BY <1>1, <1>2, <1>3, WriteType DEF TickSecond, Handle
<1>6. BlocksAccounted'
  BY <1>1, <1>2, BlocksAssumption DEF BlocksAccounted, Queued, NrfOK
<1>7. halves'.accepted = halves.accepted /\ halves'.wire = halves.wire + 1 /\ halves.wire \in Nat
  BY <1>1, <1>3 DEF NrfOK
<1>8. StreamIntact'
  BY <1>1, <1>2, <1>7 DEF StreamIntact, Last
<1>. QED BY <1>4, <1>5, <1>6, <1>8, TypePartsNext DEF IInv

\* What the queue loses when its first block is fetched.
LEMMA Fetched ==
    ASSUME IInv, pending = None, msgq # <<>>, msgq' = Tail(msgq), mem' = mem
    PROVE  /\ Head(msgq) \in Blocks /\ Head(msgq) # None /\ Head(msgq) \notin free
           /\ msgq' \in Seq(Blocks)
           /\ Queued = Queued' \union {Head(msgq)} /\ Head(msgq) \notin Queued'
           /\ \A i, j \in DOMAIN msgq' : msgq'[i] = msgq'[j] => i = j
           /\ mem[Head(msgq)] \in [kind : Kinds, first : Nat]
           /\ mem[Head(msgq)].first = halves.wire + 1
           /\ IF msgq' = <<>> THEN halves.accepted = Last(Head(msgq))
              ELSE /\ mem[Head(msgq')].first = Last(Head(msgq)) + 1
                   /\ \A i \in 1 .. Len(msgq') - 1 :
                         mem[msgq'[i + 1]].first = Last(msgq'[i]) + 1
                   /\ halves.accepted = Last(msgq'[Len(msgq')])
<1>. DEFINE b == Head(msgq)
<1>1. NrfOK /\ BlocksAccounted /\ StreamIntact
  BY TypeParts DEF IInv
<1>2. /\ msgq \in Seq(Blocks) /\ b \in Blocks /\ b = msgq[1] /\ b # None
      /\ DOMAIN msgq = 1 .. Len(msgq) /\ Len(msgq) \in Nat /\ Len(msgq) >= 1
  BY <1>1, TailFacts, BlocksAssumption DEF NrfOK
<1>3. /\ Tail(msgq) \in Seq(Blocks) /\ DOMAIN Tail(msgq) = 1 .. Len(msgq) - 1
      /\ Len(Tail(msgq)) = Len(msgq) - 1
      /\ \A i \in 1 .. Len(msgq) - 1 : Tail(msgq)[i] = msgq[i + 1]
      /\ Tail(msgq) # <<>> => Head(Tail(msgq)) = msgq[2] /\ Len(msgq) >= 2
      /\ Tail(msgq) = <<>> => Len(msgq) = 1
  BY <1>2, TailFacts
<1>4. Queued = Queued' \union {b} /\ b \notin Queued'
  <2>1. \A i \in DOMAIN Tail(msgq) : Tail(msgq)[i] = msgq[i + 1] /\ i + 1 \in DOMAIN msgq
    BY <1>2, <1>3
  <2>2. \A i \in DOMAIN msgq :
           i = 1 \/ (i - 1 \in DOMAIN Tail(msgq) /\ msgq[i] = Tail(msgq)[i - 1])
    BY <1>2, <1>3
  <2>3. 1 \in DOMAIN msgq
    BY <1>2
  <2>4. b \notin Queued'
    BY <1>1, <1>2, <1>3, <2>1, <2>3 DEF Queued, BlocksAccounted
  <2>5. Queued \subseteq Queued' \union {b}
    BY <1>2, <2>2 DEF Queued
  <2>6. Queued' \subseteq Queued /\ b \in Queued
    BY <1>2, <2>1, <2>3 DEF Queued
  <2>. QED BY <2>4, <2>5, <2>6
<1>5. \A i, j \in DOMAIN msgq' : msgq'[i] = msgq'[j] => i = j
  BY <1>1, <1>2, <1>3 DEF BlocksAccounted
<1>6. b \notin free
  BY <1>1, <1>4 DEF BlocksAccounted
<1>7. mem[b] \in [kind : Kinds, first : Nat] /\ mem[b].first = halves.wire + 1
  BY <1>1, <1>2 DEF NrfOK, StreamIntact
<1>8. CASE Tail(msgq) = <<>>
  BY <1>1, <1>2, <1>3, <1>4, <1>5, <1>6, <1>7, <1>8 DEF StreamIntact
<1>9. CASE Tail(msgq) # <<>>
  <2>1. mem[Head(Tail(msgq))].first = Last(b) + 1
    BY <1>1, <1>2, <1>3, <1>9 DEF StreamIntact
  <2>2. \A i \in 1 .. Len(Tail(msgq)) - 1 :
           mem[Tail(msgq)[i + 1]].first = Last(Tail(msgq)[i]) + 1
    BY <1>1, <1>2, <1>3, <1>9 DEF StreamIntact
  <2>3. halves.accepted = Last(Tail(msgq)[Len(Tail(msgq))])
    BY <1>1, <1>2, <1>3, <1>9 DEF StreamIntact
  <2>4. /\ mem[Head(msgq')].first = Last(b) + 1
        /\ \A i \in 1 .. Len(msgq') - 1 :
              mem[msgq'[i + 1]].first = Last(msgq'[i]) + 1
        /\ halves.accepted = Last(msgq'[Len(msgq')])
    BY <2>1, <2>2, <2>3
  <2>. QED BY <1>2, <1>3, <1>4, <1>5, <1>6, <1>7, <1>9, <2>4
<1>. QED BY <1>8, <1>9

\* The first half of a dual report goes out and its block waits.
LEMMA DualStep == ASSUME IInv, TickDual PROVE IInv'
<1>. DEFINE b == Head(msgq)
<1>1. NrfOK /\ RestOK /\ BlocksAccounted /\ StreamIntact
  BY TypeParts DEF IInv
<1>2. /\ pending = None /\ msgq # <<>> /\ pending' = b /\ msgq' = Tail(msgq)
      /\ free' = free /\ mem' = mem /\ mem[b].kind = "dual"
      /\ Write("mouse", mem[b].first) /\ Handled /\ UNCHANGED sig
  BY DEF TickDual, Handle
<1>3. /\ b \in Blocks /\ b # None /\ b \notin free /\ b \notin Queued'
      /\ Queued = Queued' \union {b} /\ msgq' \in Seq(Blocks)
      /\ mem[b].first \in Nat /\ mem[b].first = halves.wire + 1
      /\ \A i, j \in DOMAIN msgq' : msgq'[i] = msgq'[j] => i = j
  BY <1>2, Fetched
<1>4. halves' = [halves EXCEPT !.wire = mem[b].first]
  BY <1>2 DEF Write
<1>5. /\ halves'.wire = mem[b].first /\ halves'.accepted = halves.accepted
      /\ halves' \in [accepted : Nat, wire : Nat]
      /\ Last(b) = mem[b].first + 1
  <2>1. /\ halves'.wire = mem[b].first /\ halves'.accepted = halves.accepted
        /\ halves' \in [accepted : Nat, wire : Nat]
    BY <1>1, <1>3, <1>4 DEF NrfOK
  <2>2. Last(b) = mem[b].first + 1
    BY <1>2, <1>3 DEF Last, Halves
  <2>. QED BY <2>1, <2>2
<1>6. NrfOK'
  BY <1>1, <1>2, <1>3, <1>5 DEF NrfOK
<1>7. RestOK'
  BY <1>1, <1>2, <1>3, WriteType
<1>8. BlocksAccounted'
  BY <1>1, <1>2, <1>3, BlocksAssumption DEF BlocksAccounted, NrfOK
<1>9. StreamIntact'
  <2>1. IF msgq' = <<>> THEN halves.accepted = Last(b)
        ELSE /\ mem[Head(msgq')].first = Last(b) + 1
             /\ \A i \in 1 .. Len(msgq') - 1 :
                   mem[msgq'[i + 1]].first = Last(msgq'[i]) + 1
             /\ halves.accepted = Last(msgq'[Len(msgq')])
    BY <1>2, Fetched
  <2>2. CASE msgq' = <<>>
    BY <1>2, <1>3, <1>5, <2>1, <2>2 DEF StreamIntact
  <2>3. CASE msgq' # <<>>
    <3>1. mem'[Head(msgq')].first = halves'.wire + 2
      BY <1>2, <1>3, <1>5, <2>1, <2>3
    <3>2. \A i \in 1 .. Len(msgq') - 1 : mem'[msgq'[i + 1]].first = Last(msgq[i])' + 1
      BY <1>2, <2>1, <2>3 DEF Last
    <3>3. halves'.accepted = Last(msgq[Len(msgq)])'
      BY <1>2, <1>5, <2>1, <2>3 DEF Last
    <3>. QED BY <1>2, <1>3, <1>5, <2>3, <3>1, <3>2, <3>3 DEF StreamIntact
  <2>. QED BY <2>2, <2>3
<1>. QED BY <1>6, <1>7, <1>8, <1>9, TypePartsNext DEF IInv

\* Any other report goes out and its block is freed.
LEMMA SingleStep == ASSUME IInv, TickSingle PROVE IInv'
<1>. DEFINE b == Head(msgq)
<1>1. NrfOK /\ RestOK /\ BlocksAccounted /\ StreamIntact
  BY TypeParts DEF IInv
<1>2. /\ pending = None /\ msgq # <<>> /\ pending' = None /\ msgq' = Tail(msgq)
      /\ free' = free \union {b} /\ mem' = mem /\ mem[b].kind # "dual"
      /\ Write(mem[b].kind, mem[b].first) /\ Handled /\ UNCHANGED sig
  BY DEF TickSingle, Handle
<1>3. /\ b \in Blocks /\ b # None /\ b \notin free /\ b \notin Queued'
      /\ Queued = Queued' \union {b} /\ msgq' \in Seq(Blocks)
      /\ mem[b].first \in Nat /\ mem[b].first = halves.wire + 1
      /\ \A i, j \in DOMAIN msgq' : msgq'[i] = msgq'[j] => i = j
  BY <1>2, Fetched
<1>4. halves' = [halves EXCEPT !.wire = mem[b].first]
  BY <1>2 DEF Write
<1>5. /\ halves'.wire = mem[b].first /\ halves'.accepted = halves.accepted
      /\ halves' \in [accepted : Nat, wire : Nat]
      /\ Last(b) = mem[b].first
  <2>1. /\ halves'.wire = mem[b].first /\ halves'.accepted = halves.accepted
        /\ halves' \in [accepted : Nat, wire : Nat]
    BY <1>1, <1>3, <1>4 DEF NrfOK
  <2>2. Last(b) = mem[b].first
    BY <1>2, <1>3 DEF Last, Halves
  <2>. QED BY <2>1, <2>2
<1>6. NrfOK'
  BY <1>1, <1>2, <1>3, <1>5 DEF NrfOK
<1>7. RestOK'
  BY <1>1, <1>2, <1>3, WriteType
<1>8. BlocksAccounted'
  BY <1>1, <1>2, <1>3, BlocksAssumption DEF BlocksAccounted, NrfOK
<1>9. StreamIntact'
  <2>1. IF msgq' = <<>> THEN halves.accepted = Last(b)
        ELSE /\ mem[Head(msgq')].first = Last(b) + 1
             /\ \A i \in 1 .. Len(msgq') - 1 :
                   mem[msgq'[i + 1]].first = Last(msgq'[i]) + 1
             /\ halves.accepted = Last(msgq'[Len(msgq')])
    BY <1>2, Fetched
  <2>2. CASE msgq' = <<>>
    BY <1>2, <1>3, <1>5, <2>1, <2>2 DEF StreamIntact
  <2>3. CASE msgq' # <<>>
    <3>1. mem'[Head(msgq')].first = halves'.wire + 1
      BY <1>2, <1>3, <1>5, <2>1, <2>3
    <3>2. \A i \in 1 .. Len(msgq') - 1 : mem'[msgq'[i + 1]].first = Last(msgq[i])' + 1
      BY <1>2, <2>1, <2>3 DEF Last
    <3>3. halves'.accepted = Last(msgq[Len(msgq)])'
      BY <1>2, <1>5, <2>1, <2>3 DEF Last
    <3>. QED BY <1>2, <1>3, <1>5, <2>3, <3>1, <3>2, <3>3 DEF StreamIntact
  <2>. QED BY <2>2, <2>3
<1>. QED BY <1>6, <1>7, <1>8, <1>9, TypePartsNext DEF IInv

\* A report is written into a free block and queued.
LEMMA QueueStep ==
    ASSUME IInv, NEW kind \in Kinds, NEW b \in free, RestOK',
           mem' = [mem EXCEPT ![b] = [kind |-> kind, first |-> halves.accepted + 1]],
           free' = free \ {b}, msgq' = Append(msgq, b), pending' = pending,
           halves' = [halves EXCEPT !.accepted = @ + Halves(kind)]
    PROVE  IInv'
<1>. DEFINE n == Len(msgq)
<1>1. NrfOK /\ RestOK /\ BlocksAccounted /\ StreamIntact
  BY TypeParts DEF IInv
<1>2. /\ b \in Blocks /\ b # None /\ msgq \in Seq(Blocks) /\ b # pending /\ b \notin Queued
  BY <1>1, BlocksAssumption DEF NrfOK, BlocksAccounted
<1>3. /\ msgq' \in Seq(Blocks) /\ Len(msgq') = n + 1 /\ msgq' # <<>> /\ n \in Nat
      /\ \A i \in 1 .. n : msgq'[i] = msgq[i]
      /\ msgq'[n + 1] = b
      /\ DOMAIN msgq = 1 .. n /\ DOMAIN msgq' = 1 .. n + 1
      /\ msgq # <<>> => Head(msgq') = Head(msgq)
      /\ msgq = <<>> => Head(msgq') = b
  BY <1>2, AppendFacts
<1>4. /\ \A i \in 1 .. n : msgq[i] \in Queued /\ msgq[i] \in Blocks /\ msgq[i] # b
      /\ Queued' = Queued \union {b}
  <2>1. \A i \in 1 .. n : msgq[i] \in Queued /\ msgq[i] \in Blocks /\ msgq[i] # b
    BY <1>2, <1>3 DEF Queued
  <2>2. \A i \in 1 .. n + 1 : msgq'[i] \in Queued \union {b}
    BY <1>3, <2>1
  <2>3. Queued \union {b} \subseteq Queued'
    BY <1>3 DEF Queued
  <2>4. Queued' \subseteq Queued \union {b}
    <3>1. Queued' = {msgq'[i] : i \in 1 .. n + 1}
      BY <1>3 DEF Queued
    <3>. QED BY <2>2, <3>1
  <2>. QED BY <2>1, <2>3, <2>4
<1>5. /\ halves'.wire = halves.wire /\ halves'.accepted = halves.accepted + Halves(kind)
      /\ halves' \in [accepted : Nat, wire : Nat]
      /\ halves.accepted \in Nat /\ halves.wire \in Nat /\ Halves(kind) \in {1, 2}
  <2>1. Halves(kind) \in {1, 2}
    BY DEF Halves
  <2>2. halves \in [accepted : Nat, wire : Nat]
    BY <1>1 DEF NrfOK
  <2>3. halves.accepted + Halves(kind) \in Nat /\ halves.accepted \in Nat /\ halves.wire \in Nat
    BY <2>1, <2>2
  <2>. QED BY <2>1, <2>2, <2>3
<1>6. /\ mem' \in [Blocks -> [kind : Kinds, first : Nat]]
      /\ mem'[b] = [kind |-> kind, first |-> halves.accepted + 1]
      /\ \A c \in Blocks \ {b} : mem'[c] = mem[c]
  BY <1>1, <1>2, <1>5 DEF NrfOK
<1>7. NrfOK'
  BY <1>1, <1>2, <1>3, <1>5, <1>6 DEF NrfOK
<1>8. BlocksAccounted'
  <2>1. \A i, j \in DOMAIN msgq' : msgq'[i] = msgq'[j] => i = j
    <3>1. \A i \in 1 .. n + 1 : i = n + 1 \/ i \in 1 .. n
      BY <1>3
    <3>2. \A i, j \in 1 .. n : msgq'[i] = msgq'[j] => i = j
      BY <1>1, <1>3 DEF BlocksAccounted
    <3>3. \A i \in 1 .. n : msgq'[i] # msgq'[n + 1]
      BY <1>3, <1>4
    <3>. QED BY <1>3, <3>1, <3>2, <3>3
  <2>2. free' \intersect Queued' = {} /\ pending' \notin free' \union Queued'
    BY <1>1, <1>2, <1>4 DEF BlocksAccounted
  <2>3. Blocks \ {pending'} = free' \union Queued'
    BY <1>1, <1>2, <1>4 DEF BlocksAccounted
  <2>. QED BY <2>1, <2>2, <2>3 DEF BlocksAccounted
<1>9. StreamIntact'
  <2>1. Last(b)' = halves.accepted + Halves(kind)
    <3>1. Last(b)' = mem'[b].first + Halves(mem'[b].kind) - 1
      BY DEF Last
    <3>. QED BY <3>1, <1>5, <1>6
  <2>2. /\ \A i \in 1 .. n : mem'[msgq'[i]] = mem[msgq[i]]
        /\ mem'[msgq'[n + 1]] = [kind |-> kind, first |-> halves.accepted + 1]
    BY <1>3, <1>4, <1>6
  <2>3. pending' # None =>
           /\ mem'[pending'].kind = "dual" /\ mem'[pending'].first = halves'.wire
    BY <1>1, <1>2, <1>5, <1>6 DEF StreamIntact, NrfOK
  <2>4. halves'.accepted = Last(msgq[Len(msgq)])'
    BY <1>3, <1>5, <2>2 DEF Last
  <2>5. CASE msgq = <<>>
    <3>1. n = 0 /\ mem'[Head(msgq')].first = halves.accepted + 1
      BY <1>3, <1>6, <2>5
    <3>2. \A i \in 1 .. Len(msgq') - 1 : FALSE
      BY <1>3, <3>1
    <3>3. halves.accepted = halves.wire + IF pending = None THEN 0 ELSE 1
      BY <1>1, <2>5 DEF StreamIntact
    <3>. QED BY <1>3, <1>5, <2>3, <2>4, <3>1, <3>2, <3>3 DEF StreamIntact
  <2>6. CASE msgq # <<>>
    <3>1. n >= 1 /\ Head(msgq) = msgq[1] /\ Head(msgq') = msgq[1]
      BY <1>2, <1>3, <2>6, TailFacts
    <3>2. /\ mem[msgq[1]].first = halves.wire + 1 + IF pending = None THEN 0 ELSE 1
          /\ \A i \in 1 .. n - 1 : mem[msgq[i + 1]].first = Last(msgq[i]) + 1
          /\ halves.accepted = Last(msgq[n])
      BY <1>1, <1>5, <2>6, <3>1 DEF StreamIntact
    <3>3. mem'[Head(msgq')].first = halves'.wire + 1 + IF pending' = None THEN 0 ELSE 1
      BY <1>3, <1>5, <2>2, <3>1, <3>2
    <3>4. \A i \in 1 .. n : Last(msgq[i])' = Last(msgq[i])
      BY <2>2 DEF Last
    <3>5. \A i \in 1 .. n : mem'[msgq'[i + 1]].first = Last(msgq[i])' + 1
      <4>1. \A i \in 1 .. n - 1 : mem'[msgq'[i + 1]] = mem[msgq[i + 1]]
        BY <1>3, <2>2
      <4>2. \A i \in 1 .. n - 1 : mem'[msgq'[i + 1]].first = Last(msgq[i])' + 1
        BY <1>3, <3>2, <3>4, <4>1
      <4>3. ASSUME NEW i \in 1 .. n, i = n PROVE mem'[msgq'[i + 1]].first = Last(msgq[i])' + 1
        <5>1. Last(msgq[i])' = halves.accepted
          BY <3>2, <3>4, <4>3
        <5>2. mem'[msgq'[i + 1]].first = halves.accepted + 1
          BY <2>2, <4>3
        <5>. QED BY <5>1, <5>2
      <4>4. \A i \in 1 .. n : i = n \/ i \in 1 .. n - 1
        BY <1>3
      <4>. QED BY <4>2, <4>3, <4>4
    <3>6. \A i \in 1 .. Len(msgq') - 1 : mem'[msgq'[i + 1]].first = Last(msgq[i])' + 1
      BY <1>3, <3>5
    <3>. QED BY <1>3, <1>5, <2>3, <2>4, <3>3, <3>6 DEF StreamIntact
  <2>. QED BY <2>5, <2>6
<1>. QED BY <1>7, <1>8, <1>9, TypePartsNext DEF IInv

\* A report that finds the queue full has been written into a block that is
\* free and stays free.
LEMMA FullStep ==
    ASSUME IInv, NEW b \in free, NEW r \in [kind : Kinds, first : Nat], RestOK',
           mem' = [mem EXCEPT ![b] = r], UNCHANGED <<free, msgq, pending, halves>>
    PROVE  IInv'
<1>1. NrfOK /\ RestOK /\ BlocksAccounted /\ StreamIntact
  BY TypeParts DEF IInv
<1>2. NrfOK'
  BY <1>1 DEF NrfOK
<1>3. BlocksAccounted'
  BY <1>1 DEF BlocksAccounted, Queued
<1>4. /\ \A i \in 1 .. Len(msgq) : msgq[i] # b /\ msgq[i] \in Blocks
      /\ DOMAIN msgq = 1 .. Len(msgq) /\ Len(msgq) \in Nat
      /\ pending # b
  BY <1>1 DEF NrfOK, BlocksAccounted, Queued
<1>5. \A i \in 1 .. Len(msgq) : mem'[msgq[i]] = mem[msgq[i]]
  BY <1>1, <1>4 DEF NrfOK
<1>6. pending # None => mem'[pending] = mem[pending]
  BY <1>1, <1>4 DEF NrfOK
<1>7. \A i \in 1 .. Len(msgq) : Last(msgq[i])' = Last(msgq[i])
  BY <1>5 DEF Last
<1>8. StreamIntact'
  <2>1. CASE msgq = <<>>
    BY <1>1, <1>6, <2>1 DEF StreamIntact
  <2>2. CASE msgq # <<>>
    <3>1. Len(msgq) >= 1 /\ Head(msgq) = msgq[1]
      BY <1>1, <2>2, TailFacts DEF NrfOK
    <3>2. \A i \in 1 .. Len(msgq) - 1 : i \in 1 .. Len(msgq) /\ i + 1 \in 1 .. Len(msgq)
      BY <1>4
    <3>3. 1 \in 1 .. Len(msgq) /\ Len(msgq) \in 1 .. Len(msgq)
      BY <1>4, <3>1
    <3>4. /\ mem'[Head(msgq)].first = mem[Head(msgq)].first
          /\ \A i \in 1 .. Len(msgq) - 1 : mem'[msgq[i + 1]].first = mem[msgq[i + 1]].first
      BY <1>5, <3>1, <3>2, <3>3
    <3>. QED BY <1>1, <1>6, <1>7, <2>2, <3>2, <3>3, <3>4 DEF StreamIntact
  <2>. QED BY <2>1, <2>2
<1>. QED BY <1>2, <1>3, <1>8, TypePartsNext DEF IInv

LEMMA SendStep == ASSUME IInv, NEW kind \in Kinds, SendHidReport(kind) PROVE IInv'
<1>. DEFINE b == CHOOSE x \in free : TRUE
            r == [kind |-> kind, first |-> halves.accepted + 1]
<1>1. NrfOK /\ RestOK
  BY TypeParts DEF IInv
<1>2. RestOK'
  <2>1. count' \in [reports : Nat, faults : Nat]
    BY <1>1 DEF SendHidReport, RestOK
  <2>2. UNCHANGED <<sig, thread, slave, usb, host, config, mixed>>
    BY DEF SendHidReport
  <2>. QED BY <1>1, <2>1, <2>2 DEF RestOK
<1>3. r \in [kind : Kinds, first : Nat]
  BY <1>1 DEF NrfOK
<1>4. CASE free = {}
  BY <1>2, <1>4, MemoryUnchanged DEF SendHidReport
<1>5. CASE free # {} /\ UNCHANGED <<nrf, halves>>
  BY <1>2, <1>5, MemoryUnchanged
<1>6. CASE /\ free # {} /\ mem' = [mem EXCEPT ![b] = r] /\ UNCHANGED pending
           /\ IF Len(msgq) < Cardinality(Blocks)
              THEN /\ free' = free \ {b}
                   /\ msgq' = Append(msgq, b)
                   /\ halves' = [halves EXCEPT !.accepted = @ + Halves(kind)]
              ELSE UNCHANGED <<free, msgq, halves>>
  <2>1. b \in free
    BY <1>6
  <2>2. CASE Len(msgq) < Cardinality(Blocks)
    BY <1>2, <1>6, <2>1, <2>2, QueueStep
  <2>3. CASE ~(Len(msgq) < Cardinality(Blocks))
    BY <1>2, <1>3, <1>6, <2>1, <2>3, FullStep
  <2>. QED BY <2>2, <2>3
<1>. QED BY <1>4, <1>5, <1>6 DEF SendHidReport

-----------------------------------------------------------------------------
(* Steps of the timer, the rest of the thread, the CH32 and USB.           *)
LEMMA ReadType ==
    ASSUME RestOK, NEW pc \in {"poll", "retry", "forward"}, NEW n \in Nat, Transfer(pc, n),
           UNCHANGED <<sig, usb, host, config>>
    PROVE  RestOK'
<1>1. slave' \in [rx : Half, active : Half, new : BOOLEAN, buf : [Half -> Nat],
                  tx : Nat, at : Half, data : Nat, received : BOOLEAN,
                  pc : {"loop", "load", "pulse"}]
  BY TransferredType DEF Transfer
<1>. QED BY <1>1 DEF Transfer, RestOK

LEMMA FailedType ==
    ASSUME RestOK, FailedRead, UNCHANGED <<sig, usb, host, config>>
    PROVE  RestOK'
  BY DEF FailedRead, Handled, RestOK

LEMMA OtherThreadSteps == ASSUME IInv, Check \/ Reset \/ TickIdle \/ Read \/ Retry \/ Forward PROVE IInv'
<1>1. RestOK
  BY TypeParts DEF IInv
<1>2. CASE Check
  <2>1. RestOK'
    BY <1>1, <1>2 DEF Check, RestOK
  <2>. QED BY <1>2, <2>1, MemoryUnchanged DEF Check
<1>3. CASE Reset
  <2>1. RestOK'
    BY <1>1, <1>3 DEF Reset, RestOK
  <2>. QED BY <1>3, <2>1, MemoryUnchanged DEF Reset
<1>4. CASE TickIdle
  <2>1. RestOK'
    BY <1>1, <1>4 DEF TickIdle, Handle, Handled, RestOK
  <2>. QED BY <1>4, <2>1, MemoryUnchanged DEF TickIdle
<1>5. CASE Read
  <2>1. UNCHANGED <<nrf, halves, usb, host, config, sig>>
    BY <1>5 DEF Read, Handle
  <2>2. TxData \in Nat
    BY <1>1 DEF RestOK, TxData
  <2>3. RestOK'
    BY <1>1, <1>5, <2>1, <2>2, ReadType, FailedType DEF Read
  <2>. QED BY <2>1, <2>3, MemoryUnchanged
<1>6. CASE Retry
  <2>1. UNCHANGED <<nrf, halves, usb, host, config, sig>>
    BY <1>6 DEF Retry
  <2>2. RestOK'
    BY <1>1, <1>6, <2>1, ReadType, FailedType DEF Retry
  <2>. QED BY <2>1, <2>2, MemoryUnchanged
<1>7. CASE Forward
  <2>1. RestOK'
    BY <1>1, <1>7 DEF Forward, Handled, RestOK
  <2>. QED BY <1>7, <2>1, MemoryUnchanged DEF Forward
<1>. QED BY <1>2, <1>3, <1>4, <1>5, <1>6, <1>7

LEMMA SlaveSteps ==
    ASSUME IInv, SetReport \/ ClearReceived \/ UpdateTxData \/ SignalDataReady \/ Sof
    PROVE  IInv'
<1>1. RestOK
  BY TypeParts DEF IInv
<1>2. CASE SetReport
  <2>1. RestOK'
    <3>1. config.set + 1 \in Nat
      BY <1>1 DEF RestOK
    <3>2. config' \in [set : Nat, done : Nat]
      BY <1>1, <1>2, <3>1 DEF SetReport, RestOK
    <3>. QED BY <1>1, <1>2, <3>1, <3>2 DEF SetReport, RestOK
  <2>. QED BY <1>2, <2>1, MemoryUnchanged DEF SetReport
<1>3. CASE ClearReceived
  <2>1. RestOK'
    BY <1>1, <1>3 DEF ClearReceived, Loop, RestOK
  <2>. QED BY <1>3, <2>1, MemoryUnchanged DEF ClearReceived
<1>4. CASE UpdateTxData
  <2>1. RestOK'
    BY <1>1, <1>4 DEF UpdateTxData, Loop, RestOK, Half
  <2>. QED BY <1>4, <2>1, MemoryUnchanged DEF UpdateTxData
<1>5. CASE SignalDataReady
  <2>1. RestOK'
    BY <1>1, <1>5 DEF SignalDataReady, Loop, Raise, RestOK
  <2>. QED BY <1>5, <2>1, MemoryUnchanged DEF SignalDataReady
<1>6. CASE Sof
  <2>1. RestOK'
    BY <1>1, <1>6 DEF Sof, RestOK
  <2>. QED BY <1>6, <2>1, MemoryUnchanged DEF Sof
<1>. QED BY <1>2, <1>3, <1>4, <1>5, <1>6

LEMMA UsbSteps == ASSUME IInv, Tick \/ In \/ UsbUp \/ UsbDown PROVE IInv'
<1>1. RestOK
  BY TypeParts DEF IInv
<1>2. CASE Tick
  <2>1. RestOK'
    BY <1>1, <1>2 DEF Tick, Raise, RestOK
  <2>. QED BY <1>2, <2>1, MemoryUnchanged DEF Tick
<1>3. CASE In
  <2>1. RestOK'
    <3>1. slave.buf[usb.dma] \in Nat
      BY <1>1 DEF RestOK
    <3>2. usb' \in [up : BOOLEAN, busy : BOOLEAN, dma : Half]
      BY <1>1, <1>3 DEF In, RestOK
    <3>. QED BY <1>1, <1>3, <3>1, <3>2 DEF In, RestOK
  <2>. QED BY <1>3, <2>1, MemoryUnchanged DEF In
<1>4. CASE UsbUp
  <2>1. RestOK'
    <3>1. usb' \in [up : BOOLEAN, busy : BOOLEAN, dma : Half]
      BY <1>1, <1>4 DEF UsbUp, RestOK
    <3>. QED BY <1>1, <1>4, <3>1 DEF UsbUp, RestOK
  <2>. QED BY <1>4, <2>1, MemoryUnchanged DEF UsbUp
<1>5. CASE UsbDown
  <2>1. RestOK'
    <3>1. PICK busy \in {usb.busy, FALSE} :
             usb' = [usb EXCEPT !.up = FALSE, !.busy = busy]
      BY <1>5 DEF UsbDown
    <3>2. usb' \in [up : BOOLEAN, busy : BOOLEAN, dma : Half]
      BY <1>1, <3>1 DEF RestOK
    <3>3. count' \in [reports : Nat, faults : Nat]
      BY <1>1, <1>5 DEF UsbDown, RestOK
    <3>. QED BY <1>1, <1>5, <3>2, <3>3 DEF UsbDown, RestOK
  <2>. QED BY <1>5, <2>1, MemoryUnchanged DEF UsbDown
<1>. QED BY <1>2, <1>3, <1>4, <1>5

-----------------------------------------------------------------------------
LEMMA InitStep == Init => IInv
<1>. SUFFICES ASSUME Init PROVE IInv
  OBVIOUS
<1>1. NrfOK /\ RestOK
  <2>1. NrfOK
    BY DEF Init, NrfOK, Kinds
  <2>2. slave \in [rx : Half, active : Half, new : BOOLEAN, buf : [Half -> Nat],
                   tx : Nat, at : Half, data : Nat, received : BOOLEAN,
                   pc : {"loop", "load", "pulse"}]
    BY DEF Init, Half
  <2>3. usb \in [up : BOOLEAN, busy : BOOLEAN, dma : Half]
    BY DEF Init, Half
  <2>. QED BY <2>1, <2>2, <2>3 DEF Init, RestOK
<1>2. Queued = {} /\ DOMAIN msgq = {}
  BY DEF Init, Queued
<1>3. BlocksAccounted
  BY <1>2, BlocksAssumption DEF Init, BlocksAccounted
<1>4. StreamIntact
  BY DEF Init, StreamIntact
<1>. QED BY <1>1, <1>3, <1>4, TypeParts DEF IInv

LEMMA NextStep == IInv /\ [Next]_vars => IInv'
<1>. SUFFICES ASSUME IInv, [Next]_vars PROVE IInv'
  OBVIOUS
<1>1. ASSUME NEW kind \in Kinds, SendHidReport(kind) PROVE IInv'
  BY <1>1, SendStep
<1>2. CASE TickSecond \/ TickDual \/ TickSingle
  BY <1>2, SecondStep, DualStep, SingleStep
<1>3. CASE Check \/ Reset \/ TickIdle \/ Read \/ Retry \/ Forward
  BY <1>3, OtherThreadSteps
<1>4. CASE SetReport \/ ClearReceived \/ UpdateTxData \/ SignalDataReady \/ Sof
  BY <1>4, SlaveSteps
<1>5. CASE Tick \/ In \/ UsbUp \/ UsbDown
  BY <1>5, UsbSteps
<1>6. CASE UNCHANGED vars
  <2>1. RestOK'
    BY <1>6, TypeParts DEF IInv, RestOK, vars
  <2>. QED BY <1>6, <2>1, MemoryUnchanged DEF vars, nrf
<1>. QED BY <1>1, <1>2, <1>3, <1>4, <1>5, <1>6 DEF Next, ThreadStep

(* Every variable keeps its type.                                          *)
THEOREM TypeCorrect == Spec => []TypeOK
<1>1. IInv => TypeOK
  BY DEF IInv
<1>. QED BY <1>1, InitStep, NextStep, PTL DEF Spec

(* No block of the slab leaks, is queued twice or is freed while a report  *)
(* in it is still to be sent (modules/spi_master.c, thread_fn).            *)
THEOREM BlocksCorrect == Spec => []BlocksAccounted
<1>1. IInv => BlocksAccounted
  BY DEF IInv
<1>. QED BY <1>1, InitStep, NextStep, PTL DEF Spec

(* No report that the radio's interrupt has accepted is lost, doubled or   *)
(* overtaken on its way to SPI, whatever interrupts and errors come.       *)
THEOREM StreamCorrect == Spec => []StreamIntact
<1>1. IInv => StreamIntact
  BY DEF IInv
<1>. QED BY <1>1, InitStep, NextStep, PTL DEF Spec

(* A report that got a block always finds room in the queue: the branch of *)
(* send_hid_report that frees the block again is never taken (esb_rx.c,    *)
(* "Pointer MSGQ full, freeing slab block").                               *)
THEOREM QueueNeverFull == Spec => [](free # {} => Len(msgq) < Cardinality(Blocks))
<1>1. ASSUME IInv, free # {} PROVE Len(msgq) < Cardinality(Blocks)
  <2>. DEFINE n == Len(msgq)
  <2>1. NrfOK /\ BlocksAccounted
    BY <1>1, TypeParts DEF IInv
  <2>2. msgq \in [1 .. n -> Queued] /\ n \in Nat /\ Queued \in SUBSET Blocks
    BY <2>1 DEF NrfOK, Queued
  <2>3. \A i, j \in 1 .. n : msgq[i] = msgq[j] => i = j
    BY <2>1, <2>2 DEF BlocksAccounted
  <2>4. \A x \in Queued : \E i \in 1 .. n : msgq[i] = x
    BY <2>2 DEF Queued
  <2>5. msgq \in Bijection(1 .. n, Queued)
    BY <2>2, <2>3, <2>4, Fun_IsBij
  <2>6. Cardinality(Queued) = n
    BY <2>2, <2>5, FS_CountingElements DEF ExistsBijection
  <2>7. Queued # Blocks
    BY <1>1, <2>1 DEF NrfOK, BlocksAccounted
  <2>8. Cardinality(Queued) <= Cardinality(Blocks) /\ Cardinality(Queued) # Cardinality(Blocks)
    BY <2>2, <2>7, FS_Subset, BlocksAssumption
  <2>9. Cardinality(Blocks) \in Nat
    BY BlocksAssumption, FS_CardinalityType
  <2>. QED BY <2>2, <2>6, <2>8, <2>9
<1>. QED BY <1>1, InitStep, NextStep, PTL DEF Spec

-----------------------------------------------------------------------------
(* The way from SPI to the host.                                           *)

\* As long as nothing but mouse reports was on SPI, the half that the DMA wrote
\* last (active) is the newest, nothing is newer than what SPI had, and the host
\* has nothing newer than what the next frame arms, or the endpoint has armed.
NewestActive ==
    ~mixed => /\ \A h \in Half : slave.buf[h] <= slave.buf[slave.active]
              /\ slave.buf[slave.active] <= halves.wire
              /\ host <= slave.buf[slave.active]
              /\ usb.busy => host <= slave.buf[usb.dma]

\* A step that leaves the buffers, the endpoint and the host alone, or has a
\* configuration on SPI.
LEMMA BuffersUnchanged ==
    ASSUME IInv, NewestActive,
           \/ mixed'
           \/ /\ UNCHANGED <<host, mixed>> /\ halves'.wire = halves.wire
              /\ slave'.buf = slave.buf /\ slave'.active = slave.active
              /\ usb'.busy => usb.busy /\ usb'.dma = usb.dma
    PROVE  NewestActive'
  BY DEF NewestActive

\* The half that goes to SPI is the next one, so that it is newer than both
\* halves of the buffer; the DMA may write it into the one that is armed.
LEMMA WriteKeepsNewest ==
    ASSUME IInv, NewestActive, NEW id, Write(id, halves.wire + 1)
    PROVE  NewestActive'
<1>. DEFINE n == halves.wire + 1
<1>1. /\ halves.wire \in Nat /\ host \in Nat
      /\ slave \in [rx : Half, active : Half, new : BOOLEAN, buf : [Half -> Nat],
                    tx : Nat, at : Half, data : Nat, received : BOOLEAN,
                    pc : {"loop", "load", "pulse"}]
      /\ usb \in [up : BOOLEAN, busy : BOOLEAN, dma : Half]
  BY DEF IInv, TypeOK
<1>2. halves'.wire = n /\ UNCHANGED <<usb, host>>
  BY <1>1 DEF Write, IInv, TypeOK
<1>3. CASE UNCHANGED <<slave, mixed>>
  BY <1>1, <1>2, <1>3 DEF NewestActive
<1>4. CASE Transferred(id, n) /\ mixed' = (mixed \/ id # "mouse")
  <2>1. SUFFICES ASSUME ~mixed' PROVE NewestActive'
    BY DEF NewestActive
  <2>2. ~mixed /\ id = "mouse"
    BY <1>4, <2>1
  <2>3. slave'.active = slave.rx /\ slave'.buf = [slave.buf EXCEPT ![slave.rx] = n]
    BY <1>1, <1>4, <2>2 DEF Transferred
  <2>4. \A h \in Half : slave.buf[h] \in Nat /\ slave.buf[h] <= halves.wire
    BY <1>1, <2>2 DEF NewestActive
  <2>5. slave'.buf[slave.rx] = n /\ slave.rx \in Half
    BY <1>1, <2>3
  <2>6. \A h \in Half : slave'.buf[h] = slave.buf[h] \/ slave'.buf[h] = n
    BY <1>1, <2>3
  <2>7. \A h \in Half : slave.buf[h] <= slave'.buf[h]
    BY <1>1, <2>4, <2>6
  <2>8. \A h \in Half : slave'.buf[h] <= n
    BY <1>1, <2>4, <2>6
  <2>9. host <= n
    BY <1>1, <2>2, <2>4 DEF NewestActive
  <2>10. usb.busy => host <= slave'.buf[usb.dma]
    <3>1. SUFFICES ASSUME usb.busy PROVE host <= slave'.buf[usb.dma]
      OBVIOUS
    <3>2. usb.dma \in Half /\ host <= slave.buf[usb.dma]
      BY <1>1, <2>2, <3>1 DEF NewestActive
    <3>3. slave'.buf[usb.dma] \in Nat /\ slave.buf[usb.dma] \in Nat
      BY <1>1, <2>4, <2>6, <3>2
    <3>. QED BY <1>1, <2>7, <3>2, <3>3
  <2>. QED BY <1>1, <1>2, <2>3, <2>5, <2>8, <2>9, <2>10 DEF NewestActive
<1>. QED BY <1>3, <1>4 DEF Write

LEMMA InitNewest == Init => NewestActive
  BY DEF Init, NewestActive, Half

LEMMA NextNewest == IInv /\ NewestActive /\ [Next]_vars => NewestActive'
<1>. SUFFICES ASSUME IInv, NewestActive, [Next]_vars PROVE NewestActive'
  OBVIOUS
<1>1. /\ halves \in [accepted : Nat, wire : Nat] /\ host \in Nat
      /\ slave \in [rx : Half, active : Half, new : BOOLEAN, buf : [Half -> Nat],
                    tx : Nat, at : Half, data : Nat, received : BOOLEAN,
                    pc : {"loop", "load", "pulse"}]
      /\ usb \in [up : BOOLEAN, busy : BOOLEAN, dma : Half] /\ StreamIntact
  BY DEF IInv, TypeOK
<1>2. ASSUME NEW kind \in Kinds, SendHidReport(kind) PROVE NewestActive'
  <2>1. halves'.wire = halves.wire
    BY <1>1, <1>2 DEF SendHidReport, nrf
  <2>. QED BY <1>2, <2>1, BuffersUnchanged DEF SendHidReport
<1>3. CASE TickSecond
  <2>1. pending # None /\ Write("mouse", mem[pending].first + 1)
    BY <1>3 DEF TickSecond
  <2>. QED BY <1>1, <2>1, WriteKeepsNewest DEF StreamIntact
<1>4. CASE TickDual
  <2>1. Write("mouse", mem[Head(msgq)].first) /\ mem[Head(msgq)].first = halves.wire + 1
    BY <1>1, <1>4, Fetched DEF TickDual
  <2>. QED BY <2>1, WriteKeepsNewest
<1>5. CASE TickSingle
  <2>1. /\ Write(mem[Head(msgq)].kind, mem[Head(msgq)].first)
        /\ mem[Head(msgq)].first = halves.wire + 1
    BY <1>1, <1>5, Fetched DEF TickSingle
  <2>. QED BY <2>1, WriteKeepsNewest
<1>6. CASE Check \/ Reset \/ TickIdle \/ Forward
  BY <1>6, BuffersUnchanged DEF Check, Reset, TickIdle, Forward
<1>7. CASE Read \/ Retry
  <2>1. mixed' \/ (UNCHANGED <<slave, mixed>>)
    BY <1>7 DEF Read, Retry, Transfer, FailedRead
  <2>2. UNCHANGED <<halves, usb, host>>
    BY <1>7 DEF Read, Retry
  <2>. QED BY <2>1, <2>2, BuffersUnchanged
<1>8. CASE SetReport \/ ClearReceived \/ UpdateTxData \/ SignalDataReady
  <2>1. UNCHANGED <<halves, usb, host, mixed>>
    BY <1>8 DEF SetReport, ClearReceived, UpdateTxData, SignalDataReady
  <2>2. slave'.buf = slave.buf /\ slave'.active = slave.active
    BY <1>1, <1>8 DEF SetReport, ClearReceived, UpdateTxData, SignalDataReady, Loop
  <2>. QED BY <2>1, <2>2, BuffersUnchanged
<1>9. CASE Sof
  <2>1. usb'.busy /\ usb'.dma = slave.active /\ UNCHANGED <<halves, host, mixed>>
    BY <1>1, <1>9 DEF Sof
  <2>2. slave'.buf = slave.buf /\ slave'.active = slave.active
    BY <1>1, <1>9 DEF Sof
  <2>. QED BY <2>1, <2>2 DEF NewestActive
<1>10. CASE In
  <2>1. /\ usb.busy /\ host' = slave.buf[usb.dma] /\ ~usb'.busy
        /\ UNCHANGED <<slave, halves, mixed>>
    BY <1>1, <1>10 DEF In
  <2>. QED BY <1>1, <2>1 DEF NewestActive
<1>11. CASE Tick \/ UsbUp
  BY <1>1, <1>11, BuffersUnchanged DEF Tick, UsbUp
<1>12. CASE UsbDown
  <2>1. PICK busy \in {usb.busy, FALSE} : usb' = [usb EXCEPT !.up = FALSE, !.busy = busy]
    BY <1>12 DEF UsbDown
  <2>2. usb'.busy => usb.busy /\ usb'.dma = usb.dma
    BY <1>1, <2>1
  <2>. QED BY <1>12, <2>2, BuffersUnchanged DEF UsbDown
<1>13. CASE UNCHANGED vars
  BY <1>13, BuffersUnchanged DEF vars
<1>. QED
  BY <1>2, <1>3, <1>4, <1>5, <1>6, <1>7, <1>8, <1>9, <1>10, <1>11, <1>12, <1>13
  DEF Next, ThreadStep

(* The host never gets a report that is older than the one it had, however *)
(* the DMA's interrupts, frames, the host's polls, failed transfers and    *)
(* resets interleave (spi_slave.c and the SOF handler of the CH32).        *)
THEOREM NeverOlder == Spec => HostNeverGoesBack
<1>1. IInv /\ NewestActive /\ [Next]_vars => [~mixed => host' >= host]_vars
  <2>. SUFFICES ASSUME IInv, NewestActive, Next, ~mixed PROVE host' >= host
    OBVIOUS
  <2>1. host \in Nat
    BY DEF IInv, TypeOK
  <2>2. CASE In
    <3>1. usb.busy /\ host' = slave.buf[usb.dma]
      BY <2>2 DEF In
    <3>2. host' \in Nat
      BY <3>1 DEF IInv, TypeOK
    <3>. QED BY <2>1, <3>1, <3>2 DEF NewestActive
  <2>3. CASE UNCHANGED host
    BY <2>1, <2>3
  <2>4. In \/ UNCHANGED host
    BY DEF Next, ThreadStep, SendHidReport, Tick, Check, Reset, TickSecond, TickDual,
           TickSingle, TickIdle, Write, Read, Retry, Forward, SetReport, ClearReceived,
           UpdateTxData, SignalDataReady, Sof, UsbUp, UsbDown
  <2>. QED BY <2>2, <2>3, <2>4
<1>. QED BY <1>1, InitStep, NextStep, InitNewest, NextNewest, PTL DEF Spec, HostNeverGoesBack
=============================================================================
