-------------------------- MODULE HidReportqProofs --------------------------
(***************************************************************************)
(* The safety invariants of HidReportq, and that it implements             *)
(* HidReportStream, for every number of queues, reports and subscribers    *)
(* and every queue limit.                                                  *)
(***************************************************************************)
EXTENDS HidReportq, TLAPS

(* A waiting report has its turn before the round robin has gone round     *)
(* once: what NoStarvation needs to be inductive.                          *)
TurnComes ==
    \A q \in Queues, r \in Reports :
        IF report_lists[q][r] = <<>>
        THEN passed[q][r] = 0
        ELSE passed[q][r] + Distance(last_sent[q], r) <= NReports

IInv ==
    /\ TypeOK
    /\ WindowExact
    /\ WaitsOnlyWhenFull
    /\ QueuedIsSubscribed
    /\ FreeQueueIsClean
    /\ OrderKept
    /\ NewestKept
    /\ TurnComes

-----------------------------------------------------------------------------
(* enqueue_event keeps a list within its limit and puts the new event last *)
(* or, with a limit of one, alone.                                         *)
LEMMA EnqueueFacts ==
    ASSUME NEW list \in Seq(Nat), NEW event \in Nat, Len(list) <= MaxEnqueued
    PROVE  /\ Enqueue(list, event) \in Seq(Nat)
           /\ Enqueue(list, event) # <<>>
           /\ Len(Enqueue(list, event)) <= MaxEnqueued
           /\ Enqueue(list, event)[Len(Enqueue(list, event))] = event
<1> USE SizesAssumption
<1>1. CASE Len(list) < MaxEnqueued
  BY <1>1 DEF Enqueue
<1>2. CASE ~(Len(list) < MaxEnqueued)
  <2>1. Len(list) = MaxEnqueued /\ list # <<>>
    BY <1>2
  <2>2. Tail(list) \in Seq(Nat) /\ Len(Tail(list)) = Len(list) - 1
    BY <2>1
  <2> QED
    BY <1>2, <2>1, <2>2 DEF Enqueue
<1> QED
  BY <1>1, <1>2

(* Taking the oldest event out of an ordered list leaves it ordered.       *)
LEMMA TailInOrder ==
    ASSUME NEW list \in Seq(Nat), NEW low \in Nat, NEW high \in Nat,
           list # <<>>, InOrder(list, low, high)
    PROVE  /\ Head(list) \in Nat /\ low < Head(list) /\ Head(list) <= high
           /\ Tail(list) \in Seq(Nat)
           /\ InOrder(Tail(list), Head(list), high)
           /\ InOrder(Tail(list), low, high)
<1>1. /\ Len(list) \in Nat \ {0} /\ Head(list) = list[1] /\ list[1] \in Nat
      /\ Tail(list) \in Seq(Nat) /\ Len(Tail(list)) = Len(list) - 1
      /\ \A i \in 1 .. Len(list) - 1 : Tail(list)[i] = list[i + 1] /\ list[i + 1] \in Nat
  OBVIOUS
<1>2. 1 \in 1 .. Len(list) /\ low < list[1] /\ list[1] <= high
  BY <1>1 DEF InOrder
<1>3. ASSUME NEW i \in 1 .. Len(list) - 1
      PROVE  /\ list[1] < list[i + 1] /\ list[i + 1] <= high
             /\ \A j \in 1 .. i - 1 : list[j + 1] < list[i + 1]
  <2>1. i + 1 \in 1 .. Len(list) /\ \A j \in 1 .. i - 1 : j + 1 \in 1 .. (i + 1) - 1
    BY <1>1
  <2>2. 1 \in 1 .. (i + 1) - 1
    OBVIOUS
  <2> QED
    BY <2>1, <2>2 DEF InOrder
<1>4. \A i \in 1 .. Len(list) - 1 : low < list[i + 1]
  BY <1>1, <1>2, <1>3
<1> QED
  BY <1>1, <1>2, <1>3, <1>4 DEF InOrder

(* Appending a later event to an ordered list leaves it ordered.           *)
LEMMA AppendInOrder ==
    ASSUME NEW list \in Seq(Nat), NEW low \in Nat, NEW high \in Nat,
           low <= high, InOrder(list, low, high)
    PROVE  InOrder(Append(list, high + 1), low, high + 1)
<1>1. /\ Len(Append(list, high + 1)) = Len(list) + 1 /\ Len(list) \in Nat
      /\ Append(list, high + 1)[Len(list) + 1] = high + 1
      /\ \A i \in 1 .. Len(list) : Append(list, high + 1)[i] = list[i] /\ list[i] \in Nat
  OBVIOUS
<1>2. ASSUME NEW i \in 1 .. Len(list) + 1
      PROVE  /\ low < Append(list, high + 1)[i] /\ Append(list, high + 1)[i] <= high + 1
             /\ \A j \in 1 .. i - 1 : Append(list, high + 1)[j] < Append(list, high + 1)[i]
  <2>1. CASE i = Len(list) + 1
    BY <1>1, <2>1 DEF InOrder
  <2>2. CASE i # Len(list) + 1
    <3>1. i \in 1 .. Len(list) /\ \A j \in 1 .. i - 1 : j \in 1 .. Len(list)
      BY <1>1, <2>2
    <3> QED
      BY <1>1, <3>1 DEF InOrder
  <2> QED
    BY <2>1, <2>2
<1> QED
  BY <1>1, <1>2 DEF InOrder

(* Of the waiting reports one is the first that the search meets.          *)
LEMMA DistanceFacts ==
    ASSUME NEW i \in Reports, NEW r \in Reports
    PROVE  /\ Distance(i, r) \in 1 .. NReports
           /\ \A s \in Reports :
                s # r /\ Distance(i, r) <= Distance(i, s)
                    => Distance(r, s) + 1 <= Distance(i, s)
BY SizesAssumption DEF Distance, Reports

THEOREM InitIInv == Init => IInv
<1> SUFFICES ASSUME Init PROVE IInv
  OBVIOUS
<1> USE SizesAssumption, NoSubAssumption
<1>1. /\ 0 \in Reports /\ <<>> \in Seq(Nat)
      /\ NoLists \in [Reports -> Seq(Nat)] /\ Zeros \in [Reports -> Nat]
  BY DEF Reports, NoLists, Zeros
<1>2. TypeOK
  BY <1>1 DEF Init, TypeOK
<1>3. \A q \in Queues, r \in Reports :
        report_lists[q][r] = <<>> /\ passed[q][r] = 0 /\ added[q][r] = 0 /\ submitted[q][r] = 0
  BY DEF Init, NoLists, Zeros
<1>4. WindowExact /\ FreeQueueIsClean
  BY DEF Init, WindowExact, FreeQueueIsClean, Allocated
<1>5. WaitsOnlyWhenFull /\ QueuedIsSubscribed /\ TurnComes
  BY <1>3 DEF WaitsOnlyWhenFull, Waiting, QueuedIsSubscribed, TurnComes
<1>6. OrderKept /\ NewestKept
  BY <1>3 DEF OrderKept, NewestKept, InOrder
<1> QED
  BY <1>2, <1>4, <1>5, <1>6 DEF IInv

-----------------------------------------------------------------------------
LEMMA AllocStep ==
    ASSUME IInv, NEW q \in Queues, NEW s \in Subs, NEW max \in 1 .. MaxReportMax,
           Alloc(q, s, max)
    PROVE  IInv'
<1> USE SizesAssumption, NoSubAssumption DEF IInv, Alloc
<1>0. max \in 0 .. 255
  OBVIOUS
<1>1. TypeOK'
  <2>1. sub_id' \in [Queues -> Subs \cup {NoSub}]
    BY DEF TypeOK
  <2>2. report_max' \in [Queues -> 0 .. 255]
    BY <1>0 DEF TypeOK
  <2> QED
    BY <2>1, <2>2 DEF TypeOK
<1>2. WindowExact'
  BY DEF WindowExact, TypeOK, FreeQueueIsClean, Allocated
<1>3. Waiting(q) = {}
  BY DEF FreeQueueIsClean, NoLists, Waiting
<1>4. WaitsOnlyWhenFull'
  <2>1. \A p \in Queues : Waiting(p)' = Waiting(p)
    BY DEF Waiting
  <2>2. \A p \in Queues : p # q => report_max'[p] = report_max[p] /\ report_cnt'[p] = report_cnt[p]
    BY DEF TypeOK
  <2> QED
    BY <1>3, <2>1, <2>2 DEF WaitsOnlyWhenFull
<1>5. QueuedIsSubscribed'
  BY DEF QueuedIsSubscribed
<1>6. FreeQueueIsClean'
  BY DEF FreeQueueIsClean, Allocated, TypeOK
<1>7. OrderKept' /\ NewestKept' /\ TurnComes'
  BY DEF OrderKept, NewestKept, TurnComes
<1> QED
  BY <1>1, <1>2, <1>4, <1>5, <1>6, <1>7

LEMMA FreeStep ==
    ASSUME IInv, NEW q \in Queues, Free(q)
    PROVE  IInv'
<1> USE SizesAssumption, NoSubAssumption DEF IInv
<1>1. /\ 0 \in Reports /\ <<>> \in Seq(Nat)
      /\ NoLists \in [Reports -> Seq(Nat)] /\ Zeros \in [Reports -> Nat]
  BY DEF Reports, NoLists, Zeros
<1>2. TypeOK'
  <2>1. TypeOK
    OBVIOUS
  <2>2. sub_id' \in [Queues -> Subs \cup {NoSub}] /\ last_sent' \in [Queues -> Reports]
    BY <1>1, <2>1 DEF TypeOK, Free
  <2>4. enabled' \in [Queues -> SUBSET Reports]
    BY <2>1 DEF TypeOK, Free
  <2>5. report_max' \in [Queues -> 0 .. 255]
    BY <2>1 DEF TypeOK, Free
  <2>8. report_cnt' \in [Queues -> 0 .. 255]
    BY <2>1 DEF TypeOK, Free
  <2>6. inflight' \in [Queues -> Nat]
    BY <2>1 DEF TypeOK, Free
  <2>3. /\ report_lists' \in [Queues -> [Reports -> Seq(Nat)]]
        /\ added' \in [Queues -> [Reports -> Nat]]
    BY <1>1, <2>1 DEF TypeOK, Free
  <2>7. /\ submitted' \in [Queues -> [Reports -> Nat]]
        /\ passed' \in [Queues -> [Reports -> Nat]]
    BY <1>1, <2>1 DEF TypeOK, Free
  <2> QED
    BY <2>2, <2>3, <2>4, <2>5, <2>6, <2>7, <2>8 DEF TypeOK
<1>3. \A r \in Reports :
        /\ report_lists'[q][r] = <<>> /\ passed'[q][r] = 0
        /\ added'[q][r] = 0 /\ submitted'[q][r] = 0
  BY DEF Free, TypeOK, NoLists, Zeros
<1>4. \A p \in Queues \ {q} :
        /\ sub_id'[p] = sub_id[p] /\ enabled'[p] = enabled[p] /\ last_sent'[p] = last_sent[p]
        /\ report_max'[p] = report_max[p] /\ report_cnt'[p] = report_cnt[p]
        /\ report_lists'[p] = report_lists[p] /\ inflight'[p] = inflight[p]
        /\ added'[p] = added[p] /\ submitted'[p] = submitted[p] /\ passed'[p] = passed[p]
  BY DEF Free, TypeOK
<1>5. WindowExact' /\ FreeQueueIsClean'
  <2>1. /\ enabled'[q] = {} /\ last_sent'[q] = 0 /\ report_max'[q] = 0
        /\ report_cnt'[q] = 0 /\ inflight'[q] = 0 /\ report_lists'[q] = NoLists
    BY DEF Free, TypeOK
  <2>2. WindowExact'
    BY <1>4, <2>1 DEF WindowExact
  <2>3. FreeQueueIsClean'
    BY <1>4, <2>1 DEF FreeQueueIsClean, Allocated
  <2> QED
    BY <2>2, <2>3
<1>6. WaitsOnlyWhenFull' /\ QueuedIsSubscribed'
  BY <1>3, <1>4 DEF WaitsOnlyWhenFull, Waiting, QueuedIsSubscribed
<1>7. OrderKept' /\ NewestKept'
  BY <1>3, <1>4 DEF OrderKept, NewestKept, InOrder
<1>8. TurnComes'
  BY <1>3, <1>4 DEF TurnComes
<1> QED
  BY <1>2, <1>5, <1>6, <1>7, <1>8

LEMMA SubscribeStep ==
    ASSUME IInv, NEW q \in Queues, NEW r \in Reports, Subscribe(q, r)
    PROVE  IInv'
<1> USE DEF IInv, Subscribe
<1>1. TypeOK'
  <2>1. enabled' \in [Queues -> SUBSET Reports]
    BY DEF TypeOK
  <2> QED
    BY <2>1 DEF TypeOK
<1>2. WindowExact' /\ WaitsOnlyWhenFull'
  BY DEF WindowExact, WaitsOnlyWhenFull, Waiting
<1>3. QueuedIsSubscribed'
  <2>1. \A p \in Queues : enabled[p] \subseteq enabled'[p]
    BY DEF TypeOK
  <2> QED
    BY <2>1 DEF QueuedIsSubscribed
<1>4. FreeQueueIsClean'
  BY DEF FreeQueueIsClean, Allocated, TypeOK
<1>5. OrderKept' /\ NewestKept' /\ TurnComes'
  BY DEF OrderKept, NewestKept, TurnComes
<1> QED
  BY <1>1, <1>2, <1>3, <1>4, <1>5

LEMMA UnsubscribeStep ==
    ASSUME IInv, NEW q \in Queues, NEW r \in Reports, Unsubscribe(q, r)
    PROVE  IInv'
<1> USE DEF IInv
<1>1. TypeOK'
  <2>1. TypeOK /\ <<>> \in Seq(Nat)
    OBVIOUS
  <2>2. enabled' \in [Queues -> SUBSET Reports]
    BY <2>1 DEF TypeOK, Unsubscribe
  <2>3. report_lists' \in [Queues -> [Reports -> Seq(Nat)]]
    BY <2>1 DEF TypeOK, Unsubscribe
  <2>4. /\ added' \in [Queues -> [Reports -> Nat]]
        /\ submitted' \in [Queues -> [Reports -> Nat]]
        /\ passed' \in [Queues -> [Reports -> Nat]]
    BY <2>1 DEF TypeOK, Unsubscribe
  <2> QED
    BY <2>2, <2>3, <2>4 DEF TypeOK, Unsubscribe
<1>2. /\ report_lists'[q][r] = <<>> /\ passed'[q][r] = 0
      /\ added'[q][r] = 0 /\ submitted'[q][r] = 0
  BY DEF Unsubscribe, TypeOK
<1>3. \A p \in Queues, s \in Reports : <<p, s>> # <<q, r>> =>
        /\ report_lists'[p][s] = report_lists[p][s] /\ passed'[p][s] = passed[p][s]
        /\ added'[p][s] = added[p][s] /\ submitted'[p][s] = submitted[p][s]
        /\ s \in enabled'[p] <=> s \in enabled[p]
  BY DEF Unsubscribe, TypeOK
<1>4. WindowExact'
  BY DEF WindowExact, Unsubscribe
<1>5. WaitsOnlyWhenFull'
  <2>1. \A p \in Queues : Waiting(p)' \subseteq Waiting(p)
    BY <1>2, <1>3 DEF Waiting
  <2> QED
    BY <2>1 DEF WaitsOnlyWhenFull, Unsubscribe
<1>6. QueuedIsSubscribed'
  BY <1>2, <1>3, SizesAssumption DEF QueuedIsSubscribed
<1>7. FreeQueueIsClean'
  <2>1. \A p \in Queues : ~Allocated(p)' =>
            /\ p # q /\ enabled'[p] = enabled[p] /\ report_lists'[p] = report_lists[p]
    BY DEF Unsubscribe, TypeOK, Allocated
  <2> QED
    BY <2>1 DEF FreeQueueIsClean, Unsubscribe, Allocated
<1>8. OrderKept'
  BY <1>2, <1>3 DEF OrderKept, InOrder, Unsubscribe
<1>9. NewestKept'
  BY <1>2, <1>3 DEF NewestKept
<1>10. TurnComes'
  BY <1>2, <1>3 DEF TurnComes, Unsubscribe
<1> QED
  BY <1>1, <1>4, <1>5, <1>6, <1>7, <1>8, <1>9, <1>10

LEMMA AddSubmitStep ==
    ASSUME IInv, NEW q \in Queues, NEW r \in Reports, ReportAdd(q, r), AddSubmit(q, r)
    PROVE  IInv'
<1> USE DEF IInv
<1>0. /\ report_cnt[q] \in 0 .. 255 /\ report_max[q] \in 0 .. 255
      /\ report_cnt[q] < report_max[q] /\ inflight[q] \in Nat
  BY DEF TypeOK, AddSubmit
<1>1. TypeOK'
  <2>1. report_cnt[q] + 1 \in 0 .. 255 /\ inflight[q] + 1 \in Nat
    BY ONLY <1>0
  <2>2. report_cnt' \in [Queues -> 0 .. 255] /\ inflight' \in [Queues -> Nat]
    BY <2>1 DEF TypeOK, AddSubmit
  <2>3. last_sent' \in [Queues -> Reports]
    BY DEF TypeOK, AddSubmit
  <2>4. submitted' \in [Queues -> [Reports -> Nat]]
    BY DEF TypeOK, AddSubmit
  <2>5. added' \in [Queues -> [Reports -> Nat]]
    BY DEF TypeOK, ReportAdd
  <2> QED
    BY <2>2, <2>3, <2>4, <2>5 DEF TypeOK, AddSubmit, ReportAdd
<1>2. /\ submitted'[q][r] = added[q][r] + 1 /\ added'[q][r] = added[q][r] + 1
      /\ \A p \in Queues, s \in Reports : <<p, s>> # <<q, r>> =>
            submitted'[p][s] = submitted[p][s] /\ added'[p][s] = added[p][s]
  BY DEF TypeOK, AddSubmit, ReportAdd
<1>3. \A s \in Reports : report_lists[q][s] = <<>>
  <2>1. Waiting(q) = {}
    BY <1>0 DEF WaitsOnlyWhenFull
  <2> QED
    BY <2>1 DEF Waiting
<1>4. WindowExact'
  <2>1. /\ report_cnt'[q] = report_cnt[q] + 1 /\ inflight'[q] = inflight[q] + 1
        /\ \A p \in Queues \ {q} : report_cnt'[p] = report_cnt[p] /\ inflight'[p] = inflight[p]
    BY DEF AddSubmit, TypeOK
  <2> QED
    BY <1>0, <2>1 DEF WindowExact, ReportAdd
<1>5. WaitsOnlyWhenFull'
  <2>1. Waiting(q) = {} /\ \A p \in Queues : Waiting(p)' = Waiting(p)
    BY <1>3 DEF Waiting, AddSubmit
  <2> QED
    BY <2>1 DEF WaitsOnlyWhenFull, AddSubmit, ReportAdd, TypeOK
<1>6. QueuedIsSubscribed'
  BY DEF QueuedIsSubscribed, AddSubmit, ReportAdd
<1>7. FreeQueueIsClean'
  BY DEF FreeQueueIsClean, Allocated, AddSubmit, ReportAdd, TypeOK
<1>8. OrderKept'
  BY <1>2, <1>3 DEF OrderKept, InOrder, AddSubmit
<1>9. NewestKept'
  BY <1>2 DEF NewestKept, AddSubmit
<1>10. TurnComes'
  BY <1>3 DEF TurnComes, AddSubmit, TypeOK
<1> QED
  BY <1>1, <1>4, <1>5, <1>6, <1>7, <1>8, <1>9, <1>10

LEMMA AddEnqueueStep ==
    ASSUME IInv, NEW q \in Queues, NEW r \in Reports, ReportAdd(q, r), AddEnqueue(q, r)
    PROVE  IInv'
<1>0. /\ TypeOK /\ WindowExact /\ WaitsOnlyWhenFull /\ QueuedIsSubscribed
      /\ FreeQueueIsClean /\ OrderKept /\ NewestKept /\ TurnComes
  BY DEF IInv
<1> DEFINE old == report_lists[q][r]
           new == Enqueue(old, added[q][r] + 1)
<1>1. old \in Seq(Nat) /\ added[q][r] \in Nat /\ Len(old) <= MaxEnqueued
  BY <1>0 DEF TypeOK, QueuedIsSubscribed
<1>2. /\ new \in Seq(Nat) /\ new # <<>> /\ Len(new) <= MaxEnqueued
      /\ new[Len(new)] = added[q][r] + 1
  BY <1>1, EnqueueFacts
<1>3. /\ report_lists'[q][r] = new
      /\ added'[q][r] = added[q][r] + 1
      /\ \A p \in Queues, s \in Reports : <<p, s>> # <<q, r>> =>
            report_lists'[p][s] = report_lists[p][s] /\ added'[p][s] = added[p][s]
  <2>1. /\ report_lists'[q][r] = new
        /\ \A p \in Queues, s \in Reports : <<p, s>> # <<q, r>> =>
              report_lists'[p][s] = report_lists[p][s]
    BY <1>0 DEF TypeOK, AddEnqueue
  <2>2. /\ added'[q][r] = added[q][r] + 1
        /\ \A p \in Queues, s \in Reports : <<p, s>> # <<q, r>> => added'[p][s] = added[p][s]
    BY <1>0 DEF TypeOK, ReportAdd
  <2> QED
    BY <2>1, <2>2
<1> HIDE DEF new
<1>4. TypeOK'
  <2>1. report_lists' \in [Queues -> [Reports -> Seq(Nat)]]
    BY <1>0, <1>2 DEF TypeOK, AddEnqueue, new
  <2>2. added' \in [Queues -> [Reports -> Nat]]
    BY <1>0 DEF TypeOK, ReportAdd
  <2> QED
    BY <1>0, <2>1, <2>2 DEF TypeOK, AddEnqueue, ReportAdd
<1>5. WindowExact'
  BY <1>0 DEF WindowExact, AddEnqueue, ReportAdd
<1>6. WaitsOnlyWhenFull'
  <2>1. report_cnt[q] = report_max[q]
    <3>1. report_cnt[q] \in 0 .. 255 /\ report_max[q] \in 0 .. 255
      BY <1>0 DEF TypeOK
    <3>2. ~(report_cnt[q] < report_max[q])
      BY DEF AddEnqueue
    <3>3. report_cnt[q] <= report_max[q]
      BY <1>0 DEF WindowExact
    <3>4. \A m, n \in 0 .. 255 : ~(m < n) /\ m <= n => m = n
      OBVIOUS
    <3> QED
      BY <3>1, <3>2, <3>3, <3>4
  <2>2. \A p \in Queues : p # q => Waiting(p)' = Waiting(p)
    BY <1>3 DEF Waiting
  <2> QED
    BY <1>0, <2>1, <2>2 DEF WaitsOnlyWhenFull, AddEnqueue, ReportAdd
<1>7. QueuedIsSubscribed'
  BY <1>0, <1>2, <1>3 DEF QueuedIsSubscribed, ReportAdd
<1>8. FreeQueueIsClean'
  <2>1. \A p \in Queues : ~Allocated(p)' => p # q /\ report_lists'[p] = report_lists[p]
    BY <1>0 DEF AddEnqueue, ReportAdd, Allocated, TypeOK
  <2> QED
    BY <1>0, <2>1 DEF FreeQueueIsClean, Allocated, AddEnqueue, ReportAdd
<1>9. submitted[q][r] <= added[q][r] /\ submitted[q][r] \in Nat
  <2>1. submitted[q][r] \in Nat /\ InOrder(old, submitted[q][r], added[q][r])
    BY <1>0 DEF TypeOK, OrderKept
  <2>2. CASE old = <<>>
    BY <1>0, <1>1, <2>1, <2>2 DEF NewestKept
  <2>3. CASE old # <<>>
    BY <1>1, <2>1, <2>3, TailInOrder
  <2> QED
    BY <2>2, <2>3
<1>10. OrderKept'
  <2>1. InOrder(old, submitted[q][r], added[q][r])
    BY <1>0 DEF OrderKept
  <2>2. InOrder(new, submitted[q][r], added[q][r] + 1)
    <3>1. CASE Len(old) < MaxEnqueued
      BY <1>1, <1>9, <2>1, <3>1, AppendInOrder DEF new, Enqueue
    <3>2. CASE ~(Len(old) < MaxEnqueued)
      <4>1. old # <<>>
        BY <1>1, <3>2, SizesAssumption
      <4>2. Tail(old) \in Seq(Nat) /\ InOrder(Tail(old), submitted[q][r], added[q][r])
        BY <1>1, <1>9, <2>1, <4>1, TailInOrder
      <4> QED
        BY <1>1, <1>9, <3>2, <4>2, AppendInOrder DEF new, Enqueue
    <3> QED
      BY <3>1, <3>2
  <2> QED
    BY <1>0, <1>3, <2>2 DEF OrderKept, AddEnqueue
<1>11. NewestKept'
  BY <1>0, <1>2, <1>3 DEF NewestKept, AddEnqueue
<1>12. TurnComes'
  <2>1. passed[q][r] + Distance(last_sent[q], r) <= NReports
    <3>1. passed[q][r] \in Nat /\ Distance(last_sent[q], r) \in 1 .. NReports
      BY <1>0, DistanceFacts DEF TypeOK
    <3> QED
      BY <1>0, <3>1, SizesAssumption DEF TurnComes
  <2> QED
    BY <1>0, <1>2, <1>3, <2>1 DEF TurnComes, AddEnqueue
<1> QED
  BY <1>4, <1>5, <1>6, <1>7, <1>8, <1>10, <1>11, <1>12 DEF IInv

LEMMA SentNextStep ==
    ASSUME IInv, NEW q \in Queues, NEW r \in Reports, ReportSent(q), SentNext(q, r)
    PROVE  IInv'
<1>0. /\ TypeOK /\ WindowExact /\ WaitsOnlyWhenFull /\ QueuedIsSubscribed
      /\ FreeQueueIsClean /\ OrderKept /\ NewestKept /\ TurnComes
  BY DEF IInv
<1> DEFINE list == report_lists[q][r]
<1>1. /\ list \in Seq(Nat) /\ list # <<>>
      /\ submitted[q][r] \in Nat /\ added[q][r] \in Nat
      /\ InOrder(list, submitted[q][r], added[q][r])
  BY <1>0 DEF TypeOK, OrderKept, SentNext, IsNext, Waiting
<1>2. /\ Head(list) \in Nat /\ Tail(list) \in Seq(Nat)
      /\ InOrder(Tail(list), Head(list), added[q][r])
  BY <1>1, TailInOrder
<1>3. /\ report_lists'[q][r] = Tail(list)
      /\ submitted'[q][r] = Head(list)
      /\ \A p \in Queues, s \in Reports : <<p, s>> # <<q, r>> =>
            report_lists'[p][s] = report_lists[p][s] /\ submitted'[p][s] = submitted[p][s]
  BY <1>0 DEF TypeOK, SentNext
<1>4. /\ \A s \in Reports :
            passed'[q][s] = IF s \in Waiting(q) \ {r} THEN passed[q][s] + 1 ELSE 0
      /\ \A p \in Queues \ {q} : passed'[p] = passed[p]
  BY <1>0 DEF TypeOK, SentNext
<1>5. last_sent'[q] = r /\ \A p \in Queues \ {q} : last_sent'[p] = last_sent[p]
  BY <1>0 DEF TypeOK, SentNext
<1>6. TypeOK'
  <2>1. report_lists' \in [Queues -> [Reports -> Seq(Nat)]]
    BY <1>0, <1>2 DEF TypeOK, SentNext
  <2>2. submitted' \in [Queues -> [Reports -> Nat]]
    BY <1>0, <1>2 DEF TypeOK, SentNext
  <2>3. passed' \in [Queues -> [Reports -> Nat]]
    <3>1. [s \in Reports |-> IF s \in Waiting(q) \ {r} THEN passed[q][s] + 1 ELSE 0] \in [Reports -> Nat]
      BY <1>0 DEF TypeOK
    <3> QED
      BY <1>0, <3>1 DEF TypeOK, SentNext
  <2>4. last_sent' \in [Queues -> Reports]
    BY <1>0 DEF TypeOK, SentNext
  <2> QED
    BY <1>0, <2>1, <2>2, <2>3, <2>4 DEF TypeOK, SentNext, ReportSent
<1>7. WindowExact'
  BY <1>0 DEF WindowExact, SentNext, ReportSent
<1>8. WaitsOnlyWhenFull'
  <2>1. \A p \in Queues : Waiting(p) = {} => Waiting(p)' = {}
    BY <1>1, <1>3 DEF Waiting
  <2> QED
    BY <1>0, <2>1 DEF WaitsOnlyWhenFull, SentNext, ReportSent
<1>9. QueuedIsSubscribed'
  <2>1. Len(Tail(list)) <= MaxEnqueued /\ r \in enabled[q]
    BY <1>0, <1>1, SizesAssumption DEF QueuedIsSubscribed
  <2> QED
    BY <1>0, <1>3, <2>1 DEF QueuedIsSubscribed, ReportSent
<1>10. FreeQueueIsClean'
  <2>1. \A p \in Queues : ~Allocated(p)' =>
            p # q /\ report_lists'[p] = report_lists[p] /\ last_sent'[p] = last_sent[p]
    BY <1>0 DEF SentNext, ReportSent, Allocated, TypeOK
  <2> QED
    BY <1>0, <2>1 DEF FreeQueueIsClean, Allocated, SentNext, ReportSent
<1>11. OrderKept'
  BY <1>0, <1>2, <1>3 DEF OrderKept, ReportSent
<1>12. NewestKept'
  <2>1. list[Len(list)] = added[q][r]
    <3>1. \/ submitted[q][r] = added[q][r]
          \/ list[Len(list)] = added[q][r]
      BY <1>0 DEF NewestKept
    <3>2. submitted[q][r] < added[q][r]
      BY <1>1, TailInOrder
    <3> QED
      BY <1>1, <3>1, <3>2
  <2>2. \/ Head(list) = added[q][r]
        \/ Tail(list) # <<>> /\ Tail(list)[Len(Tail(list))] = added[q][r]
    <3>1. CASE Len(list) = 1
      BY <1>1, <2>1, <3>1
    <3>2. CASE Len(list) # 1
      <4>1. Len(Tail(list)) = Len(list) - 1 /\ Len(list) - 1 \in Nat \ {0}
        BY <1>1, <3>2
      <4>2. Tail(list)[Len(list) - 1] = list[Len(list)]
        <5>1. \A i \in 1 .. Len(list) - 1 : Tail(list)[i] = list[i + 1]
          BY <1>1
        <5>2. Len(list) - 1 \in 1 .. Len(list) - 1 /\ (Len(list) - 1) + 1 = Len(list)
          <6>1. Len(list) \in Nat /\ Len(list) > 1
            <7>1. Len(list) \in Nat /\ Len(list) # 0
              BY <1>1
            <7>2. \A n \in Nat : n # 0 /\ n # 1 => n > 1
              OBVIOUS
            <7> QED
              BY <3>2, <7>1, <7>2
          <6>2. \A n \in Nat : n > 1 => n - 1 \in 1 .. n - 1 /\ (n - 1) + 1 = n
            OBVIOUS
          <6> QED
            BY <6>1, <6>2
        <5> QED
          BY <5>1, <5>2
      <4> QED
        BY <2>1, <4>1, <4>2
    <3> QED
      BY <3>1, <3>2
  <2>3. added' = added
    BY DEF ReportSent
  <2>4. ASSUME NEW p \in Queues, NEW s \in Reports
        PROVE  \/ submitted'[p][s] = added[p][s]
               \/ report_lists'[p][s] # <<>>
                  /\ report_lists'[p][s][Len(report_lists'[p][s])] = added[p][s]
    <3>1. CASE p = q /\ s = r
      BY <1>3, <2>2, <3>1
    <3>2. CASE ~(p = q /\ s = r)
      <4>1. submitted'[p][s] = submitted[p][s] /\ report_lists'[p][s] = report_lists[p][s]
        BY <1>3, <3>2
      <4> QED
        BY <1>0, <4>1 DEF NewestKept
    <3> QED
      BY <3>1, <3>2
  <2> QED
    BY <2>3, <2>4 DEF NewestKept
<1>13. TurnComes'
  <2>1. ASSUME NEW s \in Reports, report_lists'[q][s] # <<>>
        PROVE  passed'[q][s] + Distance(r, s) <= NReports
    <3>1. /\ Distance(r, s) \in 1 .. NReports /\ Distance(last_sent[q], s) \in 1 .. NReports
          /\ last_sent[q] \in Reports /\ passed[q][s] \in Nat
      BY <1>0, DistanceFacts DEF TypeOK
    <3>2. CASE s = r
      BY <1>4, <3>1, <3>2, SizesAssumption
    <3>3. CASE s # r
      <4>1. s \in Waiting(q)
        BY <1>3, <2>1, <3>3 DEF Waiting
      <4>2. Distance(last_sent[q], r) <= Distance(last_sent[q], s)
        BY <4>1 DEF SentNext, IsNext
      <4>3. Distance(r, s) + 1 <= Distance(last_sent[q], s)
        BY <3>1, <3>3, <4>2, DistanceFacts
      <4>4. passed[q][s] + Distance(last_sent[q], s) <= NReports
        BY <1>0, <4>1 DEF TurnComes, Waiting
      <4>5. passed'[q][s] = passed[q][s] + 1
        BY <1>4, <3>3, <4>1
      <4> QED
        BY <3>1, <4>3, <4>4, <4>5, SizesAssumption
    <3> QED
      BY <3>2, <3>3
  <2>2. ASSUME NEW s \in Reports, report_lists'[q][s] = <<>>
        PROVE  passed'[q][s] = 0
    BY <1>3, <1>4, <2>2 DEF Waiting
  <2>3. \A p \in Queues \ {q}, s \in Reports :
            /\ report_lists'[p][s] = report_lists[p][s]
            /\ passed'[p][s] = passed[p][s] /\ last_sent'[p] = last_sent[p]
    BY <1>3, <1>4, <1>5
  <2> QED
    BY <1>0, <1>5, <2>1, <2>2, <2>3 DEF TurnComes
<1> QED
  BY <1>6, <1>7, <1>8, <1>9, <1>10, <1>11, <1>12, <1>13 DEF IInv

LEMMA SentLastStep ==
    ASSUME IInv, NEW q \in Queues, ReportSent(q), SentLast(q)
    PROVE  IInv'
<1>0. /\ TypeOK /\ WindowExact /\ WaitsOnlyWhenFull /\ QueuedIsSubscribed
      /\ FreeQueueIsClean /\ OrderKept /\ NewestKept /\ TurnComes
  BY DEF IInv
<1>1. /\ report_cnt[q] \in 0 .. 255 /\ report_max[q] \in 0 .. 255
      /\ inflight[q] \in Nat \ {0} /\ report_cnt[q] = inflight[q]
      /\ report_cnt[q] <= report_max[q]
  BY <1>0 DEF TypeOK, WindowExact, ReportSent
<1>2. /\ report_cnt'[q] = report_cnt[q] - 1 /\ inflight'[q] = inflight[q] - 1
      /\ \A p \in Queues \ {q} : report_cnt'[p] = report_cnt[p] /\ inflight'[p] = inflight[p]
  BY <1>0 DEF SentLast, TypeOK
<1>3. TypeOK'
  <2>1. report_cnt[q] - 1 \in 0 .. 255 /\ inflight[q] - 1 \in Nat
    BY <1>1
  <2>2. report_cnt' \in [Queues -> 0 .. 255] /\ inflight' \in [Queues -> Nat]
    BY <1>0, <2>1 DEF TypeOK, SentLast
  <2> QED
    BY <1>0, <2>2 DEF TypeOK, SentLast, ReportSent
<1>4. WindowExact'
  BY <1>0, <1>1, <1>2 DEF WindowExact, ReportSent
<1>5. WaitsOnlyWhenFull'
  BY <1>0, <1>2 DEF WaitsOnlyWhenFull, Waiting, SentLast, ReportSent
<1>6. QueuedIsSubscribed' /\ OrderKept' /\ NewestKept' /\ TurnComes'
  BY <1>0 DEF QueuedIsSubscribed, OrderKept, NewestKept, TurnComes, SentLast, ReportSent
<1>7. FreeQueueIsClean'
  BY <1>0, <1>2 DEF FreeQueueIsClean, Allocated, SentLast, ReportSent
<1> QED
  BY <1>3, <1>4, <1>5, <1>6, <1>7 DEF IInv

-----------------------------------------------------------------------------
THEOREM NextIInv == IInv /\ [Next]_vars => IInv'
<1> SUFFICES ASSUME IInv, [Next]_vars PROVE IInv'
  OBVIOUS
<1>1. ASSUME NEW q \in Queues, NEW s \in Subs, NEW max \in 1 .. MaxReportMax, Alloc(q, s, max)
      PROVE  IInv'
  BY <1>1, AllocStep
<1>2. ASSUME NEW q \in Queues, Free(q) PROVE IInv'
  BY <1>2, FreeStep
<1>3. ASSUME NEW q \in Queues, ReportSent(q) PROVE IInv'
  <2>1. CASE \E r \in Reports : SentNext(q, r)
    BY <1>3, <2>1, SentNextStep
  <2>2. CASE SentLast(q)
    BY <1>3, <2>2, SentLastStep
  <2> QED
    BY <1>3, <2>1, <2>2 DEF ReportSent
<1>4. ASSUME NEW q \in Queues, NEW r \in Reports, ReportAdd(q, r) PROVE IInv'
  <2>1. CASE AddSubmit(q, r)
    BY <1>4, <2>1, AddSubmitStep
  <2>2. CASE AddEnqueue(q, r)
    BY <1>4, <2>2, AddEnqueueStep
  <2> QED
    BY <1>4, <2>1, <2>2 DEF ReportAdd
<1>5. ASSUME NEW q \in Queues, NEW r \in Reports, Subscribe(q, r) PROVE IInv'
  BY <1>5, SubscribeStep
<1>6. ASSUME NEW q \in Queues, NEW r \in Reports, Unsubscribe(q, r) PROVE IInv'
  BY <1>6, UnsubscribeStep
<1>7. CASE UNCHANGED vars
  <2> USE <1>7 DEF vars, codeVars, IInv
  <2>1. TypeOK' /\ WindowExact' /\ QueuedIsSubscribed' /\ FreeQueueIsClean'
    BY DEF TypeOK, WindowExact, QueuedIsSubscribed, FreeQueueIsClean, Allocated
  <2>2. WaitsOnlyWhenFull'
    BY DEF WaitsOnlyWhenFull, Waiting
  <2>3. OrderKept' /\ NewestKept' /\ TurnComes'
    BY DEF OrderKept, NewestKept, TurnComes
  <2> QED
    BY <2>1, <2>2, <2>3
<1> QED
  BY <1>1, <1>2, <1>3, <1>4, <1>5, <1>6, <1>7 DEF Next

THEOREM Invariance == Spec => []IInv
<1>1. Init => IInv
  BY InitIInv
<1>2. IInv /\ [Next]_vars => IInv'
  BY NextIInv
<1> QED
  BY <1>1, <1>2, PTL DEF Spec

(* The state is well typed: the counters stay in a uint8_t.                *)
THEOREM TypeCorrect == Spec => []TypeOK
<1>1. IInv => TypeOK
  BY DEF IInv
<1> QED
  BY <1>1, Invariance, PTL

(* A queue's count of submitted events is exact and within report_max.     *)
THEOREM WindowCorrect == Spec => []WindowExact
<1>1. IInv => WindowExact
  BY DEF IInv
<1> QED
  BY <1>1, Invariance, PTL

(* Reports wait only while the transport is full, for any number of them.  *)
THEOREM WaitCorrect == Spec => []WaitsOnlyWhenFull
<1>1. IInv => WaitsOnlyWhenFull
  BY DEF IInv
<1> QED
  BY <1>1, Invariance, PTL

(* Lists belong to subscribed reports and never exceed their limit.        *)
THEOREM ListsCorrect == Spec => []QueuedIsSubscribed
<1>1. IInv => QueuedIsSubscribed
  BY DEF IInv
<1> QED
  BY <1>1, Invariance, PTL

(* hid_reportq_alloc always finds the queue it takes as clean as it        *)
(* asserts.                                                                *)
THEOREM AllocFindsCleanQueue == Spec => []FreeQueueIsClean
<1>1. IInv => FreeQueueIsClean
  BY DEF IInv
<1> QED
  BY <1>1, Invariance, PTL

(* Every report keeps its order and its newest value.                      *)
THEOREM OrderCorrect == Spec => [](OrderKept /\ NewestKept)
<1>1. IInv => OrderKept /\ NewestKept
  BY DEF IInv
<1> QED
  BY <1>1, Invariance, PTL

(* No waiting report is passed over more than NReports - 1 times: the      *)
(* round robin of get_next_enqueued_event is fair to every report.         *)
THEOREM RoundRobinFair == Spec => []NoStarvation
<1>1. IInv => NoStarvation
  <2> SUFFICES ASSUME IInv, NEW q \in Queues, NEW r \in Reports
               PROVE  passed[q][r] <= NReports - 1
    BY DEF NoStarvation
  <2>1. /\ passed[q][r] \in Nat /\ Distance(last_sent[q], r) \in 1 .. NReports
    BY DistanceFacts DEF IInv, TypeOK
  <2>2. \/ passed[q][r] = 0
        \/ passed[q][r] + Distance(last_sent[q], r) <= NReports
    BY DEF IInv, TurnComes
  <2> QED
    BY <2>1, <2>2, SizesAssumption
<1> QED
  BY <1>1, Invariance, PTL

-----------------------------------------------------------------------------
(***************************************************************************)
(* HidReportq implements HidReportStream, for every number of queues,      *)
(* reports and subscribers and every queue limit.                          *)
(***************************************************************************)

(* A list holds the last events that were added, without a gap: that is    *)
(* why the event that Enqueue drops is the one MaxEnqueued before the new. *)
Gapless(list, n) == \A i \in 1 .. Len(list) : list[i] = n - Len(list) + i

(* What the mapping needs beside IInv: no gaps, and a report that is not   *)
(* subscribed has no past.                                                 *)
StreamInv ==
    \A q \in Queues, r \in Reports :
        /\ Gapless(report_lists[q][r], added[q][r])
        /\ r \notin enabled[q] => added[q][r] = 0 /\ submitted[q][r] = 0

-----------------------------------------------------------------------------
(* Lists and the sets of events they stand for.                            *)

LEMMA EmptyList ==
    /\ Contents(<<>>) = {}
    /\ \A n \in Nat : Gapless(<<>>, n)
<1>1. Len(<<>>) = 0 /\ 1 .. 0 = {}
  OBVIOUS
<1>2. Contents(<<>>) = {}
  BY <1>1 DEF Contents
<1>3. \A n \in Nat : Gapless(<<>>, n)
  BY <1>1 DEF Gapless
<1> QED
  BY <1>2, <1>3

LEMMA ContentsEmpty ==
    ASSUME NEW list \in Seq(Nat)
    PROVE  Contents(list) = {} <=> list = <<>>
<1>1. list = <<>> => Contents(list) = {}
  BY EmptyList
<1>2. ASSUME list # <<>> PROVE Contents(list) # {}
  <2>1. 1 \in 1 .. Len(list)
    BY <1>2
  <2>2. list[1] \in Contents(list)
    BY <2>1 DEF Contents
  <2> QED
    BY <2>2
<1> QED
  BY <1>1, <1>2

(* The oldest event is taken out.                                          *)
LEMMA TailList ==
    ASSUME NEW list \in Seq(Nat), NEW n \in Nat, list # <<>>, Gapless(list, n)
    PROVE  /\ Gapless(Tail(list), n)
           /\ Contents(Tail(list)) = Contents(list) \ {Head(list)}
           /\ Head(list) \in Contents(list)
           /\ \A m \in Contents(list) : Head(list) <= m
<1>1. /\ Len(list) \in Nat \ {0} /\ Head(list) = list[1]
      /\ Tail(list) \in Seq(Nat) /\ Len(Tail(list)) = Len(list) - 1
      /\ \A i \in 1 .. Len(list) - 1 : Tail(list)[i] = list[i + 1]
  OBVIOUS
<1>2. Gapless(Tail(list), n)
  BY <1>1 DEF Gapless
<1>3. \A i \in 1 .. Len(list) : list[i] = list[1] <=> i = 1
  BY <1>1 DEF Gapless
<1>4. \A i \in 1 .. Len(list) : list[1] <= list[i]
  BY <1>1 DEF Gapless
<1>5. ASSUME NEW m
      PROVE  m \in Contents(Tail(list)) <=> m \in Contents(list) /\ m # Head(list)
  <2>1. ASSUME m \in Contents(Tail(list))
        PROVE  m \in Contents(list) /\ m # Head(list)
    <3>1. PICK i \in 1 .. Len(list) - 1 : m = Tail(list)[i]
      BY <1>1, <2>1 DEF Contents
    <3>2. m = list[i + 1] /\ i + 1 \in 1 .. Len(list) /\ i + 1 # 1
      BY <1>1, <3>1
    <3> QED
      BY <1>1, <1>3, <3>2 DEF Contents
  <2>2. ASSUME m \in Contents(list), m # Head(list)
        PROVE  m \in Contents(Tail(list))
    <3>1. PICK i \in 1 .. Len(list) : m = list[i]
      BY <2>2 DEF Contents
    <3>2. i # 1
      BY <1>1, <2>2, <3>1
    <3>3. i - 1 \in 1 .. Len(list) - 1 /\ Tail(list)[i - 1] = list[i]
      BY <1>1, <3>2
    <3> QED
      BY <1>1, <3>1, <3>3 DEF Contents
  <2> QED
    BY <2>1, <2>2
<1>6. Contents(Tail(list)) = Contents(list) \ {Head(list)}
  BY <1>5
<1>7. Head(list) \in Contents(list) /\ \A m \in Contents(list) : Head(list) <= m
  BY <1>1, <1>4 DEF Contents
<1> QED
  BY <1>2, <1>6, <1>7

LEMMA AppendList ==
    ASSUME NEW list \in Seq(Nat), NEW n \in Nat, Gapless(list, n)
    PROVE  /\ Gapless(Append(list, n + 1), n + 1)
           /\ Contents(Append(list, n + 1)) = Contents(list) \cup {n + 1}
<1>1. /\ Len(list) \in Nat /\ Len(Append(list, n + 1)) = Len(list) + 1
      /\ Append(list, n + 1)[Len(list) + 1] = n + 1
      /\ \A i \in 1 .. Len(list) : Append(list, n + 1)[i] = list[i]
  OBVIOUS
<1>2. Gapless(Append(list, n + 1), n + 1)
  <2> SUFFICES ASSUME NEW i \in 1 .. Len(list) + 1
               PROVE  Append(list, n + 1)[i] = n + 1 - (Len(list) + 1) + i
    BY <1>1 DEF Gapless
  <2>1. CASE i = Len(list) + 1
    BY <1>1, <2>1
  <2>2. CASE i # Len(list) + 1
    <3>1. i \in 1 .. Len(list)
      BY <1>1, <2>2
    <3> QED
      BY <1>1, <3>1 DEF Gapless
  <2> QED
    BY <2>1, <2>2
<1>3. ASSUME NEW m
      PROVE  m \in Contents(Append(list, n + 1)) <=> m \in Contents(list) \/ m = n + 1
  <2>1. ASSUME m \in Contents(Append(list, n + 1))
        PROVE  m \in Contents(list) \/ m = n + 1
    <3>1. PICK i \in 1 .. Len(list) + 1 : m = Append(list, n + 1)[i]
      BY <1>1, <2>1 DEF Contents
    <3>2. i = Len(list) + 1 \/ i \in 1 .. Len(list)
      BY <1>1
    <3> QED
      BY <1>1, <3>1, <3>2 DEF Contents
  <2>2. ASSUME m \in Contents(list)
        PROVE  m \in Contents(Append(list, n + 1))
    <3>1. PICK i \in 1 .. Len(list) : m = list[i]
      BY <2>2 DEF Contents
    <3>2. i \in 1 .. Len(list) + 1
      BY <1>1
    <3> QED
      BY <1>1, <3>1, <3>2 DEF Contents
  <2>3. n + 1 \in Contents(Append(list, n + 1))
    <3> DEFINE longer == Append(list, n + 1)
    <3>1. Len(list) + 1 \in 1 .. Len(longer) /\ longer[Len(list) + 1] = n + 1
      BY <1>1
    <3> HIDE DEF longer
    <3>2. n + 1 \in {longer[i] : i \in 1 .. Len(longer)}
      BY <3>1
    <3> QED
      BY <3>2 DEF Contents, longer
  <2> QED
    BY <2>1, <2>2, <2>3
<1> QED
  BY <1>2, <1>3

(* enqueue_event: the new event waits, and the one MaxEnqueued before it   *)
(* does not any more.                                                      *)
LEMMA EnqueueList ==
    ASSUME NEW list \in Seq(Nat), NEW n \in Nat, Gapless(list, n), Len(list) <= MaxEnqueued
    PROVE  /\ Gapless(Enqueue(list, n + 1), n + 1)
           /\ Contents(Enqueue(list, n + 1)) =
                (Contents(list) \cup {n + 1}) \ {n + 1 - MaxEnqueued}
<1> USE SizesAssumption
<1>1. CASE Len(list) < MaxEnqueued
  <2>1. n + 1 - MaxEnqueued \notin Contents(list)
    <3>1. \A i \in 1 .. Len(list) : list[i] # n + 1 - MaxEnqueued
      BY <1>1 DEF Gapless
    <3> QED
      BY <3>1 DEF Contents
  <2>2. n + 1 - MaxEnqueued # n + 1
    OBVIOUS
  <2>3. Enqueue(list, n + 1) = Append(list, n + 1)
    BY <1>1 DEF Enqueue
  <2>4. /\ Gapless(Append(list, n + 1), n + 1)
        /\ Contents(Append(list, n + 1)) = Contents(list) \cup {n + 1}
    BY AppendList
  <2> QED
    BY <2>1, <2>2, <2>3, <2>4
<1>2. CASE ~(Len(list) < MaxEnqueued)
  <2>1. Len(list) = MaxEnqueued /\ list # <<>> /\ Tail(list) \in Seq(Nat)
    BY <1>2
  <2>2. Head(list) = n + 1 - MaxEnqueued
    <3>1. Head(list) = list[1] /\ 1 \in 1 .. Len(list)
      BY <2>1
    <3> QED
      BY <2>1, <3>1 DEF Gapless
  <2>3. /\ Gapless(Tail(list), n)
        /\ Contents(Tail(list)) = Contents(list) \ {n + 1 - MaxEnqueued}
    BY <2>1, <2>2, TailList
  <2>4. Enqueue(list, n + 1) = Append(Tail(list), n + 1)
    BY <1>2 DEF Enqueue
  <2>5. n + 1 - MaxEnqueued # n + 1
    OBVIOUS
  <2>6. /\ Gapless(Append(Tail(list), n + 1), n + 1)
        /\ Contents(Append(Tail(list), n + 1)) = Contents(Tail(list)) \cup {n + 1}
    BY <2>1, <2>3, AppendList
  <2> QED
    BY <2>3, <2>4, <2>5, <2>6
<1> QED
  BY <1>1, <1>2

-----------------------------------------------------------------------------
(* A step of one queue.                                                    *)

(* The other queues p are as they were.                                    *)
Untouched(p) ==
    /\ sub_id'[p] = sub_id[p] /\ enabled'[p] = enabled[p]
    /\ report_max'[p] = report_max[p] /\ report_cnt'[p] = report_cnt[p]
    /\ report_lists'[p] = report_lists[p]
    /\ added'[p] = added[p] /\ submitted'[p] = submitted[p]

LEMMA ClientFields ==
    ASSUME NEW q \in Queues, NEW r \in Reports
    PROVE  /\ Client(q).sub = sub_id[q] /\ Client(q).max = report_max[q]
           /\ Client(q).held = report_cnt[q] /\ Client(q).open = enabled[q]
           /\ Client(q).stream[r] =
                [added |-> added[q][r], sent |-> submitted[q][r],
                 waiting |-> Contents(report_lists[q][r])]
BY DEF Client

LEMMA UntouchedClient ==
    ASSUME NEW p, Untouched(p)
    PROVE  Client(p)' = Client(p)
BY DEF Untouched, Client, Contents

(* At most enabled and report_cnt of queue q and its report r change.      *)
Local(q, r) ==
    /\ \A p \in Queues \ {q} : Untouched(p)
    /\ sub_id'[q] = sub_id[q] /\ report_max'[q] = report_max[q]
    /\ \A t \in Reports \ {r} :
         /\ t \in enabled'[q] <=> t \in enabled[q]
         /\ report_lists'[q][t] = report_lists[q][t]
         /\ added'[q][t] = added[q][t] /\ submitted'[q][t] = submitted[q][t]

(* Such a step gives the abstract queue's stream of r its new value ...    *)
LEMMA BecomesStep ==
    ASSUME NEW q \in Queues, NEW r \in Reports, NEW open, NEW held, NEW s, Local(q, r),
           open = enabled'[q], held = report_cnt'[q],
           s = [added |-> added'[q][r], sent |-> submitted'[q][r],
                waiting |-> Contents(report_lists'[q][r])]
    PROVE  Stream!Becomes(q, open, held, r, s)
<1> USE DEF Local
<1>1. \A p \in Queues \ {q} : Client(p)' = Client(p)
  BY UntouchedClient
<1>2. Client(q)'.stream = [Client(q).stream EXCEPT ![r] = s]
  <2> DEFINE Entry(t) == [added |-> added[q][t], sent |-> submitted[q][t],
                          waiting |-> Contents(report_lists[q][t])]
             EntryAfter(t) == [added |-> added'[q][t], sent |-> submitted'[q][t],
                               waiting |-> Contents(report_lists'[q][t])]
  <2>1. Client(q).stream = [t \in Reports |-> Entry(t)]
    BY DEF Client
  <2>2. Client(q)'.stream = [t \in Reports |-> EntryAfter(t)]
    BY DEF Client, Contents
  <2>3. \A t \in Reports \ {r} : EntryAfter(t) = Entry(t)
    OBVIOUS
  <2>4. EntryAfter(r) = s
    OBVIOUS
  <2> HIDE DEF Entry, EntryAfter
  <2> QED
    BY <2>1, <2>2, <2>3, <2>4
<1> DEFINE after == [sub |-> Client(q).sub, max |-> Client(q).max, held |-> held,
                     open |-> open, stream |-> [Client(q).stream EXCEPT ![r] = s]]
<1>3. Client(q)' = after
  BY <1>2 DEF Client
<1>4. [p \in Queues |-> Client(p)]' = [[p \in Queues |-> Client(p)] EXCEPT ![q] = after]
  <2> HIDE DEF after
  <2> QED
    BY <1>1, <1>3
<1> QED
  BY <1>4 DEF Stream!Becomes

(* ... and disturbs no other report's part of StreamInv.                   *)
LEMMA InvLocal ==
    ASSUME NEW q \in Queues, NEW r \in Reports, Local(q, r), StreamInv,
           Gapless(report_lists'[q][r], added'[q][r]),
           r \notin enabled'[q] => added'[q][r] = 0 /\ submitted'[q][r] = 0
    PROVE  StreamInv'
<1> SUFFICES ASSUME NEW p \in Queues, NEW t \in Reports
             PROVE  /\ Gapless(report_lists'[p][t], added'[p][t])
                    /\ t \notin enabled'[p] => added'[p][t] = 0 /\ submitted'[p][t] = 0
  BY DEF StreamInv, Gapless
<1>1. CASE p = q /\ t = r
  BY <1>1
<1>2. CASE p = q /\ t # r
  BY <1>2 DEF Local, StreamInv
<1>3. CASE p # q
  BY <1>3 DEF Local, Untouched, StreamInv
<1> QED
  BY <1>1, <1>2, <1>3

LEMMA Numbers ==
    ASSUME IInv, NEW q \in Queues, NEW r \in Reports
    PROVE  /\ report_cnt[q] \in Nat /\ report_max[q] \in Nat
           /\ added[q][r] \in Nat /\ report_lists[q][r] \in Seq(Nat)
<1>1. report_cnt[q] \in 0 .. 255 /\ report_max[q] \in 0 .. 255
  BY DEF IInv, TypeOK
<1>2. report_cnt[q] \in Nat /\ report_max[q] \in Nat
  BY <1>1
<1>3. added[q][r] \in Nat /\ report_lists[q][r] \in Seq(Nat)
  BY DEF IInv, TypeOK
<1> QED
  BY <1>2, <1>3, Zenon

(* hid_reportq_subscribe opens a stream.                                   *)
LEMMA SubscribeMaps ==
    ASSUME IInv, StreamInv, NEW q \in Queues, NEW r \in Reports, Subscribe(q, r)
    PROVE  Stream!Open(q, r) /\ StreamInv'
<1>1. /\ Local(q, r) /\ enabled'[q] = enabled[q] \cup {r} /\ report_cnt' = report_cnt
      /\ report_lists' = report_lists /\ added' = added /\ submitted' = submitted
  BY DEF IInv, TypeOK, Subscribe, Local, Untouched
<1>2. /\ report_lists[q][r] = <<>> /\ added[q][r] = 0 /\ submitted[q][r] = 0
      /\ sub_id[q] # NoSub /\ r \notin enabled[q]
  BY DEF IInv, QueuedIsSubscribed, StreamInv, Subscribe, Allocated
<1>3. /\ Client(q).stream[r] = Stream!Fresh /\ Client(q).sub # NoSub
      /\ r \notin Client(q).open
  BY <1>2, EmptyList, ClientFields DEF Stream!Fresh
<1>4. Stream!Becomes(q, Client(q).open \cup {r}, Client(q).held, r, Stream!Fresh)
  <2>1. Stream!Fresh = [added |-> added'[q][r], sent |-> submitted'[q][r],
                        waiting |-> Contents(report_lists'[q][r])]
    BY <1>1, <1>2, EmptyList DEF Stream!Fresh
  <2>2. Client(q).open \cup {r} = enabled'[q] /\ Client(q).held = report_cnt'[q]
    BY <1>1, ClientFields
  <2> QED
    BY <1>1, <2>1, <2>2, BecomesStep
<1>5. StreamInv'
  BY <1>1, <1>2, EmptyList, InvLocal
<1> QED
  BY <1>3, <1>4, <1>5 DEF Stream!Open

(* hid_reportq_unsubscribe closes it.                                      *)
LEMMA UnsubscribeMaps ==
    ASSUME IInv, StreamInv, NEW q \in Queues, NEW r \in Reports, Unsubscribe(q, r)
    PROVE  Stream!Close(q, r) /\ StreamInv'
<1>1. /\ Local(q, r) /\ enabled'[q] = enabled[q] \ {r} /\ report_cnt' = report_cnt
      /\ report_lists'[q][r] = <<>> /\ added'[q][r] = 0 /\ submitted'[q][r] = 0
  BY DEF IInv, TypeOK, Unsubscribe, Local, Untouched
<1>2. r \in Client(q).open
  BY ClientFields DEF Unsubscribe
<1>3. Stream!Becomes(q, Client(q).open \ {r}, Client(q).held, r, Stream!Fresh)
  <2>1. Stream!Fresh = [added |-> added'[q][r], sent |-> submitted'[q][r],
                        waiting |-> Contents(report_lists'[q][r])]
    BY <1>1, EmptyList DEF Stream!Fresh
  <2>2. Client(q).open \ {r} = enabled'[q] /\ Client(q).held = report_cnt'[q]
    BY <1>1, ClientFields
  <2> QED
    BY <1>1, <2>1, <2>2, BecomesStep
<1>4. StreamInv'
  BY <1>1, EmptyList, InvLocal
<1> QED
  BY <1>2, <1>3, <1>4 DEF Stream!Close

(* hid_reportq_report_add with room in the transport: nothing waits then.  *)
LEMMA AddSubmitMaps ==
    ASSUME IInv, StreamInv, NEW q \in Queues, NEW r \in Reports,
           ReportAdd(q, r), AddSubmit(q, r)
    PROVE  Stream!AddNow(q, r) /\ StreamInv'
<1> DEFINE n == added[q][r] + 1
<1>1. /\ Local(q, r) /\ enabled' = enabled /\ r \in enabled[q]
      /\ report_lists' = report_lists /\ added'[q][r] = n /\ submitted'[q][r] = n
  BY DEF IInv, TypeOK, ReportAdd, AddSubmit, Local, Untouched
<1>2. report_cnt[q] < report_max[q] /\ report_cnt'[q] = report_cnt[q] + 1
  BY DEF IInv, TypeOK, AddSubmit
<1>3. added[q][r] \in Nat /\ n \in Nat /\ report_lists[q][r] = <<>>
  <2>1. added[q][r] \in Nat /\ report_cnt[q] \in Nat /\ report_max[q] \in Nat
    BY Numbers
  <2>2. report_cnt[q] # report_max[q]
    BY <1>2, <2>1
  <2>3. Waiting(q) = {}
    BY <2>2 DEF IInv, WaitsOnlyWhenFull
  <2> QED
    BY <2>1, <2>3 DEF Waiting
<1>4. Contents(report_lists[q][r]) = {}
  BY <1>3, EmptyList
<1>5. /\ Client(q).stream[r].waiting = {} /\ Client(q).stream[r].added + 1 = n
      /\ r \in Client(q).open /\ Client(q).held < Client(q).max
  <2>1. Client(q).stream[r] = [added |-> added[q][r], sent |-> submitted[q][r],
                               waiting |-> Contents(report_lists[q][r])]
    BY ClientFields
  <2>2. Client(q).stream[r].waiting = {} /\ Client(q).stream[r].added = added[q][r]
    BY <1>4, <2>1
  <2>3. Client(q).open = enabled[q] /\ Client(q).held = report_cnt[q]
        /\ Client(q).max = report_max[q]
    BY ClientFields
  <2> QED
    BY <1>1, <1>2, <2>2, <2>3
<1> HIDE DEF n
<1>6. Stream!Becomes(q, Client(q).open, Client(q).held + 1, r,
                     [added |-> n, sent |-> n, waiting |-> {}])
  <2>1. [added |-> n, sent |-> n, waiting |-> {}]
          = [added |-> added'[q][r], sent |-> submitted'[q][r],
             waiting |-> Contents(report_lists'[q][r])]
    BY <1>1, <1>4
  <2>2. Client(q).open = enabled'[q] /\ Client(q).held + 1 = report_cnt'[q]
    BY <1>1, <1>2, ClientFields
  <2> QED
    BY <1>1, <2>1, <2>2, BecomesStep
<1>7. StreamInv'
  <2>1. Gapless(report_lists'[q][r], added'[q][r])
    BY <1>1, <1>3, EmptyList
  <2> QED
    BY <1>1, <2>1, InvLocal
<1>8. Stream!AddNow(q, r)
  BY <1>5, <1>6 DEF Stream!AddNow
<1> QED
  BY <1>7, <1>8

(* hid_reportq_report_add with a full transport: enqueue_event.            *)
LEMMA AddEnqueueMaps ==
    ASSUME IInv, StreamInv, NEW q \in Queues, NEW r \in Reports,
           ReportAdd(q, r), AddEnqueue(q, r)
    PROVE  Stream!AddLater(q, r) /\ StreamInv'
<1> DEFINE n == added[q][r] + 1
<1>1. /\ Local(q, r) /\ enabled' = enabled /\ r \in enabled[q]
      /\ report_cnt' = report_cnt /\ submitted' = submitted
      /\ report_lists'[q][r] = Enqueue(report_lists[q][r], n) /\ added'[q][r] = n
  BY DEF IInv, TypeOK, ReportAdd, AddEnqueue, Local, Untouched
<1>2. report_cnt[q] = report_max[q]
  <2>1. report_cnt[q] \in Nat /\ report_max[q] \in Nat
    BY Numbers
  <2>2. report_cnt[q] <= report_max[q] /\ ~(report_cnt[q] < report_max[q])
    BY DEF IInv, WindowExact, AddEnqueue
  <2> QED
    BY <2>1, <2>2
<1>3. /\ report_lists[q][r] \in Seq(Nat) /\ added[q][r] \in Nat
      /\ Len(report_lists[q][r]) <= MaxEnqueued /\ Gapless(report_lists[q][r], added[q][r])
  BY Numbers DEF IInv, QueuedIsSubscribed, StreamInv
<1> DEFINE w == (Contents(report_lists[q][r]) \cup {added[q][r] + 1})
                  \ {added[q][r] + 1 - MaxEnqueued}
<1>4. Gapless(report_lists'[q][r], n) /\ Contents(report_lists'[q][r]) = w
  <2>1. /\ Gapless(Enqueue(report_lists[q][r], added[q][r] + 1), added[q][r] + 1)
        /\ Contents(Enqueue(report_lists[q][r], added[q][r] + 1))
             = (Contents(report_lists[q][r]) \cup {added[q][r] + 1})
                 \ {added[q][r] + 1 - MaxEnqueued}
    <3> DEFINE list == report_lists[q][r]
               k == added[q][r]
    <3>1. /\ list \in Seq(Nat) /\ k \in Nat
          /\ Len(list) <= MaxEnqueued /\ Gapless(list, k)
      BY <1>3
    <3> HIDE DEF list, k
    <3>2. /\ Gapless(Enqueue(list, k + 1), k + 1)
          /\ Contents(Enqueue(list, k + 1))
               = (Contents(list) \cup {k + 1}) \ {k + 1 - MaxEnqueued}
      BY <3>1, EnqueueList
    <3> QED
      BY <3>2 DEF list, k
  <2>2. report_lists'[q][r] = Enqueue(report_lists[q][r], added[q][r] + 1)
    BY <1>1
  <2>3. Gapless(report_lists'[q][r], n)
    BY <2>1, <2>2
  <2>4. Contents(report_lists'[q][r])
          = Contents(Enqueue(report_lists[q][r], added[q][r] + 1))
    BY <2>2, Zenon
  <2>5. Contents(report_lists'[q][r])
          = (Contents(report_lists[q][r]) \cup {added[q][r] + 1})
              \ {added[q][r] + 1 - MaxEnqueued}
    <3> HIDE DEF n, w
    <3> QED
      BY <2>1, <2>4, Zenon
  <2> QED
    BY <2>3, <2>5
<1>5. /\ Client(q).stream[r].waiting = Contents(report_lists[q][r])
      /\ Client(q).stream[r].added + 1 = n /\ Client(q).stream[r].sent = submitted[q][r]
      /\ r \in Client(q).open /\ Client(q).held = Client(q).max
  <2>1. Client(q).stream[r] = [added |-> added[q][r], sent |-> submitted[q][r],
                               waiting |-> Contents(report_lists[q][r])]
    BY ClientFields
  <2>2. /\ Client(q).stream[r].waiting = Contents(report_lists[q][r])
        /\ Client(q).stream[r].added = added[q][r]
        /\ Client(q).stream[r].sent = submitted[q][r]
    BY <2>1
  <2>3. Client(q).open = enabled[q] /\ Client(q).held = report_cnt[q]
        /\ Client(q).max = report_max[q]
    BY ClientFields
  <2> QED
    BY <1>1, <1>2, <2>2, <2>3
<1>6. w = (Contents(report_lists[q][r]) \cup {n}) \ {n - MaxEnqueued}
  BY <1>3, SizesAssumption
<1> HIDE DEF n
<1>7. Stream!Becomes(q, Client(q).open, Client(q).held, r,
                     [added |-> n, sent |-> submitted[q][r], waiting |-> w])
  <2>1. [added |-> n, sent |-> submitted[q][r], waiting |-> w]
          = [added |-> added'[q][r], sent |-> submitted'[q][r],
             waiting |-> Contents(report_lists'[q][r])]
    BY <1>1, <1>4
  <2>2. Client(q).open = enabled'[q] /\ Client(q).held = report_cnt'[q]
    BY <1>1, ClientFields
  <2> HIDE DEF w
  <2> QED
    BY <1>1, <2>1, <2>2, BecomesStep
<1>8. StreamInv'
  BY <1>1, <1>4, InvLocal
<1>9. Stream!AddLater(q, r)
  <2> HIDE DEF w
  <2>1. w = (Client(q).stream[r].waiting \cup {n}) \ {n - MaxEnqueued}
    BY <1>5, <1>6, Zenon
  <2> QED
    BY <1>5, <1>7, <2>1 DEF Stream!AddLater
<1> QED
  BY <1>8, <1>9

(* hid_reportq_report_sent with a report waiting: its oldest event.        *)
LEMMA SentNextMaps ==
    ASSUME IInv, StreamInv, NEW q \in Queues, NEW r \in Reports,
           ReportSent(q), SentNext(q, r)
    PROVE  /\ Head(report_lists[q][r]) \in Client(q).stream[r].waiting
           /\ Stream!Replace(q, r, Head(report_lists[q][r]))
           /\ StreamInv'
<1> DEFINE list == report_lists[q][r]
<1>1. /\ Local(q, r) /\ enabled' = enabled /\ report_cnt' = report_cnt
      /\ report_lists'[q][r] = Tail(list) /\ added' = added
      /\ submitted'[q][r] = Head(list)
  BY DEF IInv, TypeOK, ReportSent, SentNext, Local, Untouched
<1>2. list \in Seq(Nat) /\ list # <<>> /\ added[q][r] \in Nat /\ Gapless(list, added[q][r])
  BY Numbers DEF SentNext, IsNext, Waiting, StreamInv
<1> HIDE DEF list
<1>3. /\ Gapless(Tail(list), added[q][r])
      /\ Contents(Tail(list)) = Contents(list) \ {Head(list)}
      /\ Head(list) \in Contents(list)
      /\ \A m \in Contents(list) : Head(list) <= m
  BY <1>2, TailList
<1>4. /\ Client(q).stream[r].waiting = Contents(list)
      /\ Client(q).stream[r].added = added[q][r]
  <2>1. Client(q).stream[r] = [added |-> added[q][r], sent |-> submitted[q][r],
                               waiting |-> Contents(list)]
    BY ClientFields DEF list
  <2> QED
    BY <2>1
<1>5. Stream!Becomes(q, Client(q).open, Client(q).held, r,
                     [added |-> added[q][r], sent |-> Head(list),
                      waiting |-> Contents(list) \ {Head(list)}])
  <2>1. [added |-> added[q][r], sent |-> Head(list),
         waiting |-> Contents(list) \ {Head(list)}]
          = [added |-> added'[q][r], sent |-> submitted'[q][r],
             waiting |-> Contents(report_lists'[q][r])]
    BY <1>1, <1>3
  <2>2. Client(q).open = enabled'[q] /\ Client(q).held = report_cnt'[q]
    BY <1>1, ClientFields
  <2> QED
    BY <1>1, <2>1, <2>2, BecomesStep
<1>6. StreamInv'
  <2>1. Gapless(report_lists'[q][r], added'[q][r])
    BY <1>1, <1>3
  <2>2. r \in enabled'[q]
    BY <1>1, <1>2 DEF IInv, QueuedIsSubscribed, list
  <2> QED
    BY <1>1, <2>1, <2>2, InvLocal
<1>7. Stream!Replace(q, r, Head(list))
  BY <1>3, <1>4, <1>5 DEF Stream!Replace
<1> QED
  BY <1>3, <1>4, <1>6, <1>7 DEF list

(* hid_reportq_report_sent with nothing waiting.                           *)
LEMMA SentLastMaps ==
    ASSUME IInv, StreamInv, NEW q \in Queues, ReportSent(q), SentLast(q)
    PROVE  Stream!Done(q) /\ StreamInv'
<1>1. /\ \A p \in Queues \ {q} : Untouched(p)
      /\ sub_id' = sub_id /\ enabled' = enabled /\ report_max' = report_max
      /\ report_lists' = report_lists /\ added' = added /\ submitted' = submitted
  BY DEF IInv, TypeOK, ReportSent, SentLast, Untouched
<1>2. report_cnt'[q] = report_cnt[q] - 1 /\ report_cnt[q] > 0
  BY DEF IInv, TypeOK, WindowExact, ReportSent, SentLast
<1>3. \A r \in Reports : Client(q).stream[r].waiting = {}
  <2> SUFFICES ASSUME NEW r \in Reports
               PROVE  Client(q).stream[r].waiting = {}
    OBVIOUS
  <2>1. Contents(report_lists[q][r]) = {}
    BY EmptyList DEF SentLast, Waiting
  <2>2. Client(q).stream[r] = [added |-> added[q][r], sent |-> submitted[q][r],
                               waiting |-> Contents(report_lists[q][r])]
    BY ClientFields
  <2> QED
    BY <2>1, <2>2
<1>4. Client(q).held = report_cnt[q]
  BY DEF Client
<1>5. \A p \in Queues \ {q} : Client(p)' = Client(p)
  BY <1>1, UntouchedClient
<1>6. Client(q)' = [Client(q) EXCEPT !.held = Client(q).held - 1]
  <2> DEFINE streams == [r \in Reports |->
               [added |-> added[q][r], sent |-> submitted[q][r],
                waiting |-> Contents(report_lists[q][r])]]
  <2>1. Client(q) = [sub |-> sub_id[q], max |-> report_max[q], held |-> report_cnt[q],
                     open |-> enabled[q], stream |-> streams]
    BY DEF Client
  <2>2. Client(q)' = [sub |-> sub_id[q], max |-> report_max[q], held |-> report_cnt[q] - 1,
                      open |-> enabled[q], stream |-> streams]
    BY <1>1, <1>2 DEF Client, Contents
  <2> HIDE DEF streams
  <2> QED
    BY <2>1, <2>2
<1>7. [p \in Queues |-> Client(p)]'
        = [[p \in Queues |-> Client(p)] EXCEPT ![q].held = Client(q).held - 1]
  BY <1>5, <1>6
<1>8. Stream!Done(q)
  BY <1>2, <1>3, <1>4, <1>7 DEF Stream!Done
<1>9. StreamInv'
  BY <1>1 DEF StreamInv, Gapless
<1> QED
  BY <1>8, <1>9

(* A free queue is Idle.                                                   *)
LEMMA FreeIsIdle ==
    ASSUME IInv, StreamInv, NEW q \in Queues, ~Allocated(q)
    PROVE  Client(q) = Stream!Idle
<1>1. /\ sub_id[q] = NoSub /\ enabled[q] = {} /\ report_max[q] = 0 /\ report_cnt[q] = 0
      /\ \A r \in Reports : report_lists[q][r] = <<>>
  BY DEF IInv, FreeQueueIsClean, Allocated, NoLists
<1>2. \A r \in Reports : added[q][r] = 0 /\ submitted[q][r] = 0
  BY <1>1 DEF StreamInv
<1>3. Client(q).stream = [r \in Reports |-> Stream!Fresh]
  <2>1. \A r \in Reports : Contents(report_lists[q][r]) = {}
    BY <1>1, EmptyList
  <2> QED
    BY <1>2, <2>1 DEF Client, Stream!Fresh
<1> QED
  BY <1>1, <1>3 DEF Client, Stream!Idle

(* hid_reportq_alloc attaches a subscriber.                                *)
LEMMA AllocMaps ==
    ASSUME IInv, StreamInv, NEW q \in Queues, NEW s \in Subs, NEW max \in 1 .. MaxReportMax,
           Alloc(q, s, max)
    PROVE  Stream!Attach(q, s, max) /\ StreamInv'
<1>1. /\ \A p \in Queues \ {q} : Untouched(p)
      /\ sub_id'[q] = s /\ report_max'[q] = max
      /\ enabled' = enabled /\ report_cnt' = report_cnt
      /\ report_lists' = report_lists /\ added' = added /\ submitted' = submitted
  BY DEF IInv, TypeOK, Alloc, Untouched
<1>2. Client(q) = Stream!Idle
  BY FreeIsIdle DEF Alloc
<1>3. \A p \in Queues : Client(p).sub # s
  BY DEF Client, Alloc
<1>4. \A p \in Queues \ {q} : Client(p)' = Client(p)
  BY <1>1, UntouchedClient
<1>5. Client(q)' = [sub |-> s, max |-> max, held |-> Client(q).held,
                    open |-> Client(q).open, stream |-> Client(q).stream]
  <2> DEFINE streams == [r \in Reports |->
               [added |-> added[q][r], sent |-> submitted[q][r],
                waiting |-> Contents(report_lists[q][r])]]
  <2>1. Client(q) = [sub |-> sub_id[q], max |-> report_max[q], held |-> report_cnt[q],
                     open |-> enabled[q], stream |-> streams]
    BY DEF Client
  <2>2. Client(q)' = [sub |-> s, max |-> max, held |-> report_cnt[q],
                      open |-> enabled[q], stream |-> streams]
    BY <1>1 DEF Client, Contents
  <2>3. Client(q).held = report_cnt[q] /\ Client(q).open = enabled[q]
        /\ Client(q).stream = streams
    BY <2>1
  <2> HIDE DEF streams
  <2> QED
    BY <2>2, <2>3
<1>6. [p \in Queues |-> Client(p)]'
        = [[p \in Queues |-> Client(p)] EXCEPT ![q] =
             [sub |-> s, max |-> max, held |-> Stream!Idle.held,
              open |-> Stream!Idle.open, stream |-> Stream!Idle.stream]]
  BY <1>2, <1>4, <1>5
<1>7. Stream!Attach(q, s, max)
  BY <1>2, <1>3, <1>6 DEF Stream!Attach
<1>8. StreamInv'
  BY <1>1 DEF StreamInv, Gapless
<1> QED
  BY <1>7, <1>8

(* hid_reportq_free lets it go.                                            *)
LEMMA FreeMaps ==
    ASSUME IInv, StreamInv, NEW q \in Queues, Free(q)
    PROVE  Stream!Detach(q) /\ StreamInv'
<1>1. /\ \A p \in Queues \ {q} : Untouched(p)
      /\ sub_id'[q] = NoSub /\ report_max'[q] = 0 /\ enabled'[q] = {} /\ report_cnt'[q] = 0
      /\ report_lists'[q] = NoLists /\ added'[q] = Zeros /\ submitted'[q] = Zeros
  BY DEF IInv, TypeOK, Free, Untouched
<1>2. \A r \in Reports :
        report_lists'[q][r] = <<>> /\ added'[q][r] = 0 /\ submitted'[q][r] = 0
  BY <1>1 DEF NoLists, Zeros
<1>3. Client(q)' = Stream!Idle
  <2>1. Client(q)'.stream = [r \in Reports |-> Stream!Fresh]
    <3>1. \A r \in Reports : Contents(report_lists'[q][r]) = {}
      BY <1>2, EmptyList
    <3> QED
      BY <1>2, <3>1 DEF Client, Contents, Stream!Fresh
  <2> QED
    BY <1>1, <2>1 DEF Client, Stream!Idle
<1>4. \A p \in Queues \ {q} : Client(p)' = Client(p)
  BY <1>1, UntouchedClient
<1>5. [p \in Queues |-> Client(p)]'
        = [[p \in Queues |-> Client(p)] EXCEPT ![q] = Stream!Idle]
  BY <1>3, <1>4
<1>6. Stream!Detach(q)
  BY <1>5 DEF Stream!Detach, Client, Free, Allocated
<1>7. StreamInv'
  <2> SUFFICES ASSUME NEW p \in Queues, NEW r \in Reports
               PROVE  /\ Gapless(report_lists'[p][r], added'[p][r])
                      /\ r \notin enabled'[p] => added'[p][r] = 0 /\ submitted'[p][r] = 0
    BY DEF StreamInv, Gapless
  <2>1. CASE p = q
    BY <1>2, <2>1, EmptyList
  <2>2. CASE p # q
    BY <1>1, <2>2 DEF Untouched, StreamInv
  <2> QED
    BY <2>1, <2>2
<1> QED
  BY <1>6, <1>7

-----------------------------------------------------------------------------
LEMMA InitMaps == Init => Stream!Init /\ StreamInv
<1> SUFFICES ASSUME Init PROVE Stream!Init /\ StreamInv
  OBVIOUS
<1>1. \A q \in Queues, r \in Reports :
        report_lists[q][r] = <<>> /\ added[q][r] = 0 /\ submitted[q][r] = 0
  BY DEF Init, NoLists, Zeros
<1>2. StreamInv
  BY <1>1, EmptyList DEF StreamInv
<1>3. IInv
  BY InitIInv
<1>4. \A q \in Queues : Client(q) = Stream!Idle
  BY <1>2, <1>3, FreeIsIdle DEF Init, Allocated
<1>5. Stream!Init
  BY <1>4 DEF Stream!Init
<1> QED
  BY <1>2, <1>5

LEMMA NextMaps ==
    IInv /\ StreamInv /\ [Next]_vars
      => [Stream!Next]_([q \in Queues |-> Client(q)]) /\ StreamInv'
<1> SUFFICES ASSUME IInv, StreamInv, [Next]_vars
             PROVE  [Stream!Next]_([q \in Queues |-> Client(q)]) /\ StreamInv'
  OBVIOUS
<1>1. ASSUME NEW q \in Queues, NEW s \in Subs, NEW max \in 1 .. MaxReportMax,
             Alloc(q, s, max)
      PROVE  Stream!Next /\ StreamInv'
  BY <1>1, AllocMaps DEF Stream!Next
<1>2. ASSUME NEW q \in Queues, Free(q)
      PROVE  Stream!Next /\ StreamInv'
  BY <1>2, FreeMaps DEF Stream!Next
<1>3. ASSUME NEW q \in Queues, ReportSent(q)
      PROVE  Stream!Next /\ StreamInv'
  <2>1. ASSUME NEW r \in Reports, SentNext(q, r)
        PROVE  Stream!Next /\ StreamInv'
    BY <1>3, <2>1, SentNextMaps DEF Stream!Next
  <2>2. CASE SentLast(q)
    BY <1>3, <2>2, SentLastMaps DEF Stream!Next
  <2> QED
    BY <1>3, <2>1, <2>2 DEF ReportSent
<1>4. ASSUME NEW q \in Queues, NEW r \in Reports, ReportAdd(q, r)
      PROVE  Stream!Next /\ StreamInv'
  <2>1. CASE AddSubmit(q, r)
    BY <1>4, <2>1, AddSubmitMaps DEF Stream!Next
  <2>2. CASE AddEnqueue(q, r)
    BY <1>4, <2>2, AddEnqueueMaps DEF Stream!Next
  <2> QED
    BY <1>4, <2>1, <2>2 DEF ReportAdd
<1>5. ASSUME NEW q \in Queues, NEW r \in Reports, Subscribe(q, r)
      PROVE  Stream!Next /\ StreamInv'
  BY <1>5, SubscribeMaps DEF Stream!Next
<1>6. ASSUME NEW q \in Queues, NEW r \in Reports, Unsubscribe(q, r)
      PROVE  Stream!Next /\ StreamInv'
  BY <1>6, UnsubscribeMaps DEF Stream!Next
<1>7. CASE UNCHANGED vars
  <2>1. [q \in Queues |-> Client(q)]' = [q \in Queues |-> Client(q)]
    BY <1>7 DEF vars, codeVars, Client, Contents
  <2>2. StreamInv'
    BY <1>7 DEF vars, codeVars, StreamInv, Gapless
  <2> QED
    BY <2>1, <2>2
<1> QED
  BY <1>1, <1>2, <1>3, <1>4, <1>5, <1>6, <1>7 DEF Next

(* The queues keep the promise of HidReportStream: no event overtakes      *)
(* another of its report, none is told twice, only the oldest is lost and  *)
(* only when MaxEnqueued newer ones wait, and a subscriber finds nothing   *)
(* of the one before.                                                      *)
THEOREM Refinement == Spec => KeepsStreams
<1>1. Init => Stream!Init /\ StreamInv
  BY InitMaps
<1>2. IInv /\ StreamInv /\ [Next]_vars
        => [Stream!Next]_([q \in Queues |-> Client(q)]) /\ StreamInv'
  BY NextMaps
<1> QED
  BY <1>1, <1>2, Invariance, PTL DEF Spec, KeepsStreams, Stream!Spec

=============================================================================
