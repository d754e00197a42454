----------------------------- MODULE DfuProofs -----------------------------
(***************************************************************************)
(* Proofs about Dfu: for any images, sizes and bounds one transport writes *)
(* to the slot at a time, and a slot that counts as clean holds what has   *)
(* been stored of the image and is erased behind it, but for stale cells.  *)
(***************************************************************************)
EXTENDS Dfu, TLAPS

-----------------------------------------------------------------------------
(* The inductive invariant.                                                *)

CountOK == count \in [hosts : Nat, use : Nat, commands : Nat, errors : Nat, reboots : Nat]

\* Who else has had the slot is known: whenever the lock is, or was last, MCUmgr's.
LockOK ==
    /\ lock.owner = "mgr" => "foreign" \in flags
    /\ lock.owner = "none" => lock.prev # "none" /\ (lock.prev = "mgr" => "foreign" \in flags)
    /\ "foreign" \in flags => "open" \notin flags /\ work \subseteq {"reboot"}
    /\ "open" \in flags /\ "clean" \notin flags => "erase" \in work
    /\ mgr.pc # "idle" => mgr.timer = "on"

\* What is in the buffer is the next part of the image.
BufferOK ==
    /\ dfu.buffer # <<>> => {"open", "clean"} \subseteq flags
    /\ "clean" \notin flags => dfu.cur = 0
    /\ dfu.cur + Len(dfu.buffer) <= Length
    /\ \A j \in 1 .. Len(dfu.buffer) : dfu.buffer[j] = [img |-> dfu.img, at |-> dfu.cur + j - 1]

\* What the tool of the host knows.
HostOK ==
    /\ host.phase # "off" => host.img \in Images
    /\ host.phase = "start" => "store" \notin work
    /\ host.phase = "sent" => dfu.buffer = <<>>
    /\ host.phase = "data" => "store" \notin work
    /\ host.phase = "data" /\ {"open", "clean"} \subseteq flags =>
           /\ dfu.img = host.img
           /\ dfu.cur + Len(dfu.buffer) = host.pos
           /\ host.pos = host.base + Len(dfu.buffer)

\* How far the erasure has come.
EraseOK ==
    /\ "clean" \in flags => dfu.erase = 0
    /\ \A c \in Cells \ stale : c < dfu.erase => slot[c] = Erased

IInv == TypeOK /\ CountOK /\ OneWriter /\ LockOK /\ BufferOK /\ HostOK /\ EraseOK /\ SlotIsPrefix

LEMMA CountKept == ASSUME CountOK, UNCHANGED count PROVE CountOK'
  BY DEF CountOK

LEMMA CountMore ==
    ASSUME CountOK, NEW what \in {"hosts", "use", "commands", "errors", "reboots"}, NEW max,
           Count(what, max)
    PROVE  CountOK'
  BY DEF CountOK, Count

LEMMA CutOffCells == CutOff \subseteq Cells
  BY DEF CutOff

LEMMA OwnedFacts ==
    ASSUME TypeOK, NEW o \in {"config", "mgr"}
    PROVE  /\ Owned(o) \in [owner : {"none", "config", "mgr"}, prev : {"none", "config", "mgr"}]
           /\ Owned(o).owner = o /\ Owned(o).prev = lock.prev
  BY DEF TypeOK, Owned

LEMMA ReleasedFacts ==
    ASSUME TypeOK, NEW w
    PROVE  /\ Released(w) \in [owner : {"none", "config", "mgr"}, prev : {"none", "config", "mgr"}]
           /\ "reboot" \in w => Released(w).owner = "config"
           /\ "reboot" \notin w => Released(w).owner = "none" /\ Released(w).prev = "config"
  BY OwnedFacts DEF Released, Freed

LEMMA ClaimFacts ==
    ASSUME TypeOK
    PROVE  /\ MgrAfterClaim \in [pc : {"idle", "claim", "write"}, timer : {"off", "on"}, upload : Cells]
           /\ MgrAfterClaim.pc = mgr.pc /\ MgrAfterClaim.timer = mgr.timer
<1> DEFINE u == IF OwnerChanged("mgr", "config") THEN 0 ELSE mgr.upload
<1>1. u \in Cells
  BY SizesAssumption DEF TypeOK, Cells
<1>2. MgrAfterClaim = [mgr EXCEPT !.upload = u]
  BY DEF TypeOK, MgrAfterClaim
<1> HIDE DEF u
<1>. QED BY <1>1, <1>2 DEF TypeOK

\* terminate_dfu empties the buffer and ends the store and the timeout.
LEMMA TerminateFacts ==
    ASSUME TypeOK, OneWriter, LockOK, "timeout" \in work,
           NEW d \in [cur : 0 .. Length, img : Images \cup {None}, buffer : Seq(Chunks),
                      store : 0 .. Buffer, erase : Cells],
           Terminate(d)
    PROVE  /\ dfu' \in [cur : 0 .. Length, img : Images \cup {None}, buffer : Seq(Chunks),
                        store : 0 .. Buffer, erase : Cells]
           /\ Len(dfu'.buffer) = 0 /\ dfu'.buffer = <<>>
           /\ dfu'.cur = d.cur /\ dfu'.img = d.img /\ dfu'.erase = d.erase
           /\ lock' \in [owner : {"none", "config", "mgr"}, prev : {"none", "config", "mgr"}]
           /\ work' = work \cap {"reboot"}
           /\ flags' = flags \ {"open"} /\ "clean" \in flags /\ "foreign" \notin flags
           /\ work' # {} => lock'.owner = "config"
           /\ lock'.owner \in {"none", "config"}
           /\ lock'.owner = "none" => lock'.prev = "config"
<1>1. <<>> \in Seq(Chunks) /\ Len(<<>>) = 0
  OBVIOUS
<1>2. /\ dfu'.cur = d.cur /\ dfu'.img = d.img /\ dfu'.erase = d.erase /\ dfu'.buffer = <<>>
      /\ dfu' \in [cur : 0 .. Length, img : Images \cup {None}, buffer : Seq(Chunks),
                   store : 0 .. Buffer, erase : Cells]
  BY <1>1 DEF Terminate
<1>3. Len(dfu'.buffer) = 0
  BY <1>1, <1>2
<1>4. work' = work \cap {"reboot"}
  BY DEF TypeOK, OneWriter, Works, Terminate
<1>5. "clean" \in flags /\ "foreign" \notin flags /\ flags' = flags \ {"open"}
  BY DEF OneWriter, LockOK, Terminate
<1>. QED BY <1>2, <1>3, <1>4, <1>5, ReleasedFacts DEF Terminate

\* A timeout and an empty data packet end the update, in the middle of a store as well.
LEMMA TerminateStep ==
    ASSUME IInv, "timeout" \in work, Terminate(dfu), stale' = stale \cup CutOff,
           UNCHANGED <<slot, marked, mgr, host, count>>
    PROVE  IInv'
<1>1. CountOK'
  BY CountKept DEF IInv
<1>2. dfu \in [cur : 0 .. Length, img : Images \cup {None}, buffer : Seq(Chunks),
               store : 0 .. Buffer, erase : Cells]
  BY DEF IInv, TypeOK
<1>3. /\ dfu' \in [cur : 0 .. Length, img : Images \cup {None}, buffer : Seq(Chunks),
                   store : 0 .. Buffer, erase : Cells]
      /\ Len(dfu'.buffer) = 0 /\ dfu'.buffer = <<>>
      /\ dfu'.cur = dfu.cur /\ dfu'.img = dfu.img /\ dfu'.erase = dfu.erase
      /\ lock' \in [owner : {"none", "config", "mgr"}, prev : {"none", "config", "mgr"}]
      /\ work' = work \cap {"reboot"}
      /\ flags' = flags \ {"open"} /\ "clean" \in flags /\ "foreign" \notin flags
      /\ work' # {} => lock'.owner = "config"
      /\ lock'.owner \in {"none", "config"}
      /\ lock'.owner = "none" => lock'.prev = "config"
  BY <1>2, TerminateFacts DEF IInv
<1>4. TypeOK'
  BY <1>3, CutOffCells, SizesAssumption DEF IInv, TypeOK
<1>5. OneWriter'
  BY <1>3 DEF IInv, OneWriter
<1>6. LockOK'
  BY <1>3 DEF IInv, LockOK
<1>7. BufferOK'
  BY <1>3 DEF BufferOK
<1>8. HostOK'
  BY <1>3 DEF IInv, HostOK
<1>9. EraseOK'
  BY <1>3 DEF IInv, EraseOK
<1>10. SlotIsPrefix'
  <2> SUFFICES ASSUME NEW c \in Cells \ stale'
               PROVE  slot'[c] = IF c < Stored' THEN [img |-> dfu'.img, at |-> c] ELSE Erased
    BY DEF SlotIsPrefix
  <2>1. slot[c] = IF c < Stored THEN [img |-> dfu.img, at |-> c] ELSE Erased
    BY <1>3 DEF IInv, SlotIsPrefix
  <2>2. c \notin CutOff
    OBVIOUS
  <2>3. Stored' = dfu.cur /\ (Stored = dfu.cur \/ Stored = dfu.cur + dfu.store)
    BY <1>3 DEF Stored
  <2>4. dfu.cur \in Nat /\ dfu.store \in Nat /\ c \in Int
    BY SizesAssumption DEF IInv, TypeOK, Cells
  <2>5. c < Stored' <=> c < Stored
    BY <2>2, <2>3, <2>4 DEF CutOff
  <2>. QED BY <1>3, <2>1, <2>5
<1>. QED BY <1>1, <1>4, <1>5, <1>6, <1>7, <1>8, <1>9, <1>10 DEF IInv

LEMMA TimeoutStep == ASSUME IInv, Timeout PROVE IInv'
  BY TerminateStep DEF Timeout

LEMMA NoDataStep == ASSUME IInv, HostSendsNothing PROVE IInv'
<1>1. "timeout" \in work
  BY DEF IInv, OneWriter, HostSendsNothing, HandleNoData
<1>. QED BY <1>1, TerminateStep DEF HostSendsNothing, HandleNoData

LEMMA EraseDeferredStep == ASSUME IInv, EraseDeferred PROVE IInv'
<1>1. CountOK'
  BY CountKept DEF IInv, EraseDeferred
<1>2. TypeOK'
  <2>1. lock' \in [owner : {"none", "config", "mgr"}, prev : {"none", "config", "mgr"}]
    BY DEF IInv, TypeOK, EraseDeferred
  <2>2. flags' \subseteq Flags /\ work' \subseteq Works /\ marked' \in Images \cup {None}
    BY DEF IInv, TypeOK, EraseDeferred
  <2>3. /\ dfu' \in [cur : 0 .. Length, img : Images \cup {None}, buffer : Seq(Chunks),
                    store : 0 .. Buffer, erase : Cells]
        /\ Len(dfu'.buffer) <= Buffer
    BY DEF IInv, TypeOK, EraseDeferred
  <2>4. slot' \in [Cells -> Contents] /\ stale' \subseteq Cells
    BY DEF IInv, TypeOK, EraseDeferred
  <2>5. mgr' \in [pc : {"idle", "claim", "write"}, timer : {"off", "on"}, upload : Cells]
    BY DEF IInv, TypeOK, EraseDeferred
  <2>6. /\ host'.phase \in {"off", "look", "start", "sent", "data", "wait", "done"}
        /\ host'.img \in Images \cup {None} /\ host'.pos \in 0 .. Length /\ host'.base \in 0 .. Length
    BY DEF IInv, TypeOK, EraseDeferred
  <2>. QED BY <2>1, <2>2, <2>3, <2>4, <2>5, <2>6 DEF TypeOK
<1>3. OneWriter'
  BY DEF IInv, OneWriter, EraseDeferred
<1>4. LockOK'
  BY DEF IInv, LockOK, EraseDeferred
<1>5. BufferOK'
  BY DEF IInv, BufferOK, EraseDeferred
<1>6. HostOK'
  BY DEF IInv, HostOK, EraseDeferred
<1>7. EraseOK'
  BY DEF IInv, EraseOK, EraseDeferred
<1>8. SlotIsPrefix'
  BY DEF IInv, SlotIsPrefix, Stored, EraseDeferred
<1>. QED BY <1>1, <1>2, <1>3, <1>4, <1>5, <1>6, <1>7, <1>8 DEF IInv

LEMMA EraseStep == ASSUME IInv, Erase PROVE IInv'
<1>1. CountOK'
  BY CountKept DEF IInv, Erase
<1>2. /\ lock.owner = "config" /\ "clean" \notin flags /\ "foreign" \notin flags
      /\ work \subseteq {"erase", "reboot"} /\ dfu.cur = 0 /\ dfu.buffer = <<>>
      /\ dfu.erase \in 0 .. Slot - 1 /\ mgr.pc # "write" /\ Len(dfu.buffer) = 0
  BY DEF IInv, TypeOK, OneWriter, LockOK, BufferOK, Erase, Works, Cells
<1>3. /\ dfu'.cur = dfu.cur /\ dfu'.img = dfu.img /\ dfu'.buffer = dfu.buffer
      /\ dfu'.store = dfu.store
      /\ dfu'.erase = IF dfu.erase + 1 >= Slot THEN 0 ELSE dfu.erase + 1
      /\ dfu' \in [cur : 0 .. Length, img : Images \cup {None}, buffer : Seq(Chunks),
                   store : 0 .. Buffer, erase : Cells]
  <2>1. CASE dfu.erase + 1 >= Slot
    <3>1. dfu' = [dfu EXCEPT !.erase = 0] /\ 0 \in Cells
      BY <2>1, SizesAssumption DEF Erase, EraseEnds, Cells
    <3>. QED BY <2>1, <3>1 DEF IInv, TypeOK
  <2>2. CASE ~(dfu.erase + 1 >= Slot)
    <3>1. dfu' = [dfu EXCEPT !.erase = dfu.erase + 1] /\ dfu.erase + 1 \in Cells
      BY <1>2, <2>2, SizesAssumption DEF Erase, EraseEnds, Cells
    <3>. QED BY <2>2, <3>1 DEF IInv, TypeOK
  <2>. QED BY <2>1, <2>2
<1>4. /\ slot' \in [Cells -> Contents]
      /\ \A c \in Cells : slot'[c] = IF c = dfu.erase THEN Erased ELSE slot[c]
      /\ stale' = stale \ {dfu.erase} /\ stale' \subseteq Cells
  BY DEF IInv, TypeOK, Erase, Contents
<1>5. CASE dfu.erase + 1 >= Slot
  <2>1. /\ flags' = (flags \cup {"clean"}) \ {"open"} /\ work' = work \ {"erase"}
        /\ lock' = Released(work)
    BY <1>5 DEF Erase, EraseEnds
  <2>2. /\ lock' \in [owner : {"none", "config", "mgr"}, prev : {"none", "config", "mgr"}]
        /\ lock'.owner = IF work' = {} THEN "none" ELSE "config"
        /\ lock'.owner = "none" => lock'.prev = "config"
    BY <1>2, <2>1, ReleasedFacts DEF IInv
  <2>3. TypeOK'
    <3>1. marked' \in Images \cup {None}
      BY DEF IInv, TypeOK, Erase
    <3>2. mgr' = mgr /\ host' = host
      BY DEF Erase
    <3>. QED BY <1>3, <1>4, <2>1, <2>2, <3>1, <3>2 DEF IInv, TypeOK, Flags
  <2>4. OneWriter' /\ LockOK'
    BY <2>2 DEF IInv, OneWriter, LockOK, Erase
  <2>5. BufferOK' /\ HostOK'
    BY <1>2, <1>3 DEF IInv, BufferOK, HostOK, Erase
  <2>6. EraseOK'
    BY <1>3, <1>5 DEF EraseOK, Cells
  <2>7. SlotIsPrefix'
    <3>1. \A c \in Cells \ stale' : slot'[c] = Erased
      BY <1>2, <1>4, <1>5, SizesAssumption DEF IInv, EraseOK, Cells
    <3>2. Stored' = 0
      BY <1>2, <1>3, <2>1 DEF Stored
    <3>. QED BY <3>1, <3>2 DEF SlotIsPrefix, Cells
  <2>. QED BY <1>1, <2>3, <2>4, <2>5, <2>6, <2>7 DEF IInv
<1>6. CASE ~(dfu.erase + 1 >= Slot)
  <2>1. flags' = flags \cup {"open"} /\ work' = work /\ lock' = lock /\ "erase" \in work
    BY <1>6 DEF Erase, EraseEnds
  <2>2. marked' \in Images \cup {None}
    BY DEF IInv, TypeOK, Erase
  <2>3. TypeOK'
    BY <1>3, <1>4, <2>1 DEF IInv, TypeOK, Erase, Flags
  <2>4. OneWriter' /\ LockOK'
    BY <2>1 DEF IInv, OneWriter, LockOK, Erase
  <2>5. BufferOK' /\ HostOK'
    BY <1>2, <1>3 DEF IInv, BufferOK, HostOK, Erase
  <2>6. EraseOK'
    BY <1>2, <1>3, <1>4, <1>6, <2>1 DEF IInv, EraseOK, Cells
  <2>7. SlotIsPrefix'
    BY <1>2, <2>1 DEF SlotIsPrefix
  <2>. QED BY <1>1, <2>3, <2>4, <2>5, <2>6, <2>7 DEF IInv
<1>. QED BY <1>5, <1>6

LEMMA EraseFailsStep == ASSUME IInv, EraseFails PROVE IInv'
<1>1. CountOK'
  BY CountMore DEF IInv, EraseFails
<1>2. /\ lock.owner = "config" /\ "clean" \notin flags /\ "foreign" \notin flags
      /\ work \subseteq {"erase", "reboot"}
  BY DEF IInv, TypeOK, OneWriter, LockOK, EraseFails, Works
<1>3. /\ lock' \in [owner : {"none", "config", "mgr"}, prev : {"none", "config", "mgr"}]
      /\ lock'.owner = IF work' = {} THEN "none" ELSE "config"
      /\ lock'.owner = "none" => lock'.prev = "config"
  BY <1>2, ReleasedFacts DEF IInv, EraseFails
<1>4. TypeOK'
  <2>1. lock' \in [owner : {"none", "config", "mgr"}, prev : {"none", "config", "mgr"}]
    BY DEF IInv, TypeOK, EraseFails, Released, Freed, Owned
  <2>2. flags' \subseteq Flags /\ work' \subseteq Works /\ marked' \in Images \cup {None}
    BY DEF IInv, TypeOK, EraseFails
  <2>3. /\ dfu' \in [cur : 0 .. Length, img : Images \cup {None}, buffer : Seq(Chunks),
                    store : 0 .. Buffer, erase : Cells]
        /\ Len(dfu'.buffer) <= Buffer
    BY DEF IInv, TypeOK, EraseFails
  <2>4. slot' \in [Cells -> Contents] /\ stale' \subseteq Cells
    BY DEF IInv, TypeOK, EraseFails
  <2>5. mgr' \in [pc : {"idle", "claim", "write"}, timer : {"off", "on"}, upload : Cells]
    BY DEF IInv, TypeOK, EraseFails
  <2>6. /\ host'.phase \in {"off", "look", "start", "sent", "data", "wait", "done"}
        /\ host'.img \in Images \cup {None} /\ host'.pos \in 0 .. Length /\ host'.base \in 0 .. Length
    BY DEF IInv, TypeOK, EraseFails
  <2>. QED BY <2>1, <2>2, <2>3, <2>4, <2>5, <2>6 DEF TypeOK
<1>5. OneWriter'
  BY <1>3 DEF IInv, OneWriter, EraseFails
<1>6. LockOK'
  BY DEF IInv, LockOK, EraseFails, Released, Freed, Owned
<1>7. BufferOK'
  BY DEF IInv, OneWriter, BufferOK, EraseFails
<1>8. HostOK'
  BY DEF IInv, HostOK, EraseFails
<1>9. EraseOK'
  BY DEF IInv, EraseOK, EraseFails
<1>10. SlotIsPrefix'
  BY DEF IInv, OneWriter, SlotIsPrefix, EraseFails
<1>. QED BY <1>1, <1>4, <1>5, <1>6, <1>7, <1>8, <1>9, <1>10 DEF IInv

LEMMA StoreDeferredStep == ASSUME IInv, StoreDeferred PROVE IInv'
<1>1. CountOK'
  BY CountKept DEF IInv, StoreDeferred
<1>2. TypeOK'
  <2>1. lock' \in [owner : {"none", "config", "mgr"}, prev : {"none", "config", "mgr"}]
    BY DEF IInv, TypeOK, StoreDeferred, StoreAgain
  <2>2. flags' \subseteq Flags /\ work' \subseteq Works /\ marked' \in Images \cup {None}
    BY DEF IInv, TypeOK, StoreDeferred, StoreAgain, Works
  <2>3. /\ dfu' \in [cur : 0 .. Length, img : Images \cup {None}, buffer : Seq(Chunks),
                    store : 0 .. Buffer, erase : Cells]
        /\ Len(dfu'.buffer) <= Buffer
    BY DEF IInv, TypeOK, StoreDeferred
  <2>4. slot' \in [Cells -> Contents] /\ stale' \subseteq Cells
    BY DEF IInv, TypeOK, StoreDeferred
  <2>5. mgr' \in [pc : {"idle", "claim", "write"}, timer : {"off", "on"}, upload : Cells]
    BY DEF IInv, TypeOK, StoreDeferred
  <2>6. /\ host'.phase \in {"off", "look", "start", "sent", "data", "wait", "done"}
        /\ host'.img \in Images \cup {None} /\ host'.pos \in 0 .. Length /\ host'.base \in 0 .. Length
    BY DEF IInv, TypeOK, StoreDeferred
  <2>. QED BY <2>1, <2>2, <2>3, <2>4, <2>5, <2>6 DEF TypeOK
<1>3. OneWriter'
  BY DEF IInv, OneWriter, StoreDeferred, StoreAgain
<1>4. LockOK'
  BY DEF IInv, LockOK, StoreDeferred, StoreAgain
<1>5. BufferOK'
  BY DEF IInv, BufferOK, StoreDeferred
<1>6. HostOK'
  BY DEF IInv, HostOK, StoreDeferred
<1>7. EraseOK'
  BY DEF IInv, EraseOK, StoreDeferred, StoreAgain
<1>8. SlotIsPrefix'
  BY DEF IInv, SlotIsPrefix, Stored, StoreDeferred, StoreAgain
<1>. QED BY <1>1, <1>2, <1>3, <1>4, <1>5, <1>6, <1>7, <1>8 DEF IInv

LEMMA StoreFailsStep == ASSUME IInv, StoreFails PROVE IInv'
<1>1. CountOK'
  BY CountMore DEF IInv, StoreFails
<1> DEFINE d == [dfu EXCEPT !.store = 0]
<1>2. /\ d \in [cur : 0 .. Length, img : Images \cup {None}, buffer : Seq(Chunks),
                store : 0 .. Buffer, erase : Cells]
      /\ d.cur = dfu.cur /\ d.img = dfu.img /\ d.erase = dfu.erase
  BY SizesAssumption DEF IInv, TypeOK
<1>3. "timeout" \in work /\ Terminate(d)
  BY DEF IInv, OneWriter, StoreFails
<1> HIDE DEF d
<1>4. /\ dfu' \in [cur : 0 .. Length, img : Images \cup {None}, buffer : Seq(Chunks),
                   store : 0 .. Buffer, erase : Cells]
      /\ Len(dfu'.buffer) = 0 /\ dfu'.buffer = <<>>
      /\ dfu'.cur = dfu.cur /\ dfu'.img = dfu.img /\ dfu'.erase = dfu.erase
      /\ lock' \in [owner : {"none", "config", "mgr"}, prev : {"none", "config", "mgr"}]
      /\ work' = work \cap {"reboot"}
      /\ flags' = flags \ {"open"} /\ "clean" \in flags /\ "foreign" \notin flags
      /\ work' # {} => lock'.owner = "config"
      /\ lock'.owner \in {"none", "config"}
      /\ lock'.owner = "none" => lock'.prev = "config"
  BY <1>2, <1>3, TerminateFacts DEF IInv
<1>5. /\ Stored = dfu.cur + dfu.store /\ Stored \in Cells
      /\ slot' \in [Cells -> Contents]
      /\ \A c \in Cells : c # Stored => slot'[c] = slot[c]
      /\ stale' = stale \cup CutOff \cup {Stored}
  <2>1. dfu.store < Len(dfu.buffer) /\ dfu.cur + Len(dfu.buffer) <= Length /\ Length <= Slot
    BY SizesAssumption DEF IInv, OneWriter, BufferOK, StoreFails
  <2>2. /\ dfu.cur \in Nat /\ dfu.store \in Nat /\ Len(dfu.buffer) \in Nat
        /\ Length \in Nat /\ Slot \in Nat
    BY SizesAssumption DEF IInv, TypeOK
  <2>3. Stored = dfu.cur + dfu.store
    BY DEF Stored, StoreFails
  <2>4. Stored \in Cells
    BY <2>1, <2>2, <2>3 DEF Cells
  <2>. QED BY <2>3, <2>4 DEF IInv, TypeOK, StoreFails, Contents
<1>6. TypeOK'
  BY <1>4, <1>5, CutOffCells, SizesAssumption DEF IInv, TypeOK, StoreFails
<1>7. OneWriter'
  BY <1>4 DEF IInv, OneWriter, StoreFails
<1>8. LockOK'
  BY <1>4 DEF IInv, LockOK, StoreFails
<1>9. BufferOK'
  BY <1>4 DEF BufferOK
<1>10. HostOK'
  BY <1>4 DEF IInv, HostOK, StoreFails
<1>11. EraseOK'
  <2>1. dfu'.erase = 0 /\ \A c \in Cells : ~(c < 0)
    BY <1>4 DEF IInv, EraseOK, Cells
  <2>. QED BY <2>1 DEF EraseOK
<1>12. SlotIsPrefix'
  <2> SUFFICES ASSUME NEW c \in Cells \ stale'
               PROVE  slot'[c] = IF c < Stored' THEN [img |-> dfu'.img, at |-> c] ELSE Erased
    BY DEF SlotIsPrefix
  <2>1. slot'[c] = IF c < Stored THEN [img |-> dfu.img, at |-> c] ELSE Erased
    BY <1>4, <1>5 DEF IInv, SlotIsPrefix
  <2>2. c \notin CutOff /\ c # Stored
    BY <1>5
  <2>3. Stored' = dfu.cur
    BY <1>4 DEF Stored
  <2>4. dfu.cur \in Nat /\ dfu.store \in Nat /\ c \in Int
    BY SizesAssumption DEF IInv, TypeOK, Cells
  <2>5. c < Stored' <=> c < Stored
    BY <1>5, <2>2, <2>3, <2>4 DEF CutOff
  <2>. QED BY <1>4, <2>1, <2>5
<1>. QED BY <1>1, <1>6, <1>7, <1>8, <1>9, <1>10, <1>11, <1>12 DEF IInv

LEMMA HostAppearsStep == ASSUME IInv, HostAppears PROVE IInv'
<1>1. CountOK'
  BY CountMore DEF IInv, HostAppears
<1>2. TypeOK'
  <2>1. lock' \in [owner : {"none", "config", "mgr"}, prev : {"none", "config", "mgr"}]
    BY DEF IInv, TypeOK, HostAppears
  <2>2. flags' \subseteq Flags /\ work' \subseteq Works /\ marked' \in Images \cup {None}
    BY DEF IInv, TypeOK, HostAppears
  <2>3. /\ dfu' \in [cur : 0 .. Length, img : Images \cup {None}, buffer : Seq(Chunks),
                    store : 0 .. Buffer, erase : Cells]
        /\ Len(dfu'.buffer) <= Buffer
    BY DEF IInv, TypeOK, HostAppears
  <2>4. slot' \in [Cells -> Contents] /\ stale' \subseteq Cells
    BY DEF IInv, TypeOK, HostAppears
  <2>5. mgr' \in [pc : {"idle", "claim", "write"}, timer : {"off", "on"}, upload : Cells]
    BY DEF IInv, TypeOK, HostAppears
  <2>6. /\ host'.phase \in {"off", "look", "start", "sent", "data", "wait", "done"}
        /\ host'.img \in Images \cup {None} /\ host'.pos \in 0 .. Length /\ host'.base \in 0 .. Length
    BY SizesAssumption DEF HostAppears, NoHost
  <2>. QED BY <2>1, <2>2, <2>3, <2>4, <2>5, <2>6 DEF TypeOK
<1>3. OneWriter'
  BY DEF IInv, OneWriter, HostAppears
<1>4. LockOK'
  BY DEF IInv, LockOK, HostAppears
<1>5. BufferOK'
  BY DEF IInv, BufferOK, HostAppears
<1>6. HostOK'
  BY DEF HostOK, HostAppears
<1>7. EraseOK'
  BY DEF IInv, EraseOK, HostAppears
<1>8. SlotIsPrefix'
  BY DEF IInv, SlotIsPrefix, Stored, HostAppears
<1>. QED BY <1>1, <1>2, <1>3, <1>4, <1>5, <1>6, <1>7, <1>8 DEF IInv

LEMMA HostGoesStep == ASSUME IInv, HostGoes PROVE IInv'
<1>1. CountOK'
  BY CountKept DEF IInv, HostGoes
<1>2. TypeOK'
  <2>1. lock' \in [owner : {"none", "config", "mgr"}, prev : {"none", "config", "mgr"}]
    BY DEF IInv, TypeOK, HostGoes
  <2>2. flags' \subseteq Flags /\ work' \subseteq Works /\ marked' \in Images \cup {None}
    BY DEF IInv, TypeOK, HostGoes
  <2>3. /\ dfu' \in [cur : 0 .. Length, img : Images \cup {None}, buffer : Seq(Chunks),
                    store : 0 .. Buffer, erase : Cells]
        /\ Len(dfu'.buffer) <= Buffer
    BY DEF IInv, TypeOK, HostGoes
  <2>4. slot' \in [Cells -> Contents] /\ stale' \subseteq Cells
    BY DEF IInv, TypeOK, HostGoes
  <2>5. mgr' \in [pc : {"idle", "claim", "write"}, timer : {"off", "on"}, upload : Cells]
    BY DEF IInv, TypeOK, HostGoes
  <2>6. /\ host'.phase \in {"off", "look", "start", "sent", "data", "wait", "done"}
        /\ host'.img \in Images \cup {None} /\ host'.pos \in 0 .. Length /\ host'.base \in 0 .. Length
    BY SizesAssumption DEF HostGoes, NoHost
  <2>. QED BY <2>1, <2>2, <2>3, <2>4, <2>5, <2>6 DEF TypeOK
<1>3. OneWriter'
  BY DEF IInv, OneWriter, HostGoes
<1>4. LockOK'
  BY DEF IInv, LockOK, HostGoes
<1>5. BufferOK'
  BY DEF IInv, BufferOK, HostGoes
<1>6. HostOK'
  BY DEF HostOK, HostGoes, NoHost
<1>7. EraseOK'
  BY DEF IInv, EraseOK, HostGoes
<1>8. SlotIsPrefix'
  BY DEF IInv, SlotIsPrefix, Stored, HostGoes
<1>. QED BY <1>1, <1>2, <1>3, <1>4, <1>5, <1>6, <1>7, <1>8 DEF IInv

LEMMA HostRebootStep == ASSUME IInv, HostReboot PROVE IInv'
<1>1. CountOK'
  BY CountKept DEF IInv, HostReboot
<1>2. TypeOK'
  <2>1. lock' \in [owner : {"none", "config", "mgr"}, prev : {"none", "config", "mgr"}]
    BY DEF IInv, TypeOK, HostReboot, Owned
  <2>2. flags' \subseteq Flags /\ work' \subseteq Works /\ marked' \in Images \cup {None}
    BY DEF IInv, TypeOK, HostReboot, Works
  <2>3. /\ dfu' \in [cur : 0 .. Length, img : Images \cup {None}, buffer : Seq(Chunks),
                    store : 0 .. Buffer, erase : Cells]
        /\ Len(dfu'.buffer) <= Buffer
    BY DEF IInv, TypeOK, HostReboot
  <2>4. slot' \in [Cells -> Contents] /\ stale' \subseteq Cells
    BY DEF IInv, TypeOK, HostReboot
  <2>5. mgr' \in [pc : {"idle", "claim", "write"}, timer : {"off", "on"}, upload : Cells]
    BY SizesAssumption DEF IInv, TypeOK, HostReboot, MgrAfterClaim, Cells
  <2>6. /\ host'.phase \in {"off", "look", "start", "sent", "data", "wait", "done"}
        /\ host'.img \in Images \cup {None} /\ host'.pos \in 0 .. Length /\ host'.base \in 0 .. Length
    BY SizesAssumption DEF HostReboot, NoHost
  <2>. QED BY <2>1, <2>2, <2>3, <2>4, <2>5, <2>6 DEF TypeOK
<1>3. OneWriter'
  <2>1. CASE CanClaim("config")
    <3>1. lock'.owner = "config" /\ lock.owner # "mgr"
      BY <2>1, OwnedFacts DEF IInv, HostReboot, CanClaim
    <3>2. mgr'.pc = mgr.pc /\ work' = work \cup {"reboot"}
      BY <2>1 DEF IInv, TypeOK, HostReboot, MgrAfterClaim
    <3>. QED BY <3>1, <3>2 DEF IInv, OneWriter, HostReboot
  <2>2. CASE ~CanClaim("config")
    BY <2>2 DEF IInv, OneWriter, HostReboot
  <2>. QED BY <2>1, <2>2
<1>4. LockOK'
  BY DEF IInv, TypeOK, LockOK, HostReboot, Owned, MgrAfterClaim
<1>5. BufferOK'
  BY DEF IInv, BufferOK, HostReboot
<1>6. HostOK'
  BY DEF HostOK, HostReboot, NoHost
<1>7. EraseOK'
  BY DEF IInv, EraseOK, HostReboot
<1>8. SlotIsPrefix'
  BY DEF IInv, SlotIsPrefix, Stored, HostReboot
<1>. QED BY <1>1, <1>2, <1>3, <1>4, <1>5, <1>6, <1>7, <1>8 DEF IInv

LEMMA UseStep == ASSUME IInv, Use PROVE IInv'
<1>1. CountOK'
  BY CountMore DEF IInv, Use
<1>2. TypeOK'
  <2>1. lock' \in [owner : {"none", "config", "mgr"}, prev : {"none", "config", "mgr"}]
    BY DEF IInv, TypeOK, Use
  <2>2. flags' \subseteq Flags /\ work' \subseteq Works /\ marked' \in Images \cup {None}
    BY DEF IInv, TypeOK, Use, Flags
  <2>3. /\ dfu' \in [cur : 0 .. Length, img : Images \cup {None}, buffer : Seq(Chunks),
                    store : 0 .. Buffer, erase : Cells]
        /\ Len(dfu'.buffer) <= Buffer
    BY DEF IInv, TypeOK, Use
  <2>4. slot' \in [Cells -> Contents] /\ stale' \subseteq Cells
    BY DEF IInv, TypeOK, Use
  <2>5. mgr' \in [pc : {"idle", "claim", "write"}, timer : {"off", "on"}, upload : Cells]
    BY DEF IInv, TypeOK, Use
  <2>6. /\ host'.phase \in {"off", "look", "start", "sent", "data", "wait", "done"}
        /\ host'.img \in Images \cup {None} /\ host'.pos \in 0 .. Length /\ host'.base \in 0 .. Length
    BY DEF IInv, TypeOK, Use
  <2>. QED BY <2>1, <2>2, <2>3, <2>4, <2>5, <2>6 DEF TypeOK
<1>3. OneWriter'
  BY DEF IInv, OneWriter, Use
<1>4. LockOK'
  BY DEF IInv, LockOK, Use
<1>5. BufferOK'
  BY DEF IInv, BufferOK, Use
<1>6. HostOK'
  BY DEF IInv, HostOK, Use
<1>7. EraseOK'
  BY DEF IInv, EraseOK, Use
<1>8. SlotIsPrefix'
  BY DEF IInv, SlotIsPrefix, Stored, Use
<1>. QED BY <1>1, <1>2, <1>3, <1>4, <1>5, <1>6, <1>7, <1>8 DEF IInv

LEMMA CommandReceivedStep == ASSUME IInv, CommandReceived PROVE IInv'
<1>1. CountOK'
  BY CountMore DEF IInv, CommandReceived
<1>2. TypeOK'
  <2>1. lock' \in [owner : {"none", "config", "mgr"}, prev : {"none", "config", "mgr"}]
    BY DEF IInv, TypeOK, CommandReceived
  <2>2. flags' \subseteq Flags /\ work' \subseteq Works /\ marked' \in Images \cup {None}
    BY DEF IInv, TypeOK, CommandReceived
  <2>3. /\ dfu' \in [cur : 0 .. Length, img : Images \cup {None}, buffer : Seq(Chunks),
                    store : 0 .. Buffer, erase : Cells]
        /\ Len(dfu'.buffer) <= Buffer
    BY DEF IInv, TypeOK, CommandReceived
  <2>4. slot' \in [Cells -> Contents] /\ stale' \subseteq Cells
    BY DEF IInv, TypeOK, CommandReceived
  <2>5. mgr' \in [pc : {"idle", "claim", "write"}, timer : {"off", "on"}, upload : Cells]
    BY DEF IInv, TypeOK, CommandReceived
  <2>6. /\ host'.phase \in {"off", "look", "start", "sent", "data", "wait", "done"}
        /\ host'.img \in Images \cup {None} /\ host'.pos \in 0 .. Length /\ host'.base \in 0 .. Length
    BY DEF IInv, TypeOK, CommandReceived
  <2>. QED BY <2>1, <2>2, <2>3, <2>4, <2>5, <2>6 DEF TypeOK
<1>3. OneWriter'
  BY DEF IInv, OneWriter, CommandReceived
<1>4. LockOK'
  BY DEF IInv, LockOK, CommandReceived
<1>5. BufferOK'
  BY DEF IInv, BufferOK, CommandReceived
<1>6. HostOK'
  BY DEF IInv, HostOK, CommandReceived
<1>7. EraseOK'
  BY DEF IInv, EraseOK, CommandReceived
<1>8. SlotIsPrefix'
  BY DEF IInv, SlotIsPrefix, Stored, CommandReceived
<1>. QED BY <1>1, <1>2, <1>3, <1>4, <1>5, <1>6, <1>7, <1>8 DEF IInv

LEMMA CommandClaimsStep == ASSUME IInv, CommandClaims PROVE IInv'
<1>1. CountOK'
  BY CountKept DEF IInv, CommandClaims
<1>2. TypeOK'
  <2>1. lock' \in [owner : {"none", "config", "mgr"}, prev : {"none", "config", "mgr"}]
    BY DEF IInv, TypeOK, CommandClaims, Owned
  <2>2. flags' \subseteq Flags /\ work' \subseteq Works /\ marked' \in Images \cup {None}
    BY DEF IInv, TypeOK, CommandClaims, Flags
  <2>3. /\ dfu' \in [cur : 0 .. Length, img : Images \cup {None}, buffer : Seq(Chunks),
                    store : 0 .. Buffer, erase : Cells]
        /\ Len(dfu'.buffer) <= Buffer
    BY DEF IInv, TypeOK, CommandClaims
  <2>4. slot' \in [Cells -> Contents] /\ stale' \subseteq Cells
    BY DEF IInv, TypeOK, CommandClaims
  <2>5. mgr' \in [pc : {"idle", "claim", "write"}, timer : {"off", "on"}, upload : Cells]
    BY DEF IInv, TypeOK, CommandClaims
  <2>6. /\ host'.phase \in {"off", "look", "start", "sent", "data", "wait", "done"}
        /\ host'.img \in Images \cup {None} /\ host'.pos \in 0 .. Length /\ host'.base \in 0 .. Length
    BY DEF IInv, TypeOK, CommandClaims
  <2>. QED BY <2>1, <2>2, <2>3, <2>4, <2>5, <2>6 DEF TypeOK
<1>3. ASSUME CanClaim("mgr") PROVE OneWriter' /\ LockOK'
  <2>1. /\ "open" \notin flags /\ work = {} /\ lock.owner # "config"
        /\ lock'.owner = "mgr"
    BY <1>3, OwnedFacts DEF IInv, OneWriter, CommandClaims, CanClaim
  <2>2. mgr'.pc = "write" /\ mgr'.timer = mgr.timer /\ mgr.timer = "on"
    BY <1>3 DEF IInv, TypeOK, LockOK, CommandClaims
  <2>3. "foreign" \in flags' /\ flags' \subseteq flags \cup {"foreign"} /\ flags \subseteq flags'
    BY <2>1 DEF IInv, TypeOK, LockOK, CommandClaims, OwnerChanged
  <2>. QED BY <2>1, <2>2, <2>3 DEF IInv, OneWriter, LockOK, CommandClaims
<1>4. ASSUME ~CanClaim("mgr") PROVE OneWriter' /\ LockOK'
  <2>1. lock.owner # "mgr" /\ lock' = lock /\ flags' = flags /\ work' = work /\ dfu' = dfu
    BY <1>4 DEF CommandClaims, CanClaim
  <2>2. mgr'.pc = "idle"
    BY <1>4 DEF IInv, TypeOK, CommandClaims
  <2>. QED BY <2>1, <2>2 DEF IInv, OneWriter, LockOK

<1>5. BufferOK'
  BY DEF IInv, BufferOK, CommandClaims
<1>6. HostOK'
  BY DEF IInv, HostOK, CommandClaims
<1>7. EraseOK'
  BY DEF IInv, EraseOK, CommandClaims
<1>8. SlotIsPrefix'
  BY DEF IInv, BufferOK, SlotIsPrefix, Stored, CommandClaims
<1>. QED BY <1>1, <1>2, <1>3, <1>4, <1>5, <1>6, <1>7, <1>8 DEF IInv

LEMMA CommandWritesStep == ASSUME IInv, CommandWrites PROVE IInv'
<1>1. CountOK'
  BY CountKept DEF IInv, CommandWrites
<1>2. TypeOK'
  <2>1. lock' \in [owner : {"none", "config", "mgr"}, prev : {"none", "config", "mgr"}]
    BY DEF IInv, TypeOK, CommandWrites
  <2>2. flags' \subseteq Flags /\ work' \subseteq Works /\ marked' \in Images \cup {None}
    BY DEF IInv, TypeOK, CommandWrites
  <2>3. /\ dfu' \in [cur : 0 .. Length, img : Images \cup {None}, buffer : Seq(Chunks),
                    store : 0 .. Buffer, erase : Cells]
        /\ Len(dfu'.buffer) <= Buffer
    BY DEF IInv, TypeOK, CommandWrites
  <2>4. slot' \in [Cells -> Contents] /\ stale' \subseteq Cells
    BY DEF IInv, TypeOK, CommandWrites, Contents
  <2>5. mgr' \in [pc : {"idle", "claim", "write"}, timer : {"off", "on"}, upload : Cells]
    <3>1. mgr.upload \in Nat /\ Slot \in Nat /\ Slot > 0
      BY SizesAssumption DEF IInv, TypeOK, Cells
    <3>2. (mgr.upload + 1) % Slot \in Cells
      BY <3>1 DEF Cells
    <3>. QED BY <3>2 DEF IInv, TypeOK, CommandWrites
  <2>6. /\ host'.phase \in {"off", "look", "start", "sent", "data", "wait", "done"}
        /\ host'.img \in Images \cup {None} /\ host'.pos \in 0 .. Length /\ host'.base \in 0 .. Length
    BY DEF IInv, TypeOK, CommandWrites
  <2>. QED BY <2>1, <2>2, <2>3, <2>4, <2>5, <2>6 DEF TypeOK
<1>3. OneWriter'
  BY DEF IInv, OneWriter, CommandWrites
<1>4. LockOK'
  BY DEF IInv, LockOK, CommandWrites
<1>5. BufferOK'
  BY DEF IInv, BufferOK, CommandWrites
<1>6. HostOK'
  BY DEF IInv, HostOK, CommandWrites
<1>7. EraseOK'
  BY DEF IInv, OneWriter, EraseOK, CommandWrites, Cells
<1>8. SlotIsPrefix'
  BY DEF IInv, OneWriter, LockOK, SlotIsPrefix, CommandWrites
<1>. QED BY <1>1, <1>2, <1>3, <1>4, <1>5, <1>6, <1>7, <1>8 DEF IInv

LEMMA MgrTimeoutStep == ASSUME IInv, MgrTimeout PROVE IInv'
<1>1. CountOK'
  BY CountKept DEF IInv, MgrTimeout
<1>2. TypeOK'
  <2>1. lock' \in [owner : {"none", "config", "mgr"}, prev : {"none", "config", "mgr"}]
    BY DEF IInv, TypeOK, MgrTimeout, Freed
  <2>2. flags' \subseteq Flags /\ work' \subseteq Works /\ marked' \in Images \cup {None}
    BY DEF IInv, TypeOK, MgrTimeout
  <2>3. /\ dfu' \in [cur : 0 .. Length, img : Images \cup {None}, buffer : Seq(Chunks),
                    store : 0 .. Buffer, erase : Cells]
        /\ Len(dfu'.buffer) <= Buffer
    BY DEF IInv, TypeOK, MgrTimeout
  <2>4. slot' \in [Cells -> Contents] /\ stale' \subseteq Cells
    BY DEF IInv, TypeOK, MgrTimeout
  <2>5. mgr' \in [pc : {"idle", "claim", "write"}, timer : {"off", "on"}, upload : Cells]
    BY DEF IInv, TypeOK, MgrTimeout
  <2>6. /\ host'.phase \in {"off", "look", "start", "sent", "data", "wait", "done"}
        /\ host'.img \in Images \cup {None} /\ host'.pos \in 0 .. Length /\ host'.base \in 0 .. Length
    BY DEF IInv, TypeOK, MgrTimeout
  <2>. QED BY <2>1, <2>2, <2>3, <2>4, <2>5, <2>6 DEF TypeOK
<1>3. OneWriter'
  BY DEF IInv, OneWriter, MgrTimeout, Freed
<1>4. LockOK'
  BY DEF IInv, LockOK, MgrTimeout, Freed
<1>5. BufferOK'
  BY DEF IInv, BufferOK, MgrTimeout
<1>6. HostOK'
  BY DEF IInv, HostOK, MgrTimeout
<1>7. EraseOK'
  BY DEF IInv, EraseOK, MgrTimeout
<1>8. SlotIsPrefix'
  BY DEF IInv, SlotIsPrefix, Stored, MgrTimeout
<1>. QED BY <1>1, <1>2, <1>3, <1>4, <1>5, <1>6, <1>7, <1>8 DEF IInv

LEMMA RebootStep == ASSUME IInv, Reboot PROVE IInv'
<1>1. CountOK'
  BY CountMore DEF IInv, Reboot
<1>2. TypeOK'
  <2>1. lock' \in [owner : {"none", "config", "mgr"}, prev : {"none", "config", "mgr"}]
    BY DEF Reboot, Booted
  <2>2. flags' \subseteq Flags /\ work' \subseteq Works /\ marked' \in Images \cup {None}
    BY DEF Reboot, Booted, Works
  <2>3. /\ dfu' \in [cur : 0 .. Length, img : Images \cup {None}, buffer : Seq(Chunks),
                    store : 0 .. Buffer, erase : Cells]
        /\ Len(dfu'.buffer) <= Buffer
    BY SizesAssumption DEF Reboot, Booted, Cells
  <2>4. slot' \in [Cells -> Contents] /\ stale' \subseteq Cells
    <3>1. slot' \in [Cells -> Contents]
      BY DEF IInv, TypeOK, Reboot, Contents
    <3>2. stale' \subseteq Cells
      BY DEF Reboot, Booted
    <3>. QED BY <3>1, <3>2
  <2>5. mgr' \in [pc : {"idle", "claim", "write"}, timer : {"off", "on"}, upload : Cells]
    BY SizesAssumption DEF Reboot, Booted, Cells
  <2>6. /\ host'.phase \in {"off", "look", "start", "sent", "data", "wait", "done"}
        /\ host'.img \in Images \cup {None} /\ host'.pos \in 0 .. Length /\ host'.base \in 0 .. Length
    BY SizesAssumption DEF Reboot, Booted, NoHost
  <2>. QED BY <2>1, <2>2, <2>3, <2>4, <2>5, <2>6 DEF TypeOK
<1>3. OneWriter'
  BY DEF OneWriter, Reboot, Booted
<1>4. LockOK'
  BY DEF LockOK, Reboot, Booted
<1>5. BufferOK'
  BY SizesAssumption DEF BufferOK, Reboot, Booted
<1>6. HostOK'
  BY DEF HostOK, Reboot, Booted, NoHost
<1>7. EraseOK'
  BY DEF EraseOK, Reboot, Booted, Cells
<1>8. SlotIsPrefix'
  BY DEF SlotIsPrefix, Reboot, Booted
<1>. QED BY <1>1, <1>2, <1>3, <1>4, <1>5, <1>6, <1>7, <1>8 DEF IInv

LEMMA AppendFacts ==
    ASSUME NEW S, NEW s \in Seq(S), NEW e \in S
    PROVE  /\ Append(s, e) \in Seq(S) /\ Len(Append(s, e)) = Len(s) + 1
           /\ Append(s, e) # <<>>
           /\ \A i \in 1 .. Len(s) : Append(s, e)[i] = s[i]
           /\ Append(s, e)[Len(s) + 1] = e /\ Len(s) \in Nat
<1>1. /\ Append(s, e) \in Seq(S) /\ Len(Append(s, e)) = Len(s) + 1 /\ Len(s) \in Nat
      /\ \A i \in 1 .. Len(s) : Append(s, e)[i] = s[i]
      /\ Append(s, e)[Len(s) + 1] = e
  OBVIOUS
<1>2. Append(s, e) # <<>>
  BY <1>1
<1>. QED BY <1>1, <1>2

\* A chunk is written: the cell behind what is stored takes it, being erased.
LEMMA StoreStep == ASSUME IInv, Store PROVE IInv'
<1>1. CountOK'
  BY CountKept DEF IInv, Store
<1> DEFINE at == dfu.cur + dfu.store
           new == dfu.buffer[dfu.store + 1]
           d == [dfu EXCEPT !.store = dfu.store + 1]
           len == Len(dfu.buffer)
<1>2. /\ {"open", "clean"} \subseteq flags /\ "foreign" \notin flags
      /\ "timeout" \in work /\ "erase" \notin work /\ "store" \in work
      /\ dfu.store < len /\ host.phase \notin {"start", "data"}
      /\ lock.owner = "config" /\ mgr.pc # "write"
  BY DEF IInv, OneWriter, LockOK, HostOK, Store
<1>3. /\ len \in Nat /\ len <= Buffer /\ dfu.store \in Nat /\ dfu.cur \in Nat
      /\ dfu.cur + len <= Length /\ Length \in Nat /\ Length <= Slot /\ Buffer \in Nat
      /\ Slot \in Nat
  BY SizesAssumption DEF IInv, TypeOK, BufferOK
<1>4. at \in Cells /\ dfu.store + 1 \in 1 .. len /\ dfu.store + 1 \in 0 .. Buffer
  BY <1>2, <1>3 DEF Cells
<1>5. new \in Chunks /\ new = [img |-> dfu.img, at |-> at]
  <2>1. new \in Chunks
    BY <1>4 DEF IInv, TypeOK
  <2>2. new = [img |-> dfu.img, at |-> dfu.cur + (dfu.store + 1) - 1]
    BY <1>4 DEF IInv, BufferOK
  <2>3. dfu.cur + (dfu.store + 1) - 1 = at
    BY <1>3
  <2>. QED BY <2>1, <2>2, <2>3
<1>6. /\ d \in [cur : 0 .. Length, img : Images \cup {None}, buffer : Seq(Chunks),
                store : 0 .. Buffer, erase : Cells]
      /\ d.cur = dfu.cur /\ d.img = dfu.img /\ d.erase = dfu.erase /\ d.buffer = dfu.buffer
      /\ d.store = dfu.store + 1
  BY <1>4 DEF IInv, TypeOK
<1>7. /\ IF slot[at] \in {Erased, new}
         THEN slot' = [slot EXCEPT ![at] = new] /\ stale' = stale \ {at}
         ELSE slot' = [slot EXCEPT ![at] = Mixed] /\ stale' = stale
      /\ IF d.store < Len(d.buffer) THEN dfu' = d /\ StoreAgain /\ UNCHANGED flags
                                    ELSE Complete(d)
      /\ UNCHANGED <<mgr, host, count>>
  BY DEF Store
<1>8. /\ slot' \in [Cells -> Contents]
      /\ \A c \in Cells : c # at => slot'[c] = slot[c]
      /\ stale' \subseteq Cells /\ stale \ {at} \subseteq stale'
      /\ at \notin stale' => slot'[at] = new \/ (at \notin stale /\ slot[at] # Erased)
  BY <1>4, <1>5, <1>7 DEF IInv, TypeOK, Contents
<1>9. \A c \in Cells \ stale' :
          slot'[c] = IF c < at + 1 THEN [img |-> dfu.img, at |-> c] ELSE Erased
  <2> SUFFICES ASSUME NEW c \in Cells \ stale'
               PROVE  slot'[c] = IF c < at + 1 THEN [img |-> dfu.img, at |-> c] ELSE Erased
    OBVIOUS
  <2>1. \A x \in Cells \ stale :
            slot[x] = IF x < at THEN [img |-> dfu.img, at |-> x] ELSE Erased
    BY <1>2 DEF IInv, SlotIsPrefix, Stored
  <2>2. at \in Nat /\ c \in Int
    BY <1>3 DEF Cells
  <2>3. CASE c = at
    <3>1. ASSUME at \notin stale PROVE slot[at] = Erased
      <4>1. at \in Cells \ stale /\ ~(at < at)
        BY <1>4, <2>2, <3>1
      <4> HIDE DEF at
      <4>. QED BY <2>1, <4>1
    <3>2. slot'[at] = new
      BY <1>8, <2>3, <3>1
    <3>. QED BY <1>5, <2>2, <2>3, <3>2
  <2>4. CASE c # at
    <3>1. c < at <=> c < at + 1
      BY <2>2, <2>4
    <3>2. c \in Cells \ stale
      BY <1>8, <2>4
    <3>. QED BY <1>8, <2>1, <2>4, <3>1, <3>2
  <2>. QED BY <2>3, <2>4
<1>10. CASE d.store < Len(d.buffer)
  <2>1. /\ dfu' = d /\ flags' = flags /\ lock' = lock /\ marked' = marked /\ work' = work
        /\ mgr' = mgr /\ host' = host
    BY <1>2, <1>7, <1>10 DEF StoreAgain
  <2>2. /\ dfu'.cur = dfu.cur /\ dfu'.img = dfu.img /\ dfu'.erase = dfu.erase
        /\ dfu'.buffer = dfu.buffer /\ dfu'.store = dfu.store + 1 /\ dfu'.store < len
        /\ dfu' \in [cur : 0 .. Length, img : Images \cup {None}, buffer : Seq(Chunks),
                     store : 0 .. Buffer, erase : Cells]
    BY <1>6, <1>10, <2>1
  <2> HIDE DEF d
  <2>3. TypeOK'
    BY <1>3, <1>8, <2>1, <2>2 DEF IInv, TypeOK
  <2>4. OneWriter' /\ LockOK'
    BY <2>1, <2>2 DEF IInv, OneWriter, LockOK
  <2>5. BufferOK' /\ HostOK'
    BY <2>1, <2>2 DEF IInv, BufferOK, HostOK
  <2>6. EraseOK'
    <3>1. dfu.erase = 0
      BY <1>2 DEF IInv, EraseOK
    <3>2. \A x \in Cells : ~(x < 0)
      BY DEF Cells
    <3>. QED BY <2>2, <3>1, <3>2 DEF EraseOK
  <2>7. SlotIsPrefix'
    <3>1. Stored' = at + 1
      <4>1. dfu'.cur = dfu.cur /\ dfu'.store = dfu.store + 1 /\ "store" \in work'
        BY <1>2, <2>1, <2>2
      <4>. QED BY <1>3, <4>1 DEF Stored
    <3>. QED BY <1>9, <2>2, <3>1 DEF SlotIsPrefix
  <2>. QED BY <1>1, <2>3, <2>4, <2>5, <2>6, <2>7 DEF IInv
<1>11. CASE ~(d.store < Len(d.buffer))
  <2> DEFINE c == [cur |-> d.cur + Len(d.buffer), img |-> d.img, buffer |-> <<>>, store |-> 0,
                   erase |-> d.erase]
  <2>1. dfu.store + 1 = len /\ dfu.cur + len \in 0 .. Length /\ dfu.cur + len = at + 1
    BY <1>2, <1>3, <1>6, <1>11
  <2>2. /\ c \in [cur : 0 .. Length, img : Images \cup {None}, buffer : Seq(Chunks),
                  store : 0 .. Buffer, erase : Cells]
        /\ c.cur = at + 1 /\ c.img = dfu.img /\ c.erase = dfu.erase /\ c.buffer = <<>>
    <3>1. /\ d.cur + Len(d.buffer) \in 0 .. Length /\ d.cur + Len(d.buffer) = at + 1
          /\ <<>> \in Seq(Chunks) /\ 0 \in 0 .. Buffer
      BY <1>3, <1>6, <2>1
    <3> HIDE DEF d
    <3>3. /\ c.cur = d.cur + Len(d.buffer) /\ c.img = d.img /\ c.erase = d.erase
          /\ c.buffer = <<>>
      OBVIOUS
    <3>4. /\ d.img \in Images \cup {None} /\ d.erase \in Cells
      BY <1>6
    <3>5. c \in [cur : 0 .. Length, img : Images \cup {None}, buffer : Seq(Chunks),
                 store : 0 .. Buffer, erase : Cells]
      BY <3>1, <3>4
    <3>. QED BY <1>6, <3>1, <3>3, <3>5
  <2>3. IF c.cur = Length
        THEN Terminate(c) /\ marked' = c.img
        ELSE dfu' = c /\ work' = work \ {"store"} /\ UNCHANGED <<flags, lock, marked>>
    BY <1>7, <1>11 DEF Complete
  <2> HIDE DEF d, c
  <2>4. /\ marked' \in Images \cup {None} /\ mgr' = mgr /\ host' = host
        /\ dfu' \in [cur : 0 .. Length, img : Images \cup {None}, buffer : Seq(Chunks),
                     store : 0 .. Buffer, erase : Cells]
        /\ Len(dfu'.buffer) = 0 /\ dfu'.buffer = <<>>
        /\ dfu'.cur = at + 1 /\ dfu'.img = dfu.img /\ dfu'.erase = dfu.erase
        /\ lock' \in [owner : {"none", "config", "mgr"}, prev : {"none", "config", "mgr"}]
        /\ work' \subseteq {"timeout", "reboot"}
        /\ "timeout" \in work' <=> "open" \in flags'
        /\ flags' \subseteq flags /\ "clean" \in flags' /\ "foreign" \notin flags'
        /\ work' # {} => lock'.owner = "config"
        /\ lock'.owner \in {"none", "config"}
        /\ lock'.owner = "none" => lock'.prev = "config"
    <3>1. CASE c.cur = Length
      <4>1. Terminate(c) /\ marked' = dfu.img
        BY <2>2, <2>3, <3>1
      <4>2. TypeOK /\ OneWriter /\ LockOK /\ marked \in Images \cup {None}
        BY DEF IInv, TypeOK
      <4>3. /\ Len(dfu'.buffer) = 0 /\ dfu'.buffer = <<>>
            /\ dfu' \in [cur : 0 .. Length, img : Images \cup {None}, buffer : Seq(Chunks),
                         store : 0 .. Buffer, erase : Cells]
            /\ dfu'.cur = c.cur /\ dfu'.img = c.img /\ dfu'.erase = c.erase
            /\ lock' \in [owner : {"none", "config", "mgr"}, prev : {"none", "config", "mgr"}]
            /\ work' = work \cap {"reboot"} /\ flags' = flags \ {"open"}
            /\ work' # {} => lock'.owner = "config"
            /\ lock'.owner \in {"none", "config"}
            /\ lock'.owner = "none" => lock'.prev = "config"
        BY <1>2, <2>2, <4>1, <4>2, TerminateFacts
      <4>4. "timeout" \notin work' /\ "open" \notin flags' /\ work' \subseteq {"timeout", "reboot"}
        BY <4>3
      <4>5. flags' \subseteq flags /\ "clean" \in flags' /\ "foreign" \notin flags'
        BY <1>2, <4>3
      <4>6. mgr' = mgr /\ host' = host /\ marked' \in Images \cup {None}
        BY <1>7, <2>2, <4>1, <4>2 DEF TypeOK
      <4>. QED BY <2>2, <4>3, <4>4, <4>5, <4>6
    <3>2. CASE c.cur # Length
      <4>1. Len(<<>>) = 0
        OBVIOUS
      <4>2. work' \subseteq {"timeout", "reboot"} /\ "timeout" \in work'
        <5>1. work \subseteq {"store", "timeout", "reboot"}
          BY <1>2 DEF IInv, TypeOK, Works
        <5>. QED BY <1>2, <2>3, <3>2, <5>1
      <4>. QED BY <1>2, <1>7, <2>2, <2>3, <3>2, <4>1, <4>2 DEF IInv, TypeOK
    <3>. QED BY <3>1, <3>2
  <2>5. TypeOK'
    BY <1>3, <1>8, <2>4 DEF IInv, TypeOK, Works
  <2>6. OneWriter' /\ LockOK'
    BY <1>2, <2>4 DEF IInv, OneWriter, LockOK
  <2>7. BufferOK' /\ HostOK'
    BY <1>2, <1>3, <2>1, <2>4 DEF IInv, BufferOK, HostOK
  <2>8. EraseOK'
    <3>1. dfu.erase = 0
      BY <1>2 DEF IInv, EraseOK
    <3>2. \A x \in Cells : ~(x < 0)
      BY DEF Cells
    <3>. QED BY <2>4, <3>1, <3>2 DEF EraseOK
  <2>9. SlotIsPrefix'
    <3>1. Stored' = at + 1
      BY <1>3, <2>4 DEF Stored
    <3>. QED BY <1>9, <2>4, <3>1 DEF SlotIsPrefix
  <2>. QED BY <1>1, <2>5, <2>6, <2>7, <2>8, <2>9 DEF IInv
<1>. QED BY <1>10, <1>11

-----------------------------------------------------------------------------
(* The options.                                                            *)

LEMMA SyncStep == ASSUME IInv, HostSync PROVE IInv'
<1>1. CountOK'
  BY CountKept DEF IInv, HostSync
<1>2. /\ flags' = flags /\ slot' = slot /\ stale' = stale /\ marked' = marked
      /\ HandleSync /\ host' = HostAfter(SyncAnswer)
  BY DEF HostSync
<1>3. /\ dfu'.cur = dfu.cur /\ dfu'.img = dfu.img /\ dfu'.erase = dfu.erase
      /\ dfu'.buffer = dfu.buffer
      /\ dfu'.store = IF dfu.buffer # <<>> /\ "store" \notin work THEN 0 ELSE dfu.store
      /\ dfu' \in [cur : 0 .. Length, img : Images \cup {None}, buffer : Seq(Chunks),
                   store : 0 .. Buffer, erase : Cells]
  BY SizesAssumption DEF IInv, TypeOK, HandleSync, HostSync
<1>4. work' = IF dfu.buffer = <<>> THEN work ELSE work \cup {"store"}
  BY <1>2 DEF HandleSync, SyncWork
<1>5. dfu.buffer # <<>> => {"open", "clean"} \subseteq flags /\ "timeout" \in work
  BY DEF IInv, BufferOK, OneWriter
<1>6. "store" \in work => dfu.buffer # <<>>
  <2>1. Len(<<>>) = 0 /\ (dfu.store \in Nat => ~(dfu.store < 0))
    OBVIOUS
  <2>2. dfu.store \in Nat
    BY SizesAssumption DEF IInv, TypeOK
  <2>. QED BY <2>1, <2>2 DEF IInv, OneWriter
<1>7. /\ lock' \in [owner : {"none", "config", "mgr"}, prev : {"none", "config", "mgr"}]
      /\ mgr' \in [pc : {"idle", "claim", "write"}, timer : {"off", "on"}, upload : Cells]
      /\ mgr'.pc = mgr.pc /\ mgr'.timer = mgr.timer
      /\ lock.owner = "mgr" => lock' = lock
      /\ lock.owner # "mgr" =>
             \/ lock'.owner = "config"
             \/ /\ lock'.owner = "none" /\ lock'.prev = "config"
                /\ work' \cap {"timeout", "erase", "reboot"} = {}
  <2>1. CASE CanClaim("config")
    <3>1. lock' = SyncLock(work') /\ mgr' = MgrAfterClaim
      BY <1>2, <2>1 DEF HandleSync, SyncWork
    <3>2. lock.owner # "mgr"
      BY <2>1 DEF CanClaim
    <3>3. /\ mgr' \in [pc : {"idle", "claim", "write"}, timer : {"off", "on"}, upload : Cells]
          /\ mgr'.pc = mgr.pc /\ mgr'.timer = mgr.timer
      BY <3>1, ClaimFacts DEF IInv
    <3>4. /\ Freed("config") \in [owner : {"none", "config", "mgr"}, prev : {"none", "config", "mgr"}]
          /\ Freed("config").owner = "none" /\ Freed("config").prev = "config"
      BY DEF Freed
    <3>5. \/ lock' = Freed("config") /\ work' \cap {"timeout", "erase", "reboot"} = {}
          \/ lock' = Owned("config")
      BY <3>1 DEF SyncLock
    <3>. QED BY <3>2, <3>3, <3>4, <3>5, OwnedFacts DEF IInv
  <2>2. CASE ~CanClaim("config")
    BY <1>2, <2>2 DEF HandleSync, CanClaim, IInv, TypeOK
  <2>. QED BY <2>1, <2>2
<1>8. /\ host'.phase \in {"off", "look", "start", "sent", "data", "wait", "done"}
      /\ host'.img \in Images \cup {None} /\ host'.pos \in 0 .. Length /\ host'.base \in 0 .. Length
      /\ host'.phase # "off" => host'.img \in Images
      /\ host'.phase = "start" => dfu.buffer = <<>>
      /\ host'.phase = "sent" => dfu.buffer = <<>>
      /\ host'.phase = "data" =>
             /\ dfu.buffer = <<>> /\ dfu.img = host'.img /\ dfu.cur = host'.pos
             /\ host'.pos = host'.base
  <2>1. /\ dfu.cur \in 0 .. Length /\ 0 \in 0 .. Length
    BY SizesAssumption DEF IInv, TypeOK
  <2>2. SyncAnswer \in {"inactive", "active"} => dfu.buffer = <<>>
    BY DEF SyncAnswer
  <2>3. host.img \in Images /\ host.phase \in {"look", "sent", "data", "wait"}
    BY DEF IInv, HostOK, HostSync
  <2>4. host.phase = "sent" => dfu.buffer = <<>>
    BY DEF IInv, HostOK
  <2>. QED BY <1>2, <2>1, <2>2, <2>3, <2>4 DEF IInv, TypeOK, HostAfter, NoHost
<1>9. TypeOK'
  BY <1>2, <1>3, <1>4, <1>7, <1>8 DEF IInv, TypeOK, Works
<1>10. OneWriter'
  <2>1. "store" \in work' => {"open", "clean"} \subseteq flags /\ dfu'.store < Len(dfu'.buffer)
    <3>1. dfu.buffer # <<>> => 0 < Len(dfu.buffer)
      BY DEF IInv, TypeOK
    <3>. QED BY <1>3, <1>4, <1>5, <1>6, <3>1 DEF IInv, OneWriter
  <2>2. "open" \in flags' \/ work' # {} => lock'.owner = "config"
    <3>1. CASE lock.owner = "mgr"
      <4>1. work = {} /\ "open" \notin flags
        BY <3>1 DEF IInv, OneWriter
      <4>. QED BY <1>2, <1>4, <1>5, <4>1
    <3>2. CASE lock.owner # "mgr" /\ lock'.owner # "config"
      <4>1. work' \cap {"timeout", "erase", "reboot"} = {} /\ work' \subseteq Works
        BY <1>4, <1>7, <3>2 DEF IInv, TypeOK, Works
      <4>2. "open" \notin flags
        BY <1>4, <4>1 DEF IInv, OneWriter, LockOK
      <4>3. dfu.buffer = <<>> /\ work' = work
        BY <1>4, <1>5, <4>2
      <4>4. "store" \notin work
        BY <1>6, <4>3
      <4>. QED BY <1>2, <4>1, <4>2, <4>3, <4>4 DEF Works
    <3>. QED BY <3>1, <3>2
  <2>. QED BY <1>2, <1>4, <1>5, <1>7, <2>1, <2>2 DEF IInv, OneWriter
<1>11. LockOK'
  BY <1>2, <1>4, <1>5, <1>7 DEF IInv, TypeOK, LockOK
<1>12. BufferOK'
  BY <1>2, <1>3 DEF IInv, BufferOK
<1>13. HostOK'
  <2>1. Len(<<>>) = 0
    OBVIOUS
  <2>2. dfu.buffer = <<>> => "store" \notin work'
    BY <1>4, <1>6
  <2>3. dfu'.cur \in Nat
    BY <1>3, SizesAssumption
  <2>. QED BY <1>3, <1>8, <2>1, <2>2, <2>3 DEF HostOK
<1>14. EraseOK'
  BY <1>2, <1>3 DEF IInv, EraseOK
<1>15. SlotIsPrefix'
  <2>1. Stored' = Stored
    BY <1>3, <1>4, SizesAssumption DEF IInv, TypeOK, Stored
  <2>. QED BY <1>2, <1>3, <2>1 DEF IInv, SlotIsPrefix
<1>. QED BY <1>1, <1>9, <1>10, <1>11, <1>12, <1>13, <1>14, <1>15 DEF IInv

LEMMA DataStep == ASSUME IInv, HostData PROVE IInv'
<1>1. CountOK'
  BY CountKept DEF IInv, HostData
<1> DEFINE cell == [img |-> host.img, at |-> host.pos]
<1>2. /\ host.phase = "data" /\ host.pos < Length /\ host.pos - host.base < Buffer
      /\ HandleData(cell) /\ UNCHANGED <<flags, slot, stale, marked, mgr, count>>
      /\ host.img \in Images /\ "store" \notin work
  BY DEF HostData, IInv, HostOK
<1>3. /\ host.pos \in Nat /\ host.base \in Nat /\ Length \in Nat /\ Slot \in Nat
      /\ Length <= Slot /\ Buffer \in Nat /\ dfu.cur \in Nat /\ Len(dfu.buffer) \in Nat
      /\ dfu.buffer \in Seq(Chunks)
  BY SizesAssumption DEF IInv, TypeOK
<1>4. cell \in Chunks
  BY <1>2, <1>3 DEF Chunks, Cells
<1>5. /\ host'.phase = "data" /\ host'.img = host.img /\ host'.base = host.base
      /\ host'.pos = host.pos + 1 /\ host'.pos \in 0 .. Length
  <2>1. host' = [host EXCEPT !.pos = host.pos + 1]
    BY DEF HostData
  <2>. QED BY <1>2, <1>3, <2>1 DEF IInv, TypeOK
<1>6. CASE {"clean", "open"} \subseteq flags
  <2>1. /\ dfu.img = host.img /\ dfu.cur + Len(dfu.buffer) = host.pos
        /\ host.pos = host.base + Len(dfu.buffer)
    BY <1>2, <1>6 DEF IInv, HostOK
  <2>2. Len(dfu.buffer) < Buffer
    BY <1>2, <1>3, <2>1
  <2> DEFINE b == Append(dfu.buffer, cell)
  <2>3. /\ b \in Seq(Chunks) /\ Len(b) = Len(dfu.buffer) + 1 /\ b # <<>>
        /\ \A j \in 1 .. Len(dfu.buffer) : b[j] = dfu.buffer[j]
        /\ b[Len(dfu.buffer) + 1] = cell
    BY <1>3, <1>4, AppendFacts
  <2>4. /\ dfu' = [dfu EXCEPT !.buffer = b] /\ work' = work \cup {"timeout"}
        /\ lock' = Owned("config")
    BY <1>2, <1>6, <2>2 DEF HandleData
  <2> HIDE DEF b
  <2>5. /\ dfu' \in [cur : 0 .. Length, img : Images \cup {None}, buffer : Seq(Chunks),
                     store : 0 .. Buffer, erase : Cells]
        /\ dfu'.cur = dfu.cur /\ dfu'.img = dfu.img /\ dfu'.erase = dfu.erase
        /\ dfu'.store = dfu.store /\ dfu'.buffer = b
    BY <2>3, <2>4 DEF IInv, TypeOK
  <2>6. "timeout" \in work /\ lock.owner = "config" /\ "foreign" \notin flags /\ mgr.pc # "write"
    BY <1>6 DEF IInv, OneWriter, LockOK
  <2>7. /\ work' = work
        /\ lock' \in [owner : {"none", "config", "mgr"}, prev : {"none", "config", "mgr"}]
        /\ lock'.owner = "config"
    BY <2>4, <2>6, OwnedFacts DEF IInv
  <2>8. TypeOK'
    BY <1>2, <1>3, <1>5, <2>2, <2>3, <2>5, <2>7 DEF IInv, TypeOK
  <2>9. OneWriter' /\ LockOK'
    BY <1>2, <2>6, <2>7 DEF IInv, OneWriter, LockOK
  <2>10. BufferOK'
    <3>1. dfu'.cur + Len(dfu'.buffer) <= Length
      BY <1>2, <1>3, <2>1, <2>3, <2>5
    <3>2. \A j \in 1 .. Len(b) : b[j] = [img |-> dfu.img, at |-> dfu.cur + j - 1]
      <4> SUFFICES ASSUME NEW j \in 1 .. Len(b)
                   PROVE  b[j] = [img |-> dfu.img, at |-> dfu.cur + j - 1]
        OBVIOUS
      <4>1. CASE j = Len(dfu.buffer) + 1
        <5>1. dfu.cur + j - 1 = host.pos
          BY <1>3, <2>1, <4>1
        <5>. QED BY <2>1, <2>3, <4>1, <5>1
      <4>2. CASE j # Len(dfu.buffer) + 1
        <5>1. j \in 1 .. Len(dfu.buffer)
          BY <1>3, <2>3, <4>2
        <5>. QED BY <2>3, <5>1 DEF IInv, BufferOK
      <4>. QED BY <4>1, <4>2
    <3>. QED BY <1>2, <1>6, <2>5, <3>1, <3>2 DEF BufferOK
  <2>11. HostOK'
    <3>1. /\ dfu'.cur + Len(dfu'.buffer) = host'.pos
          /\ host'.pos = host'.base + Len(dfu'.buffer)
      <4> DEFINE at == dfu.cur
                 n == Len(dfu.buffer)
                 pos == host.pos
                 base == host.base
      <4>1. /\ dfu'.cur = at /\ Len(dfu'.buffer) = n + 1
            /\ host'.pos = pos + 1 /\ host'.base = base
        BY <1>5, <2>3, <2>5
      <4>2. at \in Nat /\ n \in Nat /\ pos \in Nat /\ base \in Nat
        BY <1>3
      <4>3. at + n = pos /\ pos = base + n
        BY <2>1
      <4> HIDE DEF at, n, pos, base
      <4>4. at + (n + 1) = pos + 1 /\ pos + 1 = base + (n + 1)
        BY <4>2, <4>3
      <4>. QED BY <4>1, <4>4
    <3>. QED BY <1>2, <1>5, <2>1, <2>5, <2>7, <3>1 DEF HostOK
  <2>12. EraseOK' /\ SlotIsPrefix'
    BY <1>2, <2>5, <2>7 DEF IInv, EraseOK, SlotIsPrefix, Stored
  <2>. QED BY <1>1, <2>8, <2>9, <2>10, <2>11, <2>12 DEF IInv
<1>7. CASE ~({"clean", "open"} \subseteq flags)
  <2>1. dfu' = dfu /\ work' = work /\ lock' = lock
    BY <1>2, <1>7 DEF HandleData
  <2>2. TypeOK'
    BY <1>2, <1>5, <2>1 DEF IInv, TypeOK
  <2>3. OneWriter' /\ LockOK' /\ BufferOK'
    BY <1>2, <2>1 DEF IInv, OneWriter, LockOK, BufferOK
  <2>4. HostOK'
    BY <1>2, <1>5, <1>7, <2>1 DEF HostOK
  <2>5. EraseOK' /\ SlotIsPrefix'
    BY <1>2, <2>1 DEF IInv, EraseOK, SlotIsPrefix, Stored
  <2>. QED BY <1>1, <2>2, <2>3, <2>4, <2>5 DEF IInv
<1>. QED BY <1>6, <1>7

\* The device forgets the image and erases the slot again.
LEMMA EraseFirstFacts ==
    ASSUME TypeOK,
           NEW d \in [cur : 0 .. Length, img : Images \cup {None}, buffer : Seq(Chunks),
                      store : 0 .. Buffer, erase : Cells],
           EraseFirst(d)
    PROVE  /\ dfu' \in [cur : 0 .. Length, img : Images \cup {None}, buffer : Seq(Chunks),
                        store : 0 .. Buffer, erase : Cells]
           /\ dfu'.cur = 0 /\ dfu'.buffer = d.buffer /\ dfu'.erase = d.erase
           /\ flags' = flags \ {"foreign", "clean"} /\ work' = work \cup {"erase"}
           /\ lock' = Owned("config")
<1>1. 0 \in 0 .. Length
  BY SizesAssumption
<1>2. dfu' = [d EXCEPT !.cur = 0, !.img = None]
  BY DEF EraseFirst
<1>3. dfu' = [cur |-> 0, img |-> None, buffer |-> d.buffer, store |-> d.store, erase |-> d.erase]
  BY <1>2
<1>. QED BY <1>1, <1>3 DEF EraseFirst

\* dfu start with the buffer emptied, in each of its outcomes.
LEMMA StartStep == ASSUME IInv, HostStart PROVE IInv'
<1>1. CountOK'
  BY CountKept DEF IInv, HostStart
<1> DEFINE d == [dfu EXCEPT !.buffer = <<>>]
           i == host.img
<1>2. /\ d \in [cur : 0 .. Length, img : Images \cup {None}, buffer : Seq(Chunks),
                store : 0 .. Buffer, erase : Cells]
      /\ d.cur = dfu.cur /\ d.img = dfu.img /\ d.erase = dfu.erase /\ d.buffer = <<>>
  <2>1. <<>> \in Seq(Chunks)
    OBVIOUS
  <2>. QED BY <2>1 DEF IInv, TypeOK
<1>3. /\ host.phase # "off" /\ i \in Images /\ "store" \notin work
      /\ UNCHANGED <<slot, stale, marked, count>>
  BY DEF IInv, HostOK, HostStart
<1>4. /\ host'.phase = "sent" /\ host'.img = i
      /\ host'.pos = host.pos /\ host'.base = host.base
  BY DEF IInv, TypeOK, HostStart
<1>5. Len(<<>>) = 0
  OBVIOUS
<1>6. ASSUME dfu' \in [cur : 0 .. Length, img : Images \cup {None}, buffer : Seq(Chunks),
                       store : 0 .. Buffer, erase : Cells],
             dfu'.buffer = <<>>, dfu'.erase = dfu.erase,
             flags' \subseteq Flags, work' \subseteq Works, "store" \notin work',
             "clean" \in flags' => "clean" \in flags,
             lock' \in [owner : {"none", "config", "mgr"}, prev : {"none", "config", "mgr"}],
             mgr' \in [pc : {"idle", "claim", "write"}, timer : {"off", "on"}, upload : Cells],
             OneWriter', LockOK', SlotIsPrefix', "clean" \notin flags' => dfu'.cur = 0
      PROVE  IInv'
  <2>1. TypeOK'
    BY <1>3, <1>4, <1>5, <1>6, SizesAssumption DEF IInv, TypeOK
  <2>2. BufferOK'
    BY <1>5, <1>6, SizesAssumption DEF BufferOK
  <2>3. HostOK'
    BY <1>3, <1>4, <1>6 DEF HostOK
  <2>4. EraseOK'
    BY <1>3, <1>6 DEF IInv, EraseOK
  <2>. QED BY <1>1, <1>6, <2>1, <2>2, <2>3, <2>4 DEF IInv
<1> HIDE DEF d
<1>7. CASE ~CanClaim("config")
  <2>1. dfu' = d /\ flags' = flags /\ lock' = lock /\ work' = work /\ mgr' = mgr
    BY <1>7 DEF HostStart, HandleStart, d
  <2>2. /\ OneWriter' /\ LockOK'
    BY <1>3, <2>1 DEF IInv, OneWriter, LockOK
  <2>3. SlotIsPrefix' /\ ("clean" \notin flags' => dfu'.cur = 0)
    BY <1>2, <1>3, <2>1 DEF IInv, SlotIsPrefix, Stored, BufferOK
  <2>. QED BY <1>2, <1>3, <1>6, <2>1, <2>2, <2>3 DEF IInv, TypeOK
<1>8. CASE CanClaim("config")
  <2> DEFINE ready == "foreign" \notin flags /\ "clean" \in flags /\ "open" \notin flags
             offset == host.pos
  <2>1. /\ lock.owner \in {"config", "none"} /\ mgr.pc # "write"
        /\ mgr' \in [pc : {"idle", "claim", "write"}, timer : {"off", "on"}, upload : Cells]
        /\ mgr'.pc = mgr.pc /\ mgr'.timer = mgr.timer
    <3>1. mgr' = MgrAfterClaim /\ lock.owner \in {"config", "none"}
      BY <1>8 DEF HostStart, HandleStart, CanClaim
    <3>. QED BY <3>1, ClaimFacts DEF IInv, OneWriter
  <2>2. \/ EraseFirst(d) /\ ("foreign" \in flags \/ ready)
        \/ /\ "foreign" \notin flags
           /\ "clean" \notin flags \/ "open" \in flags
           /\ dfu' = d /\ lock' = Owned("config") /\ UNCHANGED <<flags, work>>
        \/ /\ ready
           /\ dfu' = d /\ lock' = Released(work) /\ UNCHANGED <<flags, work>>
        \/ /\ ready
           /\ offset # 0 => Resumes(i, offset)
           /\ offset = 0 => d.cur = 0
           /\ flags' = flags \cup {"open"}
           /\ dfu' = [d EXCEPT !.img = i]
           /\ work' = work \cup {"timeout"}
           /\ lock' = Owned("config")
        \/ /\ ready
           /\ offset # 0 => Resumes(i, offset)
           /\ offset = 0 => d.cur = 0
           /\ dfu' = [d EXCEPT !.img = i] /\ lock' = Released(work) /\ UNCHANGED <<flags, work>>
    BY <1>8 DEF HostStart, HandleStart, d
  <2>3. /\ Owned("config") \in [owner : {"none", "config", "mgr"}, prev : {"none", "config", "mgr"}]
        /\ Owned("config").owner = "config"
    BY OwnedFacts DEF IInv
  <2>4. CASE EraseFirst(d) /\ ("foreign" \in flags \/ ready)
    <3>1. /\ dfu' \in [cur : 0 .. Length, img : Images \cup {None}, buffer : Seq(Chunks),
                       store : 0 .. Buffer, erase : Cells]
          /\ dfu'.cur = 0 /\ dfu'.buffer = <<>> /\ dfu'.erase = dfu.erase
          /\ flags' = flags \ {"foreign", "clean"} /\ work' = work \cup {"erase"}
          /\ lock'.owner = "config"
          /\ lock' \in [owner : {"none", "config", "mgr"}, prev : {"none", "config", "mgr"}]
      BY <1>2, <2>3, <2>4, EraseFirstFacts DEF IInv
    <3>2. "open" \notin flags /\ "timeout" \notin work
      BY <2>4 DEF IInv, OneWriter, LockOK
    <3>3. OneWriter' /\ LockOK'
      BY <1>3, <2>1, <3>1, <3>2 DEF IInv, OneWriter, LockOK
    <3>4. SlotIsPrefix'
      BY <3>1 DEF SlotIsPrefix
    <3>. QED BY <1>3, <1>6, <2>1, <3>1, <3>3, <3>4 DEF IInv, TypeOK, Works
  <2>5. CASE /\ "foreign" \notin flags
             /\ "clean" \notin flags \/ "open" \in flags
             /\ dfu' = d /\ lock' = Owned("config") /\ UNCHANGED <<flags, work>>
    <3>1. OneWriter' /\ LockOK'
      BY <1>3, <2>1, <2>3, <2>5 DEF IInv, OneWriter, LockOK
    <3>2. SlotIsPrefix' /\ ("clean" \notin flags' => dfu'.cur = 0)
      BY <1>2, <1>3, <2>5 DEF IInv, SlotIsPrefix, Stored, BufferOK
    <3>. QED BY <1>2, <1>3, <1>6, <2>1, <2>3, <2>5, <3>1, <3>2 DEF IInv, TypeOK
  <2>6. CASE ready /\ dfu' = d /\ lock' = Released(work) /\ UNCHANGED <<flags, work>>
    <3>1. work \subseteq {"reboot"}
      BY <1>3, <2>6 DEF IInv, TypeOK, OneWriter, Works
    <3>2. /\ lock' \in [owner : {"none", "config", "mgr"}, prev : {"none", "config", "mgr"}]
          /\ work # {} => lock'.owner = "config"
          /\ lock'.owner \in {"none", "config"}
          /\ lock'.owner = "none" => lock'.prev = "config"
      BY <2>6, <3>1, ReleasedFacts DEF IInv
    <3>3. OneWriter' /\ LockOK'
      BY <1>3, <2>1, <2>6, <3>1, <3>2 DEF IInv, OneWriter, LockOK
    <3>4. SlotIsPrefix' /\ ("clean" \notin flags' => dfu'.cur = 0)
      BY <1>2, <1>3, <2>6 DEF IInv, SlotIsPrefix, Stored, BufferOK
    <3>. QED BY <1>2, <1>3, <1>6, <2>1, <2>6, <3>2, <3>3, <3>4 DEF IInv, TypeOK
  \* The offset is the one stored of this image, or nothing is stored.
  <2>7. ASSUME ready,
               offset # 0 => Resumes(i, offset), offset = 0 => d.cur = 0,
               dfu' = [d EXCEPT !.img = i], "store" \notin work'
        PROVE  /\ dfu' \in [cur : 0 .. Length, img : Images \cup {None}, buffer : Seq(Chunks),
                             store : 0 .. Buffer, erase : Cells]
               /\ dfu'.cur = dfu.cur /\ dfu'.img = i /\ dfu'.buffer = <<>>
               /\ dfu'.erase = dfu.erase
               /\ SlotIsPrefix'
    <3>1. /\ dfu' \in [cur : 0 .. Length, img : Images \cup {None}, buffer : Seq(Chunks),
                       store : 0 .. Buffer, erase : Cells]
          /\ dfu'.cur = dfu.cur /\ dfu'.img = i /\ dfu'.buffer = <<>> /\ dfu'.erase = dfu.erase
      BY <1>2, <1>3, <2>7
    <3>2. dfu.img = i \/ dfu.cur = 0
      BY <1>2, <2>7 DEF Resumes
    <3>3. SlotIsPrefix'
      <4>1. Stored' = dfu.cur /\ Stored = dfu.cur /\ dfu.cur \in Nat
        BY <1>3, <2>7, <3>1, SizesAssumption DEF IInv, TypeOK, Stored
      <4>2. "clean" \in flags /\ "foreign" \notin flags
        BY <2>7
      <4>3. CASE dfu.img = i
        BY <1>3, <3>1, <4>1, <4>2, <4>3 DEF IInv, SlotIsPrefix
      <4>4. CASE dfu.cur = 0
        <5>1. \A c \in Cells : ~(c < 0)
          BY SizesAssumption DEF Cells
        <5>2. \A c \in Cells \ stale : slot[c] = Erased
          BY <4>1, <4>2, <4>4, <5>1 DEF IInv, SlotIsPrefix
        <5>3. Stored' = 0 /\ slot' = slot /\ stale' = stale
          BY <1>3, <4>1, <4>4
        <5>. QED BY <5>1, <5>2, <5>3 DEF SlotIsPrefix
      <4>. QED BY <3>2, <4>3, <4>4
    <3>. QED BY <3>1, <3>3
  <2>8. CASE /\ ready
             /\ offset # 0 => Resumes(i, offset)
             /\ offset = 0 => d.cur = 0
             /\ flags' = flags \cup {"open"}
             /\ dfu' = [d EXCEPT !.img = i]
             /\ work' = work \cup {"timeout"}
             /\ lock' = Owned("config")
    <3>1. "store" \notin work'
      BY <1>3, <2>8
    <3>2. OneWriter' /\ LockOK'
      BY <1>3, <2>1, <2>3, <2>8 DEF IInv, OneWriter, LockOK
    <3>3. /\ dfu' \in [cur : 0 .. Length, img : Images \cup {None}, buffer : Seq(Chunks),
                       store : 0 .. Buffer, erase : Cells]
          /\ dfu'.cur = dfu.cur /\ dfu'.img = i /\ dfu'.buffer = <<>> /\ dfu'.erase = dfu.erase
          /\ SlotIsPrefix'
      BY <2>7, <2>8, <3>1
    <3>4. flags' \subseteq Flags /\ work' \subseteq Works
      BY <2>8 DEF IInv, TypeOK, Flags, Works
    <3>. QED BY <1>6, <2>1, <2>3, <2>8, <3>1, <3>2, <3>3, <3>4
  <2>9. CASE /\ ready
             /\ offset # 0 => Resumes(i, offset)
             /\ offset = 0 => d.cur = 0
             /\ dfu' = [d EXCEPT !.img = i] /\ lock' = Released(work) /\ UNCHANGED <<flags, work>>
    <3>1. work \subseteq {"reboot"}
      BY <1>3, <2>9 DEF IInv, TypeOK, OneWriter, Works
    <3>2. /\ lock' \in [owner : {"none", "config", "mgr"}, prev : {"none", "config", "mgr"}]
          /\ work # {} => lock'.owner = "config"
          /\ lock'.owner \in {"none", "config"}
          /\ lock'.owner = "none" => lock'.prev = "config"
      BY <2>9, <3>1, ReleasedFacts DEF IInv
    <3>3. OneWriter' /\ LockOK'
      BY <1>3, <2>1, <2>9, <3>1, <3>2 DEF IInv, OneWriter, LockOK
    <3>4. /\ dfu' \in [cur : 0 .. Length, img : Images \cup {None}, buffer : Seq(Chunks),
                       store : 0 .. Buffer, erase : Cells]
          /\ dfu'.cur = dfu.cur /\ dfu'.img = i /\ dfu'.buffer = <<>> /\ dfu'.erase = dfu.erase
          /\ SlotIsPrefix'
      BY <1>3, <2>7, <2>9
    <3>. QED BY <1>3, <1>6, <2>1, <2>9, <3>2, <3>3, <3>4 DEF IInv, TypeOK
  <2>. QED BY <2>2, <2>4, <2>5, <2>6, <2>8, <2>9
<1>. QED BY <1>7, <1>8

-----------------------------------------------------------------------------
(* The theorems.                                                           *)

LEMMA InitIInv == Init => IInv
<1> SUFFICES ASSUME Init PROVE IInv
  OBVIOUS
<1>1. /\ <<>> \in Seq(Chunks) /\ Len(<<>>) = 0
      /\ 0 \in Cells /\ 0 \in 0 .. Length /\ 0 \in 0 .. Buffer /\ 0 <= Buffer /\ 0 <= Length
  BY SizesAssumption DEF Cells
<1>2. TypeOK
  BY <1>1 DEF Init, TypeOK, NoHost, Works, Contents
<1>3. CountOK /\ OneWriter /\ LockOK
  BY DEF Init, CountOK, OneWriter, LockOK
<1>4. BufferOK /\ HostOK
  BY <1>1 DEF Init, BufferOK, HostOK, NoHost
<1>5. EraseOK /\ SlotIsPrefix
  BY DEF Init, EraseOK, SlotIsPrefix, Cells
<1>. QED BY <1>2, <1>3, <1>4, <1>5 DEF IInv

LEMMA StutterStep == ASSUME IInv, UNCHANGED vars PROVE IInv'
<1>1. TypeOK' /\ CountOK' /\ OneWriter' /\ LockOK'
  BY DEF IInv, vars, TypeOK, CountOK, OneWriter, LockOK
<1>2. BufferOK' /\ HostOK' /\ EraseOK' /\ SlotIsPrefix'
  BY DEF IInv, vars, BufferOK, HostOK, EraseOK, SlotIsPrefix, Stored
<1>. QED BY <1>1, <1>2 DEF IInv

LEMMA IInvNext == IInv /\ [Next]_vars => IInv'
  BY TimeoutStep, NoDataStep, EraseDeferredStep, EraseStep, EraseFailsStep, StoreDeferredStep,
     StoreStep, StoreFailsStep, HostAppearsStep, HostGoesStep, SyncStep, StartStep, DataStep, HostRebootStep,
     UseStep, CommandReceivedStep, CommandClaimsStep, CommandWritesStep, MgrTimeoutStep,
     RebootStep, StutterStep DEF Next

LEMMA Invariance == Spec => []IInv
  BY InitIInv, IInvNext, PTL DEF Spec

\* Every variable keeps its type; the offsets stay within the slot and the buffer, so
\* the assertions on them in dfu.c hold for images and slots of any size.
THEOREM TypeCorrect == Spec => []TypeOK
<1>1. IInv => TypeOK
  BY DEF IInv
<1>. QED BY <1>1, Invariance, PTL

\* One transport at a time has writes, erasures or a reboot coming, and it holds the
\* lock, for any number of hosts, commands, failures and reboots.
THEOREM OneWriterCorrect == Spec => []OneWriter
<1>1. IInv => OneWriter
  BY DEF IInv
<1>. QED BY <1>1, Invariance, PTL

\* A slot that counts as clean, and that no one else has used, is the image as far as
\* it is stored and erased from there, whatever was interrupted, failed and resumed
\* before, except for stale cells.
THEOREM SlotCorrect == Spec => []SlotIsPrefix
<1>1. IInv => SlotIsPrefix
  BY DEF IInv
<1>. QED BY <1>1, Invariance, PTL

=============================================================================
