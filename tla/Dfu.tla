-------------------------------- MODULE Dfu --------------------------------
(***************************************************************************)
(* Device firmware update: modules/dfu.c, which takes an image through the *)
(* configuration channel and writes it to the update slot in the           *)
(* background, util/dfu_lock.c, which it shares with the other transport   *)
(* of images, and that transport, modules/dfu_mcumgr.c.                    *)
(*                                                                         *)
(* dfu.c runs on the system work queue: its option handlers and its works  *)
(* exclude each other, and each is one action.  The commands of MCUmgr run *)
(* on a thread of their own, below the work queue.  The device may lose    *)
(* power at any step.  A cell of the slot stands for one chunk             *)
(* (STORE_CHUNK_SIZE) and for one page that is erased.                     *)
(***************************************************************************)
EXTENDS Integers, Sequences

CONSTANTS
    Images,      \* images a host has: img_length and img_csum tell them apart
    None,        \* no image
    Length,      \* img_length, in cells, of every image
    Slot,        \* fa_size of the slot, in cells
    Buffer,      \* SYNC_BUFFER_SIZE, in cells
    MaxHosts,    \* bound: hosts that appear
    MaxUse,      \* bound: HID reports, while the user is at the device
    MaxCommands, \* bound: commands of MCUmgr
    MaxErrors,   \* bound: failed writes and erasures
    MaxReboots   \* bound: reboots and losses of power

ASSUME SizesAssumption ==
    /\ Length \in Nat \ {0} /\ Slot \in Nat /\ Length <= Slot
    /\ Buffer \in Nat \ {0}
    /\ None \notin Images

VARIABLES
    lock,   \* current_owner, previous_owner
    flags,  \* those that are set: flash_area is open, is_flash_area_clean,
            \*    slot_was_used_by_other_transport, device_in_use
    dfu,    \* cur_offset, img_csum, sync_buffer up to sync_offset, store_offset,
            \*    erase_offset
    work,   \* the delayable works of dfu.c that are pending
    slot,   \* the cells of the update slot
    stale,  \* history: cells that were written, and that dfu.c takes for erased
    marked, \* the image that the bootloader is asked to start
    mgr,    \* where MCUmgr's thread is, is its dfu_timeout pending, upload offset
    host,   \* what the tool of the configuration channel does and knows
    count   \* events so far, for the bounds

vars == <<lock, flags, dfu, work, slot, stale, marked, mgr, host, count>>

Cells == 0 .. Slot - 1
Chunks == [img : Images, at : Cells]
Erased == [img |-> None, at |-> 0]
Mixed == [img |-> None, at |-> 1]  \* written over something else, or by others
Contents == Chunks \cup {Erased, Mixed}
Flags == {"open", "clean", "foreign", "inUse"}
Works == {"erase", "store", "timeout", "reboot"}

\* A host that is not there knows nothing.
NoHost == [phase |-> "off", img |-> None, pos |-> 0, base |-> 0]

\* The RAM after module_state_event: the lock claimed, the erasure scheduled.
Booted ==
    /\ lock' = [owner |-> "config", prev |-> "none"]
    /\ flags' = {}
    /\ dfu' = [cur |-> 0, img |-> None, buffer |-> <<>>, store |-> 0, erase |-> 0]
    /\ work' = {"erase"}
    /\ mgr' = [pc |-> "idle", timer |-> "off", upload |-> 0]
    /\ host' = NoHost
    /\ stale' = {}

Init ==
    /\ lock = [owner |-> "config", prev |-> "none"]
    /\ flags = {}
    /\ dfu = [cur |-> 0, img |-> None, buffer |-> <<>>, store |-> 0, erase |-> 0]
    /\ work = {"erase"}
    /\ slot = [c \in Cells |-> Mixed]
    /\ stale = {}
    /\ marked = None
    /\ mgr = [pc |-> "idle", timer |-> "off", upload |-> 0]
    /\ host = NoHost
    /\ count = [hosts |-> 0, use |-> 0, commands |-> 0, errors |-> 0, reboots |-> 0]

Count(what, max) == count[what] < max /\ count' = [count EXCEPT ![what] = @ + 1]

-----------------------------------------------------------------------------
(* dfu_lock.c                                                              *)

\* dfu_lock_claim succeeds; the lock after it, and after dfu_lock_release.
CanClaim(o) == lock.owner \in {o, "none"}
Owned(o) == [lock EXCEPT !.owner = o]
Freed(o) == [owner |-> "none", prev |-> o]

\* The claim calls owner_changed of the previous owner, if that is another one.
\* Mutant: of no one.
OwnerChangedNever(prev, o) == FALSE
OwnerChanged(prev, o) == lock.owner = "none" /\ lock.prev = prev /\ prev # o

\* img_mgmt_reset_upload when the configuration channel claims after MCUmgr.
MgrAfterClaim == [mgr EXCEPT !.upload = IF OwnerChanged("mgr", "config") THEN 0 ELSE @]

\* A release by dfu.c that a pending reboot puts off.  Mutant: that none puts off.
ReleasedAlways(w) == Freed("config")
Released(w) == IF "reboot" \in w THEN Owned("config") ELSE Freed("config")

-----------------------------------------------------------------------------
(* The works of dfu.c.                                                     *)

\* terminate_dfu, with d for what the module knows of the image.
Terminate(d) ==
    /\ flags' = flags \ {"open"}
    /\ dfu' = [d EXCEPT !.buffer = <<>>]
    /\ work' = work \ {"timeout", "store"}
    /\ lock' = Released(work)

\* How much of the image is in the slot, and the cells that the store which is pending
\* has written already: once it is cut off, nothing knows of them.
Stored == dfu.cur + (IF "store" \in work THEN dfu.store ELSE 0)
CutOff == {c \in Cells : dfu.cur <= c /\ c < Stored}

\* dfu_timeout_handler.  A pass of the store renews the timeout, which may be in the
\* queue already.
Timeout ==
    /\ "timeout" \in work
    /\ Terminate(dfu)
    /\ stale' = stale \cup CutOff
    /\ UNCHANGED <<slot, marked, mgr, host, count>>

\* background_erase_handler: while the device is in use it is put off.
EraseDeferred ==
    /\ "erase" \in work
    /\ "inUse" \in flags
    /\ flags' = flags \ {"inUse"}
    /\ UNCHANGED <<lock, dfu, work, slot, stale, marked, mgr, host, count>>

\* Mutant: erase_offset runs past the last page.
EraseEndsLate(next) == next > Slot
EraseEnds(next) == next >= Slot

\* One page is erased; after the last one the slot is clean.  The request to the
\* bootloader is in the slot's last page.
Erase ==
    /\ "erase" \in work
    /\ "inUse" \notin flags
    /\ slot' = [slot EXCEPT ![dfu.erase] = Erased]
    /\ marked' = IF dfu.erase + 1 = Slot THEN None ELSE marked
    /\ IF EraseEnds(dfu.erase + 1)
       THEN /\ flags' = (flags \cup {"clean"}) \ {"open"}
            /\ dfu' = [dfu EXCEPT !.erase = 0]
            /\ work' = work \ {"erase"}
            /\ lock' = Released(work)
       ELSE /\ flags' = flags \cup {"open"}
            /\ dfu' = [dfu EXCEPT !.erase = @ + 1]
            /\ UNCHANGED <<work, lock>>
    /\ stale' = stale \ {dfu.erase}
    /\ UNCHANGED <<mgr, host, count>>

\* The erasure stops, and the next one goes on from here.
EraseFails ==
    /\ "erase" \in work
    /\ "inUse" \notin flags
    /\ Count("errors", MaxErrors)
    /\ flags' = flags \ {"open"}
    /\ work' = work \ {"erase"}
    /\ lock' = Released(work)
    /\ UNCHANGED <<dfu, slot, stale, marked, mgr, host>>

\* complete_dfu_data_store: a whole image is marked and the update terminated.
Complete(d) ==
    LET c == [cur |-> d.cur + Len(d.buffer), img |-> d.img, buffer |-> <<>>, store |-> 0,
              erase |-> d.erase]
    IN  IF c.cur = Length
        THEN Terminate(c) /\ marked' = c.img
        ELSE /\ dfu' = c
             /\ work' = work \ {"store"}
             /\ UNCHANGED <<flags, lock, marked>>

\* background_store_handler: put off while the device is in use, otherwise one
\* chunk is written; flash that is not erased ends up with neither content.
StoreAgain ==
    /\ work' = work \cup {"store", "timeout"}
    /\ UNCHANGED <<lock, marked>>
StoreDeferred ==
    /\ "store" \in work
    /\ "inUse" \in flags
    /\ flags' = flags \ {"inUse"}
    /\ StoreAgain
    /\ UNCHANGED <<dfu, slot, stale, mgr, host, count>>
Store ==
    /\ "store" \in work
    /\ "inUse" \notin flags
    /\ LET at == dfu.cur + dfu.store
           new == dfu.buffer[dfu.store + 1]
           d == [dfu EXCEPT !.store = @ + 1]
       IN  /\ IF slot[at] \in {Erased, new}
              THEN slot' = [slot EXCEPT ![at] = new] /\ stale' = stale \ {at}
              ELSE slot' = [slot EXCEPT ![at] = Mixed] /\ UNCHANGED stale
           /\ IF d.store < Len(d.buffer) THEN dfu' = d /\ StoreAgain /\ UNCHANGED flags
                                         ELSE Complete(d)
    /\ UNCHANGED <<mgr, host, count>>

\* The chunk cannot be written, or only a part of it: terminate_dfu, then
\* complete_dfu_data_store of an empty buffer.
StoreFails ==
    /\ "store" \in work
    /\ "inUse" \notin flags
    /\ Count("errors", MaxErrors)
    /\ Terminate([dfu EXCEPT !.store = 0])
    /\ \E cell \in {slot[Stored], Mixed} : slot' = [slot EXCEPT ![Stored] = cell]
    /\ stale' = stale \cup CutOff \cup {Stored}
    /\ UNCHANGED <<marked, mgr, host>>

-----------------------------------------------------------------------------
(* The options of dfu.c, as the tool of the host uses them (dfu.rst): it    *)
(* looks whether the device is at rest, or does not, starts, checks, sends  *)
(* as much as the buffer takes, and waits until that is stored.             *)

Resumes(i, offset) == offset = dfu.cur /\ i = dfu.img

\* background_erase is scheduled and the progress forgotten.
EraseFirst(d) ==
    /\ flags' = flags \ {"foreign", "clean"}
    /\ dfu' = [d EXCEPT !.cur = 0, !.img = None]
    /\ work' = work \cup {"erase"}
    /\ lock' = Owned("config")

\* handle_dfu_start; of what was received before, nothing is kept.
HandleStart(i, offset) ==
    LET d == [dfu EXCEPT !.buffer = <<>>]
        ready == "foreign" \notin flags /\ "clean" \in flags /\ "open" \notin flags
    IN  IF ~CanClaim("config")
        THEN dfu' = d /\ UNCHANGED <<flags, lock, work, mgr>>
        ELSE /\ mgr' = MgrAfterClaim
             /\ \/ "foreign" \in flags /\ EraseFirst(d)
                \/ /\ "foreign" \notin flags
                   /\ "clean" \notin flags \/ "open" \in flags
                   /\ dfu' = d /\ lock' = Owned("config") /\ UNCHANGED <<flags, work>>
                \/ /\ ready
                   /\ offset # 0 /\ ~Resumes(i, offset)
                   /\ dfu' = d /\ lock' = Released(work) /\ UNCHANGED <<flags, work>>
                \/ /\ ready
                   /\ offset = 0 /\ d.cur # 0
                   /\ EraseFirst(d)
                \/ /\ ready
                   /\ offset # 0 => Resumes(i, offset)
                   /\ offset = 0 => d.cur = 0
                   /\ flags' = flags \cup {"open"}
                   /\ dfu' = [d EXCEPT !.img = i]
                   /\ work' = work \cup {"timeout"}
                   /\ lock' = Owned("config")
                \/ /\ ready  \* the slot cannot be opened, or the image does not fit
                   /\ offset # 0 => Resumes(i, offset)
                   /\ offset = 0 => d.cur = 0
                   /\ dfu' = [d EXCEPT !.img = i] /\ lock' = Released(work)
                   /\ UNCHANGED <<flags, work>>

\* handle_dfu_data, and what it does with no data.
HandleData(cell) ==
    IF {"clean", "open"} \subseteq flags
    THEN /\ dfu' = [dfu EXCEPT !.buffer = IF Len(@) < Buffer THEN Append(@, cell) ELSE @]
         /\ work' = work \cup {"timeout"}
         /\ lock' = Owned("config")
    ELSE UNCHANGED <<dfu, work, lock>>
HandleNoData ==
    /\ {"clean", "open"} \subseteq flags
    /\ Terminate(dfu)
    /\ stale' = stale \cup CutOff

\* Mutant: sync keeps the lock it has claimed for its answer.
SyncLockKept(w) == Owned("config")
SyncLock(w) ==
    IF w \cap {"timeout", "erase", "reboot"} = {} THEN Freed("config") ELSE Owned("config")

\* handle_dfu_sync: what has been received is stored; the lock is claimed for the
\* answer, and released unless it is needed.
SyncWork == IF dfu.buffer = <<>> THEN work ELSE work \cup {"store"}
SyncAnswer ==
    IF ~CanClaim("config") THEN "other"
    ELSE IF "clean" \notin flags THEN "cleaning"
    ELSE IF dfu.buffer # <<>> THEN "storing"
    ELSE IF "open" \in flags THEN "active" ELSE "inactive"
HandleSync ==
    /\ dfu' = [dfu EXCEPT !.store = IF dfu.buffer # <<>> /\ "store" \notin work THEN 0 ELSE @]
    /\ work' = SyncWork
    /\ IF CanClaim("config")
       THEN lock' = SyncLock(SyncWork) /\ mgr' = MgrAfterClaim
       ELSE UNCHANGED <<lock, mgr>>

\* The tool appears, and goes away at any time.
HostAppears ==
    /\ host.phase = "off"
    /\ Count("hosts", MaxHosts)
    /\ \E i \in Images : host' = [NoHost EXCEPT !.phase = "look", !.img = i]
    /\ UNCHANGED <<lock, flags, dfu, work, slot, stale, marked, mgr>>
HostGoes ==
    /\ host.phase # "off"
    /\ host' = NoHost
    /\ UNCHANGED <<lock, flags, dfu, work, slot, stale, marked, mgr, count>>

\* What the tool makes of an answer.
HostAfter(answer) ==
    CASE host.phase = "look" /\ answer = "inactive" ->
             LET at == IF dfu.img = host.img THEN dfu.cur ELSE 0
             IN  [host EXCEPT !.phase = "start", !.pos = at, !.base = at]
      [] host.phase = "look" /\ answer \in {"cleaning", "storing", "active"} -> host
      [] host.phase = "sent" /\ answer = "cleaning" -> [host EXCEPT !.phase = "look"]
      [] host.phase # "look" /\ answer = "active" /\ dfu.img = host.img /\ dfu.cur = host.pos ->
             [host EXCEPT !.phase = "data", !.base = host.pos]
      [] host.phase \in {"data", "wait"} /\ answer = "storing" -> [host EXCEPT !.phase = "wait"]
      [] host.phase = "wait" /\ answer = "inactive" /\ dfu.cur = Length ->
             [host EXCEPT !.phase = "done"]
      [] OTHER -> NoHost
HostSync ==
    /\ host.phase \in {"look", "sent", "data", "wait"}
    /\ HandleSync
    /\ host' = HostAfter(SyncAnswer)
    /\ UNCHANGED <<flags, slot, stale, marked, count>>
\* A tool that has not looked starts anywhere but in the middle of a store, where
\* store_dfu_data_chunk would find sync_offset below store_offset.
HostStart ==
    /\ host.phase = "start" \/ (host.phase = "look" /\ "store" \notin work)
    /\ HandleStart(host.img, host.pos)
    /\ host' = [host EXCEPT !.phase = "sent"]
    /\ UNCHANGED <<slot, stale, marked, count>>
HostData ==
    /\ host.phase = "data"
    /\ host.pos < Length /\ host.pos - host.base < Buffer
    /\ HandleData([img |-> host.img, at |-> host.pos])
    /\ host' = [host EXCEPT !.pos = @ + 1]
    /\ UNCHANGED <<flags, slot, stale, marked, mgr, count>>

\* The tool never does so, another one may.
HostSendsNothing ==
    /\ host.phase # "off"
    /\ HandleNoData
    /\ UNCHANGED <<slot, marked, mgr, host, count>>

\* handle_reboot_request
HostReboot ==
    /\ host.phase = "done"
    /\ count.reboots < MaxReboots
    /\ IF CanClaim("config")
       THEN /\ work' = work \cup {"reboot"}
            /\ lock' = Owned("config")
            /\ mgr' = MgrAfterClaim
       ELSE UNCHANGED <<work, lock, mgr>>
    /\ host' = NoHost
    /\ UNCHANGED <<flags, dfu, slot, stale, marked, count>>

\* hid_report_event and ble_peer_event
Use ==
    /\ Count("use", MaxUse)
    /\ flags' = flags \cup {"inUse"}
    /\ UNCHANGED <<lock, dfu, work, slot, stale, marked, mgr, host>>

-----------------------------------------------------------------------------
(* dfu_mcumgr.c                                                            *)

\* smp_cmd_recv: the timeout is started, then the lock claimed; if that is
\* refused, the timeout is cancelled and the command not carried out.
CommandReceived ==
    /\ mgr.pc = "idle"
    /\ Count("commands", MaxCommands)
    /\ mgr' = [mgr EXCEPT !.pc = "claim", !.timer = "on"]
    /\ UNCHANGED <<lock, flags, dfu, work, slot, stale, marked, host>>
CommandClaims ==
    /\ mgr.pc = "claim"
    /\ IF CanClaim("mgr")
       THEN /\ lock' = Owned("mgr")
            /\ flags' = IF OwnerChanged("config", "mgr") THEN flags \cup {"foreign"} ELSE flags
            /\ mgr' = [mgr EXCEPT !.pc = "write"]
       ELSE /\ mgr' = [mgr EXCEPT !.pc = "idle", !.timer = "off"]
            /\ UNCHANGED <<lock, flags>>
    /\ UNCHANGED <<dfu, work, slot, stale, marked, host, count>>

\* The image management group writes a chunk, and erases the slot before the first.
CommandWrites ==
    /\ mgr.pc = "write"
    /\ mgr' = [mgr EXCEPT !.pc = "idle", !.upload = (@ + 1) % Slot]
    /\ slot' = IF mgr.upload = 0 THEN [c \in Cells |-> IF c = 0 THEN Mixed ELSE Erased]
                                 ELSE [slot EXCEPT ![mgr.upload] = Mixed]
    /\ stale' = (IF mgr.upload = 0 THEN {} ELSE stale)
                    \cup {c \in {mgr.upload} : c < dfu.erase}
    /\ marked' = None
    /\ UNCHANGED <<lock, flags, dfu, work, host, count>>

\* dfu_timeout_handler.  The work queue runs it as soon as it is due, 5 s after
\* the last command, and no command takes so long.
MgrTimeout ==
    /\ mgr.timer = "on" /\ mgr.pc = "idle"
    /\ mgr' = [mgr EXCEPT !.timer = "off"]
    /\ lock' = IF lock.owner = "mgr" THEN Freed("mgr") ELSE lock
    /\ UNCHANGED <<flags, dfu, work, slot, stale, marked, host, count>>

-----------------------------------------------------------------------------

\* sys_reboot of reboot_request_handler, a reset by MCUmgr or a loss of power: a
\* marked image is swapped with the one that ran.
Reboot ==
    /\ Count("reboots", MaxReboots)
    /\ Booted
    /\ slot' = IF marked = None THEN slot ELSE [c \in Cells |-> Mixed]
    /\ marked' = None

Next ==
    \/ Timeout \/ EraseDeferred \/ Erase \/ EraseFails
    \/ StoreDeferred \/ Store \/ StoreFails
    \/ HostAppears \/ HostGoes \/ HostSync \/ HostStart \/ HostData \/ HostSendsNothing
    \/ HostReboot
    \/ Use
    \/ CommandReceived \/ CommandClaims \/ CommandWrites \/ MgrTimeout
    \/ Reboot

Spec == Init /\ [][Next]_vars

\* Works run and timers expire; MCUmgr's thread ends a command it has begun; a
\* requested reboot happens.  Hosts and users need not do anything.
Fairness ==
    /\ WF_vars("store" \notin work /\ Timeout)
    /\ WF_vars(EraseDeferred \/ Erase) /\ WF_vars(StoreDeferred \/ Store)
    /\ WF_vars(CommandClaims) /\ WF_vars(CommandWrites) /\ WF_vars(MgrTimeout)
    /\ WF_vars("reboot" \in work /\ Reboot)

FairSpec == Spec /\ Fairness

-----------------------------------------------------------------------------
(* Properties.                                                             *)

\* Offsets stay within the slot and the buffer (the assertions of
\* background_erase_handler and store_dfu_data_chunk among them).
TypeOK ==
    /\ lock \in [owner : {"none", "config", "mgr"}, prev : {"none", "config", "mgr"}]
    /\ flags \subseteq Flags
    /\ dfu \in [cur : 0 .. Length, img : Images \cup {None}, buffer : Seq(Chunks),
                store : 0 .. Buffer, erase : Cells]
    /\ Len(dfu.buffer) <= Buffer
    /\ work \subseteq Works
    /\ slot \in [Cells -> Contents] /\ stale \subseteq Cells
    /\ marked \in Images \cup {None}
    /\ mgr \in [pc : {"idle", "claim", "write"}, timer : {"off", "on"}, upload : Cells]
    /\ host.phase \in {"off", "look", "start", "sent", "data", "wait", "done"}
    /\ host.img \in Images \cup {None} /\ host.pos \in 0 .. Length /\ host.base \in 0 .. Length

\* No two transports touch the slot at a time: whoever has a write, an erasure or a
\* reboot coming holds the lock, so the assertions on release hold and neither
\* timeout lets go of a lock that is needed.
OneWriter ==
    /\ "open" \in flags \/ work # {} => lock.owner = "config"
    /\ mgr.pc = "write" => lock.owner = "mgr"
    /\ lock.owner = "mgr" => mgr.timer = "on"
    /\ "store" \in work => {"open", "clean"} \subseteq flags /\ dfu.store < Len(dfu.buffer)
    /\ "timeout" \in work <=> {"open", "clean"} \subseteq flags
    /\ "erase" \in work => "clean" \notin flags

\* A slot that counts as clean, and that no one else has used, holds the image as
\* far as it was stored and is erased from there, through interruptions, other
\* transports, resumed updates, failures and loss of power.  The exceptions are stale
\* cells: those of a store that was cut off, and those that MCUmgr wrote after an
\* erasure had failed behind them.
SlotIsPrefix ==
    "clean" \in flags /\ "foreign" \notin flags =>
        \A c \in Cells \ stale :
            slot[c] = IF c < Stored THEN [img |-> dfu.img, at |-> c] ELSE Erased

\* An image is whole when it is marked.  The code violates it: an image that was cut off
\* in its first store leaves cur_offset at 0, and the next one is written over it.
MarkedIsWhole ==
    [][marked' \notin {None, marked} =>
           \A c \in 0 .. Length - 1 : slot'[c] = [img |-> marked', at |-> c]]_vars

\* The lock is held until the update is completed or timed out, and no longer: the
\* other transport gets its turn, if flash does not fail.
LockIsReleased ==
    /\ lock.owner = "config" ~> (lock.owner # "config" \/ count.errors > 0)
    /\ lock.owner = "mgr" ~> lock.owner # "mgr"
=============================================================================
