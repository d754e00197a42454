-------------------------- MODULE EsbPairingProofs --------------------------
(***************************************************************************)
(* The safety properties of EsbPairing, for any set of dongles and any     *)
(* number of pairings and power cycles.                                    *)
(***************************************************************************)
EXTENDS EsbPairing, TLAPS

\* A mouse that waits for a response shows pairing mode.
WaitingIsShown == mouse.manager = "WAITING_RESPONSE" => mouse.shown = "PAIRING"

\* A dongle has taken a configuration before anyone learns of it.
Committed ==
    \A d \in Dongles :
        mouse.cfg = d \/ mouse.rsp = d \/ mouseFlash = d \/ dongle[d].ack => dongle[d].valid

IInv ==
    /\ TypeOK
    /\ MousePairingCleared
    /\ DonglePairingEnds
    /\ DongleReturns
    /\ WaitingIsShown
    /\ Committed

\* What the invariant says of the mouse's record, and of a dongle's.
MouseInv(c) ==
    /\ c \in MouseType
    /\ ~c.timer => /\ c.radio = Place(c.cfg) /\ ~c.req /\ ~c.managerTimer
                   /\ c.manager # "WAITING_RESPONSE"
    /\ c.manager = "WAITING_RESPONSE" => c.shown = "PAIRING"
DongleInv(d, c) ==
    /\ c \in DongleType
    /\ c.state = "PAIRING" => c.entering \/ c.timer \/ c.asleep
    /\ c.radio # DonglePlace(d, c.valid) => c.state = "PAIRING" \/ c.queued \/ c.asleep
    /\ c.ack => c.valid

(* The invariant, taken apart into what it says of every record and of the *)
(* knowledge that one has of another.                                      *)
LEMMA IInvParts ==
    IInv <=> /\ MouseInv(mouse) /\ mouseFlash \in Dongles \union {None}
             /\ dongle \in [Dongles -> DongleType]
             /\ \A d \in Dongles : DongleInv(d, dongle[d])
             /\ dongleFlash \in [Dongles -> BOOLEAN] /\ presses \in Nat /\ reboots \in Nat
             /\ \A d \in Dongles :
                   mouse.cfg = d \/ mouse.rsp = d \/ mouseFlash = d => dongle[d].valid
BY DEF IInv, TypeOK, MousePairingCleared, DonglePairingEnds, DongleReturns, WaitingIsShown,
       Committed, MouseInv, DongleInv

LEMMA IInvPartsNext ==
    IInv' <=> /\ MouseInv(mouse') /\ mouseFlash' \in Dongles \union {None}
              /\ dongle' \in [Dongles -> DongleType]
              /\ \A d \in Dongles : DongleInv(d, dongle'[d])
              /\ dongleFlash' \in [Dongles -> BOOLEAN] /\ presses' \in Nat /\ reboots' \in Nat
              /\ \A d \in Dongles :
                    mouse'.cfg = d \/ mouse'.rsp = d \/ mouseFlash' = d => dongle'[d].valid
BY DEF IInv, TypeOK, MousePairingCleared, DonglePairingEnds, DongleReturns, WaitingIsShown,
       Committed, MouseInv, DongleInv

(* Devices that start up satisfy their part of the invariant.              *)
LEMMA BootMouseInv ==
    ASSUME NEW cfg \in Dongles \union {None} PROVE MouseInv(BootMouse(cfg))
BY DEF MouseInv, MouseType, BootMouse, Place, Places

LEMMA BootDongleInv ==
    ASSUME NEW d \in Dongles, NEW valid \in BOOLEAN PROVE DongleInv(d, BootDongle(d, valid))
BY DEF DongleInv, DongleType, BootDongle, DonglePlace, Places

(* A step of the mouse alone, that learns of no dongle.                    *)
LEMMA MouseStep ==
    ASSUME IInv, NEW c, MouseInv(c), mouse' = c,
           c.cfg \in {mouse.cfg, mouse.rsp, mouseFlash, None}, c.rsp \in {mouse.rsp, None},
           mouseFlash' \in {mouseFlash, mouse.rsp}, UNCHANGED dongleVars,
           presses' \in Nat, reboots' \in Nat
    PROVE  IInv'
<1>1. mouse \in MouseType /\ None \notin Dongles
  BY IInvParts, NoneAssumption DEF MouseInv
<1>2. mouseFlash' \in Dongles \union {None} /\ dongle' = dongle /\ dongleFlash' = dongleFlash
  BY <1>1, IInvParts DEF MouseType, dongleVars
<1>3. \A d \in Dongles : mouse'.cfg = d \/ mouse'.rsp = d \/ mouseFlash' = d => dongle[d].valid
  BY <1>1, IInvParts
<1> QED
  BY <1>2, <1>3, IInvParts, IInvPartsNext

(* A step of one dongle alone, that keeps its configuration.               *)
LEMMA DongleStep ==
    ASSUME IInv, NEW d \in Dongles, NEW c, DongleInv(d, c), dongle[d].valid => c.valid,
           dongle' = [dongle EXCEPT ![d] = c],
           dongleFlash' \in [Dongles -> BOOLEAN], UNCHANGED mouseVars,
           presses' \in Nat, reboots' \in Nat
    PROVE  IInv'
<1>1. c \in DongleType
  BY DEF DongleInv
<1>2. /\ dongle' \in [Dongles -> DongleType] /\ dongle'[d] = c
      /\ \A e \in Dongles : e # d => dongle'[e] = dongle[e]
  BY <1>1, IInvParts
<1>3. mouse' = mouse /\ mouseFlash' = mouseFlash
  BY DEF mouseVars
<1>4. \A e \in Dongles : dongle[e].valid => dongle'[e].valid
  BY <1>2
<1>5. \A e \in Dongles : DongleInv(e, dongle'[e])
  BY <1>2, IInvParts
<1> QED
  BY <1>2, <1>3, <1>4, <1>5, IInvParts, IInvPartsNext

THEOREM InitIInv == Init => IInv
<1> SUFFICES ASSUME Init PROVE IInv
  OBVIOUS
<1>1. MouseInv(mouse) /\ mouseFlash \in Dongles \union {None}
  BY BootMouseInv DEF Init
<1>2. \A d \in Dongles : DongleInv(d, dongle[d]) /\ dongle[d] \in DongleType
  BY BootDongleInv DEF Init, DongleInv
<1>3. dongle \in [Dongles -> DongleType] /\ dongleFlash \in [Dongles -> BOOLEAN]
  BY <1>2 DEF Init
<1>4. \A d \in Dongles : ~(mouse.cfg = d \/ mouse.rsp = d \/ mouseFlash = d)
  BY NoneAssumption DEF Init, BootMouse
<1> QED
  BY <1>1, <1>2, <1>3, <1>4, IInvParts DEF Init

-----------------------------------------------------------------------------
(* The steps of the mouse                                                  *)
LEMMA MouseFacts ==
    ASSUME IInv
    PROVE  /\ mouse \in MouseType /\ MouseInv(mouse)
           /\ mouseFlash \in Dongles \union {None} /\ mouse.cfg \in Dongles \union {None}
           /\ mouse.rsp \in Dongles \union {None}
           /\ Place(mouse.cfg) \in Places /\ "default" \in Places /\ "discovery" \in Places
           /\ presses \in Nat /\ reboots \in Nat
BY IInvParts DEF MouseInv, MouseType, Place, Places

LEMMA LongClickStep == ASSUME IInv, LongClick PROVE IInv'
<1>1. /\ mouseFlash' = mouseFlash /\ UNCHANGED dongleVars
      /\ presses' \in Nat /\ reboots' \in Nat
  BY MouseFacts DEF LongClick
<1>2. MouseInv(mouse') /\ mouse'.cfg = mouse.cfg /\ mouse'.rsp = mouse.rsp
  <2>1. CASE Starts
    <3>1. mouse' = [mouse EXCEPT !.shown = "PAIRING", !.radio = "discovery", !.req = TRUE,
                                 !.timer = TRUE, !.manager = "WAITING_RESPONSE",
                                 !.managerTimer = TRUE]
      BY <2>1 DEF LongClick
    <3> QED
      BY <3>1, MouseFacts DEF MouseInv, MouseType
  <2>2. CASE ~Starts
    <3>1. mouse' = [mouse EXCEPT !.shown = "PAIRING", !.radio = "discovery", !.req = TRUE,
                                 !.timer = TRUE]
      BY <2>2, MouseFacts DEF LongClick, MouseType
    <3> QED
      BY <3>1, MouseFacts DEF MouseInv, MouseType
  <2> QED
    BY <2>1, <2>2
<1> QED
  BY <1>1, <1>2, MouseStep

LEMMA StopAskingStep == ASSUME IInv, StopAsking PROVE IInv'
<1>1. PICK place \in {mouse.radio, Place(mouse.cfg), "default"} :
         mouse' = [mouse EXCEPT !.req = FALSE, !.radio = place]
  BY DEF StopAsking
<1>2. mouse.req /\ mouse.timer
  BY MouseFacts DEF StopAsking, MouseInv
<1>3. /\ MouseInv(mouse') /\ mouse'.cfg = mouse.cfg /\ mouse'.rsp = mouse.rsp
  BY <1>1, <1>2, MouseFacts DEF MouseInv, MouseType
<1>4. mouseFlash' = mouseFlash /\ UNCHANGED dongleVars /\ presses' \in Nat /\ reboots' \in Nat
  BY MouseFacts DEF StopAsking
<1> QED
  BY <1>3, <1>4, MouseStep

LEMMA ManagerTimeoutStep == ASSUME IInv, ManagerTimeout PROVE IInv'
<1>1. /\ MouseInv(mouse') /\ mouse'.cfg = mouse.cfg /\ mouse'.rsp = mouse.rsp
      /\ mouseFlash' = mouseFlash /\ UNCHANGED dongleVars /\ presses' \in Nat /\ reboots' \in Nat
  BY MouseFacts DEF ManagerTimeout, MouseInv, MouseType
<1> QED
  BY <1>1, MouseStep

LEMMA PairingTimeoutStep == ASSUME IInv, PairingTimeout PROVE IInv'
<1>1. /\ MouseInv(mouse') /\ mouse'.cfg = mouse.cfg /\ mouse'.rsp = mouse.rsp
      /\ mouseFlash' = mouseFlash /\ UNCHANGED dongleVars /\ presses' \in Nat /\ reboots' \in Nat
  BY MouseFacts DEF PairingTimeout, MouseInv, MouseType
<1> QED
  BY <1>1, MouseStep

LEMMA HandleResponseStep ==
    ASSUME IInv, NEW saved \in BOOLEAN, HandleResponse(saved) PROVE IInv'
<1>1. Place(mouse.rsp) = mouse.rsp /\ mouse.rsp \in Dongles /\ mouse.rsp \in Places
  BY MouseFacts DEF HandleResponse, Place, Places
<1>2. UNCHANGED dongleVars /\ presses' \in Nat /\ reboots' \in Nat
  BY MouseFacts DEF HandleResponse
<1>3. CASE mouse.manager # "WAITING_RESPONSE"
  <2>1. /\ MouseInv(mouse') /\ mouse'.cfg = mouse.cfg /\ mouse'.rsp = None
        /\ mouseFlash' = mouseFlash
    BY <1>3, MouseFacts DEF HandleResponse, MouseInv, MouseType
  <2> QED
    BY <2>1, <1>2, MouseStep
<1>4. CASE mouse.manager = "WAITING_RESPONSE" /\ saved
  <2>1. /\ mouse' = [mouse EXCEPT !.rsp = None, !.cfg = mouse.rsp, !.manager = "COMPLETE",
                                  !.managerTimer = FALSE, !.radio = mouse.rsp,
                                  !.shown = "ACTIVE", !.req = FALSE, !.timer = FALSE]
        /\ mouseFlash' = mouse.rsp
    BY <1>4 DEF HandleResponse
  <2>2. MouseInv(mouse') /\ mouse'.cfg = mouse.rsp /\ mouse'.rsp = None
    BY <2>1, <1>1, MouseFacts DEF MouseInv, MouseType
  <2> QED
    BY <2>1, <2>2, <1>2, MouseStep
<1>5. CASE mouse.manager = "WAITING_RESPONSE" /\ ~saved
  <2>1. /\ mouse' = [mouse EXCEPT !.rsp = None, !.cfg = mouse.rsp, !.manager = "COMPLETE",
                                  !.managerTimer = FALSE]
        /\ mouseFlash' = mouseFlash
    BY <1>5 DEF HandleResponse
  <2>2. mouse.timer
    BY <1>5, MouseFacts DEF MouseInv
  <2>3. MouseInv(mouse') /\ mouse'.cfg = mouse.rsp /\ mouse'.rsp = None
    BY <2>1, <2>2, <1>1, MouseFacts DEF MouseInv, MouseType
  <2> QED
    BY <2>1, <2>3, <1>2, MouseStep
<1> QED
  BY <1>3, <1>4, <1>5

LEMMA RebootMouseStep == ASSUME IInv, RebootMouse PROVE IInv'
<1>1. /\ MouseInv(mouse') /\ mouse'.cfg = mouseFlash /\ mouse'.rsp = None
  BY MouseFacts, BootMouseInv DEF RebootMouse, BootMouse
<1>2. mouseFlash' = mouseFlash /\ UNCHANGED dongleVars /\ presses' \in Nat /\ reboots' \in Nat
  BY MouseFacts DEF RebootMouse
<1> QED
  BY <1>1, <1>2, MouseStep

-----------------------------------------------------------------------------
(* A packet: every dongle that receives it steps, and the mouse may learn  *)
(* of the one whose response the acknowledgement carries.                  *)
LEMMA ReceivedInv ==
    ASSUME NEW d \in Dongles, NEW isRequest \in BOOLEAN, DongleInv(d, dongle[d])
    PROVE  DongleInv(d, Received(d, isRequest)) /\ (dongle[d].valid => Received(d, isRequest).valid)
<1> DEFINE c == IF isRequest /\ dongle[d].state = "PAIRING" THEN TakesRequest(d)
                ELSE [dongle[d] EXCEPT !.ack = FALSE]
<1>1. DongleInv(d, TakesRequest(d)) /\ TakesRequest(d).valid
  BY DEF DongleInv, DongleType, TakesRequest
<1>2. /\ DongleInv(d, [dongle[d] EXCEPT !.ack = FALSE])
      /\ [dongle[d] EXCEPT !.ack = FALSE].valid = dongle[d].valid
  BY DEF DongleInv, DongleType
<1>3. DongleInv(d, c) /\ (dongle[d].valid => c.valid)
  <2>1. CASE isRequest /\ dongle[d].state = "PAIRING"
    BY <2>1, <1>1
  <2>2. CASE ~(isRequest /\ dongle[d].state = "PAIRING")
    BY <2>2, <1>2
  <2> QED
    BY <2>1, <2>2
<1> HIDE DEF c
<1>4. DongleInv(d, Connected(c)) /\ Connected(c).valid = c.valid
  BY <1>3 DEF DongleInv, DongleType, Connected
<1>5. Received(d, isRequest) = Connected(c)
  BY DEF Received, c
<1> QED
  BY <1>3, <1>4, <1>5

LEMMA SendStep ==
    ASSUME IInv, NEW isRequest \in BOOLEAN, NEW receivers \in SUBSET Dongles,
           NEW acker \in Dongles \union {None}, Send(isRequest, receivers, acker)
    PROVE  IInv'
<1>1. /\ \A d \in Dongles : DongleInv(d, dongle[d])
      /\ \A d \in Dongles :
            mouse.cfg = d \/ mouse.rsp = d \/ mouseFlash = d => dongle[d].valid
      /\ dongleFlash' \in [Dongles -> BOOLEAN] /\ mouseFlash' = mouseFlash
      /\ presses' \in Nat /\ reboots' \in Nat
  BY IInvParts DEF Send
<1>2. \A d \in Dongles :
        /\ DongleInv(d, dongle'[d]) /\ dongle'[d] \in DongleType
        /\ dongle[d].valid => dongle'[d].valid
  <2> SUFFICES ASSUME NEW d \in Dongles
               PROVE  /\ DongleInv(d, dongle'[d]) /\ dongle'[d] \in DongleType
                      /\ dongle[d].valid => dongle'[d].valid
    OBVIOUS
  <2>1. dongle'[d] = IF d \in receivers THEN Received(d, isRequest) ELSE dongle[d]
    BY DEF Send
  <2>2. DongleInv(d, dongle'[d]) /\ (dongle[d].valid => dongle'[d].valid)
    BY <2>1, <1>1, ReceivedInv
  <2> QED
    BY <2>2 DEF DongleInv
<1>3. dongle' \in [Dongles -> DongleType]
  BY <1>2 DEF Send
<1>4. Acknowledged(acker) \in Dongles \union {None}
  BY MouseFacts DEF Acknowledged
<1>5. /\ MouseInv(mouse') /\ mouse'.cfg = mouse.cfg /\ mouse'.rsp = Acknowledged(acker)
  BY <1>4, MouseFacts DEF Send, MouseInv, MouseType
<1>6. \A d \in Dongles : Acknowledged(acker) = d => dongle[d].valid
  BY <1>1, NoneAssumption DEF Acknowledged, DongleInv
<1> QED
  BY <1>1, <1>2, <1>3, <1>5, <1>6, MouseFacts, IInvPartsNext

-----------------------------------------------------------------------------
(* The steps of a dongle                                                   *)
LEMMA DongleFacts ==
    ASSUME IInv, NEW d \in Dongles
    PROVE  /\ dongle[d] \in DongleType /\ DongleInv(d, dongle[d])
           /\ DonglePlace(d, dongle[d].valid) \in Places /\ "discovery" \in Places
           /\ dongleFlash \in [Dongles -> BOOLEAN] /\ presses \in Nat /\ reboots \in Nat
BY IInvParts DEF DongleInv, DonglePlace, Places

LEMMA EnterPairingStep == ASSUME IInv, NEW d \in Dongles, EnterPairing(d) PROVE IInv'
<1> DEFINE c == [dongle[d] EXCEPT !.radio = "discovery", !.state = "PAIRING", !.entering = TRUE]
<1>1. DongleInv(d, c) /\ c.valid = dongle[d].valid
  BY DongleFacts DEF DongleInv, DongleType
<1>2. /\ dongle' = [dongle EXCEPT ![d] = c] /\ dongleFlash' \in [Dongles -> BOOLEAN]
      /\ UNCHANGED mouseVars /\ presses' \in Nat /\ reboots' \in Nat
  BY DongleFacts DEF EnterPairing
<1> HIDE DEF c
<1> QED
  BY <1>1, <1>2, DongleStep

LEMMA EnterPairingEndStep == ASSUME IInv, NEW d \in Dongles, EnterPairingEnd(d) PROVE IInv'
<1> DEFINE c == [dongle[d] EXCEPT !.entering = FALSE, !.timer = TRUE, !.shown = "PAIRING"]
<1>1. DongleInv(d, c) /\ c.valid = dongle[d].valid
  BY DongleFacts DEF DongleInv, DongleType
<1>2. /\ dongle' = [dongle EXCEPT ![d] = c] /\ dongleFlash' \in [Dongles -> BOOLEAN]
      /\ UNCHANGED mouseVars /\ presses' \in Nat /\ reboots' \in Nat
  BY DongleFacts DEF EnterPairingEnd
<1> HIDE DEF c
<1> QED
  BY <1>1, <1>2, DongleStep

LEMMA SaveConfigStep ==
    ASSUME IInv, NEW d \in Dongles, NEW saved \in BOOLEAN, SaveConfig(d, saved) PROVE IInv'
<1> DEFINE c == [dongle[d] EXCEPT !.queued = FALSE, !.asleep = TRUE]
<1>1. DongleInv(d, c) /\ c.valid = dongle[d].valid
  BY DongleFacts DEF DongleInv, DongleType
<1>2. /\ dongle' = [dongle EXCEPT ![d] = c] /\ dongleFlash' \in [Dongles -> BOOLEAN]
      /\ UNCHANGED mouseVars /\ presses' \in Nat /\ reboots' \in Nat
  BY DongleFacts DEF SaveConfig
<1> HIDE DEF c
<1> QED
  BY <1>1, <1>2, DongleStep

LEMMA SwitchAddressStep == ASSUME IInv, NEW d \in Dongles, SwitchAddress(d) PROVE IInv'
<1> DEFINE c == [dongle[d] EXCEPT !.asleep = FALSE, !.state = "ACTIVE",
                                  !.radio = DonglePlace(d, dongle[d].valid)]
<1>1. DongleInv(d, c) /\ c.valid = dongle[d].valid
  BY DongleFacts DEF DongleInv, DongleType
<1>2. /\ dongle' = [dongle EXCEPT ![d] = c] /\ dongleFlash' \in [Dongles -> BOOLEAN]
      /\ UNCHANGED mouseVars /\ presses' \in Nat /\ reboots' \in Nat
  BY DongleFacts DEF SwitchAddress
<1> HIDE DEF c
<1> QED
  BY <1>1, <1>2, DongleStep

LEMMA DongleTimeoutStep == ASSUME IInv, NEW d \in Dongles, DongleTimeout(d) PROVE IInv'
<1> DEFINE c == IF dongle[d].state = "PAIRING"
                THEN [dongle[d] EXCEPT !.timer = FALSE, !.state = "ACTIVE",
                                       !.radio = DonglePlace(d, dongle[d].valid),
                                       !.shown = "DISCONNECTED"]
                ELSE [dongle[d] EXCEPT !.timer = FALSE]
<1>1. DongleInv(d, c) /\ c.valid = dongle[d].valid
  BY DongleFacts DEF DongleInv, DongleType
<1>2. /\ dongle' = [dongle EXCEPT ![d] = c] /\ dongleFlash' \in [Dongles -> BOOLEAN]
      /\ UNCHANGED mouseVars /\ presses' \in Nat /\ reboots' \in Nat
  BY DongleFacts DEF DongleTimeout
<1> HIDE DEF c
<1> QED
  BY <1>1, <1>2, DongleStep

LEMMA ConnectionTimeoutStep ==
    ASSUME IInv, NEW d \in Dongles, ConnectionTimeout(d) PROVE IInv'
<1> DEFINE c == [dongle[d] EXCEPT !.connected = FALSE,
                                  !.shown = IF dongle[d].state # "PAIRING" THEN "DISCONNECTED"
                                                                           ELSE dongle[d].shown]
<1>1. DongleInv(d, c) /\ c.valid = dongle[d].valid
  BY DongleFacts DEF DongleInv, DongleType
<1>2. /\ dongle' = [dongle EXCEPT ![d] = c] /\ dongleFlash' \in [Dongles -> BOOLEAN]
      /\ UNCHANGED mouseVars /\ presses' \in Nat /\ reboots' \in Nat
  BY DongleFacts DEF ConnectionTimeout
<1> HIDE DEF c
<1> QED
  BY <1>1, <1>2, DongleStep

LEMMA RebootDongleStep == ASSUME IInv, NEW d \in Dongles, RebootDongle(d) PROVE IInv'
<1> DEFINE c == BootDongle(d, dongleFlash[d])
<1>1. DongleInv(d, c) /\ (dongle[d].valid => c.valid)
  BY DongleFacts, BootDongleInv DEF RebootDongle, BootDongle
<1>2. /\ dongle' = [dongle EXCEPT ![d] = c] /\ dongleFlash' \in [Dongles -> BOOLEAN]
      /\ UNCHANGED mouseVars /\ presses' \in Nat /\ reboots' \in Nat
  BY DongleFacts DEF RebootDongle
<1> HIDE DEF c
<1> QED
  BY <1>1, <1>2, DongleStep

-----------------------------------------------------------------------------
THEOREM NextIInv == IInv /\ [Next]_vars => IInv'
<1> SUFFICES ASSUME IInv, [Next]_vars PROVE IInv'
  OBVIOUS
<1>1. CASE LongClick
  BY <1>1, LongClickStep
<1>2. CASE StopAsking
  BY <1>2, StopAskingStep
<1>3. CASE ManagerTimeout
  BY <1>3, ManagerTimeoutStep
<1>4. CASE PairingTimeout
  BY <1>4, PairingTimeoutStep
<1>5. CASE RebootMouse
  BY <1>5, RebootMouseStep
<1>6. ASSUME NEW saved \in BOOLEAN, HandleResponse(saved) PROVE IInv'
  BY <1>6, HandleResponseStep
<1>7. CASE Packet
  BY <1>7, SendStep DEF Packet
<1>8. ASSUME NEW d \in Dongles, EnterPairing(d) PROVE IInv'
  BY <1>8, EnterPairingStep
<1>9. ASSUME NEW d \in Dongles, EnterPairingEnd(d) PROVE IInv'
  BY <1>9, EnterPairingEndStep
<1>10. ASSUME NEW d \in Dongles, SwitchAddress(d) PROVE IInv'
  BY <1>10, SwitchAddressStep
<1>11. ASSUME NEW d \in Dongles, DongleTimeout(d) PROVE IInv'
  BY <1>11, DongleTimeoutStep
<1>12. ASSUME NEW d \in Dongles, ConnectionTimeout(d) PROVE IInv'
  BY <1>12, ConnectionTimeoutStep
<1>13. ASSUME NEW d \in Dongles, RebootDongle(d) PROVE IInv'
  BY <1>13, RebootDongleStep
<1>14. ASSUME NEW d \in Dongles, NEW saved \in BOOLEAN, SaveConfig(d, saved) PROVE IInv'
  BY <1>14, SaveConfigStep
<1>15. CASE UNCHANGED vars
  BY <1>15, IInvParts, IInvPartsNext DEF vars
<1> QED
  BY <1>1, <1>2, <1>3, <1>4, <1>5, <1>6, <1>7, <1>8, <1>9, <1>10, <1>11, <1>12, <1>13,
     <1>14, <1>15 DEF Next

THEOREM Invariance == Spec => []IInv
BY InitIInv, NextIInv, PTL DEF Spec

(* Every variable has its type, for any set of dongles.                    *)
THEOREM TypeCorrect == Spec => []TypeOK
<1>1. IInv => TypeOK
  BY DEF IInv
<1> QED
  BY <1>1, Invariance, PTL

(* When the timer of pairing mode has gone the mouse is on the channel of  *)
(* its configuration and nothing of the pairing is left to run.            *)
THEOREM MouseCleared == Spec => []MousePairingCleared
<1>1. IInv => MousePairingCleared
  BY DEF IInv
<1> QED
  BY <1>1, Invariance, PTL

(* A dongle in pairing mode always has something under way that ends it,   *)
(* and one away from its channel something that brings it back.            *)
THEOREM DongleComesBack == Spec => [](DonglePairingEnds /\ DongleReturns)
<1>1. IInv => DonglePairingEnds /\ DongleReturns
  BY DEF IInv
<1> QED
  BY <1>1, Invariance, PTL

(* A mouse and the dongle it is configured for are on the same channel and *)
(* address whenever neither has a pairing under way.                       *)
THEOREM PairingAgrees == Spec => []PairedMeet
<1>1. IInv => PairedMeet
  <2> SUFFICES ASSUME IInv, NEW d \in Dongles, mouse.cfg = d, ~mouse.timer,
                      dongle[d].state # "PAIRING", ~dongle[d].queued, ~dongle[d].asleep
               PROVE  Hears(d)
    BY DEF PairedMeet
  <2>1. mouse.radio = d
    BY NoneAssumption DEF IInv, MousePairingCleared, Place
  <2>2. dongle[d].valid
    BY DEF IInv, Committed
  <2>3. dongle[d].radio = d
    BY <2>2 DEF IInv, DongleReturns, DonglePlace
  <2> QED
    BY <2>1, <2>3 DEF Hears
<1> QED
  BY <1>1, Invariance, PTL

(* The mouse changes its dongle in pairing mode only, or when it starts    *)
(* with the one it has saved: a late response changes nothing.             *)
THEOREM LateResponseIgnored == Spec => OnlyPairingPairs
<1>1. IInv /\ [Next]_vars =>
         [mouse'.cfg # mouse.cfg => mouse.shown = "PAIRING" \/ reboots' # reboots]_vars
  <2> SUFFICES ASSUME IInv, Next, mouse'.cfg # mouse.cfg, mouse.shown # "PAIRING"
               PROVE  reboots' # reboots
    BY DEF vars
  <2>1. mouse \in MouseType /\ mouse.manager # "WAITING_RESPONSE" /\ reboots \in Nat
    BY DEF IInv, TypeOK, WaitingIsShown
  <2>2. ~LongClick /\ ~StopAsking /\ ~ManagerTimeout /\ ~PairingTimeout
    BY <2>1 DEF LongClick, StopAsking, ManagerTimeout, PairingTimeout, MouseType
  <2>3. ~\E saved \in BOOLEAN : HandleResponse(saved)
    BY <2>1 DEF HandleResponse, MouseType
  <2>4. ~Packet
    BY <2>1 DEF Packet, Send, MouseType
  <2>5. ~\E d \in Dongles :
          \/ EnterPairing(d) \/ EnterPairingEnd(d) \/ SwitchAddress(d)
          \/ DongleTimeout(d) \/ ConnectionTimeout(d) \/ RebootDongle(d)
          \/ \E saved \in BOOLEAN : SaveConfig(d, saved)
    BY DEF EnterPairing, EnterPairingEnd, SwitchAddress, DongleTimeout, ConnectionTimeout,
           RebootDongle, SaveConfig, mouseVars
  <2>6. RebootMouse
    BY <2>2, <2>3, <2>4, <2>5 DEF Next
  <2> QED
    BY <2>1, <2>6 DEF RebootMouse
<1> QED
  BY <1>1, Invariance, PTL DEF Spec, OnlyPairingPairs
=============================================================================
