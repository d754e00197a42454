------------------------- MODULE MCConfigTransport -------------------------
(* ConfigTransport with values for TLC: the ids of the USB transport wrap   *)
(* around, and the radio's transport competes with it for the peer.         *)
EXTENDS ConfigTransport

CONSTANTS usb, esb
MCTransports == {usb, esb}
MCMaxRequests == [t \in MCTransports |-> IF t = usb THEN 4 ELSE 1]
=============================================================================
