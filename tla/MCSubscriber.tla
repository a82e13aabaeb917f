---------------------------- MODULE MCSubscriber ----------------------------
(* Two channels; three sources of one transmitter and one in a bundle. *)
EXTENDS Subscriber

CONSTANTS x1, x2, x3, m, device, bundle

MCOrigin == (x1 :> device) @@ (x2 :> device) @@ (x3 :> device) @@ (m :> bundle)
MCSlotInBundle == (m :> 1)
MCFlowIds == 0..1
MCSlots == 0..1
MCChannels == 1..2
=============================================================================
