------------------------------- MODULE MCUsbIn -------------------------------
(* A small instance of UsbIn: MaxSent bounds the frames net_rx_task sends. *)
EXTENDS UsbIn

CONSTANT MaxSent

MCNext == Next /\ sent' <= MaxSent

MCSpec == Init /\ [][MCNext]_vars

MCFairSpec == MCSpec /\ WF_vars(Sender)
=============================================================================
