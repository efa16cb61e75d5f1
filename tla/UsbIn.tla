------------------------------- MODULE UsbIn -------------------------------
(***************************************************************************)
(* The bulk IN endpoint: USBD_ECM_SendFrameBlocking, which net_rx_task     *)
(* calls once per frame, against ECM_DataIn and the control plane in the   *)
(* USB interrupt.  The two share s_in_done, s_in_zlp and s_pdev without a  *)
(* lock; an interrupt may run between any two statements of the task.      *)
(*                                                                         *)
(* Frames are numbered in the order net_rx_task sends them.  A frame is    *)
(* two packets here, a head and a tail; when its length is a multiple of   *)
(* the packet size the tail is a full packet, and the host only sees the   *)
(* end of the transfer with the zero-length packet (ZLP) that must follow. *)
(*                                                                         *)
(* A definition introduced as a wrong variant is no part of Next: it shows *)
(* which mistake in the code a property would catch.                       *)
(***************************************************************************)
EXTENDS EcmSession, Sequences, SequencesExt

VARIABLES
    pc,         \* where the task is in USBD_ECM_SendFrameBlocking
    frame,      \* the frame it is sending; 0 for none
    full,       \* len % CDC_ECM_DATA_MAX_PACKET_SIZE = 0
    sent,       \* frames given to usbd_ecm_if_send
    done,       \* s_in_done
    zlp,        \* s_in_zlp
    ep,         \* what the endpoint will send next, "idle" or "closed"
    epFrame,    \* the frame whose buffer it reads; 0 for none
    partial,    \* packets of the transfer the host is receiving
    transfer,   \* the last transfer the host has received
    got         \* the frames it has received intact, oldest first

senderVars == <<pc, frame, full, sent>>
epVars     == <<ep, epFrame>>
hostVars   == <<partial, transfer, got>>
vars       == <<sessionVars, senderVars, done, zlp, epVars, hostVars>>

Running == pc # "fault"

Init ==
    /\ SessionInit
    /\ pc = "idle"
    /\ frame = 0
    /\ full = FALSE
    /\ sent = 0
    /\ done = FALSE
    /\ zlp = FALSE
    /\ ep = "closed"
    /\ epFrame = 0
    /\ partial = << >>
    /\ transfer = << >>
    /\ got = << >>

-----------------------------------------------------------------------------
(* USB interrupt: the control plane *)

(* What opening and closing the endpoint leaves of a transfer: nothing.    *)
Endpoint(state) == ep' = state /\ epFrame' = 0 /\ partial' = << >>

(* ECM_Init.  Between a bus reset and SET_CONFIGURATION the host needs     *)
(* milliseconds, in which the task, of the highest priority in use, gets   *)
(* through its few statements from the checks to the wait.                 *)
Configure ==
    /\ Running
    /\ pc \in {"idle", "wait"}
    /\ SessionConfigure
    /\ zlp' = FALSE
    /\ UNCHANGED <<senderVars, done, epVars, hostVars>>

SetInterface(alt) ==
    /\ Running
    /\ SessionSetInterface(alt)
    /\ Endpoint(IF alt = 1 THEN "idle" ELSE "closed")
    /\ UNCHANGED <<senderVars, done, zlp, transfer, got>>

(* ECM_DeInit: nobody tells the sender. *)
Reset ==
    /\ Running
    /\ SessionReset
    /\ Endpoint("closed")
    /\ UNCHANGED <<senderVars, done, zlp, transfer, got>>

-----------------------------------------------------------------------------
(* The host reads a packet; ECM_DataIn ends each transfer. *)

ReadHead ==
    /\ Running
    /\ ep = "head"
    /\ ep' = "tail"
    /\ partial' = Append(partial, <<epFrame, "head">>)
    /\ UNCHANGED <<sessionVars, senderVars, done, zlp, epFrame, transfer, got>>

(* A short packet ends the host's transfer; only a transfer of the head    *)
(* and the tail of one frame is that frame to the host.                    *)
Intact(t) == Len(t) = 2 /\ t[1][1] = t[2][1] /\ t[1][2] = "head"
EndTransfer(packets) ==
    /\ partial' = << >>
    /\ transfer' = packets
    /\ got' = IF Intact(packets) THEN Append(got, packets[1][1]) ELSE got

(* Wrong variant of the next definition: completion without the ZLP.       *)
DataInNoZlp ==
    /\ epFrame' = 0
    /\ zlp' = FALSE
    /\ ep' = "idle"
    /\ done' = TRUE

(* ECM_DataIn: send the ZLP that is still owed, else wake the sender.      *)
DataIn ==
    /\ epFrame' = 0
    /\ zlp' = FALSE
    /\ IF zlp THEN ep' = "zlp"    /\ UNCHANGED done
              ELSE ep' = "idle" /\ done' = TRUE

ReadTail ==
    /\ Running
    /\ ep = "tail"
    /\ LET packets == Append(partial, <<epFrame, "tail">>) IN
       IF full THEN partial' = packets /\ UNCHANGED <<transfer, got>>
               ELSE EndTransfer(packets)
    /\ DataIn
    /\ UNCHANGED <<sessionVars, senderVars>>

ReadZlp ==
    /\ Running
    /\ ep = "zlp"
    /\ EndTransfer(partial)
    /\ DataIn
    /\ UNCHANGED <<sessionVars, senderVars>>

-----------------------------------------------------------------------------
(* USBD_ECM_SendFrameBlocking, in net_rx_task *)

Return == pc' = "idle" /\ frame' = 0 /\ UNCHANGED <<full, sent>>
Goto(l) == pc' = l /\ UNCHANGED <<frame, full, sent>>

(* The checks on entry: not ready, and the frame is dropped.               *)
SendBegin ==
    /\ pc = "idle"
    /\ sent' = sent + 1
    /\ IF ready /\ pdev
       THEN pc' = "checked" /\ frame' = sent + 1 /\ full' \in BOOLEAN
       ELSE UNCHANGED <<pc, frame, full>>
    /\ UNCHANGED <<sessionVars, done, zlp, epVars, hostVars>>

(* Wrong variant of the next definition: a stale signal stays.             *)
KeepDone ==
    /\ pc = "checked"
    /\ Goto("cleared")
    /\ UNCHANGED <<sessionVars, done, zlp, epVars, hostVars>>

ClearDone ==
    /\ pc = "checked"
    /\ done' = FALSE
    /\ Goto("cleared")
    /\ UNCHANGED <<sessionVars, zlp, epVars, hostVars>>

MarkZlp ==
    /\ pc = "cleared"
    /\ zlp' = full
    /\ Goto("marked")
    /\ UNCHANGED <<sessionVars, done, epVars, hostVars>>

(* USBD_LL_Transmit(s_pdev, ...), which dereferences s_pdev.  On a closed  *)
(* endpoint nothing will come of it.                                       *)
Transmit ==
    /\ pc = "marked"
    /\ IF ~pdev THEN Goto("fault") /\ UNCHANGED epVars
       ELSE /\ Goto("wait")
            /\ IF ep = "closed" THEN UNCHANGED epVars
               ELSE ep' = "head" /\ epFrame' = frame
    /\ UNCHANGED <<sessionVars, done, zlp, hostVars>>

(* It returns an error. *)
TransmitFails ==
    /\ pc = "marked"
    /\ pdev
    /\ Return
    /\ zlp' = FALSE
    /\ UNCHANGED <<sessionVars, done, epVars, hostVars>>

(* xSemaphoreTake(s_in_done) succeeds: the frame is sent.                  *)
WaitDone ==
    /\ pc = "wait"
    /\ done
    /\ done' = FALSE
    /\ Return
    /\ UNCHANGED <<sessionVars, zlp, epVars, hostVars>>

(* Wrong variant of the next definition: waits as long as it takes.        *)
WaitForever == FALSE /\ UNCHANGED vars

(* 100 ms are over. *)
WaitTimesOut ==
    /\ pc = "wait"
    /\ ~done
    /\ Goto("late")
    /\ UNCHANGED <<sessionVars, done, zlp, epVars, hostVars>>

(* Wrong variants of the next definition: without the flush, and sending   *)
(* the frame once more.                                                    *)
NoFlush ==
    /\ pc = "late"
    /\ Goto("flushed")
    /\ UNCHANGED <<sessionVars, done, zlp, epVars, hostVars>>
FlushAndRetry ==
    /\ pc = "late"
    /\ pdev
    /\ ep' = (IF ep = "closed" THEN ep ELSE "idle") /\ epFrame' = 0
    /\ Goto("cleared")
    /\ UNCHANGED <<sessionVars, done, zlp, hostVars>>

(* USBD_LL_FlushEP(s_pdev, ...): whatever has not gone out is dropped.     *)
Flush ==
    /\ pc = "late"
    /\ IF ~pdev THEN Goto("fault") /\ UNCHANGED epVars
       ELSE /\ Goto("flushed")
            /\ ep' = (IF ep = "closed" THEN ep ELSE "idle")
            /\ epFrame' = 0
    /\ UNCHANGED <<sessionVars, done, zlp, hostVars>>

(* Wrong variants of the next definition. *)
GiveUpKeepsZlp ==
    /\ pc = "flushed"
    /\ Return
    /\ UNCHANGED <<sessionVars, done, zlp, epVars, hostVars>>
GiveUpKeepsFrame ==
    /\ pc = "flushed"
    /\ zlp' = FALSE
    /\ Goto("idle")
    /\ UNCHANGED <<sessionVars, done, epVars, hostVars>>

GiveUp ==
    /\ pc = "flushed"
    /\ zlp' = FALSE
    /\ Return
    /\ UNCHANGED <<sessionVars, done, epVars, hostVars>>

(* The handle was NULL: the CPU ends up in the fault handler's loop.       *)
Halted == pc = "fault" /\ UNCHANGED vars

Sender ==
    \/ ClearDone
    \/ MarkZlp
    \/ Transmit
    \/ TransmitFails
    \/ WaitDone
    \/ WaitTimesOut
    \/ Flush
    \/ GiveUp

UsbInterrupt ==
    \/ Configure
    \/ \E alt \in AltSettings : SetInterface(alt)
    \/ Reset
    \/ ReadHead
    \/ ReadTail
    \/ ReadZlp

Next == SendBegin \/ Sender \/ UsbInterrupt \/ Halted

Spec == Init /\ [][Next]_vars

(* The task runs when it can, and its timeout expires.  The host need not  *)
(* read anything.                                                          *)
FairSpec == Spec /\ WF_vars(Sender)

-----------------------------------------------------------------------------
(* Properties *)

Packets == Nat \X {"head", "tail"}

(* Variables in range; the task holds a frame exactly while it is in       *)
(* USBD_ECM_SendFrameBlocking, and the endpoint reads a buffer only while  *)
(* it has data to send.                                                    *)
TypeOK ==
    /\ SessionTypeOK
    /\ pc \in {"idle", "checked", "cleared", "marked", "wait", "late", "flushed", "fault"}
    /\ frame \in Nat
    /\ full \in BOOLEAN
    /\ sent \in Nat
    /\ done \in BOOLEAN
    /\ zlp \in BOOLEAN
    /\ ep \in {"closed", "idle", "head", "tail", "zlp"}
    /\ epFrame \in Nat
    /\ partial \in Seq(Packets)
    /\ transfer \in Seq(Packets)
    /\ got \in Seq(Nat)
    /\ frame = 0 <=> pc = "idle"
    /\ pc # "idle" => frame = sent
    /\ epFrame # 0 <=> ep \in {"head", "tail"}

(* "The class borrows f until done" (net_bridge.c): net_rx_task frees and  *)
(* reuses the buffer as soon as the call returns, so the endpoint reads it *)
(* only while the task waits, also after a timeout or a change of session. *)
BufferReturned == epFrame # 0 => pc \in {"wait", "late"} /\ epFrame = frame

(* A ZLP is owed only for the frame being sent: no debt of an earlier one  *)
(* survives an error, a timeout or a reset into the next call.             *)
NoStaleZlp == zlp => full /\ pc \in {"marked", "wait", "late", "flushed", "fault"}

(* 0 is returned only if the host has received the whole frame, up to the  *)
(* packet that ends its transfer: a completion signal left over from an    *)
(* earlier call is never taken for this one's.                             *)
SuccessIsDelivered ==
    [][WaitDone => transfer # << >> /\ Last(transfer) = <<frame, "tail">>]_vars

(* Every call returns, although nobody tells the sender when the endpoint  *)
(* is closed under it: the timeout does (a NULL handle aside, see          *)
(* NoNullHandle).                                                          *)
SendReturns == pc # "idle" ~> pc \in {"idle", "fault"}

(* The host gets intact frames in the order sent and none of them twice:   *)
(* the endpoint is a lossy channel that holds one frame.  Transfers that a *)
(* timeout cut short or merged count as losses.                            *)
Channel == INSTANCE FrameChannel WITH
    Ports <- {"host"}, Capacity <- 1,
    pending <- IF frame = 0 THEN << >> ELSE <<frame>>,
    out <- [p \in {"host"} |-> got]
IsChannel == Channel!Spec

(* "@return 0 on success, negative on error / not ready / timeout"         *)
(* (usbd_ecm.h), and the check on entry that s_pdev is not NULL: the call  *)
(* never dereferences a NULL handle.                                       *)
NoNullHandle == pc # "fault"

(* "One frame in flight, terminated by a ZLP when the frame length is a    *)
(* multiple of the max packet size" (usbd_ecm.c): a whole frame always     *)
(* ends the host's transfer, and no other is appended to it.               *)
WholeFrameEndsTransfer ==
    \A t \in {transfer, partial} :
        \A i \in 1..(Len(t) - 1) : t[i][2] # "tail"
=============================================================================
