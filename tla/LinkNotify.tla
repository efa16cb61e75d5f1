----------------------------- MODULE LinkNotify -----------------------------
(***************************************************************************)
(* How the state of the T1L link reaches the host: link_task polls both    *)
(* ports and calls USBD_ECM_SetLinkState when it thinks the host has to    *)
(* know; a notification occupies the interrupt IN endpoint until the host  *)
(* polls it.  Task and USB interrupt share s_cmd_busy, s_speed_pending and *)
(* s_pdev.                                                                 *)
(*                                                                         *)
(* The host starts every session (alternate setting 1) without a carrier   *)
(* state and takes it from NETWORK_CONNECTION notifications.               *)
(*                                                                         *)
(* A definition introduced as a wrong variant is no part of Next: it shows *)
(* which mistake in the code a property would catch.                       *)
(***************************************************************************)
EXTENDS EcmSession

CONSTANTS
    Ports,         \* the T1L ports of the device: one or two
    SpiMayFail,    \* whether reading STATUS1 can fail
    UsbMayFail     \* whether USBD_LL_Transmit can return an error

ASSUME LinkAssumption ==
    /\ Ports \in {{1}, {1, 2}}
    /\ SpiMayFail \in BOOLEAN
    /\ UsbMayFail \in BOOLEAN

VARIABLES
    link,          \* link[p]: the link state bit of port p in STATUS1
    pc,            \* where link_task is
    up,            \* its variable up
    lastSent,      \* its variable last_sent
    haveSent,      \* its variable have_sent
    cmdBusy,       \* s_cmd_busy
    speedPending,  \* s_speed_pending
    cmd,           \* what the interrupt endpoint sends, "idle" or "closed"
    cmdUp,         \* the link state in s_notify_buf
    carrier,       \* what the host knows: "none", "up" or "down"
    refused,       \* history: USBD_LL_Transmit has returned an error
    overtaken      \* history: the last reset came between claim and transmission

taskVars   == <<pc, up, lastSent, haveSent>>
notifyVars == <<cmdBusy, speedPending, cmd, cmdUp>>
history    == <<refused, overtaken>>
vars       == <<sessionVars, link, taskVars, notifyVars, carrier, history>>

Running == pc # "fault"
Carrier(u) == IF u THEN "up" ELSE "down"

Init ==
    /\ SessionInit
    /\ link \in [Ports -> BOOLEAN]
    /\ pc = "poll1"
    /\ up = FALSE
    /\ lastSent = FALSE
    /\ haveSent = FALSE
    /\ cmdBusy = FALSE
    /\ speedPending = FALSE
    /\ cmd = "closed"
    /\ cmdUp = FALSE
    /\ carrier = "none"
    /\ refused = FALSE
    /\ overtaken = FALSE

-----------------------------------------------------------------------------
(* The wire, and the USB interrupt: the control plane *)

LinkChange(p) ==
    /\ Running
    /\ link' = [link EXCEPT ![p] = ~@]
    /\ UNCHANGED <<sessionVars, taskVars, notifyVars, carrier, history>>

(* Wrong variant of the next definition: busy for ever after a reset that  *)
(* caught a notification in flight.                                        *)
ConfigureKeepsBusy ==
    /\ Running
    /\ SessionConfigure
    /\ cmd' = "idle"
    /\ UNCHANGED <<link, taskVars, cmdBusy, speedPending, cmdUp, carrier, history>>

(* ECM_Init opens the interrupt endpoint. *)
Configure ==
    /\ Running
    /\ SessionConfigure
    /\ cmdBusy' = FALSE
    /\ speedPending' = FALSE
    /\ cmd' = "idle"
    /\ UNCHANGED <<link, taskVars, cmdUp, carrier, history>>

(* Only the data endpoints change; a host that selects setting 1 starts    *)
(* over with its carrier.                                                  *)
SetInterface(alt) ==
    /\ Running
    /\ SessionSetInterface(alt)
    /\ carrier' = IF alt = 1 THEN "none" ELSE carrier
    /\ UNCHANGED <<link, taskVars, notifyVars, history>>

(* Wrong variant of the next definition. *)
ResetKeepsEndpoint ==
    /\ Running
    /\ SessionReset
    /\ carrier' = "none"
    /\ overtaken' = (pc = "transmit")
    /\ UNCHANGED <<link, taskVars, notifyVars, refused>>

(* ECM_DeInit *)
Reset ==
    /\ Running
    /\ SessionReset
    /\ cmd' = "closed"
    /\ carrier' = "none"
    /\ overtaken' = (pc = "transmit")
    /\ UNCHANGED <<link, taskVars, cmdBusy, speedPending, cmdUp, refused>>

(* Wrong variant of the next definition: the first transfer ends the claim.*)
CmdDataInReleases ==
    /\ cmdBusy' = FALSE
    /\ speedPending' = FALSE
    /\ cmd' = IF speedPending THEN "speed" ELSE "idle"

(* ECM_DataIn on the interrupt endpoint: the speed change that follows a   *)
(* NETWORK_CONNECTION(up), or the end of the notification.                 *)
CmdDataIn ==
    IF speedPending
    THEN speedPending' = FALSE /\ cmd' = "speed" /\ UNCHANGED cmdBusy
    ELSE cmdBusy' = FALSE /\ cmd' = "idle" /\ UNCHANGED speedPending

(* The host polls the interrupt endpoint. *)
HostPolls ==
    /\ Running
    /\ cmd \in {"connection", "speed"}
    /\ carrier' = IF cmd = "connection" THEN Carrier(cmdUp) ELSE carrier
    /\ CmdDataIn
    /\ UNCHANGED <<sessionVars, link, taskVars, cmdUp, history>>

-----------------------------------------------------------------------------
(* link_task *)

Reading(p) == {link[p]} \cup (IF SpiMayFail THEN {FALSE} ELSE {})

(* adin2111_link_up reads STATUS1 once for each port; a failed read counts *)
(* as a link that is down.                                                 *)
PollPort1 ==
    /\ pc = "poll1"
    /\ up' \in Reading(1)
    /\ pc' = IF 2 \in Ports THEN "poll2" ELSE "decide"
    /\ UNCHANGED <<sessionVars, link, lastSent, haveSent, notifyVars, carrier, history>>

PollPort2 ==
    /\ pc = "poll2"
    /\ \E reading \in Reading(2) : up' = (up \/ reading)
    /\ pc' = "decide"
    /\ UNCHANGED <<sessionVars, link, lastSent, haveSent, notifyVars, carrier, history>>

(* Wrong variant of the next definition: only on a change.                 *)
DecideOnChange ==
    /\ pc = "decide"
    /\ haveSent' = (haveSent /\ ready)
    /\ pc' = IF ready /\ up # lastSent THEN "notify" ELSE "poll1"
    /\ UNCHANGED <<sessionVars, link, up, lastSent, notifyVars, carrier, history>>

(* (Re)notify if the host is ready and has not been told this state.       *)
Decide ==
    /\ pc = "decide"
    /\ haveSent' = (haveSent /\ ready)
    /\ pc' = IF ready /\ (~haveSent \/ up # lastSent) THEN "notify" ELSE "poll1"
    /\ UNCHANGED <<sessionVars, link, up, lastSent, notifyVars, carrier, history>>

(* usbd_ecm_if_set_link_state returns nothing: whatever became of the      *)
(* notification, it is recorded as sent, and the task sleeps for 250 ms.   *)
Recorded ==
    /\ pc' = "poll1"
    /\ lastSent' = up
    /\ haveSent' = TRUE
    /\ UNCHANGED up

(* USBD_ECM_SetLinkState returns early: no device, or the endpoint is busy.*)
Drop ==
    /\ pc = "notify"
    /\ ~pdev \/ cmdBusy
    /\ Recorded
    /\ UNCHANGED <<sessionVars, link, notifyVars, carrier, history>>

(* Its critical section. *)
Claim ==
    /\ pc = "notify"
    /\ pdev /\ ~cmdBusy
    /\ cmdBusy' = TRUE
    /\ speedPending' = up
    /\ pc' = "transmit"
    /\ UNCHANGED <<sessionVars, link, up, lastSent, haveSent, cmd, cmdUp, carrier, history>>

(* Its call of USBD_LL_Transmit(s_pdev, ...), which dereferences s_pdev.   *)
Transmit ==
    /\ pc = "transmit"
    /\ pdev
    /\ cmd' = "connection"
    /\ cmdUp' = up
    /\ Recorded
    /\ UNCHANGED <<sessionVars, link, cmdBusy, speedPending, carrier, history>>

TransmitFails ==
    /\ pc = "transmit"
    /\ pdev
    /\ UsbMayFail
    /\ cmdBusy' = FALSE
    /\ speedPending' = FALSE
    /\ refused' = TRUE
    /\ Recorded
    /\ UNCHANGED <<sessionVars, link, cmd, cmdUp, carrier, overtaken>>

TransmitNull ==
    /\ pc = "transmit"
    /\ ~pdev
    /\ pc' = "fault"
    /\ UNCHANGED <<sessionVars, link, up, lastSent, haveSent, notifyVars, carrier, history>>

(* The handle was NULL: the CPU ends up in the fault handler's loop.       *)
Halted == pc = "fault" /\ UNCHANGED vars

LinkTask ==
    \/ PollPort1
    \/ PollPort2
    \/ Decide
    \/ Drop
    \/ Claim
    \/ Transmit
    \/ TransmitFails
    \/ TransmitNull

Next ==
    \/ LinkTask
    \/ \E p \in Ports : LinkChange(p)
    \/ Configure
    \/ \E alt \in AltSettings : SetInterface(alt)
    \/ Reset
    \/ HostPolls
    \/ Halted

Spec == Init /\ [][Next]_vars

(* link_task wakes up every 250 ms and gets to run, and the host polls the *)
(* interrupt endpoint once in a while.                                     *)
FairSpec == Spec /\ WF_vars(LinkTask) /\ WF_vars(HostPolls)

-----------------------------------------------------------------------------
(* Properties *)

InFlight == cmd \in {"connection", "speed"}

(* Variables in range; the interrupt endpoint is open exactly while the    *)
(* device is configured.                                                   *)
TypeOK ==
    /\ SessionTypeOK
    /\ link \in [Ports -> BOOLEAN]
    /\ pc \in {"poll1", "poll2", "decide", "notify", "transmit", "fault"}
    /\ up \in BOOLEAN
    /\ lastSent \in BOOLEAN
    /\ haveSent \in BOOLEAN
    /\ cmdBusy \in BOOLEAN
    /\ speedPending \in BOOLEAN
    /\ cmd \in {"closed", "idle", "connection", "speed"}
    /\ cmdUp \in BOOLEAN
    /\ carrier \in {"none", "up", "down"}
    /\ refused \in BOOLEAN
    /\ overtaken \in BOOLEAN
    /\ cmd = "closed" <=> ~configured

(* The endpoint never stays claimed for nothing: in the configured state   *)
(* s_cmd_busy is only set while a notification is in flight or link_task   *)
(* is about to send one, even if a reset caught an earlier one in flight.  *)
BusyIsInFlight == configured /\ cmdBusy => InFlight \/ pc = "transmit"

(* Conversely, s_cmd_busy is set while link_task is about to send, or one  *)
(* of the two notifications is in flight, so that no other transmission    *)
(* replaces it.  The exception: ECM_Init clears the claim of a link_task   *)
(* that a reset and a new configuration have overtaken.                    *)
ClaimCoversTransfer ==
    configured /\ (InFlight \/ pc = "transmit") => cmdBusy \/ overtaken

(* A host that link_task has once seen absent is told the link state when  *)
(* it has become ready, if it stays and finds no old notification in the   *)
(* endpoint, and as long as no transmission is refused.                    *)
NewHostIsTold ==
    ready /\ ~haveSent /\ ~cmdBusy
        ~> carrier # "none" \/ ~ready \/ pc = "fault" \/ refused

(* "So the host's carrier tracks the SPE link" (README), "the periodic     *)
(* link_task will resend the current state on the next edge" (usbd_ecm.c): *)
(* once the link and the session are stable, a host that has been told a   *)
(* state is eventually right about it.                                     *)
LinkIsUp == \E p \in Ports : link[p]
CarrierTracksLink ==
    \A u \in BOOLEAN :
        <>[](ready /\ pc # "fault" /\ carrier # "none" /\ LinkIsUp = u)
            => <>[](carrier = Carrier(u))
=============================================================================
