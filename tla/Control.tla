------------------------------ MODULE Control ------------------------------
(***************************************************************************)
(* Control requests: what the host asks on endpoint 0 and what the class   *)
(* (ECM_Setup, ECM_HandleClassReq, the descriptor callbacks) makes of it,  *)
(* while production and the power change the record under the device.      *)
(* Two components meet here: EcmSession, whose state GET_INTERFACE and     *)
(* SET_INTERFACE use, and ProdInfo, which fills the MAC address string,    *)
(* the serial number and the vendor request.                               *)
(*                                                                         *)
(* The device core is external: it calls the class on a SETUP packet,      *)
(* streams what the class hands it, and of the requests without data that  *)
(* the class has accepted it acknowledges those to an interface only.      *)
(***************************************************************************)
EXTENDS EcmSession, ProdInfo

VARIABLES
    ep0,         \* "idle", "stalled", the stage, or "unanswered"
    asked,       \* the class request in "dataOut" and "unanswered"
    answer,      \* what the device streams to the host: what it is, its value
    hostMac,     \* what the host has read in this session,
    hostSerial   \* "absent" before

ep0Vars     == <<ep0, asked, answer>>
hostVars    == <<hostMac, hostSerial>>
controlVars == <<sessionVars, prodVars, ep0Vars, hostVars>>

Nothing == <<"none", Absent>>

(* A class request: its recipient, an interface or not, and its data: none,*)
(* to the host, to the device, or more of that than s_ctl_buf takes.       *)
ClassRequests == [to : {"interface", "other"}, data : {"none", "in", "out", "outLong"}]
NoRequest     == [to |-> "other", data |-> "no request"]

ControlInit ==
    /\ SessionInit
    /\ ProdInit
    /\ ep0 = "idle"
    /\ asked = NoRequest
    /\ answer = Nothing
    /\ hostMac = Absent
    /\ hostSerial = Absent

Send(what, value) == ep0' = "dataIn" /\ answer' = <<what, value>>
Receive           == ep0' = "dataOut" /\ answer' = Nothing
Acknowledge       == ep0' = "statusIn" /\ answer' = Nothing
Ignore            == ep0' = "unanswered" /\ answer' = Nothing
Stall             == ep0' = "stalled" /\ answer' = Nothing    \* USBD_CtlError

-----------------------------------------------------------------------------
(* SETUP packets.  A new one ends a stall. *)

Request ==
    /\ power = "running"
    /\ ep0 \in {"idle", "stalled"}
    /\ UNCHANGED <<prodVars, hostVars>>

Setup == Request /\ UNCHANGED asked

(* GET_DESCRIPTOR of the MAC address string and of the serial number.      *)
ECM_GetUsrStrDesc ==
    /\ Setup
    /\ Send("mac", usbMac)
    /\ UNCHANGED sessionVars

ECM_SerialStrDescriptor ==
    /\ Setup
    /\ Send("serial", SerialInUse)
    /\ UNCHANGED sessionVars

(* The other descriptors are constants.                                    *)
ConfigDescriptor ==
    /\ Setup
    /\ Send("other", Absent)
    /\ UNCHANGED sessionVars

DeviceOrStringDescriptor ==
    /\ Setup
    /\ Send("other", Absent)
    /\ UNCHANGED sessionVars

(* VENDOR_REQ_GET_PRODINFO: the record as it is in the flash, valid or not.*)
GetProdInfo ==
    /\ Setup
    /\ Send("other", Absent)
    /\ UNCHANGED sessionVars

(* GET_INTERFACE answers from a variable on the stack of ECM_Setup, which  *)
(* is gone when the core streams it: the host may get anything.            *)
GetInterface ==
    /\ Setup
    /\ IF configured THEN Send("other", Absent) ELSE Stall
    /\ UNCHANGED sessionVars

(* SET_INTERFACE, on the data interface or on the other one, where it has  *)
(* no effect, as it has if the setting is the selected one.                *)
SetInterface(alt) ==
    /\ Setup
    /\ IF configured THEN Acknowledge ELSE Stall
    /\ SessionSetInterface(alt) \/ UNCHANGED sessionVars

(* Wrong variant of the next definition: GET requests are ignored too.     *)
ClassRequestUnanswered(r) ==
    /\ Request
    /\ \/ r.data = "none" /\ r.to = "interface" /\ Acknowledge
       \/ r.data = "none" /\ r.to = "other" /\ Ignore
       \/ r.data = "in" /\ Ignore
       \/ r.data \in {"out", "outLong"} /\ Receive
    /\ asked' = IF ep0' = "statusIn" THEN NoRequest ELSE r
    /\ UNCHANGED sessionVars

(* ECM_HandleClassReq.  Without data it leaves the answer to the core.     *)
ClassRequest(r) ==
    /\ Request
    /\ \/ r.data = "none" /\ r.to = "interface" /\ Acknowledge
       \/ r.data = "none" /\ r.to = "other" /\ Ignore
       \/ r.data = "in" /\ Stall
       \/ r.data \in {"out", "outLong"} /\ Receive
    /\ asked' = IF ep0' \in {"statusIn", "stalled"} THEN NoRequest ELSE r
    /\ UNCHANGED sessionVars

(* Other vendor requests, other standard requests, other types.            *)
UnknownRequest ==
    /\ Setup
    /\ Stall
    /\ UNCHANGED sessionVars

-----------------------------------------------------------------------------
(* The rest of a control transfer *)

(* The data stage, then the status stage. *)
DataIn ==
    /\ ep0 = "dataIn"
    /\ ep0' = "statusOut"
    /\ hostMac' = IF answer[1] = "mac" THEN answer[2] ELSE hostMac
    /\ hostSerial' = IF answer[1] = "serial" THEN answer[2] ELSE hostSerial
    /\ answer' = Nothing
    /\ UNCHANGED <<sessionVars, prodVars, asked>>

(* ECM_EP0_RxReady discards what has come.  The endpoint was armed for 64  *)
(* bytes: a host that has more of them to send finds nobody to take them.  *)
DataOut ==
    /\ ep0 = "dataOut"
    /\ IF asked.data = "outLong"
       THEN ep0' = "unanswered" /\ UNCHANGED asked
       ELSE ep0' = "statusIn" /\ asked' = NoRequest
    /\ UNCHANGED <<sessionVars, prodVars, answer, hostVars>>

Status ==
    /\ ep0 \in {"statusIn", "statusOut"}
    /\ ep0' = "idle"
    /\ UNCHANGED <<sessionVars, prodVars, asked, answer, hostVars>>

Continue == power = "running" /\ (DataIn \/ DataOut \/ Status)

(* The host gives a request up; its next SETUP packet ends it.             *)
Abandon ==
    /\ power = "running"
    /\ ep0 \notin {"idle", "stalled"}
    /\ ep0' = "idle"
    /\ asked' = NoRequest
    /\ answer' = Nothing
    /\ UNCHANGED <<sessionVars, prodVars, hostVars>>

-----------------------------------------------------------------------------
(* Session, power and production *)

Configure ==
    /\ power = "running"
    /\ ep0 = "idle"
    /\ SessionConfigure
    /\ UNCHANGED <<prodVars, ep0Vars, hostVars>>

NewSession ==
    /\ SessionReset
    /\ ep0' = "idle"
    /\ asked' = NoRequest
    /\ answer' = Nothing
    /\ hostMac' = Absent
    /\ hostSerial' = Absent

(* A bus reset: the host reads all descriptors again. *)
Reset == power = "running" /\ NewSession /\ UNCHANGED prodVars

(* A step of ProdInfo.  If the MCU stops or starts anew, the session ends. *)
Board ==
    /\ ProdNext
    /\ IF power = "running" /\ power' # "running"
       THEN NewSession
       ELSE UNCHANGED <<sessionVars, ep0Vars, hostVars>>

ControlNext ==
    \/ ECM_GetUsrStrDesc
    \/ ECM_SerialStrDescriptor
    \/ ConfigDescriptor
    \/ DeviceOrStringDescriptor
    \/ GetProdInfo
    \/ GetInterface
    \/ \E alt \in AltSettings : SetInterface(alt)
    \/ \E r \in ClassRequests : ClassRequest(r)
    \/ UnknownRequest
    \/ Continue
    \/ Abandon
    \/ Configure
    \/ Reset
    \/ Board

ControlSpec == ControlInit /\ [][ControlNext]_controlVars

(* The host goes on with a request for as long as the device lets it.      *)
ControlFairSpec == ControlSpec /\ WF_controlVars(Continue)
-----------------------------------------------------------------------------
(* Properties *)

(* Variables in range, those of both components included; outside a        *)
(* running MCU there is no session, and a class request is kept as long as *)
(* endpoint 0 takes its data or leaves it unanswered, and no longer.       *)
ControlTypeOK ==
    /\ SessionTypeOK /\ SessionCoherent
    /\ ProdTypeOK
    /\ ep0 \in {"idle", "dataIn", "dataOut", "statusIn", "statusOut", "stalled", "unanswered"}
    /\ ep0 = "dataIn" <=> answer # Nothing
    /\ asked \in ClassRequests \cup {NoRequest}
    /\ ep0 \in {"dataOut", "unanswered"} <=> asked # NoRequest
    /\ power # "running" => ~configured /\ ep0 = "idle" /\ hostMac = Absent

(* The MAC address, cached at start-up, and the serial number, read from   *)
(* the flash each time, describe the same unit to the host: that of the    *)
(* record in the flash now.                                                *)
HostSeesOneIdentity ==
    power = "running" => hostMac \in {Absent, MacInUse} /\ hostSerial \in {Absent, SerialInUse}

(* What the class does with a request ends it, unless it is one of two     *)
(* kinds: a class request without data to the device or an endpoint, which *)
(* neither the class nor the core acknowledges, and one with more than 64  *)
(* bytes of data.  These do hang until the host gives up.                  *)
Answerable ==
    /\ asked.data = "none" => asked.to = "interface"
    /\ asked.data # "outLong"

(* No other request hangs endpoint 0, whichever the host sends and whether *)
(* or not the class knows it, while the host goes on with it and does not  *)
(* have to give up.                                                        *)
EveryRequestEnds == ep0 \notin {"idle", "stalled"} /\ Answerable ~> ep0 \in {"idle", "stalled"}
=============================================================================
