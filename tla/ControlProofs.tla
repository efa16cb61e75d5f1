---------------------------- MODULE ControlProofs ----------------------------
(* Proofs about ProdInfo and Control, for any MAC addresses, serial numbers *)
(* and alternate settings: first the record in the flash under the         *)
(* production tool and the power, then the host's view of it.              *)
EXTENDS Control, TLAPS

-----------------------------------------------------------------------------
(* What the firmware makes of the record *)

(* A valid record shows its fields.                                        *)
LEMMA ValidFields ==
    ASSUME Valid
    PROVE  FieldMac = image.mac /\ FieldSerial = image.serial
  BY DEF Valid, FieldMac, FieldSerial

(* The address in use is one a station may have, whatever the record is.   *)
LEMMA UsableMac == ProdTypeOK => MacInUse \in RealMacs \cup {UidMac}
  BY ValidFields DEF ProdTypeOK, Records, MacInUse, OddMacs

(* The same flash gives the same addresses and serial number.              *)
LEMMA SameFlash ==
    ASSUME UNCHANGED flashVars
    PROVE  MacInUse' = MacInUse /\ SerialInUse' = SerialInUse
  BY DEF flashVars, MacInUse, SerialInUse, Valid, FieldMac, FieldSerial

-----------------------------------------------------------------------------
(* The production tool and the power *)

(* Every step of the board keeps its variables in range. *)
LEMMA ProdTypeStep == ProdTypeOK /\ ProdNext => ProdTypeOK'
  <1>. SUFFICES ASSUME ProdTypeOK, ProdNext PROVE ProdTypeOK'
    OBVIOUS
  <1>. USE DEF ProdTypeOK
  <1>1. MacInUse \in RealMacs \cup {UidMac}
    BY UsableMac
  <1>2. CASE ReadForFilter
    BY <1>1, <1>2 DEF ReadForFilter, flashVars, toolVars
  <1>3. CASE ReadForUsb
    BY <1>1, <1>3 DEF ReadForUsb, flashVars, toolVars
  <1>4. CASE PowerCut
    BY <1>4 DEF PowerCut, flashVars, toolVars
  <1>5. CASE PowerOn
    BY <1>5 DEF PowerOn, Restart, flashVars, toolVars
  <1>6. ASSUME NEW mac \in RealMacs \cup {"zero", "group", Absent},
               NEW serial \in Serials \cup {"", Absent}, NEW keep \in BOOLEAN,
               Write(mac, serial, keep)
        PROVE  ProdTypeOK'
    <2>1. rec' \in Records
      <3>1. PICK base \in Base(keep) \cup {[mac |-> Absent, serial |-> ""]} :
                rec' = [mac    |-> IF mac = Absent THEN base.mac ELSE mac,
                        serial |-> IF serial = Absent THEN base.serial ELSE serial]
        BY <1>6 DEF Write
      <3>2. rec'.mac # Absent
        BY <1>6 DEF Write
      <3>3. CASE base \in Base(keep)
        <4>1. base = [mac |-> image.mac, serial |-> image.serial]
          BY <3>3, ValidFields DEF Base
        <4>. QED  BY <3>1, <3>2, <4>1 DEF Records
      <3>4. CASE base = [mac |-> Absent, serial |-> ""]
        BY <3>1, <3>2, <3>4 DEF Records
      <3>. QED  BY <3>1, <3>3, <3>4
    <2>2. /\ power' \in {"down", "halted", "boot", "boot2", "running"}
          /\ filterMac' \in {Absent} \cup RealMacs \cup OddMacs \cup {UidMac, "torn"}
          /\ usbMac' \in {Absent} \cup RealMacs \cup OddMacs \cup {UidMac, "torn"}
      BY <1>6 DEF Write, ReadOverSwd, Restart, mcuVars
    <2>. QED  BY <1>6, <2>1, <2>2 DEF Write, flashVars
  <1>7. ASSUME NEW r \in Records, FlashFile(r) PROVE ProdTypeOK'
    BY <1>7 DEF FlashFile, flashVars, mcuVars
  <1>8. CASE Erase
    <2>1. image' = rec /\ words' = 0 /\ corrupt' = FALSE /\ power' = "halted" /\ tool' = "program"
      BY <1>8 DEF Erase
    <2>2. UNCHANGED <<filterMac, usbMac, rec, check, verdict>>
      BY <1>8 DEF Erase
    <2>3. words' \in 0..5
      BY <2>1
    <2>4. corrupt' \in BOOLEAN
      BY <2>1
    <2>5. image' \in Records
      BY <2>1
    <2>6. filterMac' \in {Absent} \cup RealMacs \cup OddMacs \cup {UidMac, "torn"}
      BY <2>2
    <2>7. usbMac' \in {Absent} \cup RealMacs \cup OddMacs \cup {UidMac, "torn"}
      BY <2>2
    <2>. QED  BY <2>1, <2>2, <2>3, <2>4, <2>5, <2>6, <2>7
  <1>9. CASE Program
    <2>1. words' \in 0..5 /\ tool' = "program"
      BY <1>9 DEF Program, toolVars
    <2>2. corrupt' \in BOOLEAN
      BY <1>9 DEF Program
    <2>. QED  BY <1>9, <2>1, <2>2 DEF Program, mcuVars, toolVars
  <1>10. CASE Finish
    BY <1>10 DEF Finish, Restart, flashVars
  <1>11. CASE Verify
    BY <1>11 DEF Verify, ReadOverSwd, Restart, mcuVars, flashVars
  <1>12. CASE Abort
    BY <1>12 DEF Abort, flashVars, mcuVars
  <1>. QED
    BY <1>2, <1>3, <1>4, <1>5, <1>6, <1>7, <1>8, <1>9, <1>10, <1>11, <1>12
    DEF ProdNext, Tool, Mcu

(* What the firmware has read at start-up is what it would read now.       *)
CachedIsCurrent ==
    /\ power \in {"boot2", "running"} => filterMac = MacInUse
    /\ power = "running" => usbMac = MacInUse

(* A record that has been verified is in the flash.                        *)
VerifiedIsInFlash ==
    verdict = "ok" => tool = "idle" /\ image = rec /\ words = 5 /\ ~corrupt

ProdInv == ProdTypeOK /\ CachedIsCurrent /\ VerifiedIsInFlash

(* The flash changes only under a halted MCU, which reads it anew before it *)
(* runs.                                                                   *)
LEMMA FlashStep ==
    ASSUME ProdNext
    PROVE  \/ UNCHANGED flashVars
           \/ power' = "halted"
  BY DEF ProdNext, Tool, Mcu, ReadForFilter, ReadForUsb, PowerCut, PowerOn, Write,
     FlashFile, Erase, Program, Finish, Verify, Abort, mcuVars

LEMMA CachedStep == ProdInv /\ ProdNext => CachedIsCurrent'
  <1>. SUFFICES ASSUME ProdInv, ProdNext PROVE CachedIsCurrent'
    OBVIOUS
  <1>. USE DEF ProdInv, CachedIsCurrent
  <1>1. CASE power' = "halted"
    BY <1>1
  <1>2. CASE power' # "halted" /\ UNCHANGED flashVars
    <2>1. MacInUse' = MacInUse
      BY <1>2, SameFlash
    <2>2. \/ UNCHANGED mcuVars
          \/ power' \in {"down", "boot"}
          \/ ReadForFilter
          \/ ReadForUsb
      BY <1>2 DEF ProdNext, Tool, Mcu, PowerCut, PowerOn, Restart, Write,
         ReadOverSwd, FlashFile, Erase, Program, Finish, Verify, Abort
    <2>. QED  BY <2>1, <2>2 DEF mcuVars, ReadForFilter, ReadForUsb
  <1>. QED  BY <1>1, <1>2, FlashStep

LEMMA VerifiedStep == ProdInv /\ ProdNext => VerifiedIsInFlash'
  <1>. SUFFICES ASSUME ProdInv, ProdNext PROVE VerifiedIsInFlash'
    OBVIOUS
  <1>. USE DEF ProdInv, VerifiedIsInFlash
  <1>1. CASE Mcu
    BY <1>1 DEF Mcu, ReadForFilter, ReadForUsb, PowerCut, PowerOn, flashVars, toolVars
  <1>2. CASE Verify
    BY <1>2 DEF Verify, flashVars, ProdTypeOK
  <1>3. CASE Erase \/ Program \/ Finish \/ Abort
    BY <1>3 DEF Erase, Program, Finish, Abort, flashVars, toolVars
  <1>4. ASSUME NEW mac \in RealMacs \cup {"zero", "group", Absent},
               NEW serial \in Serials \cup {"", Absent}, NEW keep \in BOOLEAN,
               Write(mac, serial, keep)
        PROVE  VerifiedIsInFlash'
    BY <1>4 DEF Write
  <1>5. ASSUME NEW r \in Records, FlashFile(r) PROVE VerifiedIsInFlash'
    BY <1>5 DEF FlashFile
  <1>. QED
    BY <1>1, <1>2, <1>3, <1>4, <1>5 DEF ProdNext, Tool

-----------------------------------------------------------------------------
(* Endpoint 0 and the session *)

(* A request that the class has answered on the spot. *)
Answered ==
    \/ ECM_GetUsrStrDesc
    \/ ECM_SerialStrDescriptor
    \/ ConfigDescriptor
    \/ DeviceOrStringDescriptor
    \/ GetProdInfo
    \/ GetInterface
    \/ \E r \in ClassRequests : ClassRequest(r)
    \/ UnknownRequest

(* Such a request changes endpoint 0 alone. *)
LEMMA AnsweredStep ==
    ASSUME Answered
    PROVE  /\ power = "running" /\ UNCHANGED <<prodVars, sessionVars, hostVars>>
           /\ \/ ep0' \in {"statusIn", "dataOut", "stalled", "unanswered"} /\ answer' = Nothing
              \/ ep0' = "dataIn" /\ answer' = <<"mac", usbMac>>
              \/ ep0' = "dataIn" /\ answer' = <<"serial", SerialInUse>>
              \/ ep0' = "dataIn" /\ answer' = <<"other", Absent>>
  BY DEF Answered, ECM_GetUsrStrDesc, ECM_SerialStrDescriptor, ConfigDescriptor,
     DeviceOrStringDescriptor, GetProdInfo, GetInterface, ClassRequest,
     UnknownRequest, Request, Setup, Send, Receive, Acknowledge, Ignore, Stall

(* And it keeps a class request, or none, as its stage demands. *)
LEMMA AskedStep ==
    ASSUME ControlTypeOK, Answered
    PROVE  /\ asked' \in ClassRequests \cup {NoRequest}
           /\ ep0' \in {"dataOut", "unanswered"} <=> asked' # NoRequest
  <1>1. ep0 \in {"idle", "stalled"} /\ asked = NoRequest
    BY DEF Answered, ECM_GetUsrStrDesc, ECM_SerialStrDescriptor, ConfigDescriptor,
       DeviceOrStringDescriptor, GetProdInfo, GetInterface, ClassRequest, UnknownRequest,
       Request, Setup, ControlTypeOK
  <1>2. ASSUME NEW r \in ClassRequests, ClassRequest(r)
        PROVE  /\ asked' \in ClassRequests \cup {NoRequest}
               /\ ep0' \in {"dataOut", "unanswered"} <=> asked' # NoRequest
    <2>1. r # NoRequest
      <3>1. r.data \in {"none", "in", "out", "outLong"}
        BY DEF ClassRequests
      <3>2. NoRequest.data = "no request"
        BY DEF NoRequest
      <3>. QED  BY <3>1, <3>2
    <2>2. /\ ep0' \in {"statusIn", "dataOut", "stalled", "unanswered"}
          /\ asked' = IF ep0' \in {"statusIn", "stalled"} THEN NoRequest ELSE r
      BY <1>2 DEF ClassRequest, Receive, Acknowledge, Ignore, Stall
    <2>. QED  BY <2>1, <2>2
  <1>3. CASE ~\E r \in ClassRequests : ClassRequest(r)
    <2>1. UNCHANGED asked /\ ep0' \in {"dataIn", "stalled"}
      BY <1>3 DEF Answered, ECM_GetUsrStrDesc, ECM_SerialStrDescriptor, ConfigDescriptor,
         DeviceOrStringDescriptor, GetProdInfo, GetInterface, UnknownRequest, Setup, Send, Stall
    <2>. QED  BY <1>1, <2>1
  <1>. QED  BY <1>2, <1>3

(* What endpoint 0 is about to tell the host is true, and before the MCU   *)
(* runs the host has been told nothing.                                    *)
AnswerIsTrue ==
    /\ power # "running" => hostSerial = Absent
    /\ ep0 = "dataIn" /\ answer[1] = "mac" => answer[2] = MacInUse
    /\ ep0 = "dataIn" /\ answer[1] = "serial" => answer[2] = SerialInUse

ControlInv == ProdInv /\ ControlTypeOK /\ AnswerIsTrue /\ HostSeesOneIdentity

LEMMA ProdStep == ProdInv /\ [ControlNext]_controlVars => ProdInv'
  <1>. SUFFICES ASSUME ProdInv, [ControlNext]_controlVars PROVE ProdInv'
    OBVIOUS
  <1>1. CASE ProdNext
    BY <1>1, ProdTypeStep, CachedStep, VerifiedStep DEF ProdInv
  <1>2. CASE UNCHANGED prodVars
    <2>1. MacInUse' = MacInUse
      BY <1>2, SameFlash DEF prodVars
    <2>2. ProdTypeOK'
      BY <1>2 DEF prodVars, flashVars, mcuVars, toolVars, ProdInv, ProdTypeOK
    <2>3. CachedIsCurrent' /\ VerifiedIsInFlash'
      BY <1>2, <2>1 DEF prodVars, flashVars, mcuVars, toolVars, ProdInv,
         CachedIsCurrent, VerifiedIsInFlash
    <2>. QED  BY <2>2, <2>3 DEF ProdInv
  <1>3. ProdNext \/ UNCHANGED prodVars
    <2>1. CASE Answered
      BY <2>1, AnsweredStep
    <2>2. CASE ~Answered
      BY <2>2 DEF ControlNext, controlVars, Answered, SetInterface, Request, Setup,
         Continue, DataIn, DataOut, Status, Abandon, Configure, Reset, Board
    <2>. QED  BY <2>1, <2>2
  <1>. QED  BY <1>1, <1>2, <1>3

(* Every step keeps session and endpoint 0 in range. *)
LEMMA ControlTypeStep == ControlInv /\ [ControlNext]_controlVars => ControlTypeOK'
  <1>. SUFFICES ASSUME ControlInv, [ControlNext]_controlVars PROVE ControlTypeOK'
    OBVIOUS
  <1>1. ProdTypeOK'
    BY ProdStep DEF ControlInv, ProdInv
  <1>. USE AltAssumption
       DEF ControlInv, ControlTypeOK, SessionTypeOK, SessionCoherent, Nothing
  <1>2. CASE Answered
    <2>1. /\ ep0' \in {"idle", "dataIn", "dataOut", "statusIn", "statusOut", "stalled",
                        "unanswered"}
          /\ ep0' = "dataIn" <=> answer' # Nothing
      BY <1>2, AnsweredStep
    <2>4. /\ asked' \in ClassRequests \cup {NoRequest}
          /\ ep0' \in {"dataOut", "unanswered"} <=> asked' # NoRequest
      BY <1>2, AskedStep
    <2>2. power' = "running"
      BY <1>2, AnsweredStep DEF prodVars, mcuVars
    <2>3. SessionTypeOK' /\ SessionCoherent'
      BY <1>2, AnsweredStep DEF sessionVars
    <2>. QED  BY <1>1, <2>1, <2>2, <2>3, <2>4
  <1>3. ASSUME NEW alt \in AltSettings, SetInterface(alt) PROVE ControlTypeOK'
    <2>1. /\ ep0' \in {"statusIn", "stalled"} /\ answer' = Nothing
          /\ power' = "running" /\ asked' = NoRequest
      BY <1>3 DEF SetInterface, Request, Setup, Acknowledge, Stall, prodVars, mcuVars
    <2>2. SessionTypeOK'
      BY <1>3 DEF SetInterface, SessionSetInterface, sessionVars
    <2>3. SessionCoherent'
      <3>1. CASE SessionSetInterface(alt)
        <4>1. configured /\ dataAlt' = alt /\ UNCHANGED <<configured, pdev>>
          BY <3>1 DEF SessionSetInterface
        <4>2. ready' <=> alt = 1
          BY <3>1, Zenon DEF SessionSetInterface
        <4>. QED  BY <4>1, <4>2
      <3>2. CASE UNCHANGED sessionVars
        BY <3>2 DEF sessionVars
      <3>. QED  BY <1>3, <3>1, <3>2 DEF SetInterface
    <2>. QED  BY <1>1, <2>1, <2>2, <2>3
  <1>4. CASE Continue
    BY <1>1, <1>4 DEF Continue, DataIn, DataOut, Status, prodVars, mcuVars,
       sessionVars, hostVars
  <1>5. CASE Abandon
    BY <1>1, <1>5 DEF Abandon, prodVars, mcuVars, sessionVars, hostVars
  <1>6. CASE Configure
    <2>1. UNCHANGED <<power, ep0, asked, answer, hostMac>> /\ power = "running"
      BY <1>6 DEF Configure, prodVars, mcuVars, ep0Vars, hostVars
    <2>2. configured' = TRUE /\ pdev' = TRUE /\ dataAlt' = 0 /\ ready' = FALSE
      BY <1>6 DEF Configure, SessionConfigure
    <2>3. SessionTypeOK'
      BY <2>2
    <2>4. SessionCoherent'
      BY <2>2
    <2>. QED  BY <1>1, <2>1, <2>3, <2>4
  <1>7. CASE Reset
    BY <1>1, <1>7 DEF Reset, NewSession, SessionReset, prodVars, mcuVars
  <1>8. CASE Board
    <2>1. CASE power = "running" /\ power' # "running"
      BY <1>1, <1>8, <2>1 DEF Board, NewSession, SessionReset
    <2>2. CASE power # "running" \/ power' = "running"
      BY <1>1, <1>8, <2>2 DEF Board, sessionVars, ep0Vars, hostVars
    <2>. QED  BY <2>1, <2>2
  <1>9. CASE UNCHANGED controlVars
    BY <1>1, <1>9 DEF controlVars, sessionVars, prodVars, mcuVars, ep0Vars, hostVars
  <1>. QED
    BY <1>2, <1>3, <1>4, <1>5, <1>6, <1>7, <1>8, <1>9 DEF ControlNext, Answered

LEMMA HostStep ==
    ControlInv /\ [ControlNext]_controlVars => AnswerIsTrue' /\ HostSeesOneIdentity'
  <1>. SUFFICES ASSUME ControlInv, [ControlNext]_controlVars
                PROVE  AnswerIsTrue' /\ HostSeesOneIdentity'
    OBVIOUS
  <1>. USE DEF ControlInv, AnswerIsTrue, HostSeesOneIdentity, Nothing
  <1>1. CASE UNCHANGED prodVars
    <2>1. power' = power /\ MacInUse' = MacInUse /\ SerialInUse' = SerialInUse
      BY <1>1, SameFlash DEF prodVars, mcuVars
    <2>2. CASE Answered
      <3>1. usbMac = MacInUse
        BY <2>2, AnsweredStep DEF ProdInv, CachedIsCurrent
      <3>. QED  BY <2>1, <2>2, <3>1, AnsweredStep DEF hostVars
    <2>3. ASSUME NEW alt \in AltSettings, SetInterface(alt)
          PROVE  AnswerIsTrue' /\ HostSeesOneIdentity'
      BY <2>1, <2>3 DEF SetInterface, Request, Setup, Acknowledge, Stall, hostVars
    <2>4. CASE Continue
      BY <2>1, <2>4 DEF Continue, DataIn, DataOut, Status, hostVars
    <2>5. CASE Abandon
      BY <2>1, <2>5 DEF Abandon, hostVars
    <2>6. CASE Configure
      BY <2>1, <2>6 DEF Configure, ep0Vars, hostVars
    <2>7. CASE Reset
      BY <2>1, <2>7 DEF Reset, NewSession
    <2>8. CASE Board
      BY <2>1, <2>8 DEF Board, ep0Vars, hostVars
    <2>9. CASE UNCHANGED controlVars
      BY <2>1, <2>9 DEF controlVars, ep0Vars, hostVars
    <2>. QED
      BY <2>2, <2>3, <2>4, <2>5, <2>6, <2>7, <2>8, <2>9 DEF ControlNext, Answered
  <1>2. CASE ~UNCHANGED prodVars
    <2>1. Board
      BY <1>2, AnsweredStep
      DEF ControlNext, controlVars, Answered, SetInterface, Request, Setup, Continue,
          DataIn, DataOut, Status, Abandon, Configure, Reset
    <2>2. CASE power = "running" /\ power' # "running"
      BY <2>1, <2>2 DEF Board, NewSession
    <2>3. CASE power = "running" /\ power' = "running"
      <3>1. UNCHANGED flashVars
        BY <2>1, <2>3, FlashStep DEF Board
      <3>. QED  BY <2>1, <2>3, <3>1, SameFlash DEF Board, ep0Vars, hostVars
    <2>4. CASE power # "running"
      BY <2>1, <2>4 DEF Board, ep0Vars, hostVars, ControlTypeOK
    <2>. QED  BY <2>2, <2>3, <2>4
  <1>. QED  BY <1>1, <1>2

LEMMA ControlInvariance == ControlSpec => []ControlInv
  <1>1. ControlInit => ControlInv
    <2>0. 0 \in 0..5
      OBVIOUS
    <2>. SUFFICES ASSUME ControlInit PROVE ControlInv
      OBVIOUS
    <2>. USE DEF ControlInit, SessionInit, ProdInit
    <2>1. ProdTypeOK
      <3>1. image \in Records /\ rec \in Records
        BY DEF Records
      <3>2. words \in 0..5
        BY <2>0
      <3>. QED  BY <3>1, <3>2 DEF ProdTypeOK
    <2>2. ControlTypeOK
      BY <2>1, AltAssumption DEF ControlTypeOK, SessionTypeOK, SessionCoherent, Nothing
    <2>3. ProdInv
      BY <2>1 DEF ProdInv, CachedIsCurrent, VerifiedIsInFlash
    <2>. QED
      BY <2>2, <2>3 DEF ControlInv, AnswerIsTrue, HostSeesOneIdentity
  <1>2. ControlInv /\ [ControlNext]_controlVars => ControlInv'
    BY ProdStep, ControlTypeStep, HostStep DEF ControlInv
  <1>. QED  BY <1>1, <1>2, PTL DEF ControlSpec

-----------------------------------------------------------------------------
(* The safety properties *)

(* Types of both components, and that there is no session, no request and  *)
(* nothing the host has been told unless the firmware runs.                *)
THEOREM ControlTypeCorrect == ControlSpec => []ControlTypeOK
  <1>1. ControlInv => ControlTypeOK
    BY DEF ControlInv
  <1>. QED  BY <1>1, ControlInvariance, PTL

(* bsp_get_mac_address, called once for the filter and once for the host,  *)
(* gives both the same unicast address, wherever the power was cut and     *)
(* whatever the tool has left half programmed in the sector.               *)
THEOREM MacIsUsable == ControlSpec => []RealMac
  <1>1. ControlInv => RealMac
    BY UsableMac DEF ControlInv, ProdInv, CachedIsCurrent, RealMac
  <1>. QED  BY <1>1, ControlInvariance, PTL

(* "verify OK" of prodinfo.py is about the record that the firmware then   *)
(* uses: no restart, power cut or later command comes between them.        *)
THEOREM VerifiedMeansUsed == ControlSpec => []VerifiedIsUsed
  <1>1. ControlInv => VerifiedIsUsed
    <2>. SUFFICES ASSUME ControlInv, verdict = "ok", power = "running"
                  PROVE  usbMac = (IF rec.mac \in OddMacs THEN UidMac ELSE rec.mac)
      BY DEF VerifiedIsUsed
    <2>1. usbMac = MacInUse /\ image = rec /\ Valid
      BY DEF ControlInv, ProdInv, CachedIsCurrent, VerifiedIsInFlash, Valid
    <2>. QED  BY <2>1, ValidFields DEF MacInUse
  <1>. QED  BY <1>1, ControlInvariance, PTL

(* The MAC address string, cached in s_mac at start-up, and the serial     *)
(* number string, read from the flash on each request, never tell the host *)
(* of two different records.                                               *)
THEOREM OneIdentity == ControlSpec => []HostSeesOneIdentity
  <1>1. ControlInv => HostSeesOneIdentity
    BY DEF ControlInv
  <1>. QED  BY <1>1, ControlInvariance, PTL
=============================================================================
