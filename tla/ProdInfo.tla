------------------------------ MODULE ProdInfo ------------------------------
(***************************************************************************)
(* The production record: a flash sector with a MAC address, a serial      *)
(* number and a CRC, written by tools/prodinfo.py over SWD while the MCU   *)
(* is halted, and read by the firmware, which falls back to its unique ID. *)
(* The power may be cut and the tool aborted at any time, so that the      *)
(* sector may hold a record half programmed.                               *)
(*                                                                         *)
(* The record is five words here: header, the first four bytes of the MAC, *)
(* the rest of it, the serial number, the CRC.  A word that is not         *)
(* programmed reads as 0xFF; a CRC over anything but the intended fields   *)
(* is wrong.                                                               *)
(***************************************************************************)
EXTENDS Naturals

CONSTANTS
    RealMacs,    \* unicast MAC addresses, as a production line gives them
    Serials      \* serial numbers

\* Other values of the fields: the MAC and serial number made from the
\* unique ID, addresses that no station can have, and half a MAC.
UidMac    == "uid"
UidSerial == "uid"
OddMacs   == {"zero", "group", "blank"}
Absent    == "absent"
ASSUME FieldAssumption ==
    /\ RealMacs \cap ({UidMac, "torn", Absent} \cup OddMacs) = {}
    /\ Serials \cap {UidSerial, "", "blank", Absent} = {}

\* What the tool builds or flashes: parse_mac accepts the zero address, and
\* a file may hold any.
Records == [mac : RealMacs \cup {"zero", "group"}, serial : Serials \cup {""}]

VARIABLES
    image,       \* the record that the sector holds, as far as programmed
    words,       \* how much of it is
    corrupt,     \* a word has not been programmed right
    power,       \* the MCU: "down", "halted", "boot", "boot2" or "running"
    filterMac,   \* s_own_mac of net_bridge.c, which goes into the ADIN2111
    usbMac,      \* s_mac of usbd_ecm.c, which the host is told
    tool,        \* what prodinfo.py does next
    rec,         \* the record it has built
    check,       \* it will read the record back
    verdict      \* "ok" after "verify OK"

flashVars == <<image, words, corrupt>>
mcuVars   == <<power, filterMac, usbMac>>
toolVars  == <<tool, rec, check, verdict>>
prodVars  == <<flashVars, mcuVars, toolVars>>

ProdTypeOK ==
    /\ image \in Records
    /\ words \in 0..5
    /\ corrupt \in BOOLEAN
    /\ power \in {"down", "halted", "boot", "boot2", "running"}
    /\ filterMac \in {Absent} \cup RealMacs \cup OddMacs \cup {UidMac, "torn"}
    /\ usbMac \in {Absent} \cup RealMacs \cup OddMacs \cup {UidMac, "torn"}
    /\ tool \in {"idle", "erase", "program", "verify"}
    /\ rec \in Records
    /\ check \in BOOLEAN
    /\ verdict \in {"none", "ok"}
    /\ tool = "verify" => words = 5

-----------------------------------------------------------------------------
(* The firmware *)

FieldMac    == CASE words < 2 -> "blank" [] words = 2 -> "torn" [] OTHER -> image.mac
FieldSerial == IF words < 4 THEN "blank" ELSE image.serial

(* Wrong variant of the next definition: magic, version and size only.     *)
HeaderValid == words >= 1

(* prodinfo_valid *)
Valid == words = 5 /\ ~corrupt

(* bsp_get_mac_address *)
MacInUse == IF Valid /\ FieldMac \notin OddMacs THEN FieldMac ELSE UidMac

(* ECM_SerialStrDescriptor, which looks each time it is asked.             *)
SerialInUse == IF Valid /\ FieldSerial \notin {"", "blank"} THEN FieldSerial ELSE UidSerial

Restart == power' = "boot" /\ filterMac' = Absent /\ usbMac' = Absent

(* net_bridge_init for the filter, then usb_device_init for the host.      *)
ReadForFilter ==
    /\ power = "boot"
    /\ power' = "boot2"
    /\ filterMac' = MacInUse
    /\ UNCHANGED <<usbMac, flashVars, toolVars>>

ReadForUsb ==
    /\ power = "boot2"
    /\ power' = "running"
    /\ usbMac' = MacInUse
    /\ UNCHANGED <<filterMac, flashVars, toolVars>>

PowerCut ==
    /\ power' = "down"
    /\ filterMac' = Absent
    /\ usbMac' = Absent
    /\ UNCHANGED <<flashVars, toolVars>>

PowerOn ==
    /\ power = "down"
    /\ Restart
    /\ UNCHANGED <<flashVars, toolVars>>

-----------------------------------------------------------------------------
(* prodinfo.py.  With st-flash a read leaves the MCU alone, with OpenOCD it *)
(* resets it.                                                               *)

ReadOverSwd ==
    /\ power # "down"
    /\ Restart \/ UNCHANGED mcuVars

(* Wrong variant of the next definition: any record is taken as the base.  *)
BaseUnchecked(keep) == IF keep THEN {[mac |-> FieldMac, serial |-> FieldSerial]} ELSE {}

(* record_valid: what --keep inherits from, nothing if the record is bad.  *)
(* It does not look at the size, as the firmware does, but no record with  *)
(* a good CRC has another size: one Valid serves both.                     *)
Base(keep) == IF keep /\ Valid THEN {[mac |-> FieldMac, serial |-> FieldSerial]} ELSE {}

(* cmd_write: resolve_fields and build_record.  A group address and a MAC  *)
(* that is neither given nor kept end the tool; so does --dry-run.         *)
Write(mac, serial, keep) ==
    /\ tool = "idle"
    /\ IF keep THEN ReadOverSwd ELSE UNCHANGED mcuVars
    /\ \E base \in Base(keep) \cup {[mac |-> Absent, serial |-> ""]} :
        /\ base.mac = Absent => Base(keep) = {}
        /\ rec' = [mac    |-> IF mac = Absent THEN base.mac ELSE mac,
                   serial |-> IF serial = Absent THEN base.serial ELSE serial]
    /\ rec'.mac \notin {Absent, "group", "blank"}
    /\ check' \in BOOLEAN
    /\ tool' = "erase"
    /\ verdict' = "none"
    /\ UNCHANGED flashVars

(* cmd_flash: a file. *)
FlashFile(r) ==
    /\ tool = "idle"
    /\ rec' = r
    /\ check' = FALSE
    /\ tool' = "erase"
    /\ verdict' = "none"
    /\ UNCHANGED <<flashVars, mcuVars>>

(* st-flash write, OpenOCD program: halt and erase, then word by word.  A  *)
(* sector that is erased in part is taken as erased: neither is a record.  *)
Erase ==
    /\ tool = "erase"
    /\ power # "down"
    /\ power' = "halted"
    /\ image' = rec
    /\ words' = 0
    /\ corrupt' = FALSE
    /\ tool' = "program"
    /\ UNCHANGED <<filterMac, usbMac, rec, check, verdict>>

Program ==
    /\ tool = "program"
    /\ power = "halted"
    /\ words < 5
    /\ words' = words + 1
    /\ corrupt' \in {corrupt, TRUE}
    /\ UNCHANGED <<image, mcuVars, toolVars>>

(* Wrong variant of the next definition: the MCU goes on where it was.     *)
Resume ==
    /\ tool = "program"
    /\ power = "halted"
    /\ words = 5
    /\ power' = IF usbMac = Absent THEN "boot" ELSE "running"
    /\ tool' = IF check THEN "verify" ELSE "idle"
    /\ UNCHANGED <<filterMac, usbMac, flashVars, rec, check, verdict>>

(* --reset, or "reset" of OpenOCD; then the tool reads back, or is done.   *)
Finish ==
    /\ tool = "program"
    /\ power = "halted"
    /\ words = 5
    /\ Restart
    /\ tool' = IF check THEN "verify" ELSE "idle"
    /\ UNCHANGED <<flashVars, rec, check, verdict>>

(* Wrong variant of the next definition: the contents are not compared.    *)
ReadBackOnly ==
    /\ tool = "verify"
    /\ ReadOverSwd
    /\ tool' = "idle"
    /\ verdict' = "ok"
    /\ UNCHANGED <<flashVars, rec, check>>

(* Read back and compare: "verify OK" or "VERIFY FAILED". *)
Verify ==
    /\ tool = "verify"
    /\ ReadOverSwd
    /\ tool' = "idle"
    /\ verdict' = IF image = rec /\ ~corrupt THEN "ok" ELSE "none"
    /\ UNCHANGED <<flashVars, rec, check>>

(* A command fails or is interrupted.  A halted MCU stays halted, until it *)
(* loses its power.                                                        *)
Abort ==
    /\ tool # "idle"
    /\ tool' = "idle"
    /\ UNCHANGED <<flashVars, mcuVars, rec, check, verdict>>

Tool ==
    \/ \E mac \in RealMacs \cup {"zero", "group", Absent},
          serial \in Serials \cup {"", Absent}, keep \in BOOLEAN : Write(mac, serial, keep)
    \/ \E r \in Records : FlashFile(r)
    \/ Erase
    \/ Program
    \/ Finish
    \/ Verify
    \/ Abort

Mcu == ReadForFilter \/ ReadForUsb \/ PowerCut \/ PowerOn

ProdInit ==
    /\ image = [mac |-> "zero", serial |-> ""]
    /\ words = 0
    /\ corrupt = FALSE
    /\ power = "down"
    /\ filterMac = Absent
    /\ usbMac = Absent
    /\ tool = "idle"
    /\ rec = [mac |-> "zero", serial |-> ""]
    /\ check = FALSE
    /\ verdict = "none"

ProdNext == Tool \/ Mcu
-----------------------------------------------------------------------------
(* Properties, checked where the host is (module Control)                  *)

(* The bridge has a MAC address that a station may have, whatever the      *)
(* power and the tool did to the record, and the host is told the address  *)
(* that the ADIN2111 filters for.                                          *)
RealMac ==
    power = "running" => usbMac \in RealMacs \cup {UidMac} /\ filterMac = usbMac

(* After "verify OK" the bridge, once it runs, has the MAC it was given;   *)
(* the zero address, which the tool accepts, counts as none.               *)
VerifiedIsUsed ==
    verdict = "ok" /\ power = "running" =>
        usbMac = (IF rec.mac \in OddMacs THEN UidMac ELSE rec.mac)
=============================================================================
