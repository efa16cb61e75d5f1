----------------------------- MODULE EcmSession -----------------------------
(***************************************************************************)
(* The control plane of the CDC-ECM class (usbd_ecm.c): what enumeration,  *)
(* SET_CONFIGURATION, SET_INTERFACE and a bus reset do to the class's      *)
(* globals.  The data plane modules (Downlink, UsbIn, LinkNotify) EXTEND   *)
(* this one and conjoin these steps with their own part of the handlers:   *)
(* all of them run in the USB interrupt, so one handler is one step.       *)
(*                                                                         *)
(* The USB device core is not in the repository (scripts/get_deps.sh       *)
(* fetches STM32CubeF4 v1.28.0); its behaviour is modelled from the        *)
(* callbacks it makes: Init on SET_CONFIGURATION, DeInit on a bus reset    *)
(* or SET_CONFIGURATION(0), Setup on SET_INTERFACE.                        *)
(***************************************************************************)
EXTENDS Naturals

CONSTANT AltSettings   \* alternate settings a host may select

\* The class treats setting 1 as active and every other value as idle.
ASSUME AltAssumption == AltSettings \subseteq Nat /\ {0, 1} \subseteq AltSettings

VARIABLES
    configured,   \* pdev->dev_state = USBD_STATE_CONFIGURED
    pdev,         \* s_pdev # NULL
    dataAlt,      \* s_data_alt
    ready         \* s_ready

sessionVars == <<configured, pdev, dataAlt, ready>>

SessionTypeOK ==
    /\ configured \in BOOLEAN
    /\ pdev \in BOOLEAN
    /\ dataAlt \in AltSettings
    /\ ready \in BOOLEAN

SessionInit ==
    /\ configured = FALSE
    /\ pdev = FALSE
    /\ dataAlt = 0
    /\ ready = FALSE

(* SET_CONFIGURATION(1) from the addressed state: the core calls ECM_Init. *)
SessionConfigure ==
    /\ ~configured
    /\ configured' = TRUE
    /\ pdev' = TRUE
    /\ dataAlt' = 0
    /\ ready' = FALSE

(* A bus reset, or SET_CONFIGURATION(0): the core calls ECM_DeInit, which  *)
(* leaves s_data_alt as it was.  A reset may find the class closed.        *)
SessionReset ==
    /\ configured' = FALSE
    /\ pdev' = FALSE
    /\ ready' = FALSE
    /\ UNCHANGED dataAlt

(* SET_INTERFACE on the data interface.  Selecting the current setting     *)
(* again is ignored; so is any request outside the configured state.       *)
SessionSetInterface(alt) ==
    /\ configured
    /\ alt # dataAlt
    /\ dataAlt' = alt
    /\ ready' = (alt = 1)
    /\ UNCHANGED <<configured, pdev>>

(* The data endpoints are open exactly while the configured device has its *)
(* active setting selected (ECM_Init, ECM_DeInit, ECM_Setup).              *)
SessionCoherent ==
    /\ pdev <=> configured
    /\ ready <=> configured /\ dataAlt = 1
=============================================================================
