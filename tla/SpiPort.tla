------------------------------- MODULE SpiPort -------------------------------
(***************************************************************************)
(* Access to the ADIN2111 over SPI.  A task takes s_adin_lock, makes any   *)
(* number of accesses, each bracketed by the chip select, and gives it     *)
(* back.  Register accesses are polled; frame bursts go by DMA, and their  *)
(* task sleeps on s_spi_done until the completion or the error interrupt,  *)
(* or for 100 ms.  The interrupts come between any two statements.         *)
(*                                                                         *)
(* The other modules take an access as a step that succeeds or fails; this *)
(* module shows what entitles them to.  The HAL is modelled from how the   *)
(* port uses it: it refuses a transfer unless it is ready.                 *)
(*                                                                         *)
(* A definition introduced as a wrong variant is no part of Next: it shows *)
(* which mistake in the code a property would catch.                       *)
(***************************************************************************)
EXTENDS Naturals

CONSTANTS
    Tasks,       \* net_rx_task, net_tx_task, link_task
    NoTask       \* nobody

ASSUME TasksAssumption == NoTask \notin Tasks

VARIABLES
    lock,        \* the holder of s_adin_lock
    pc,          \* pc[t]: where task t is
    select,      \* the task that has asserted the chip select
    spiDone,     \* s_spi_done
    spiError,    \* s_spi_error
    dma,         \* the task whose burst the DMA streams move
    halReady,    \* hspi_adin.State = HAL_SPI_STATE_READY
    whole,       \* history: all bytes of the last access have moved
    result       \* what spi_xfer returned for it, "none" until it has

busVars == <<select, dma, halReady, whole>>
sigVars == <<spiDone, spiError>>
vars    == <<lock, pc, result, busVars, sigVars>>

Goto(t, place) == pc' = [pc EXCEPT ![t] = place]
At(t, place)   == pc[t] = place

Init ==
    /\ lock = NoTask
    /\ pc = [t \in Tasks |-> "idle"]
    /\ select = NoTask
    /\ spiDone = FALSE
    /\ spiError = FALSE
    /\ dma = NoTask
    /\ halReady = TRUE
    /\ whole = FALSE
    /\ result = "none"

-----------------------------------------------------------------------------
(* The lock and the chip select *)

(* Wrong variant of the next definition: a wait for the lock that times    *)
(* out, its result ignored as that of the real one is.                     *)
LockOrTimeOut(t) ==
    /\ At(t, "idle")
    /\ lock' = t
    /\ Goto(t, "locked")
    /\ UNCHANGED <<result, busVars, sigVars>>

(* ADIN_LOCK(), which waits for ever *)
Lock(t) ==
    /\ At(t, "idle")
    /\ lock = NoTask
    /\ lock' = t
    /\ Goto(t, "locked")
    /\ UNCHANGED <<result, busVars, sigVars>>

Unlock(t) ==
    /\ At(t, "locked")
    /\ lock' = NoTask
    /\ Goto(t, "idle")
    /\ UNCHANGED <<result, busVars, sigVars>>

(* cs_assert, and the choice of port_spi_xfer by the transfer's length.    *)
Select(t) ==
    /\ At(t, "locked")
    /\ select' = t
    /\ result' = "none"
    /\ Goto(t, "clear") \/ Goto(t, "poll")
    /\ UNCHANGED <<lock, dma, halReady, whole, sigVars>>

(* spi_xfer has returned: cs_deassert. *)
Deselect(t) ==
    /\ At(t, "return")
    /\ select' = NoTask
    /\ Goto(t, "locked")
    /\ UNCHANGED <<lock, result, dma, halReady, whole, sigVars>>

Return(t, outcome) == Goto(t, "return") /\ result' = outcome

-----------------------------------------------------------------------------
(* port_spi_xfer_blocking *)

PollStart(t) ==
    /\ At(t, "poll")
    /\ whole' = FALSE
    /\ halReady' = FALSE
    /\ IF halReady THEN Goto(t, "polling") /\ UNCHANGED result
                   ELSE Return(t, "error")
    /\ UNCHANGED <<lock, select, dma, sigVars>>

(* All bytes are through, or the HAL gives up, after 100 ms at the latest. *)
PollEnd(t) ==
    /\ At(t, "polling")
    /\ halReady' = TRUE
    /\ \/ whole' = TRUE /\ Return(t, "ok")
       \/ UNCHANGED whole /\ Return(t, "error")
    /\ UNCHANGED <<lock, select, dma, sigVars>>

-----------------------------------------------------------------------------
(* port_spi_xfer_dma *)

ClearError(t) ==
    /\ At(t, "clear")
    /\ spiError' = FALSE
    /\ Goto(t, "drop")
    /\ UNCHANGED <<lock, result, busVars, spiDone>>

(* Wrong variant of the next definition: an old signal stays.              *)
KeepSignal(t) == At(t, "drop") /\ Goto(t, "start") /\ UNCHANGED <<lock, result, busVars, sigVars>>

(* xSemaphoreTake(s_spi_done, 0): "drop any stale signal".                 *)
DropSignal(t) ==
    /\ At(t, "drop")
    /\ spiDone' = FALSE
    /\ Goto(t, "start")
    /\ UNCHANGED <<lock, result, busVars, spiError>>

DmaStart(t) ==
    /\ At(t, "start")
    /\ halReady
    /\ halReady' = FALSE
    /\ dma' = t
    /\ whole' = FALSE
    /\ Goto(t, "wait")
    /\ UNCHANGED <<lock, result, select, sigVars>>

(* HAL_BUSY, or the DMA streams cannot be started. *)
StartFails(t) ==
    /\ At(t, "start")
    /\ Return(t, "error")
    /\ UNCHANGED <<lock, busVars, sigVars>>

WaitDone(t) ==
    /\ At(t, "wait")
    /\ spiDone
    /\ spiDone' = FALSE
    /\ Goto(t, "check")
    /\ UNCHANGED <<lock, result, busVars, spiError>>

(* Wrong variant of the next definition: portMAX_DELAY.                    *)
WaitForever(t) == FALSE /\ UNCHANGED vars

(* 100 ms are over.  The interrupt may still come before the abort.        *)
WaitTimesOut(t) ==
    /\ At(t, "wait")
    /\ ~spiDone
    /\ Goto(t, "abort")
    /\ UNCHANGED <<lock, result, busVars, sigVars>>

(* Wrong variant of the next definition: only the streams are stopped.     *)
StopStreams(t) ==
    /\ At(t, "abort")
    /\ dma' = NoTask
    /\ Return(t, "error")
    /\ UNCHANGED <<lock, select, halReady, whole, sigVars>>

(* HAL_SPI_Abort: no bytes and no interrupt of this burst any more.        *)
Abort(t) ==
    /\ At(t, "abort")
    /\ dma' = NoTask
    /\ halReady' = TRUE
    /\ Return(t, "error")
    /\ UNCHANGED <<lock, select, whole, sigVars>>

(* s_spi_error, then the wait for the shift register.                      *)
Check(t) ==
    /\ At(t, "check")
    /\ Return(t, IF spiError THEN "error" ELSE "ok")
    /\ UNCHANGED <<lock, busVars, sigVars>>

-----------------------------------------------------------------------------
(* DMA and SPI interrupts *)

(* HAL_SPI_TxRxCpltCallback *)
Complete ==
    /\ dma # NoTask
    /\ dma' = NoTask
    /\ halReady' = TRUE
    /\ whole' = TRUE
    /\ spiDone' = TRUE
    /\ UNCHANGED <<lock, pc, result, select, spiError>>

(* Wrong variant of the next definition: only the signal.                  *)
ErrorUnmarked ==
    /\ dma # NoTask
    /\ dma' = NoTask
    /\ halReady' = TRUE
    /\ spiDone' = TRUE
    /\ UNCHANGED <<lock, pc, result, select, whole, spiError>>

(* HAL_SPI_ErrorCallback: the HAL has ended the transfer.                  *)
Error ==
    /\ dma # NoTask
    /\ dma' = NoTask
    /\ halReady' = TRUE
    /\ spiError' = TRUE
    /\ spiDone' = TRUE
    /\ UNCHANGED <<lock, pc, result, select, whole>>

Transfer(t) ==
    \/ PollStart(t)
    \/ PollEnd(t)
    \/ ClearError(t)
    \/ DropSignal(t)
    \/ DmaStart(t)
    \/ StartFails(t)
    \/ WaitDone(t)
    \/ WaitTimesOut(t)
    \/ Abort(t)
    \/ Check(t)
    \/ Deselect(t)

Next ==
    \/ \E t \in Tasks : Lock(t) \/ Unlock(t) \/ Select(t) \/ Transfer(t)
    \/ Complete
    \/ Error

Spec == Init /\ [][Next]_vars

(* A task that holds the lock gets to run (the mutex lends it priority),   *)
(* and the 100 ms pass.  Nothing is assumed of the DMA.                    *)
FairSpec == Spec /\ \A t \in Tasks : WF_vars(Transfer(t))
-----------------------------------------------------------------------------
(* Properties *)

InTransfer == {"poll", "polling", "clear", "drop", "start", "wait", "abort", "check"}

(* Variables in range; the task that holds the lock is the only one that   *)
(* is not idle, and the chip select is low exactly during its accesses.    *)
TypeOK ==
    /\ lock \in Tasks \cup {NoTask}
    /\ pc \in [Tasks -> {"idle", "locked", "return"} \cup InTransfer]
    /\ select \in Tasks \cup {NoTask}
    /\ spiDone \in BOOLEAN
    /\ spiError \in BOOLEAN
    /\ dma \in Tasks \cup {NoTask}
    /\ halReady \in BOOLEAN
    /\ whole \in BOOLEAN
    /\ result \in {"none", "ok", "error"}
    /\ \A t \in Tasks : At(t, "idle") = (lock # t)
    /\ \A t \in Tasks : (pc[t] \notin {"idle", "locked"}) = (select = t)

(* The DMA moves bytes only while the task it works for waits in           *)
(* port_spi_xfer_dma with the chip selected: never into a buffer that has  *)
(* been given back, and never across the frames of two accesses.           *)
DmaIsBracketed ==
    dma # NoTask => select = dma /\ pc[dma] \in {"wait", "abort"}

(* "HAL_SPI_Abort so the SPI state returns to READY and the next transfer  *)
(* is not rejected as BUSY": no transfer ever is, polled or by DMA.        *)
NeverBusy ==
    \A t \in Tasks : pc[t] \in {"locked", "poll", "start"} => halReady

(* The signal that ends a wait is that of the burst waited for, not of an  *)
(* earlier one whose interrupt came after its time was over.               *)
SignalIsOfThisBurst ==
    \A t \in Tasks : At(t, "check") => dma = NoTask /\ spiError = ~whole

ResultIsTrue == result = "ok" => whole

(* An access reported as good has moved all its bytes, and s_spi_error says*)
(* of this burst, not of one that was aborted, whether it is whole.        *)
OkIsWhole == ResultIsTrue /\ SignalIsOfThisBurst

(* Every access ends, whether or not the DMA ever signals anything.        *)
AccessEnds == \A t \in Tasks : pc[t] \in InTransfer ~> At(t, "locked")
=============================================================================
