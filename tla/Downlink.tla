------------------------------ MODULE Downlink ------------------------------
(***************************************************************************)
(* Host -> single-pair Ethernet.  Buffers of s_tx_pool circulate between   *)
(* the USB interrupt, which owns s_out_frame and keeps the bulk OUT        *)
(* endpoint armed with it, the queue s_to_adin_q, and net_tx_task, which   *)
(* writes each frame into the ADIN2111 and returns its buffer.             *)
(*                                                                         *)
(* A frame is the number of the host's transmission; data[f] says which    *)
(* frame's bytes buffer f holds whole, or Torn while the endpoint is       *)
(* writing it.  The interrupt handlers (DataOut, SetInterface, ...) are    *)
(* one step each; net_tx_task can be interrupted between any two of its    *)
(* queue, pool and locked SPI operations.                                  *)
(*                                                                         *)
(* A definition introduced as a wrong variant is no part of Next: it shows *)
(* which mistake in the code a property would catch.                       *)
(***************************************************************************)
EXTENDS EcmSession, Sequences, FiniteSets

CONSTANTS
    Frames,       \* the buffers of s_tx_storage
    NoFrame,      \* the NULL buffer pointer
    Attempts,     \* tries per port while the TX FIFO is full
    SwitchMode    \* s_adin.mode = ADIN2111_MODE_SWITCH

ASSUME FramesAssumption ==
    /\ IsFiniteSet(Frames)
    /\ Frames # {}
    /\ NoFrame \notin Frames
    /\ Attempts \in Nat \ {0}
    /\ SwitchMode \in BOOLEAN

VARIABLES
    free,       \* s_tx_pool.free_q, as a set: buffers are interchangeable
    outFrame,   \* s_out_frame
    armed,      \* the buffer the bulk OUT endpoint writes into, or NoFrame
    data,       \* data[f]: the frame buffer f holds, or Torn
    toAdin,     \* s_to_adin_q
    txPc,       \* where net_tx_task is
    txFrame,    \* net_tx_task's f
    txPorts,    \* egress ports still to serve; the head is being served
    attempt,    \* tx_frame_port's loop counter
    sent,       \* frames the host has sent over the bulk OUT endpoint
    wire        \* wire[p]: frames that entered port p's TX FIFO, in order

poolVars == <<free, outFrame, armed, data, toAdin>>
txVars   == <<txPc, txFrame, txPorts, attempt>>
vars     == <<sessionVars, poolVars, txVars, sent, wire>>

Torn  == 0                      \* no whole frame in the buffer
Ports == {1, 2}
PoolSize == Cardinality(Frames) \* NET_TX_POOL_COUNT
QueueLength == PoolSize         \* what s_to_adin_q is created with
Routes   == IF SwitchMode THEN {<<1>>, <<2>>, <<1, 2>>} ELSE {<<1>>}

Init ==
    /\ SessionInit
    /\ free = Frames
    /\ outFrame = NoFrame
    /\ armed = NoFrame
    /\ data = [f \in Frames |-> Torn]
    /\ toAdin = << >>
    /\ txPc = "receive"
    /\ txFrame = NoFrame
    /\ txPorts = << >>
    /\ attempt = 0
    /\ sent = 0
    /\ wire = [p \in Ports |-> << >>]

-----------------------------------------------------------------------------
(* USB interrupt: endpoint management *)

(* ecm_open_data_eps: arm a first reception if the pool has a buffer. *)
OpenDataEndpoints ==
    \/ /\ free = {}
       /\ outFrame' = NoFrame
       /\ UNCHANGED <<free, armed>>
    \/ \E f \in free :
          /\ free' = free \ {f}
          /\ outFrame' = f
          /\ armed' = f

(* Wrong variants of the next definition. *)
CloseKeepsOutFrame ==
    /\ armed' = NoFrame
    /\ UNCHANGED outFrame
    /\ free' = free \cup ({outFrame} \ {NoFrame})
CloseLeaks ==
    /\ armed' = NoFrame
    /\ outFrame' = NoFrame
    /\ UNCHANGED free

(* ecm_close_data_eps: close the endpoint, then recycle the armed buffer. *)
CloseDataEndpoints ==
    /\ armed' = NoFrame
    /\ outFrame' = NoFrame
    /\ free' = free \cup ({outFrame} \ {NoFrame})

Configure ==
    /\ SessionConfigure
    /\ UNCHANGED <<poolVars, txVars, sent, wire>>

SetInterface(alt) ==
    /\ SessionSetInterface(alt)
    /\ IF alt = 1 THEN OpenDataEndpoints ELSE CloseDataEndpoints
    /\ UNCHANGED <<data, toAdin, txVars, sent, wire>>

Reset ==
    /\ SessionReset
    /\ CloseDataEndpoints
    /\ UNCHANGED <<data, toAdin, txVars, sent, wire>>

-----------------------------------------------------------------------------
(* USB interrupt: bulk OUT *)

(* The endpoint stores a packet that does not end the transfer. *)
OutPacket ==
    /\ armed # NoFrame
    /\ data' = [data EXCEPT ![armed] = Torn]
    /\ UNCHANGED <<sessionVars, free, outFrame, armed, toAdin, txVars, sent, wire>>

(* Wrong variant of the next definition: returns without re-arming. *)
DataOutEmptyUnarmed ==
    /\ armed # NoFrame
    /\ outFrame # NoFrame
    /\ armed' = NoFrame
    /\ UNCHANGED <<sessionVars, free, outFrame, data, toAdin, txVars, sent, wire>>

(* ECM_DataOut for a transfer that carried nothing: the same buffer again. *)
DataOutEmpty ==
    /\ armed # NoFrame
    /\ outFrame # NoFrame
    /\ armed' = outFrame
    /\ UNCHANGED <<sessionVars, free, outFrame, data, toAdin, txVars, sent, wire>>

(* Wrong variant of the next definition: queues at the front. *)
SubmitInFront(f, pool) ==
    IF Len(toAdin) < QueueLength
    THEN toAdin' = <<f>> \o toAdin /\ free' = pool
    ELSE free' = pool \cup {f} /\ UNCHANGED toAdin

(* net_bridge_downlink_submit_isr: a full queue gives the buffer back. *)
Submit(f, pool) ==
    IF Len(toAdin) < QueueLength
    THEN toAdin' = Append(toAdin, f) /\ free' = pool
    ELSE free' = pool \cup {f} /\ UNCHANGED toAdin

(* ECM_DataOut for the host's next frame.  With no replacement buffer the  *)
(* frame is dropped; otherwise it is queued and the replacement armed.     *)
DataOut ==
    /\ armed # NoFrame
    /\ outFrame # NoFrame
    /\ sent' = sent + 1
    /\ data' = [data EXCEPT ![armed] = sent + 1]
    /\ \/ /\ free = {}
          /\ armed' = outFrame
          /\ UNCHANGED <<free, outFrame, toAdin>>
       \/ \E next \in free :
             /\ Submit(outFrame, free \ {next})
             /\ outFrame' = next
             /\ armed' = next
    /\ UNCHANGED <<sessionVars, txVars, wire>>

-----------------------------------------------------------------------------
(* net_tx_task *)

(* xQueueReceive returns a buffer. *)
TxReceive ==
    /\ txPc = "receive"
    /\ toAdin # << >>
    /\ txFrame' = Head(toAdin)
    /\ toAdin' = Tail(toAdin)
    /\ txPc' = "route"
    /\ UNCHANGED <<sessionVars, free, outFrame, armed, data, txPorts, attempt, sent, wire>>

(* The egress decision: flood both ports, or the learned one, under the    *)
(* lock.  What the forwarding table answers is ForwardingTable's concern.  *)
TxRoute ==
    /\ txPc = "route"
    /\ txPorts' \in Routes
    /\ attempt' = 0
    /\ txPc' = "write"
    /\ UNCHANGED <<sessionVars, poolVars, txFrame, sent, wire>>

(* Wrong variant of the next definition: one attempt counter for all ports. *)
PortDoneKeepsAttempt ==
    /\ txPorts' = Tail(txPorts)
    /\ UNCHANGED attempt
    /\ txPc' = IF Len(txPorts) = 1 THEN "free" ELSE "write"

(* tx_frame_port returns, and the task goes on to the next port. *)
PortDone ==
    /\ txPorts' = Tail(txPorts)
    /\ attempt' = 0
    /\ txPc' = IF Len(txPorts) = 1 THEN "free" ELSE "write"

Emitted(p) == wire' = [wire EXCEPT ![p] = Append(@, data[txFrame])]

(* adin2111_write_frame succeeded. *)
TxWriteOk ==
    /\ txPc = "write"
    /\ Emitted(Head(txPorts))
    /\ PortDone
    /\ UNCHANGED <<sessionVars, poolVars, txFrame, sent>>

(* Wrong variant of the next definition: retries whatever the error. *)
TxRetryError ==
    /\ txPc = "write"
    /\ Emitted(Head(txPorts)) \/ UNCHANGED wire
    /\ attempt' = attempt + 1
    /\ txPc' = "delay"
    /\ UNCHANGED <<sessionVars, poolVars, txFrame, txPorts, sent>>

(* It failed otherwise than for lack of space: no retry.  An SPI error in  *)
(* the FIFO burst leaves open whether the frame reached the FIFO.          *)
TxWriteError ==
    /\ txPc = "write"
    /\ Emitted(Head(txPorts)) \/ UNCHANGED wire
    /\ PortDone
    /\ UNCHANGED <<sessionVars, poolVars, txFrame, sent>>

(* Wrong variant of the next definition: retries for ever. *)
TxNoSpaceUncounted ==
    /\ txPc = "write"
    /\ txPc' = "delay"
    /\ UNCHANGED <<sessionVars, poolVars, txFrame, txPorts, attempt, sent, wire>>

(* The TX FIFO has no room: sleep and retry, or give up on this port. The  *)
(* loop sleeps after its last attempt too.                                 *)
TxNoSpace ==
    /\ txPc = "write"
    /\ attempt' = attempt + 1
    /\ txPc' = "delay"
    /\ UNCHANGED <<sessionVars, poolVars, txFrame, txPorts, sent, wire>>

(* vTaskDelay(1 ms) is over. *)
TxDelayOver ==
    /\ txPc = "delay"
    /\ IF attempt < Attempts
       THEN txPc' = "write" /\ UNCHANGED <<txPorts, attempt>>
       ELSE PortDone
    /\ UNCHANGED <<sessionVars, poolVars, txFrame, sent, wire>>

(* frame_pool_free, and back to the queue. *)
TxFree ==
    /\ txPc = "free"
    /\ free' = free \cup {txFrame}
    /\ txFrame' = NoFrame
    /\ txPc' = "receive"
    /\ UNCHANGED <<sessionVars, outFrame, armed, data, toAdin, txPorts, attempt, sent, wire>>

TxTask ==
    \/ TxReceive
    \/ TxRoute
    \/ TxWriteOk
    \/ TxWriteError
    \/ TxNoSpace
    \/ TxDelayOver
    \/ TxFree

UsbInterrupt ==
    \/ Configure
    \/ \E alt \in AltSettings : SetInterface(alt)
    \/ Reset
    \/ OutPacket
    \/ DataOutEmpty
    \/ DataOut

Next == UsbInterrupt \/ TxTask

Spec == Init /\ [][Next]_vars

(* The scheduler runs a ready task eventually (priority 5, above link_task *)
(* and idle; interrupts are finite), and a delay expires.                  *)
FairSpec == Spec /\ WF_vars(TxTask)

-----------------------------------------------------------------------------
(* Properties *)

Queued == {toAdin[i] : i \in DOMAIN toAdin}

(* The buffers' and the task's variables stay in range, and the task holds *)
(* a buffer and a route exactly where net_tx_task's control flow has them. *)
TypeOK ==
    /\ SessionTypeOK
    /\ free \subseteq Frames
    /\ outFrame \in Frames \cup {NoFrame}
    /\ armed \in Frames \cup {NoFrame}
    /\ data \in [Frames -> Nat]
    /\ toAdin \in Seq(Frames)
    /\ txPc \in {"receive", "route", "write", "delay", "free"}
    /\ txFrame \in Frames \cup {NoFrame}
    /\ txPorts \in Seq(Ports)
    /\ attempt \in 0..Attempts
    /\ sent \in Nat
    /\ wire \in [Ports -> Seq(Nat)]
    /\ (txPc = "receive") = (txFrame = NoFrame)
    /\ txPc \in {"write", "delay"} => txPorts # << >>
    /\ txPc = "write" => attempt < Attempts

(* A buffer has one owner: the pool, the USB interrupt, one queue entry or *)
(* net_tx_task; none is queued or freed twice.                             *)
Disjoint ==
    /\ \A i, j \in DOMAIN toAdin : toAdin[i] = toAdin[j] => i = j
    /\ free \cap Queued = {}
    /\ outFrame \notin free \cup Queued
    /\ txFrame \notin free \cup Queued
    /\ txFrame # NoFrame => txFrame # outFrame

(* Every buffer has one owner, and the endpoint writes into no buffer but  *)
(* the interrupt's own: neither closing the data interface nor handing a   *)
(* frame over leaves it writing into one that the task reads or the pool   *)
(* gives to somebody else.                                                 *)
OneOwner == Disjoint /\ armed \in {outFrame, NoFrame}

Held(f) == IF f = NoFrame THEN 0 ELSE 1
Counted ==
    Cardinality(free) + Len(toAdin) + Held(outFrame) + Held(txFrame) = PoolSize

(* No buffer is ever lost, so the pool never runs dry for good, whatever   *)
(* the host does with the data interface meanwhile; and so no frame is lost*)
(* to a full s_to_adin_q: when one is submitted the queue has room for it. *)
Conservation ==
    Counted /\ (outFrame # NoFrame /\ free # {} => Len(toAdin) < QueueLength)

(* While the data interface is active the OUT endpoint is armed: neither   *)
(* an allocation that fails in ecm_open_data_eps nor a drop in ECM_DataOut *)
(* stops reception until the next SET_INTERFACE.                           *)
ReadyIsArmed == ready => armed # NoFrame

(* What reaches each port is a strictly increasing sequence of whole host  *)
(* frames: no duplicate, no reordering, no torn or stale buffer.           *)
InOrder ==
    \A p \in Ports :
        /\ \A i \in DOMAIN wire[p] : wire[p][i] # Torn /\ wire[p][i] <= sent
        /\ \A i, j \in DOMAIN wire[p] : i < j => wire[p][i] < wire[p][j]

(* A buffer handed to net_tx_task comes back, however often the TX FIFO is *)
(* full and whatever SPI errors occur.                                     *)
Returned ==
    \A f \in Frames : f \in Queued \cup {txFrame} ~> f \in free \cup {outFrame}

(* Downlink implements the lossy bounded channel of FrameChannel. *)
HeldByTask == IF txFrame = NoFrame THEN << >> ELSE <<data[txFrame]>>
Pending == HeldByTask \o [i \in DOMAIN toAdin |-> data[toAdin[i]]]

Channel == INSTANCE FrameChannel WITH
    Capacity <- PoolSize - 1, pending <- Pending, out <- wire

IsChannel == Channel!Spec
=============================================================================
