------------------------------- MODULE AdinRx -------------------------------
(***************************************************************************)
(* Single-pair Ethernet -> net_rx_task.  The ADIN2111 holds received        *)
(* frames in one FIFO per port and pulls INT low while there is a reason;  *)
(* the falling edge gives s_adin_int_sem, which wakes net_rx_task, which   *)
(* acknowledges and drains the FIFOs over SPI, port 1 first, sending each  *)
(* frame to the host before it reads the next.  Frames arrive at any time. *)
(*                                                                         *)
(* The ADIN2111 is modelled from how the driver uses it.  Frames are       *)
(* numbered per port in the order of arrival.  UsbIn shows what a send is; *)
(* here it ends after some time, with the frame delivered or not.          *)
(*                                                                         *)
(* A definition introduced as a wrong variant is no part of Next: it shows *)
(* which mistake in the code a property would catch.                       *)
(***************************************************************************)
EXTENDS Naturals, Sequences

CONSTANTS
    Ports,        \* {1} for an ADIN1110, {1, 2} for an ADIN2111
    FifoDepth,    \* frames a receive FIFO can hold
    PoolSize      \* NET_RX_POOL_COUNT

ASSUME RxAssumption ==
    /\ Ports \in {{1}, {1, 2}}
    /\ FifoDepth \in Nat \ {0}
    /\ PoolSize \in Nat \ {0}

VARIABLES
    fifo,       \* fifo[p]: the frames in the receive FIFO of port p
    arrived,    \* arrived[p]: frames received on port p so far
    err,        \* SPI_ERR in STATUS1
    trouble,    \* history: an SPI transfer has failed or SPI_ERR was raised
    intSem,     \* s_adin_int_sem
    pc,         \* where net_rx_task is
    status,     \* SPI_ERR as adin2111_irq_ack read it
    poolFree,   \* number of buffers in s_rx_pool.free_q
    frame,      \* <<port, number>> of the frame being sent; << >> for none
    out         \* what the host got

chipVars == <<fifo, arrived, err>>
taskVars == <<pc, status, poolFree, frame>>
vars     == <<chipVars, trouble, intSem, taskVars, out>>

RxReady == \E p \in Ports : fifo[p] # << >>

(* The level of the INT pin: IMASK1 lets RX_RDY and SPI_ERR through.       *)
IntAsserted == RxReady \/ err

Init ==
    /\ fifo = [p \in Ports |-> << >>]
    /\ arrived = [p \in Ports |-> 0]
    /\ err = FALSE
    /\ trouble = FALSE
    /\ intSem = FALSE
    /\ pc = "wait"
    /\ status = FALSE
    /\ poolFree = PoolSize
    /\ frame = << >>
    /\ out = << >>

-----------------------------------------------------------------------------
(* The chip, and the EXTI interrupt on a falling edge of INT *)

(* net_bridge_adin_int_isr gives the semaphore if the pin was high.        *)
Edge == intSem' = (intSem \/ ~IntAsserted)

(* A frame arrives; with no room left the chip drops it.                   *)
Arrive(p) ==
    /\ arrived' = [arrived EXCEPT ![p] = @ + 1]
    /\ IF Len(fifo[p]) < FifoDepth
       THEN fifo' = [fifo EXCEPT ![p] = Append(@, arrived[p] + 1)] /\ Edge
       ELSE UNCHANGED <<fifo, intSem>>
    /\ UNCHANGED <<err, trouble, taskVars, out>>

RaiseError ==
    /\ ~err
    /\ err' = TRUE
    /\ trouble' = TRUE
    /\ Edge
    /\ UNCHANGED <<fifo, arrived, taskVars, out>>

-----------------------------------------------------------------------------
(* net_rx_task: waking up *)

Wake ==
    /\ pc = "wait"
    /\ intSem
    /\ intSem' = FALSE
    /\ pc' = "ack"
    /\ UNCHANGED <<chipVars, trouble, status, poolFree, frame, out>>

(* Wrong variant of the next definition: waits for the interrupt alone.    *)
NoSafetyPoll == FALSE /\ UNCHANGED vars

(* 50 ms are over: the safety poll. *)
SafetyPoll ==
    /\ pc = "wait"
    /\ ~intSem
    /\ pc' = "ack"
    /\ UNCHANGED <<chipVars, trouble, intSem, status, poolFree, frame, out>>

(* adin2111_irq_ack reads STATUS0 and STATUS1; if it cannot, it returns.   *)
AckRead ==
    /\ pc = "ack"
    /\ \/ status' = err /\ pc' = "clear" /\ UNCHANGED trouble
       \/ pc' = "drain" /\ trouble' = TRUE /\ UNCHANGED status
    /\ UNCHANGED <<chipVars, intSem, poolFree, frame, out>>

(* It writes back the bits it read, which clears them.                     *)
AckWrite ==
    /\ pc = "clear"
    /\ \/ err' = (err /\ ~status) /\ UNCHANGED trouble
       \/ trouble' = TRUE /\ UNCHANGED err
    /\ pc' = "drain"
    /\ UNCHANGED <<fifo, arrived, intSem, status, poolFree, frame, out>>

-----------------------------------------------------------------------------
(* net_rx_task: draining *)

(* adin2111_rx_ready finds both FIFOs empty: back to sleep.                *)
DrainDone ==
    /\ pc = "drain"
    /\ ~RxReady
    /\ pc' = "wait"
    /\ UNCHANGED <<chipVars, trouble, intSem, status, poolFree, frame, out>>

(* It cannot read STATUS1, which looks the same.                           *)
DrainBlind ==
    /\ pc = "drain"
    /\ pc' = "wait"
    /\ trouble' = TRUE
    /\ UNCHANGED <<chipVars, intSem, status, poolFree, frame, out>>

(* There is a frame: take a buffer for it, or leave it for the next wake.  *)
DrainNext ==
    /\ pc = "drain"
    /\ RxReady
    /\ IF poolFree > 0
       THEN pc' = "read" /\ poolFree' = poolFree - 1
       ELSE pc' = "wait" /\ UNCHANGED poolFree
    /\ UNCHANGED <<chipVars, trouble, intSem, status, frame, out>>

(* The chip hands out the frame at the head of its FIFO. *)
OldestFirst(p) ==
    /\ frame' = <<p, Head(fifo[p])>>
    /\ fifo' = [fifo EXCEPT ![p] = Tail(@)]

(* adin2111_read_frame serves port 1 first. *)
ServedPort == IF fifo[1] # << >> THEN 1 ELSE 2

ReadOk ==
    /\ pc = "read"
    /\ RxReady
    /\ OldestFirst(ServedPort)
    /\ pc' = "send"
    /\ UNCHANGED <<arrived, err, trouble, intSem, status, poolFree, out>>

(* Wrong variants of the next definition: a leak and a double free.        *)
KeepBuffer == UNCHANGED poolFree
FreeTwice  == poolFree' = poolFree + 2

FreeBuffer == poolFree' = poolFree + 1

(* Wrong variant of the next definition: what has come is sent, although   *)
(* its last transfer failed and the frame may still be in the FIFO.        *)
SendFailedRead ==
    /\ pc = "read"
    /\ trouble' = TRUE
    /\ RxReady
    /\ fifo' \in {fifo, [fifo EXCEPT ![ServedPort] = Tail(@)]}
    /\ frame' = <<ServedPort, Head(fifo[ServedPort])>>
    /\ pc' = "send"
    /\ UNCHANGED <<arrived, err, intSem, status, poolFree, out>>

(* An SPI error (or the empty frame of a bad read): the buffer goes back,  *)
(* the loop continues.  The frame may have left the FIFO or not.           *)
ReadFails ==
    /\ pc = "read"
    /\ trouble' = TRUE
    /\ RxReady
    /\ fifo' \in {fifo, [fifo EXCEPT ![ServedPort] = Tail(@)]}
    /\ FreeBuffer
    /\ pc' = "drain"
    /\ UNCHANGED <<arrived, err, intSem, status, frame, out>>

(* A frame size that cannot be: FIFO_CLR empties the receive FIFOs, and    *)
(* ERR_NODATA ends the drain.                                              *)
ReadCorrupt ==
    /\ pc = "read"
    /\ trouble' = TRUE
    /\ fifo' = [p \in Ports |-> << >>] \/ UNCHANGED fifo
    /\ FreeBuffer
    /\ pc' = "wait"
    /\ UNCHANGED <<arrived, err, intSem, status, frame, out>>

(* Wrong variant of the next definition: one frame per wake-up.            *)
SendOneFrame ==
    /\ pc = "send"
    /\ out' = Append(out, frame) \/ UNCHANGED out
    /\ FreeBuffer
    /\ frame' = << >>
    /\ pc' = "wait"
    /\ UNCHANGED <<chipVars, trouble, intSem, status>>

(* usbd_ecm_if_send returns, with the frame delivered or not.              *)
SendDone ==
    /\ pc = "send"
    /\ out' = Append(out, frame) \/ UNCHANGED out
    /\ FreeBuffer
    /\ frame' = << >>
    /\ pc' = "drain"
    /\ UNCHANGED <<chipVars, trouble, intSem, status>>

RxTask ==
    \/ Wake
    \/ SafetyPoll
    \/ AckRead
    \/ AckWrite
    \/ DrainDone
    \/ DrainBlind
    \/ DrainNext
    \/ ReadOk
    \/ ReadFails
    \/ ReadCorrupt
    \/ SendDone

Next ==
    \/ \E p \in Ports : Arrive(p)
    \/ RaiseError
    \/ RxTask

Spec == Init /\ [][Next]_vars

(* The task runs when it can, its wait times out, a send ends; and an SPI  *)
(* read that is tried again and again succeeds at some time.               *)
FairSpec ==
    /\ Spec
    /\ WF_vars(RxTask)
    /\ SF_vars(DrainNext)
    /\ SF_vars(ReadOk)

-----------------------------------------------------------------------------
(* Properties *)

(* Variables in range; the FIFOs are bounded and hold frames that have     *)
(* arrived, and the task holds a frame exactly while it sends one.         *)
TypeOK ==
    /\ fifo \in [Ports -> Seq(Nat)]
    /\ \A p \in Ports :
          /\ Len(fifo[p]) <= FifoDepth
          /\ \A i \in DOMAIN fifo[p] : 1 <= fifo[p][i] /\ fifo[p][i] <= arrived[p]
    /\ arrived \in [Ports -> Nat]
    /\ err \in BOOLEAN
    /\ trouble \in BOOLEAN
    /\ intSem \in BOOLEAN
    /\ pc \in {"wait", "ack", "clear", "drain", "read", "send"}
    /\ status \in BOOLEAN
    /\ poolFree \in 0..PoolSize
    /\ frame \in {<< >>} \cup (Ports \X Nat)
    /\ out \in Seq(Ports \X Nat)
    /\ frame # << >> <=> pc = "send"

(* As long as SPI works no edge is missed: if the task is asleep and INT   *)
(* is low, the semaphore has been given.  In particular a frame that       *)
(* arrives after the task has found the FIFOs empty wakes it up.           *)
NoMissedEdge == ~trouble /\ pc = "wait" /\ IntAsserted => intSem

(* The branch that leaves a frame in the FIFO for want of a buffer is      *)
(* never taken: whenever the task looks for a buffer all are free.         *)
BufferForFrame == pc = "drain" => poolFree = PoolSize

(* The host gets the frames of a port in the order in which they arrived,  *)
(* and none of them twice.                                                 *)
InOrder ==
    \A i, j \in DOMAIN out :
        i < j /\ out[i][1] = out[j][1] => out[i][2] < out[j][2]

(* A FIFO with frames in it is served at some time, also after an SPI      *)
(* error has made the task sleep while INT is low, when no further edge    *)
(* will come.  It takes a pause in the traffic of port 1 for port 2.       *)
Sending(p) == pc = "send" /\ frame[1] = p
EveryFifoIsServed ==
    \A p \in Ports : fifo[p] # << >> ~> (fifo[p] = << >> \/ Sending(p))
=============================================================================
