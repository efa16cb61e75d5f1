----------------------------- MODULE AdinProofs -----------------------------
(* Proofs about the receive side of the ADIN2111, for any FIFO depth, any   *)
(* pool and any number of frames (AdinRx), and about the lengths of frames *)
(* in both directions (FrameSizes).                                        *)
EXTENDS AdinRx, FrameSizes, SequenceTheorems, TLAPS

-----------------------------------------------------------------------------
(* The receive FIFOs *)

(* adin2111_read_frame serves a port that has a frame.                     *)
LEMMA ServedHasFrame ==
    ASSUME RxReady
    PROVE  ServedPort \in Ports /\ fifo[ServedPort] # << >>
  BY RxAssumption DEF RxReady, ServedPort

(* What taking the oldest frame leaves of a FIFO.                          *)
LEMMA TailOfFifo ==
    ASSUME NEW s \in Seq(Nat), s # << >>
    PROVE  /\ Len(s) \in Nat /\ Len(s) >= 1
           /\ Head(s) = s[1] /\ Head(s) \in Nat
           /\ Tail(s) \in Seq(Nat) /\ Len(Tail(s)) = Len(s) - 1
           /\ \A i \in 1..(Len(s) - 1) : Tail(s)[i] = s[i + 1]
  <1>1. Len(s) \in Nat /\ Len(s) >= 1
    BY EmptySeq
  <1>2. /\ Tail(s) \in Seq(Nat) /\ Len(Tail(s)) = Len(s) - 1
        /\ \A i \in 1..Len(Tail(s)) : Tail(s)[i] = s[i + 1]
    BY HeadTailProperties
  <1>3. Head(s) = s[1] /\ Head(s) \in Nat
    BY <1>1
  <1>. QED  BY <1>1, <1>2, <1>3

(* A step by which frames leave the FIFOs: each keeps all of its frames,   *)
(* or all but the oldest, or none.                                         *)
Drained ==
    /\ UNCHANGED arrived
    /\ fifo' \in [Ports -> Seq(Nat)]
    /\ \A p \in Ports :
        \/ fifo'[p] = fifo[p]
        \/ fifo[p] # << >> /\ fifo'[p] = Tail(fifo[p])
        \/ fifo'[p] = << >>

(* The steps of net_rx_task are such steps.                                *)
LEMMA TaskDrains == TypeOK /\ RxTask => Drained
  <1>. SUFFICES ASSUME TypeOK, RxTask PROVE Drained
    OBVIOUS
  <1>. USE DEF TypeOK, Drained
  <1>1. CASE UNCHANGED <<fifo, arrived>>
    BY <1>1
  <1>2. ASSUME RxReady, UNCHANGED arrived,
               fifo' = [fifo EXCEPT ![ServedPort] = Tail(@)]
        PROVE  Drained
    <2>1. ServedPort \in Ports /\ fifo[ServedPort] # << >>
      BY <1>2, ServedHasFrame
    <2>2. Tail(fifo[ServedPort]) \in Seq(Nat)
      BY <2>1, TailOfFifo
    <2>. QED  BY <1>2, <2>1, <2>2
  <1>3. CASE ReadOk
    BY <1>2, <1>3 DEF ReadOk, OldestFirst
  <1>4. CASE ReadFails
    BY <1>1, <1>2, <1>4 DEF ReadFails
  <1>5. CASE ReadCorrupt
    <2>1. [p \in Ports |-> << >>] \in [Ports -> Seq(Nat)]
      BY EmptySeq
    <2>. QED  BY <1>1, <1>5, <2>1 DEF ReadCorrupt
  <1>6. CASE Wake \/ SafetyPoll \/ AckRead \/ AckWrite \/ DrainDone \/ DrainBlind
             \/ DrainNext \/ SendDone
    BY <1>1, <1>6 DEF Wake, SafetyPoll, AckRead, AckWrite, DrainDone, DrainBlind,
       DrainNext, SendDone, chipVars
  <1>. QED  BY <1>3, <1>4, <1>5, <1>6 DEF RxTask

-----------------------------------------------------------------------------
(* Type correctness *)

(* One buffer is out of the pool while a frame is read and sent, otherwise *)
(* none.                                                                   *)
BuffersCounted ==
    poolFree = (IF pc \in {"read", "send"} THEN PoolSize - 1 ELSE PoolSize)

(* A FIFO that frames leave stays bounded and holds arrived frames. *)
LEMMA DrainedType ==
    ASSUME TypeOK, Drained, NEW p \in Ports
    PROVE  /\ Len(fifo'[p]) <= FifoDepth
           /\ \A i \in DOMAIN fifo'[p] : 1 <= fifo'[p][i] /\ fifo'[p][i] <= arrived'[p]
  <1>. USE DEF TypeOK, Drained
  <1>1. CASE fifo'[p] = fifo[p]
    BY <1>1
  <1>2. CASE fifo'[p] = << >>
    BY <1>2, RxAssumption
  <1>3. CASE fifo[p] # << >> /\ fifo'[p] = Tail(fifo[p])
    <2>1. /\ Len(fifo[p]) \in Nat /\ Len(Tail(fifo[p])) = Len(fifo[p]) - 1
          /\ Tail(fifo[p]) \in Seq(Nat)
          /\ \A i \in 1..(Len(fifo[p]) - 1) : Tail(fifo[p])[i] = fifo[p][i + 1]
      BY <1>3, TailOfFifo
    <2>2. DOMAIN fifo'[p] = 1..(Len(fifo[p]) - 1) /\ DOMAIN fifo[p] = 1..Len(fifo[p])
      BY <1>3, <2>1
    <2>. QED  BY <1>3, <2>1, <2>2, RxAssumption
  <1>. QED  BY <1>1, <1>2, <1>3

(* An arrival keeps its FIFO bounded. *)
LEMMA ArriveType ==
    ASSUME TypeOK, NEW p \in Ports, Arrive(p)
    PROVE  /\ fifo' \in [Ports -> Seq(Nat)] /\ arrived' \in [Ports -> Nat]
           /\ \A q \in Ports :
                /\ Len(fifo'[q]) <= FifoDepth
                /\ \A i \in DOMAIN fifo'[q] :
                     1 <= fifo'[q][i] /\ fifo'[q][i] <= arrived'[q]
  <1>. USE DEF TypeOK
  <1>1. arrived' = [arrived EXCEPT ![p] = @ + 1] /\ arrived' \in [Ports -> Nat]
    BY DEF Arrive
  <1>2. CASE fifo' = fifo
    BY <1>1, <1>2
  <1>3. CASE Len(fifo[p]) < FifoDepth /\
             fifo' = [fifo EXCEPT ![p] = Append(@, arrived[p] + 1)]
    <2>1. /\ Append(fifo[p], arrived[p] + 1) \in Seq(Nat)
          /\ Len(Append(fifo[p], arrived[p] + 1)) = Len(fifo[p]) + 1
          /\ \A i \in 1..Len(fifo[p]) : Append(fifo[p], arrived[p] + 1)[i] = fifo[p][i]
          /\ Append(fifo[p], arrived[p] + 1)[Len(fifo[p]) + 1] = arrived[p] + 1
      BY AppendProperties
    <2>2. fifo' \in [Ports -> Seq(Nat)] /\ fifo'[p] = Append(fifo[p], arrived[p] + 1)
      BY <1>3, <2>1
    <2>3. Len(fifo'[p]) <= FifoDepth
      BY <1>3, <2>1, <2>2, RxAssumption
    <2>4. \A i \in DOMAIN fifo'[p] : 1 <= fifo'[p][i] /\ fifo'[p][i] <= arrived'[p]
      <3>. SUFFICES ASSUME NEW i \in 1..(Len(fifo[p]) + 1)
                    PROVE  1 <= fifo'[p][i] /\ fifo'[p][i] <= arrived'[p]
        BY <2>1, <2>2
      <3>1. CASE i = Len(fifo[p]) + 1
        BY <1>1, <2>1, <2>2, <3>1
      <3>2. CASE i \in 1..Len(fifo[p])
        BY <1>1, <2>1, <2>2, <3>2
      <3>. QED  BY <3>1, <3>2
    <2>5. \A q \in Ports \ {p} : fifo'[q] = fifo[q] /\ arrived'[q] = arrived[q]
      BY <1>1, <1>3
    <2>. QED  BY <1>1, <2>2, <2>3, <2>4, <2>5
  <1>. QED  BY <1>2, <1>3 DEF Arrive

LEMMA TypeStep == TypeOK /\ BuffersCounted /\ [Next]_vars => TypeOK'
  <1>. SUFFICES ASSUME TypeOK, BuffersCounted, [Next]_vars PROVE TypeOK'
    OBVIOUS
  <1>. USE RxAssumption
  <1>1. ASSUME NEW p \in Ports, Arrive(p) PROVE TypeOK'
    <2>1. intSem' \in BOOLEAN
      BY <1>1, Zenon DEF Arrive, Edge, TypeOK
    <2>. QED  BY <1>1, <2>1, ArriveType DEF Arrive, taskVars, TypeOK
  <1>2. CASE RaiseError
    <2>1. intSem' \in BOOLEAN
      BY <1>2, Zenon DEF RaiseError, Edge
    <2>. QED  BY <1>2, <2>1 DEF RaiseError, taskVars, TypeOK
  <1>3. CASE RxTask
    <2>1. /\ fifo' \in [Ports -> Seq(Nat)] /\ arrived' = arrived
          /\ \A p \in Ports :
                /\ Len(fifo'[p]) <= FifoDepth
                /\ \A i \in DOMAIN fifo'[p] : 1 <= fifo'[p][i] /\ fifo'[p][i] <= arrived'[p]
      BY <1>3, TaskDrains, DrainedType DEF Drained
    <2>2. /\ err' \in BOOLEAN /\ trouble' \in BOOLEAN /\ intSem' \in BOOLEAN
          /\ status' \in BOOLEAN
          /\ pc' \in {"wait", "ack", "clear", "drain", "read", "send"}
      BY <1>3 DEF TypeOK, RxTask, Wake, SafetyPoll, AckRead, AckWrite, DrainDone,
         DrainBlind, DrainNext, ReadOk, ReadFails, ReadCorrupt, SendDone, chipVars
    <2>3. poolFree' \in 0..PoolSize
      BY <1>3 DEF TypeOK, BuffersCounted, RxTask, Wake, SafetyPoll, AckRead,
         AckWrite, DrainDone, DrainBlind, DrainNext, ReadOk, ReadFails,
         ReadCorrupt, SendDone, FreeBuffer
    <2>4. /\ frame' \in {<< >>} \cup (Ports \X Nat)
          /\ frame' # << >> <=> pc' = "send"
          /\ out' \in Seq(Ports \X Nat)
      <3>1. CASE ReadOk
        <4>1. ServedPort \in Ports /\ fifo[ServedPort] # << >>
          BY <3>1, ServedHasFrame DEF ReadOk
        <4>2. Head(fifo[ServedPort]) \in Nat
          BY <4>1, TailOfFifo DEF TypeOK
        <4>. QED  BY <3>1, <4>1, <4>2 DEF ReadOk, OldestFirst, TypeOK
      <3>2. CASE SendDone
        <4>1. frame \in Ports \X Nat
          BY <3>2 DEF SendDone, TypeOK
        <4>2. Append(out, frame) \in Seq(Ports \X Nat)
          BY <4>1, AppendProperties DEF TypeOK
        <4>. QED  BY <3>2, <4>2 DEF SendDone, TypeOK
      <3>3. CASE ~ReadOk /\ ~SendDone
        BY <1>3, <3>3 DEF TypeOK, RxTask, Wake, SafetyPoll, AckRead, AckWrite,
           DrainDone, DrainBlind, DrainNext, ReadFails, ReadCorrupt
      <3>. QED  BY <3>1, <3>2, <3>3
    <2>. QED  BY <2>1, <2>2, <2>3, <2>4 DEF TypeOK
  <1>4. CASE UNCHANGED vars
    BY <1>4 DEF vars, chipVars, taskVars, TypeOK
  <1>. QED  BY <1>1, <1>2, <1>3, <1>4 DEF Next

LEMMA BuffersStep == TypeOK /\ BuffersCounted /\ [Next]_vars => BuffersCounted'
  <1>. SUFFICES ASSUME TypeOK, BuffersCounted, [Next]_vars PROVE BuffersCounted'
    OBVIOUS
  <1>. USE RxAssumption DEF TypeOK, BuffersCounted
  <1>1. CASE UNCHANGED <<pc, poolFree>>
    BY <1>1
  <1>2. CASE RxTask
    BY <1>2 DEF RxTask, Wake, SafetyPoll, AckRead, AckWrite, DrainDone, DrainBlind,
       DrainNext, ReadOk, ReadFails, ReadCorrupt, SendDone, FreeBuffer
  <1>3. RxTask \/ UNCHANGED <<pc, poolFree>>
    BY DEF Next, Arrive, RaiseError, vars, taskVars
  <1>. QED  BY <1>1, <1>2, <1>3

LEMMA TypedAndCounted == Spec => [](TypeOK /\ BuffersCounted)
  <1>1. Init => TypeOK
    <2>1. [p \in Ports |-> << >>] \in [Ports -> Seq(Nat)]
      BY EmptySeq
    <2>2. PoolSize \in 0..PoolSize
      BY RxAssumption
    <2>3. << >> \in Seq(Ports \X Nat) /\ Len(<< >>) = 0 /\ 0 <= FifoDepth
      BY EmptySeq, RxAssumption
    <2>. SUFFICES ASSUME Init PROVE TypeOK
      OBVIOUS
    <2>4. fifo \in [Ports -> Seq(Nat)] /\ arrived \in [Ports -> Nat]
      BY <2>1 DEF Init
    <2>5. ASSUME NEW p \in Ports
          PROVE  /\ Len(fifo[p]) <= FifoDepth
                 /\ \A i \in DOMAIN fifo[p] : 1 <= fifo[p][i] /\ fifo[p][i] <= arrived[p]
      <3>1. fifo[p] = << >>
        BY DEF Init
      <3>. QED  BY <2>3, <3>1
    <2>. QED  BY <2>2, <2>3, <2>4, <2>5 DEF Init, TypeOK
  <1>2. Init => BuffersCounted
    BY RxAssumption DEF Init, BuffersCounted
  <1>. QED  BY <1>1, <1>2, TypeStep, BuffersStep, PTL DEF Spec

(* Types; in particular no receive buffer is ever freed that was not taken *)
(* (poolFree stays within the pool), for any pool and FIFO depth.          *)
THEOREM TypeCorrect == Spec => []TypeOK
  BY TypedAndCounted, PTL

(* net_rx_task never finds the pool empty: it gives its buffer back on     *)
(* each of the four paths out of a read, SPI errors included, before it    *)
(* looks for the next one.  A pool of one buffer would do.                 *)
THEOREM PoolNeverEmpty == Spec => []BufferForFrame
  <1>1. BuffersCounted => BufferForFrame
    BY DEF BuffersCounted, BufferForFrame
  <1>. QED  BY <1>1, TypedAndCounted, PTL

-----------------------------------------------------------------------------
(* No missed edge *)

(* An error bit is trouble; and no edge has been missed. *)
EdgeInv == (err => trouble) /\ NoMissedEdge

LEMMA EdgeStep ==
    TypeOK /\ BuffersCounted /\ EdgeInv /\ [Next]_vars => EdgeInv'
  <1>. SUFFICES ASSUME TypeOK, BuffersCounted, EdgeInv, [Next]_vars
                PROVE  EdgeInv'
    OBVIOUS
  <1>. USE DEF EdgeInv, NoMissedEdge, IntAsserted
  <1>1. ASSUME NEW p \in Ports, Arrive(p) PROVE EdgeInv'
    <2>1. CASE UNCHANGED <<fifo, intSem>>
      BY <1>1, <2>1 DEF Arrive, RxReady, taskVars
    <2>2. CASE Edge
      BY <1>1, <2>2 DEF Arrive, Edge, RxReady, taskVars
    <2>. QED  BY <1>1, <2>1, <2>2 DEF Arrive
  <1>2. CASE RaiseError
    BY <1>2 DEF RaiseError
  <1>3. CASE DrainDone
    BY <1>3 DEF DrainDone, RxReady, chipVars
  <1>4. CASE DrainNext
    <2>1. poolFree > 0
      BY <1>4, RxAssumption DEF DrainNext, BuffersCounted
    <2>. QED  BY <1>4, <2>1 DEF DrainNext, chipVars
  <1>5. CASE AckWrite
    BY <1>5 DEF AckWrite
  <1>6. CASE Wake \/ SafetyPoll \/ AckRead \/ ReadOk \/ SendDone
    BY <1>6 DEF Wake, SafetyPoll, AckRead, ReadOk, SendDone, chipVars
  <1>7. CASE DrainBlind \/ ReadFails \/ ReadCorrupt
    BY <1>7 DEF DrainBlind, ReadFails, ReadCorrupt
  <1>8. CASE UNCHANGED vars
    BY <1>8 DEF vars, chipVars, taskVars, RxReady
  <1>. QED
    BY <1>1, <1>2, <1>3, <1>4, <1>5, <1>6, <1>7, <1>8 DEF Next, RxTask

(* The wake-up is edge-triggered and the cause is a level.  As long as SPI *)
(* works, net_rx_task never sleeps on a low INT without a signal: it goes  *)
(* to sleep only after it has seen both FIFOs empty, and every frame that  *)
(* comes later makes an edge.                                              *)
THEOREM EveryEdgeCounts == Spec => []NoMissedEdge
  <1>1. Init => EdgeInv
    BY DEF Init, EdgeInv, NoMissedEdge, IntAsserted, RxReady
  <1>2. EdgeInv => NoMissedEdge
    BY DEF EdgeInv
  <1>. QED  BY <1>1, <1>2, TypedAndCounted, EdgeStep, PTL DEF Spec

-----------------------------------------------------------------------------
(* Order *)

(* The frames in a FIFO are in the order of arrival. *)
Sorted(p) == \A i, j \in 1..Len(fifo[p]) : i < j => fifo[p][i] < fifo[p][j]

(* Frame n of port p has arrived, and before all that the FIFO holds. *)
Gone(p, n) == n <= arrived[p] /\ \A i \in 1..Len(fifo[p]) : n < fifo[p][i]

(* What the host got has left its FIFO, and so has the frame being sent,   *)
(* after all that the host got from its port.                              *)
FifoInv == \A p \in Ports : Sorted(p)
OutInv ==
    \A p \in Ports, n \in Nat :
        /\ (\E i \in 1..Len(out) : out[i][1] = p /\ out[i][2] = n) => Gone(p, n)
        /\ frame = <<p, n>> =>
              /\ Gone(p, n)
              /\ \A i \in 1..Len(out) : out[i][1] = p => out[i][2] < n

(* A frame that has left a FIFO stays behind what is left in it.           *)
LEMMA DrainedOrder ==
    ASSUME TypeOK, FifoInv, Drained, NEW p \in Ports
    PROVE  Sorted(p)' /\ \A n \in Nat : Gone(p, n) => Gone(p, n)'
  <1>. USE DEF TypeOK, FifoInv, Drained, Sorted, Gone
  <1>1. CASE fifo'[p] = fifo[p]
    BY <1>1
  <1>2. CASE fifo'[p] = << >>
    BY <1>2
  <1>3. CASE fifo[p] # << >> /\ fifo'[p] = Tail(fifo[p])
    <2>1. /\ Len(fifo[p]) \in Nat /\ Len(fifo'[p]) = Len(fifo[p]) - 1
          /\ \A i \in 1..(Len(fifo[p]) - 1) : fifo'[p][i] = fifo[p][i + 1]
      BY <1>3, TailOfFifo
    <2>2. \A i \in 1..Len(fifo'[p]) :
             i + 1 \in 1..Len(fifo[p]) /\ fifo'[p][i] = fifo[p][i + 1]
      BY <2>1
    <2>3. Sorted(p)'
      <3>. SUFFICES ASSUME NEW i \in 1..Len(fifo'[p]), NEW j \in 1..Len(fifo'[p]), i < j
                    PROVE  fifo'[p][i] < fifo'[p][j]
        OBVIOUS
      <3>1. /\ i + 1 \in 1..Len(fifo[p]) /\ fifo'[p][i] = fifo[p][i + 1]
            /\ j + 1 \in 1..Len(fifo[p]) /\ fifo'[p][j] = fifo[p][j + 1]
            /\ i + 1 < j + 1
        BY <2>1, <2>2
      <3>. QED  BY <3>1
    <2>. QED  BY <2>2, <2>3
  <1>. QED  BY <1>1, <1>2, <1>3

(* So does it when a frame arrives. *)
LEMMA ArriveOrder ==
    ASSUME TypeOK, FifoInv, NEW q \in Ports, Arrive(q), NEW p \in Ports
    PROVE  Sorted(p)' /\ \A n \in Nat : Gone(p, n) => Gone(p, n)'
  <1>. USE DEF TypeOK, FifoInv, Sorted, Gone
  <1>1. arrived'[p] \in Nat /\ arrived[p] <= arrived'[p]
    BY DEF Arrive
  <1>2. CASE fifo'[p] = fifo[p]
    BY <1>1, <1>2
  <1>3. CASE p = q /\ fifo' = [fifo EXCEPT ![p] = Append(@, arrived[p] + 1)]
    <2>1. /\ Len(fifo[p]) \in Nat /\ Len(fifo'[p]) = Len(fifo[p]) + 1
          /\ \A i \in 1..Len(fifo[p]) : fifo'[p][i] = fifo[p][i]
          /\ fifo'[p][Len(fifo[p]) + 1] = arrived[p] + 1
      BY <1>3, AppendProperties
    <2>2. \A i \in 1..Len(fifo[p]) : fifo[p][i] \in Nat /\ fifo[p][i] <= arrived[p]
      OBVIOUS
    <2>3. Sorted(p)'
      <3>. SUFFICES ASSUME NEW i \in 1..Len(fifo'[p]), NEW j \in 1..Len(fifo'[p]), i < j
                    PROVE  fifo'[p][i] < fifo'[p][j]
        OBVIOUS
      <3>1. CASE j = Len(fifo[p]) + 1
        <4>1. i \in 1..Len(fifo[p])
          BY <2>1, <3>1
        <4>2. fifo'[p][i] = fifo[p][i] /\ fifo'[p][j] = arrived[p] + 1
          BY <2>1, <3>1, <4>1
        <4>3. fifo[p][i] \in Nat /\ fifo[p][i] <= arrived[p] /\ arrived[p] \in Nat
          BY <2>2, <4>1
        <4>. QED  BY <4>2, <4>3
      <3>2. CASE j \in 1..Len(fifo[p])
        <4>1. i \in 1..Len(fifo[p])
          BY <2>1, <3>2
        <4>2. fifo'[p][i] = fifo[p][i] /\ fifo'[p][j] = fifo[p][j]
          BY <2>1, <3>2, <4>1
        <4>3. fifo[p][i] < fifo[p][j]
          BY <3>2, <4>1
        <4>. QED  BY <4>2, <4>3
      <3>. QED  BY <2>1, <3>1, <3>2
    <2>4. ASSUME NEW n \in Nat, Gone(p, n) PROVE Gone(p, n)'
      <3>1. n <= arrived[p] /\ \A i \in 1..Len(fifo[p]) : n < fifo[p][i]
        BY <2>4
      <3>2. ASSUME NEW i \in 1..Len(fifo'[p]) PROVE n < fifo'[p][i]
        <4>1. CASE i = Len(fifo[p]) + 1
          BY <2>1, <3>1, <4>1
        <4>2. CASE i \in 1..Len(fifo[p])
          BY <2>1, <3>1, <4>2
        <4>. QED  BY <2>1, <3>2, <4>1, <4>2
      <3>. QED  BY <1>1, <3>1, <3>2
    <2>. QED  BY <2>3, <2>4
  <1>. QED  BY <1>2, <1>3 DEF Arrive

(* What the host has got is of the ports. *)
LEMMA OutTyped ==
    ASSUME TypeOK, NEW i \in 1..Len(out)
    PROVE  out[i][1] \in Ports /\ out[i][2] \in Nat
  BY DEF TypeOK

(* Reading takes the head of a sorted FIFO. *)
LEMMA ReadOrder ==
    ASSUME TypeOK, FifoInv, OutInv, ReadOk, NEW p \in Ports, NEW n \in Nat,
           frame' = <<p, n>>
    PROVE  /\ Gone(p, n)'
           /\ \A i \in 1..Len(out) : out[i][1] = p => out[i][2] < n
  <1>1. p = ServedPort /\ fifo[p] # << >> /\ n = Head(fifo[p])
    BY ServedHasFrame DEF ReadOk, OldestFirst
  <1>2. fifo' = [fifo EXCEPT ![p] = Tail(@)] /\ arrived' = arrived
    BY <1>1 DEF ReadOk, OldestFirst
  <1>3. /\ Len(fifo[p]) \in Nat /\ Len(fifo[p]) >= 1 /\ n = fifo[p][1]
        /\ Len(Tail(fifo[p])) = Len(fifo[p]) - 1
        /\ \A i \in 1..(Len(fifo[p]) - 1) : Tail(fifo[p])[i] = fifo[p][i + 1]
    BY <1>1, TailOfFifo DEF TypeOK
  <1>4. fifo'[p] = Tail(fifo[p])
    BY <1>2 DEF TypeOK
  <1>5. \A i \in 1..Len(fifo'[p]) : n < fifo'[p][i]
    <2>. SUFFICES ASSUME NEW i \in 1..(Len(fifo[p]) - 1)
                  PROVE  fifo[p][1] < fifo[p][i + 1]
      BY <1>3, <1>4
    <2>1. 1 \in 1..Len(fifo[p]) /\ i + 1 \in 1..Len(fifo[p]) /\ 1 < i + 1
      BY <1>3
    <2>. QED  BY <2>1 DEF FifoInv, Sorted
  <1>6. 1 \in 1..Len(fifo[p])
    BY <1>3
  <1>7. n <= arrived[p]
    BY <1>3, <1>6 DEF TypeOK
  <1>8. ASSUME NEW i \in 1..Len(out), out[i][1] = p
        PROVE  out[i][2] < n
    <2>1. Gone(p, out[i][2])
      BY <1>8, OutTyped DEF OutInv
    <2>. QED  BY <1>3, <1>6, <2>1 DEF Gone
  <1>. QED  BY <1>2, <1>5, <1>7, <1>8 DEF Gone

(* No step brings back what has left a FIFO. *)
LEMMA GoneStep ==
    ASSUME TypeOK, FifoInv, [Next]_vars, NEW p \in Ports
    PROVE  Sorted(p)' /\ \A n \in Nat : Gone(p, n) => Gone(p, n)'
  <1>1. CASE \E q \in Ports : Arrive(q)
    BY <1>1, ArriveOrder
  <1>2. CASE RxTask
    BY <1>2, TaskDrains, DrainedOrder
  <1>3. CASE UNCHANGED <<fifo, arrived>>
    BY <1>3 DEF FifoInv, Sorted, Gone
  <1>4. RaiseError \/ UNCHANGED vars => UNCHANGED <<fifo, arrived>>
    BY DEF RaiseError, vars, chipVars
  <1>. QED  BY <1>1, <1>2, <1>3, <1>4 DEF Next

OrderInv == FifoInv /\ OutInv /\ InOrder

LEMMA OrderStep == TypeOK /\ OrderInv /\ [Next]_vars => OrderInv'
  <1>. SUFFICES ASSUME TypeOK, OrderInv, [Next]_vars PROVE OrderInv'
    OBVIOUS
  <1>. USE DEF OrderInv
  <1>1. FifoInv'
    BY GoneStep DEF FifoInv
  <1>2. ASSUME NEW p \in Ports, NEW n \in Nat, Gone(p, n) PROVE Gone(p, n)'
    BY <1>2, GoneStep
  <1>3. CASE ReadOk
    <2>1. out' = out
      BY <1>3 DEF ReadOk
    <2>2. OutInv'
      BY <1>2, <1>3, <2>1, ReadOrder DEF OutInv
    <2>. QED  BY <1>1, <2>1, <2>2 DEF InOrder
  <1>4. CASE SendDone
    <2>1. frame \in Ports \X Nat /\ frame' = << >>
      BY <1>4 DEF SendDone, TypeOK
    <2>2. \A p, n : frame' # <<p, n>>
      BY <2>1
    <2>3. CASE out' = out
      <3>1. OutInv'
        BY <1>2, <2>2, <2>3 DEF OutInv
      <3>. QED  BY <1>1, <2>3, <3>1 DEF InOrder
    <2>4. CASE out' = Append(out, frame)
      <3>1. /\ Len(out) \in Nat /\ Len(out') = Len(out) + 1
            /\ \A i \in 1..Len(out) : out'[i] = out[i]
            /\ out'[Len(out) + 1] = frame
            /\ DOMAIN out' = 1..(Len(out) + 1) /\ DOMAIN out = 1..Len(out)
        BY <2>1, <2>4, AppendProperties, LenProperties DEF TypeOK
      <3>2. PICK p \in Ports, n \in Nat : frame = <<p, n>>
        BY <2>1
      <3>3. Gone(p, n) /\ \A i \in 1..Len(out) : out[i][1] = p => out[i][2] < n
        BY <3>2 DEF OutInv
      <3>4. OutInv'
        <4>. SUFFICES ASSUME NEW q \in Ports, NEW m \in Nat,
                             NEW i \in 1..(Len(out) + 1),
                             out'[i][1] = q, out'[i][2] = m
                      PROVE  Gone(q, m)
          BY <1>2, <2>2, <3>1 DEF OutInv
        <4>1. CASE i = Len(out) + 1
          BY <3>1, <3>2, <3>3, <4>1
        <4>2. CASE i \in 1..Len(out)
          BY <3>1, <4>2 DEF OutInv
        <4>. QED  BY <3>1, <4>1, <4>2
      <3>5. InOrder'
        <4>. SUFFICES ASSUME NEW i \in 1..(Len(out) + 1), NEW j \in 1..(Len(out) + 1),
                             i < j, out'[i][1] = out'[j][1]
                      PROVE  out'[i][2] < out'[j][2]
          BY <3>1 DEF InOrder
        <4>1. i \in 1..Len(out)
          BY <3>1
        <4>2. CASE j = Len(out) + 1
          BY <3>1, <3>2, <3>3, <4>1, <4>2
        <4>3. CASE j \in 1..Len(out)
          BY <3>1, <4>1, <4>3 DEF InOrder
        <4>. QED  BY <3>1, <4>2, <4>3
      <3>. QED  BY <1>1, <3>4, <3>5
    <2>. QED  BY <1>4, <2>3, <2>4 DEF SendDone
  <1>5. CASE ~ReadOk /\ ~SendDone
    <2>1. out' = out /\ frame' = frame
      BY <1>5 DEF Next, Arrive, RaiseError, RxTask, Wake, SafetyPoll, AckRead,
         AckWrite, DrainDone, DrainBlind, DrainNext, ReadFails, ReadCorrupt,
         vars, taskVars
    <2>2. OutInv'
      BY <1>2, <2>1 DEF OutInv
    <2>. QED  BY <1>1, <2>1, <2>2 DEF InOrder
  <1>. QED  BY <1>3, <1>4, <1>5

(* adin2111_read_frame takes the oldest frame of a port, a failed read     *)
(* either keeps or loses it, and net_rx_task sends what it has read before *)
(* it reads on: the host gets a port's frames in the order of arrival and  *)
(* none twice, for any FIFO depth and any number of frames.                *)
THEOREM OrderKept == Spec => []InOrder
  <1>1. Init => OrderInv
    BY DEF Init, OrderInv, FifoInv, Sorted, OutInv, InOrder
  <1>2. OrderInv => InOrder
    BY DEF OrderInv
  <1>. QED  BY <1>1, <1>2, TypedAndCounted, OrderStep, PTL DEF Spec

-----------------------------------------------------------------------------
(* Lengths *)


(* Rounding adds at most three bytes, and does not overflow for what the   *)
(* driver rounds.                                                          *)
LEMMA RoundsUp ==
    ASSUME NEW n \in Nat, n <= 60000
    PROVE  Round4(n) \in Nat /\ n <= Round4(n) /\ Round4(n) <= n + 3
  <1>1. /\ 4 * ((n + 3) \div 4) \in Nat
        /\ n <= 4 * ((n + 3) \div 4) /\ 4 * ((n + 3) \div 4) <= n + 3
    OBVIOUS
  <1>2. U16(4 * ((n + 3) \div 4)) = 4 * ((n + 3) \div 4)
    BY <1>1 DEF U16
  <1>. QED  BY <1>1, <1>2 DEF Round4

(* The body that adin2111_write_frame builds.                              *)
LEMMA WrittenBody ==
    ASSUME NEW len \in Nat, Writable(len)
    PROVE  /\ Padded(len) \in Nat /\ len <= Padded(len) /\ Padded(len) <= 1520
           /\ TxFsize(len) = Padded(len) + 2
           /\ WriteBody(len) \in Nat
           /\ Padded(len) + 2 <= WriteBody(len) /\ WriteBody(len) <= Padded(len) + 5
  <1>1. Padded(len) \in Nat /\ len <= Padded(len) /\ Padded(len) <= 1520
    BY DEF Padded, Writable, MaxEthFrame
  <1>2. U16(Padded(len) + HeaderLen) = Padded(len) + 2
    BY <1>1 DEF U16, HeaderLen
  <1>3. /\ Round4(Padded(len) + 2) \in Nat
        /\ Padded(len) + 2 <= Round4(Padded(len) + 2)
        /\ Round4(Padded(len) + 2) <= Padded(len) + 5
    <2>1. PICK n \in Nat : n = Padded(len) + 2 /\ n <= 60000
      BY <1>1
    <2>2. Round4(n) \in Nat /\ n <= Round4(n) /\ Round4(n) <= n + 3
      BY <2>1, RoundsUp
    <2>. QED  BY <1>1, <2>1, <2>2
  <1>. QED  BY <1>1, <1>2, <1>3 DEF TxFsize, WriteBody, HeaderLen

(* What adin2111_read_frame makes of a length it accepts.                  *)
LEMMA ReadSizes ==
    ASSUME NEW fsize \in Nat, GoodFsize(fsize)
    PROVE  /\ 6 <= fsize /\ fsize <= 1526
           /\ EthLen(fsize) = fsize - 6
           /\ ReadBody(fsize) \in Nat
           /\ fsize <= ReadBody(fsize) /\ ReadBody(fsize) <= fsize + 3
  <1>1. 6 <= fsize /\ fsize <= 1526
    BY DEF GoodFsize, HeaderLen, FcsLen, MaxEthFrame
  <1>2. EthLen(fsize) = fsize - 6 /\ U16(fsize) = fsize
    BY <1>1 DEF EthLen, U16, HeaderLen, FcsLen
  <1>3. Round4(fsize) \in Nat /\ fsize <= Round4(fsize) /\ Round4(fsize) <= fsize + 3
    BY <1>1, RoundsUp
  <1>. QED  BY <1>1, <1>2, <1>3 DEF ReadBody

(* Every burst for a frame of legal length fits into the scratch buffers of*)
(* adin_fifo_write and adin_fifo_read and, if written, into the sink of the*)
(* DMA port, with and without the CRC byte: the bursts never end in        *)
(* ERR_TOOBIG, although three files size these buffers independently.      *)
THEOREM BurstsFit ==
    ASSUME NEW crc \in BOOLEAN
    PROVE  /\ \A len \in Uint16 : Writable(len) =>
                /\ Fits(WriteBurst(crc, WriteBody(len)))
                /\ WriteBurst(crc, WriteBody(len)) <= XferMax
           /\ \A fsize \in Nat : GoodFsize(fsize) =>
                Fits(ReadBurst(crc, ReadBody(fsize)))
  <1>1. CommandLen(crc) \in 2..3
    BY DEF CommandLen
  <1>2. ASSUME NEW len \in Uint16, Writable(len)
        PROVE  /\ Fits(WriteBurst(crc, WriteBody(len)))
               /\ WriteBurst(crc, WriteBody(len)) <= XferMax
    <2>1. len \in Nat
      BY DEF Uint16
    <2>2. WriteBody(len) \in Nat /\ WriteBody(len) <= 1525
      BY <1>2, <2>1, WrittenBody
    <2>. QED  BY <1>1, <2>2 DEF Fits, WriteBurst, MaxBurst, XferMax, MaxFrameLen
  <1>3. ASSUME NEW fsize \in Nat, GoodFsize(fsize)
        PROVE  Fits(ReadBurst(crc, ReadBody(fsize)))
    <2>1. ReadBody(fsize) \in Nat /\ ReadBody(fsize) <= 1529
      BY <1>3, ReadSizes
    <2>. QED  BY <1>1, <2>1 DEF Fits, ReadBurst, MaxBurst
  <1>. QED  BY <1>2, <1>3

(* No byte of a frame is cut off, and none that was not transferred is     *)
(* handed out: the copy to the caller stays within the body just read, so  *)
(* that nothing left over in the static scratch buffer reaches the host,   *)
(* and within the caller's buffer, so that ERR_TOOBIG does not occur here. *)
THEOREM CopiesStayInside ==
    /\ \A len \in Uint16 : Writable(len) =>
         HeaderLen + len <= WriteBody(len) /\ TxFsize(len) <= WriteBody(len)
    /\ \A fsize \in Nat : GoodFsize(fsize) =>
         /\ HeaderLen + EthLen(fsize) + FcsLen <= ReadBody(fsize)
         /\ EthLen(fsize) <= MaxFrameLen
  <1>1. ASSUME NEW len \in Uint16, Writable(len)
        PROVE  HeaderLen + len <= WriteBody(len) /\ TxFsize(len) <= WriteBody(len)
    <2>1. len \in Nat
      BY DEF Uint16
    <2>. QED  BY <1>1, <2>1, WrittenBody DEF HeaderLen
  <1>2. ASSUME NEW fsize \in Nat, GoodFsize(fsize)
        PROVE  /\ HeaderLen + EthLen(fsize) + FcsLen <= ReadBody(fsize)
               /\ EthLen(fsize) <= MaxFrameLen
    BY <1>2, ReadSizes DEF HeaderLen, FcsLen, MaxFrameLen
  <1>. QED  BY <1>1, <1>2

(* Two bridges agree: what one can write, the other accepts and hands out  *)
(* at its length, or, if it was a runt, padded to 60 bytes.                *)
THEOREM PeersAgree ==
    ASSUME NEW len \in Uint16, Writable(len)
    PROVE  GoodFsize(PeerFsize(len)) /\ EthLen(PeerFsize(len)) = Padded(len)
  <1>1. len \in Nat
    BY DEF Uint16
  <1>2. Padded(len) \in Nat /\ Padded(len) <= 1520 /\ TxFsize(len) = Padded(len) + 2
    BY <1>1, WrittenBody
  <1>3. PeerFsize(len) = Padded(len) + 6
    BY <1>2 DEF PeerFsize, FcsLen
  <1>4. GoodFsize(PeerFsize(len))
    BY <1>2, <1>3 DEF GoodFsize, HeaderLen, FcsLen, MaxEthFrame
  <1>5. EthLen(PeerFsize(len)) = PeerFsize(len) - 6
    BY <1>2, <1>3, <1>4, ReadSizes
  <1>. QED  BY <1>2, <1>3, <1>4, <1>5

(* The host may send frames up to NET_MAX_FRAME_LEN, the driver writes up  *)
(* to ADIN_MAX_ETH_FRAME: those in between, and only those, are refused    *)
(* with ERR_PARAM, which net_tx_task does not retry.                       *)
THEOREM RefusedLengths ==
    \A len \in Submitted : ~Writable(len) <=> len \in 1521..1536
  BY DEF Submitted, Writable, MaxEthFrame, MaxFrameLen
=============================================================================
