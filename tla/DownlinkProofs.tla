--------------------------- MODULE DownlinkProofs ---------------------------
(* Proofs about Downlink, for every pool size and every alternate setting. *)
EXTENDS Downlink, FiniteSetTheorems, SequenceTheorems, TLAPS

-----------------------------------------------------------------------------
(* Type correctness *)

(* What net_tx_task goes on to after a port is served is well typed. *)
LEMMA PortDoneType ==
    ASSUME TypeOK, PortDone, txPorts # << >>, txPc \in {"write", "delay"},
           UNCHANGED txFrame
    PROVE  /\ txPorts' \in Seq(Ports)
           /\ attempt' \in 0..Attempts
           /\ txPc' \in {"write", "free"}
           /\ txPc' = "write" => txPorts' # << >> /\ attempt' < Attempts
  <1>1. attempt' = 0 /\ 0 < Attempts /\ Attempts \in Nat
    BY FramesAssumption DEF PortDone
  <1>2. txPorts' = Tail(txPorts) /\ txPorts \in Seq(Ports)
    BY DEF PortDone, TypeOK
  <1>3. /\ txPorts' \in Seq(Ports)
        /\ Len(txPorts') = Len(txPorts) - 1
    BY <1>2, HeadTailProperties
  <1>4. Len(txPorts) # 1 => txPorts' # << >>
    BY <1>3, EmptySeq
  <1>. QED  BY <1>1, <1>3, <1>4 DEF PortDone

(* Every step keeps the variables in range. *)
LEMMA TypeStep == TypeOK /\ [Next]_vars => TypeOK'
  <1>. SUFFICES ASSUME TypeOK, [Next]_vars PROVE TypeOK'
    OBVIOUS
  <1>. USE FramesAssumption, AltAssumption
  <1>1. CASE Configure
    BY <1>1 DEF Configure, SessionConfigure, TypeOK, SessionTypeOK, poolVars, txVars
  <1>2. ASSUME NEW alt \in AltSettings, SetInterface(alt) PROVE TypeOK'
    <2>1. CASE alt = 1
      BY <1>2, <2>1 DEF SetInterface, SessionSetInterface, OpenDataEndpoints,
         TypeOK, SessionTypeOK, txVars
    <2>2. CASE alt # 1
      BY <1>2, <2>2 DEF SetInterface, SessionSetInterface, CloseDataEndpoints,
         TypeOK, SessionTypeOK, txVars
    <2>. QED  BY <2>1, <2>2
  <1>3. CASE Reset
    BY <1>3 DEF Reset, SessionReset, CloseDataEndpoints, TypeOK, SessionTypeOK, txVars
  <1>4. CASE OutPacket
    BY <1>4 DEF OutPacket, TypeOK, SessionTypeOK, sessionVars, txVars, Torn
  <1>5. CASE DataOutEmpty
    BY <1>5 DEF DataOutEmpty, TypeOK, SessionTypeOK, sessionVars, txVars
  <1>6. CASE DataOut
    <2>1. CASE free = {} /\ armed' = outFrame /\ UNCHANGED <<free, outFrame, toAdin>>
      BY <1>6, <2>1 DEF DataOut, TypeOK, SessionTypeOK, sessionVars, txVars
    <2>2. ASSUME NEW next \in free, Submit(outFrame, free \ {next}),
                 outFrame' = next, armed' = next
          PROVE TypeOK'
      <3>1. outFrame \in Frames /\ toAdin \in Seq(Frames) /\ free \subseteq Frames
        BY <1>6 DEF DataOut, TypeOK
      <3>2. Append(toAdin, outFrame) \in Seq(Frames)
        BY <3>1, AppendProperties
      <3>3. toAdin' \in Seq(Frames) /\ free' \subseteq Frames
        BY <2>2, <3>1, <3>2 DEF Submit
      <3>. QED
        BY <1>6, <2>2, <3>3 DEF DataOut, TypeOK, SessionTypeOK, sessionVars, txVars
    <2>. QED  BY <1>6, <2>1, <2>2 DEF DataOut
  <1>7. CASE TxReceive
    <2>1. Head(toAdin) \in Frames /\ Tail(toAdin) \in Seq(Frames)
      BY <1>7 DEF TxReceive, TypeOK
    <2>. QED  BY <1>7, <2>1 DEF TxReceive, TypeOK, SessionTypeOK, sessionVars
  <1>8. CASE TxRoute
    <2>1. txPorts' \in {<<1>>, <<2>>, <<1, 2>>}
      BY <1>8 DEF TxRoute, Routes
    <2>2. /\ <<1>> \in Seq(Ports) /\ <<1>> # << >>
          /\ <<2>> \in Seq(Ports) /\ <<2>> # << >>
          /\ <<1, 2>> \in Seq(Ports) /\ <<1, 2>> # << >>
      BY DEF Ports
    <2>3. txPorts' \in Seq(Ports) /\ txPorts' # << >>
      BY <2>1, <2>2
    <2>. QED  BY <1>8, <2>3 DEF TxRoute, TypeOK, SessionTypeOK, sessionVars, poolVars
  <1>9. ASSUME txPc = "write", wire' = wire \/ Emitted(Head(txPorts)), PortDone,
               UNCHANGED <<sessionVars, poolVars, txFrame, sent>>
        PROVE  TypeOK'
    <2>1. txPorts # << >> /\ txFrame \in Frames
      BY <1>9 DEF TypeOK
    <2>2. data[txFrame] \in Nat
      BY <2>1 DEF TypeOK
    <2>3. wire' \in [Ports -> Seq(Nat)]
      <3>1. Head(txPorts) \in Ports
        BY <2>1, HeadTailProperties DEF TypeOK
      <3>2. Append(wire[Head(txPorts)], data[txFrame]) \in Seq(Nat)
        BY <2>2, <3>1, AppendProperties DEF TypeOK
      <3>. QED  BY <1>9, <3>2 DEF Emitted, TypeOK
    <2>. QED
      BY <1>9, <2>1, <2>3, PortDoneType DEF TypeOK, SessionTypeOK, sessionVars, poolVars
  <1>10. CASE TxWriteOk
    BY <1>9, <1>10 DEF TxWriteOk
  <1>11. CASE TxWriteError
    BY <1>9, <1>11 DEF TxWriteError
  <1>12. CASE TxNoSpace
    BY <1>12 DEF TxNoSpace, TypeOK, SessionTypeOK, sessionVars, poolVars
  <1>13. CASE TxDelayOver
    <2>1. CASE attempt < Attempts
      BY <1>13, <2>1 DEF TxDelayOver, TypeOK, SessionTypeOK, sessionVars, poolVars
    <2>2. CASE ~(attempt < Attempts)
      <3>1. PortDone /\ txPorts # << >> /\ txPc = "delay" /\ UNCHANGED txFrame
        BY <1>13, <2>2 DEF TxDelayOver, TypeOK
      <3>. QED
        BY <1>13, <3>1, PortDoneType
        DEF TxDelayOver, TypeOK, SessionTypeOK, sessionVars, poolVars
    <2>. QED  BY <2>1, <2>2
  <1>14. CASE TxFree
    BY <1>14 DEF TxFree, TypeOK, SessionTypeOK, sessionVars
  <1>15. CASE UNCHANGED vars
    BY <1>15 DEF vars, sessionVars, poolVars, txVars, TypeOK, SessionTypeOK
  <1>. QED
    BY <1>1, <1>2, <1>3, <1>4, <1>5, <1>6, <1>7, <1>8, <1>10, <1>11, <1>12, <1>13,
       <1>14, <1>15 DEF Next, UsbInterrupt, TxTask

(* The variables of the downlink stay in range, and net_tx_task holds a    *)
(* buffer and a route exactly where its control flow says it does.         *)
THEOREM TypeCorrect == Spec => []TypeOK
  <1>1. Init => TypeOK
    <2>. SUFFICES ASSUME Init PROVE TypeOK
      OBVIOUS
    <2>1. wire \in [Ports -> Seq(Nat)] /\ toAdin \in Seq(Frames) /\ txPorts \in Seq(Ports)
      BY EmptySeq DEF Init
    <2>2. data \in [Frames -> Nat]
      BY DEF Init, Torn
    <2>3. SessionTypeOK
      BY AltAssumption DEF Init, SessionInit, SessionTypeOK
    <2>. QED  BY <2>1, <2>2, <2>3, FramesAssumption DEF Init, TypeOK
  <1>. QED  BY <1>1, TypeStep, PTL DEF Spec

-----------------------------------------------------------------------------
(* The armed endpoint *)

(* The inductive form of ReadyIsArmed: the endpoint is armed with          *)
(* s_out_frame exactly while the data interface is active, and a closed    *)
(* interface leaves a buffer in the pool for the next ecm_open_data_eps.   *)
ArmedInv ==
    /\ SessionCoherent
    /\ ready = (outFrame # NoFrame)
    /\ armed = outFrame
    /\ outFrame = NoFrame => free # {}

LEMMA ArmedInit == Init => ArmedInv
  BY FramesAssumption DEF Init, SessionInit, ArmedInv, SessionCoherent

LEMMA ArmedStep == TypeOK /\ ArmedInv /\ [Next]_vars => ArmedInv'
  <1>. SUFFICES ASSUME TypeOK, ArmedInv, [Next]_vars PROVE ArmedInv'
    OBVIOUS
  <1>. USE FramesAssumption
  <1>1. CASE Configure
    <2>1. ~configured /\ configured' = TRUE /\ pdev' = TRUE /\ dataAlt' = 0 /\ ready' = FALSE
      BY <1>1 DEF Configure, SessionConfigure
    <2>2. UNCHANGED <<free, outFrame, armed>>
      BY <1>1 DEF Configure, poolVars
    <2>3. outFrame = NoFrame
      BY <2>1 DEF ArmedInv, SessionCoherent
    <2>4. SessionCoherent'
      <3>1. dataAlt' # 1
        BY <2>1
      <3>. QED  BY <2>1, <3>1, Zenon DEF SessionCoherent
    <2>5. ready' = (outFrame' # NoFrame) /\ armed' = outFrame'
      BY <2>1, <2>2, <2>3 DEF ArmedInv
    <2>6. outFrame' = NoFrame => free' # {}
      BY <2>2 DEF ArmedInv
    <2>. QED  BY <2>4, <2>5, <2>6 DEF ArmedInv
  <1>2. ASSUME NEW alt \in AltSettings, SetInterface(alt) PROVE ArmedInv'
    <2>1. CASE alt = 1
      <3>1. outFrame = NoFrame /\ free # {}
        BY <1>2, <2>1 DEF SetInterface, SessionSetInterface, ArmedInv, SessionCoherent
      <3>2. PICK f \in free : outFrame' = f /\ armed' = f
        BY <1>2, <2>1, <3>1 DEF SetInterface, OpenDataEndpoints
      <3>3. f # NoFrame
        BY <3>2 DEF TypeOK
      <3>. QED
        BY <1>2, <2>1, <3>2, <3>3
        DEF SetInterface, SessionSetInterface, ArmedInv, SessionCoherent, TypeOK, SessionTypeOK
    <2>2. CASE alt # 1
      BY <1>2, <2>2 DEF SetInterface, SessionSetInterface, CloseDataEndpoints,
         ArmedInv, SessionCoherent, TypeOK, SessionTypeOK
    <2>. QED  BY <2>1, <2>2
  <1>3. CASE Reset
    BY <1>3 DEF Reset, SessionReset, CloseDataEndpoints, ArmedInv, SessionCoherent
  <1>4. CASE OutPacket
    BY <1>4 DEF OutPacket, ArmedInv, SessionCoherent, sessionVars
  <1>5. CASE DataOutEmpty
    BY <1>5 DEF DataOutEmpty, ArmedInv, SessionCoherent, sessionVars
  <1>6. CASE DataOut
    <2>1. outFrame # NoFrame /\ UNCHANGED sessionVars
      BY <1>6 DEF DataOut
    <2>2. outFrame' # NoFrame /\ armed' = outFrame'
      BY <1>6 DEF DataOut, TypeOK
    <2>. QED  BY <2>1, <2>2 DEF ArmedInv, SessionCoherent, sessionVars
  <1>7. CASE TxFree
    BY <1>7 DEF TxFree, ArmedInv, SessionCoherent, sessionVars
  <1>8. CASE TxReceive \/ TxRoute \/ TxWriteOk \/ TxWriteError \/ TxNoSpace \/ TxDelayOver
    BY <1>8 DEF TxReceive, TxRoute, TxWriteOk, TxWriteError, TxNoSpace, TxDelayOver,
       ArmedInv, SessionCoherent, sessionVars, poolVars
  <1>9. CASE UNCHANGED vars
    BY <1>9 DEF vars, sessionVars, poolVars, ArmedInv, SessionCoherent
  <1>. QED
    BY <1>1, <1>2, <1>3, <1>4, <1>5, <1>6, <1>7, <1>8, <1>9 DEF Next, UsbInterrupt, TxTask

LEMMA ArmedAlways == Spec => []ArmedInv
  BY TypeCorrect, ArmedInit, ArmedStep, PTL DEF Spec

(* Reception never stops while the host has the data interface active.     *)
THEOREM AlwaysArmed == Spec => []ReadyIsArmed
  <1>1. ArmedInv => ReadyIsArmed
    BY DEF ArmedInv, ReadyIsArmed
  <1>. QED  BY <1>1, ArmedAlways, PTL

-----------------------------------------------------------------------------
(* Ownership *)

(* The elements of a queue after an append and after a receive.            *)
LEMMA QueuedAppend ==
    ASSUME toAdin \in Seq(Frames), NEW f \in Frames, toAdin' = Append(toAdin, f)
    PROVE  /\ Queued' = Queued \cup {f}
           /\ (\A i, j \in DOMAIN toAdin : toAdin[i] = toAdin[j] => i = j) /\ f \notin Queued
              => \A i, j \in DOMAIN toAdin' : toAdin'[i] = toAdin'[j] => i = j
  <1>1. /\ toAdin' \in Seq(Frames)
        /\ Len(toAdin') = Len(toAdin) + 1
        /\ \A i \in 1..Len(toAdin) : toAdin'[i] = toAdin[i]
        /\ toAdin'[Len(toAdin) + 1] = f
    BY AppendProperties
  <1>2. /\ Len(toAdin) \in Nat
        /\ DOMAIN toAdin = 1..Len(toAdin)
        /\ DOMAIN toAdin' = 1..(Len(toAdin) + 1)
    BY <1>1, LenProperties
  <1>. QED  BY <1>1, <1>2 DEF Queued

LEMMA QueuedTail ==
    ASSUME toAdin \in Seq(Frames), toAdin # << >>, toAdin' = Tail(toAdin)
    PROVE  /\ Queued' \subseteq Queued
           /\ Head(toAdin) \in Queued
           /\ (\A i, j \in DOMAIN toAdin : toAdin[i] = toAdin[j] => i = j)
              => /\ \A i, j \in DOMAIN toAdin' : toAdin'[i] = toAdin'[j] => i = j
                 /\ Head(toAdin) \notin Queued'
  <1>1. /\ toAdin' \in Seq(Frames)
        /\ Len(toAdin') = Len(toAdin) - 1
        /\ \A i \in 1..Len(toAdin') : toAdin'[i] = toAdin[i + 1]
    BY HeadTailProperties
  <1>2. /\ Len(toAdin) \in Nat \ {0}
        /\ DOMAIN toAdin = 1..Len(toAdin)
        /\ DOMAIN toAdin' = 1..(Len(toAdin) - 1)
    BY <1>1, LenProperties, EmptySeq
  <1>3. Head(toAdin) = toAdin[1]
    OBVIOUS
  <1>. QED  BY <1>1, <1>2, <1>3 DEF Queued

LEMMA OwnerStep == TypeOK /\ ArmedInv /\ Disjoint /\ [Next]_vars => Disjoint'
  <1>. SUFFICES ASSUME TypeOK, ArmedInv, Disjoint, [Next]_vars PROVE Disjoint'
    OBVIOUS
  <1>. USE FramesAssumption
  <1>0. Queued \subseteq Frames
    BY LenProperties, ElementOfSeq DEF Queued, TypeOK
  <1>1. CASE Configure \/ OutPacket \/ DataOutEmpty \/ TxRoute \/ TxWriteOk
             \/ TxWriteError \/ TxNoSpace \/ TxDelayOver \/ UNCHANGED vars
    <2>1. UNCHANGED <<free, outFrame, toAdin, txFrame>>
      BY <1>1 DEF Configure, OutPacket, DataOutEmpty, TxRoute, TxWriteOk, TxWriteError,
         TxNoSpace, TxDelayOver, vars, poolVars, txVars
    <2>. QED  BY <2>1 DEF Disjoint, Queued
  <1>2. ASSUME UNCHANGED <<toAdin, txFrame>>, CloseDataEndpoints PROVE Disjoint'
    BY <1>0, <1>2 DEF CloseDataEndpoints, Disjoint, Queued, TypeOK
  <1>3. ASSUME NEW alt \in AltSettings, SetInterface(alt) PROVE Disjoint'
    <2>1. CASE alt = 1
      <3>1. outFrame = NoFrame /\ free # {}
        BY <1>3, <2>1 DEF SetInterface, SessionSetInterface, ArmedInv, SessionCoherent
      <3>2. PICK f \in free : free' = free \ {f} /\ outFrame' = f
        BY <1>3, <2>1, <3>1 DEF SetInterface, OpenDataEndpoints
      <3>3. UNCHANGED <<toAdin, txFrame>>
        BY <1>3 DEF SetInterface, txVars
      <3>. QED  BY <3>2, <3>3 DEF Disjoint, Queued
    <2>2. CASE alt # 1
      BY <1>2, <1>3, <2>2 DEF SetInterface, txVars
    <2>. QED  BY <2>1, <2>2
  <1>4. CASE Reset
    BY <1>2, <1>4 DEF Reset, txVars
  <1>5. CASE DataOut
    <2>1. CASE free = {} /\ armed' = outFrame /\ UNCHANGED <<free, outFrame, toAdin>>
      BY <1>5, <2>1 DEF DataOut, txVars, Disjoint, Queued
    <2>2. ASSUME NEW next \in free, Submit(outFrame, free \ {next}), outFrame' = next
          PROVE  Disjoint'
      <3>1. txFrame' = txFrame /\ outFrame \in Frames /\ toAdin \in Seq(Frames)
        BY <1>5 DEF DataOut, txVars, TypeOK
      <3>2. CASE Len(toAdin) < QueueLength
        <4>1. free' = free \ {next} /\ toAdin' = Append(toAdin, outFrame)
          BY <2>2, <3>2 DEF Submit
        <4>2. /\ Queued' = Queued \cup {outFrame}
              /\ \A i, j \in DOMAIN toAdin' : toAdin'[i] = toAdin'[j] => i = j
          BY <3>1, <4>1, QueuedAppend DEF Disjoint
        <4>. QED  BY <2>2, <3>1, <4>1, <4>2 DEF Disjoint, TypeOK
      <3>3. CASE ~(Len(toAdin) < QueueLength)
        BY <2>2, <3>1, <3>3 DEF Submit, Disjoint, Queued
      <3>. QED  BY <3>2, <3>3
    <2>. QED  BY <1>5, <2>1, <2>2 DEF DataOut
  <1>6. CASE TxReceive
    <2>1. /\ UNCHANGED <<free, outFrame>> /\ toAdin \in Seq(Frames) /\ toAdin # << >>
          /\ toAdin' = Tail(toAdin) /\ txFrame' = Head(toAdin)
      BY <1>6 DEF TxReceive, TypeOK
    <2>2. /\ Queued' \subseteq Queued
          /\ Head(toAdin) \in Queued \ Queued'
          /\ \A i, j \in DOMAIN toAdin' : toAdin'[i] = toAdin'[j] => i = j
      BY <2>1, QueuedTail DEF Disjoint
    <2>. QED  BY <2>1, <2>2 DEF Disjoint
  <1>7. CASE TxFree
    <2>1. txFrame \in Frames
      BY <1>7 DEF TxFree, TypeOK
    <2>. QED  BY <1>0, <1>7, <2>1 DEF TxFree, Disjoint, Queued, TypeOK
  <1>. QED
    BY <1>1, <1>3, <1>4, <1>5, <1>6, <1>7 DEF Next, UsbInterrupt, TxTask

LEMMA DisjointAlways == Spec => []Disjoint
  <1>1. Init => Disjoint
    BY FramesAssumption DEF Init, Disjoint, Queued
  <1>. QED  BY <1>1, TypeCorrect, ArmedAlways, OwnerStep, PTL DEF Spec

(* No buffer is ever in two hands: not queued twice, not free while in     *)
(* use, and the endpoint writes into s_out_frame alone, never into what    *)
(* net_tx_task reads.                                                      *)
THEOREM Ownership == Spec => []OneOwner
  <1>1. ArmedInv /\ Disjoint => OneOwner
    BY DEF ArmedInv, OneOwner
  <1>. QED  BY <1>1, ArmedAlways, DisjointAlways, PTL

-----------------------------------------------------------------------------
(* Conservation *)

LEMMA CountAdd ==
    ASSUME NEW S \in SUBSET Frames, NEW f \in Frames, f \notin S
    PROVE  Cardinality(S) \in Nat /\ Cardinality(S \cup {f}) = Cardinality(S) + 1
  BY FramesAssumption, FS_Subset, FS_AddElement, FS_CardinalityType

LEMMA CountRemove ==
    ASSUME NEW S \in SUBSET Frames, NEW f \in S
    PROVE  Cardinality(S) \in Nat /\ Cardinality(S \ {f}) = Cardinality(S) - 1
  BY FramesAssumption, FS_Subset, FS_RemoveElement, FS_CardinalityType

LEMMA CountedStep ==
    TypeOK /\ ArmedInv /\ Disjoint /\ Counted /\ [Next]_vars => Counted'
  <1>. SUFFICES ASSUME TypeOK, ArmedInv, Disjoint, Counted, [Next]_vars
                PROVE  Counted'
    OBVIOUS
  <1>. USE FramesAssumption
  <1>0. /\ Cardinality(free) \in Nat /\ Len(toAdin) \in Nat
        /\ \A f : Held(f) \in Nat
        /\ Held(NoFrame) = 0 /\ \A f \in Frames : Held(f) = 1
    BY FS_Subset, FS_CardinalityType, LenProperties DEF TypeOK, Held
  <1>1. CASE Configure \/ OutPacket \/ DataOutEmpty \/ TxRoute \/ TxWriteOk
             \/ TxWriteError \/ TxNoSpace \/ TxDelayOver \/ UNCHANGED vars
    <2>1. UNCHANGED <<free, outFrame, toAdin, txFrame>>
      BY <1>1 DEF Configure, OutPacket, DataOutEmpty, TxRoute, TxWriteOk, TxWriteError,
         TxNoSpace, TxDelayOver, vars, poolVars, txVars
    <2>. QED  BY <2>1 DEF Counted
  <1>2. ASSUME UNCHANGED <<toAdin, txFrame>>, CloseDataEndpoints PROVE Counted'
    <2>1. CASE outFrame = NoFrame
      <3>1. free' = free /\ outFrame' = outFrame
        BY <1>2, <2>1 DEF CloseDataEndpoints
      <3>. QED  BY <1>2, <3>1 DEF Counted
    <2>2. CASE outFrame # NoFrame
      <3>1. free' = free \cup {outFrame} /\ outFrame' = NoFrame
        BY <1>2, <2>2 DEF CloseDataEndpoints
      <3>2. Cardinality(free') = Cardinality(free) + 1 /\ Held(outFrame) = 1
        BY <1>0, <2>2, <3>1, CountAdd DEF Disjoint, TypeOK
      <3>. QED  BY <1>0, <1>2, <3>1, <3>2 DEF Counted
    <2>. QED  BY <2>1, <2>2
  <1>3. ASSUME NEW alt \in AltSettings, SetInterface(alt) PROVE Counted'
    <2>1. CASE alt = 1
      <3>1. outFrame = NoFrame /\ free # {} /\ UNCHANGED <<toAdin, txFrame>>
        BY <1>3, <2>1 DEF SetInterface, SessionSetInterface, ArmedInv, SessionCoherent, txVars
      <3>2. PICK f \in free : free' = free \ {f} /\ outFrame' = f
        BY <1>3, <2>1, <3>1 DEF SetInterface, OpenDataEndpoints
      <3>3. Cardinality(free') = Cardinality(free) - 1 /\ Held(outFrame') = 1
        BY <1>0, <3>2, CountRemove DEF TypeOK
      <3>. QED  BY <1>0, <3>1, <3>3 DEF Counted
    <2>2. CASE alt # 1
      BY <1>2, <1>3, <2>2 DEF SetInterface, txVars
    <2>. QED  BY <2>1, <2>2
  <1>4. CASE Reset
    BY <1>2, <1>4 DEF Reset, txVars
  <1>5. CASE DataOut
    <2>1. CASE free = {} /\ armed' = outFrame /\ UNCHANGED <<free, outFrame, toAdin>>
      BY <1>5, <2>1 DEF DataOut, txVars, Counted
    <2>2. ASSUME NEW next \in free, Submit(outFrame, free \ {next}), outFrame' = next
          PROVE  Counted'
      <3>1. txFrame' = txFrame /\ outFrame \in Frames /\ toAdin \in Seq(Frames)
        BY <1>5 DEF DataOut, txVars, TypeOK
      <3>2. Cardinality(free \ {next}) = Cardinality(free) - 1
        BY <2>2, CountRemove DEF TypeOK
      <3>3. Held(outFrame) = 1 /\ Held(outFrame') = 1
        BY <1>0, <2>2, <3>1 DEF TypeOK
      <3>4. CASE Len(toAdin) < QueueLength
        <4>1. free' = free \ {next} /\ Len(toAdin') = Len(toAdin) + 1
          BY <2>2, <3>1, <3>4, AppendProperties DEF Submit
        <4>. QED  BY <1>0, <3>1, <3>2, <3>3, <4>1 DEF Counted
      <3>5. CASE ~(Len(toAdin) < QueueLength)
        <4>1. free' = (free \ {next}) \cup {outFrame} /\ toAdin' = toAdin
          BY <2>2, <3>5 DEF Submit
        <4>2. Cardinality(free') = Cardinality(free \ {next}) + 1
          BY <3>1, <4>1, CountAdd DEF Disjoint, TypeOK
        <4>. QED  BY <1>0, <3>1, <3>2, <3>3, <4>1, <4>2 DEF Counted
      <3>. QED  BY <3>4, <3>5
    <2>. QED  BY <1>5, <2>1, <2>2 DEF DataOut
  <1>6. CASE TxReceive
    <2>1. /\ UNCHANGED <<free, outFrame>> /\ toAdin \in Seq(Frames) /\ toAdin # << >>
          /\ toAdin' = Tail(toAdin) /\ txFrame = NoFrame /\ txFrame' = Head(toAdin)
      BY <1>6 DEF TxReceive, TypeOK
    <2>2. Len(toAdin') = Len(toAdin) - 1 /\ Head(toAdin) \in Frames
      BY <2>1, HeadTailProperties
    <2>. QED  BY <1>0, <2>1, <2>2 DEF Counted
  <1>7. CASE TxFree
    <2>1. /\ UNCHANGED <<toAdin, outFrame>> /\ txFrame \in Frames \ free
          /\ free' = free \cup {txFrame} /\ txFrame' = NoFrame
      BY <1>7 DEF TxFree, TypeOK, Disjoint
    <2>2. Cardinality(free') = Cardinality(free) + 1
      BY <2>1, CountAdd DEF TypeOK
    <2>. QED  BY <1>0, <2>1, <2>2 DEF Counted
  <1>. QED
    BY <1>1, <1>3, <1>4, <1>5, <1>6, <1>7 DEF Next, UsbInterrupt, TxTask

LEMMA CountedAlways == Spec => []Counted
  <1>1. Init => Counted
    BY FramesAssumption, FS_CardinalityType DEF Init, Counted, Held, PoolSize
  <1>. QED  BY <1>1, TypeCorrect, ArmedAlways, DisjointAlways, CountedStep, PTL DEF Spec

(* No sequence of transfers, bus resets and setting changes loses a buffer *)
(* of the transmit pool; and s_to_adin_q, created as long as the pool, is  *)
(* never full when ECM_DataOut submits: its drop branch is unreachable.    *)
THEOREM NothingLost == Spec => []Conservation
  <1>1. TypeOK /\ Counted => Conservation
    <2>. SUFFICES ASSUME TypeOK, Counted, outFrame # NoFrame, free # {}
                  PROVE  Len(toAdin) < QueueLength
      BY DEF Conservation
    <2>1. PICK f \in free : TRUE
      OBVIOUS
    <2>2. Cardinality(free) \in Nat /\ Cardinality(free \ {f}) = Cardinality(free) - 1
      BY CountRemove DEF TypeOK
    <2>3. Cardinality(free \ {f}) \in Nat
      BY FramesAssumption, FS_Subset, FS_CardinalityType DEF TypeOK
    <2>4. Len(toAdin) \in Nat /\ Held(outFrame) = 1 /\ Held(txFrame) \in {0, 1}
      BY LenProperties DEF TypeOK, Held
    <2>. QED  BY <2>2, <2>3, <2>4 DEF Counted, QueueLength
  <1>. QED  BY <1>1, TypeCorrect, CountedAlways, PTL

-----------------------------------------------------------------------------
(* Order *)

(* Ports the held frame may still be written to.                           *)
Unserved(p) ==
    \/ txPc = "route"
    \/ txPc \in {"write", "delay"} /\ \E k \in DOMAIN txPorts : txPorts[k] = p

(* The inductive form of InOrder: whole frames everywhere, older ones      *)
(* ahead of younger ones along wire, net_tx_task and queue.                *)
QueueOrder ==
    /\ \A i \in DOMAIN toAdin : data[toAdin[i]] \in 1..sent
    /\ \A i, j \in DOMAIN toAdin : i < j => data[toAdin[i]] < data[toAdin[j]]

TaskOrder ==
    txFrame # NoFrame =>
        /\ data[txFrame] \in 1..sent
        /\ \A i \in DOMAIN toAdin : data[txFrame] < data[toAdin[i]]

WireOrder ==
    \A p \in Ports : \A n \in DOMAIN wire[p] :
        /\ wire[p][n] \in 1..sent
        /\ \A m \in DOMAIN wire[p] : n < m => wire[p][n] < wire[p][m]
        /\ \A i \in DOMAIN toAdin : wire[p][n] < data[toAdin[i]]
        /\ txFrame # NoFrame => wire[p][n] <= data[txFrame]
        /\ Unserved(p) => wire[p][n] < data[txFrame]

RouteOnce ==
    txPc \in {"write", "delay"} =>
        \A k, l \in DOMAIN txPorts : txPorts[k] = txPorts[l] => k = l

OrderInv == QueueOrder /\ TaskOrder /\ WireOrder /\ RouteOnce

(* Going on to the next port: the served one is not among the rest.        *)
LEMMA PortDoneServes ==
    ASSUME TypeOK, RouteOnce, PortDone, txPc \in {"write", "delay"}
    PROVE  /\ RouteOnce'
           /\ \A p \in Ports : p = Head(txPorts) => ~Unserved(p)'
           /\ \A p \in Ports : Unserved(p)' => Unserved(p)
  <1>1. txPorts \in Seq(Ports) /\ txPorts # << >> /\ txPorts' = Tail(txPorts)
    BY DEF TypeOK, PortDone
  <1>2. /\ txPorts' \in Seq(Ports)
        /\ Len(txPorts') = Len(txPorts) - 1
        /\ \A k \in 1..Len(txPorts') : txPorts'[k] = txPorts[k + 1]
    BY <1>1, HeadTailProperties
  <1>3. /\ Len(txPorts) \in Nat \ {0}
        /\ DOMAIN txPorts = 1..Len(txPorts)
        /\ DOMAIN txPorts' = 1..(Len(txPorts) - 1)
    BY <1>1, <1>2, LenProperties, EmptySeq
  <1>4. Head(txPorts) = txPorts[1]
    BY <1>1
  <1>5. \A k, l \in DOMAIN txPorts : txPorts[k] = txPorts[l] => k = l
    BY DEF RouteOnce
  <1>6. txPc' \in {"write", "free"}
    BY DEF PortDone
  <1>7. \A k \in DOMAIN txPorts' : k + 1 \in DOMAIN txPorts /\ 1 \in DOMAIN txPorts /\ k + 1 # 1
    BY <1>3
  <1>8. \A k, l \in DOMAIN txPorts' : txPorts'[k] = txPorts'[l] => k = l
    <2>. SUFFICES ASSUME NEW k \in DOMAIN txPorts', NEW l \in DOMAIN txPorts',
                         txPorts'[k] = txPorts'[l]
                  PROVE  k = l
      OBVIOUS
    <2>1. txPorts[k + 1] = txPorts[l + 1]
      BY <1>2, <1>3
    <2>. QED  BY <1>3, <1>5, <1>7, <2>1
  <1>9. \A k \in DOMAIN txPorts' : txPorts'[k] # Head(txPorts)
    <2>. SUFFICES ASSUME NEW k \in DOMAIN txPorts', txPorts'[k] = Head(txPorts)
                  PROVE  FALSE
      OBVIOUS
    <2>1. txPorts[k + 1] = txPorts[1]
      BY <1>2, <1>3, <1>4
    <2>. QED  BY <1>5, <1>7, <2>1
  <1>10. ASSUME NEW p \in Ports, Unserved(p)' PROVE Unserved(p)
    <2>1. PICK k \in DOMAIN txPorts' : txPorts'[k] = p
      BY <1>6, <1>10 DEF Unserved
    <2>2. txPorts[k + 1] = p /\ k + 1 \in DOMAIN txPorts
      BY <1>2, <1>3, <1>7, <2>1
    <2>. QED  BY <2>2 DEF Unserved
  <1>11. ASSUME NEW p \in Ports, p = Head(txPorts) PROVE ~Unserved(p)'
    BY <1>6, <1>9, <1>11 DEF Unserved
  <1>. QED  BY <1>8, <1>10, <1>11 DEF RouteOnce

(* Steps that touch neither the queue nor the task nor any whole frame.    *)
LEMMA OrderFrame ==
    ASSUME TypeOK, Disjoint, OrderInv,
           UNCHANGED <<toAdin, txPc, txFrame, txPorts, sent, wire>>,
           \A f \in Queued \cup {txFrame} : f # NoFrame => data'[f] = data[f]
    PROVE  OrderInv'
  <1>1. /\ \A i \in DOMAIN toAdin : data'[toAdin[i]] = data[toAdin[i]]
        /\ txFrame # NoFrame => data'[txFrame] = data[txFrame]
    <2>1. \A i \in DOMAIN toAdin : toAdin[i] \in Frames
      BY LenProperties, ElementOfSeq DEF TypeOK
    <2>. QED  BY <2>1, FramesAssumption DEF Queued
  <1>2. \A p : Unserved(p) => txFrame # NoFrame
    BY DEF Unserved, TypeOK
  <1>3. \A p : Unserved(p)' = Unserved(p)
    BY DEF Unserved
  <1>4. QueueOrder' /\ TaskOrder'
    BY <1>1 DEF OrderInv, QueueOrder, TaskOrder
  <1>5. WireOrder'
    BY <1>1, <1>2, <1>3 DEF OrderInv, WireOrder
  <1>6. RouteOnce'
    BY DEF OrderInv, RouteOnce
  <1>. QED  BY <1>4, <1>5, <1>6 DEF OrderInv

LEMMA OrderStep == TypeOK /\ ArmedInv /\ Disjoint /\ OrderInv /\ [Next]_vars => OrderInv'
  <1>. SUFFICES ASSUME TypeOK, ArmedInv, Disjoint, OrderInv, [Next]_vars PROVE OrderInv'
    OBVIOUS
  <1>. USE FramesAssumption
  <1>0. /\ toAdin \in Seq(Frames) /\ Len(toAdin) \in Nat
        /\ DOMAIN toAdin = 1..Len(toAdin)
        /\ \A i \in DOMAIN toAdin : toAdin[i] \in Frames /\ toAdin[i] \in Queued
    BY LenProperties, ElementOfSeq DEF TypeOK, Queued
  <1>1. CASE \/ Configure \/ Reset \/ (\E alt \in AltSettings : SetInterface(alt))
             \/ DataOutEmpty \/ UNCHANGED vars
    <2>1. UNCHANGED <<toAdin, txPc, txFrame, txPorts, sent, wire, data>>
      BY <1>1 DEF Configure, Reset, SetInterface, DataOutEmpty, vars, poolVars, txVars
    <2>. QED  BY <2>1, OrderFrame
  <1>2. CASE OutPacket
    <2>1. UNCHANGED <<toAdin, txPc, txFrame, txPorts, sent, wire>>
      BY <1>2 DEF OutPacket, txVars
    <2>2. armed \notin Queued \cup {txFrame} /\ data' = [data EXCEPT ![armed] = Torn]
      BY <1>2 DEF OutPacket, ArmedInv, Disjoint
    <2>3. \A f \in Queued \cup {txFrame} : f # NoFrame => data'[f] = data[f]
      BY <1>0, <2>2, ElementOfSeq, LenProperties DEF TypeOK, Queued
    <2>. QED  BY <2>1, <2>3, OrderFrame
  <1>3. CASE DataOut
    <2>1. /\ outFrame \in Frames /\ outFrame \notin Queued /\ txFrame # outFrame
          /\ data' = [data EXCEPT ![outFrame] = sent + 1] /\ sent' = sent + 1
          /\ sent \in Nat /\ UNCHANGED <<txPc, txFrame, txPorts, wire>>
          /\ txFrame \in Frames \cup {NoFrame}
      BY <1>3 DEF DataOut, ArmedInv, Disjoint, TypeOK, txVars
    <2>2. /\ \A i \in DOMAIN toAdin : data'[toAdin[i]] = data[toAdin[i]]
          /\ txFrame # NoFrame => data'[txFrame] = data[txFrame]
          /\ data'[outFrame] = sent + 1
      BY <1>0, <2>1 DEF TypeOK
    <2>3. /\ \A p : Unserved(p) => txFrame # NoFrame
          /\ \A p : Unserved(p)' = Unserved(p)
      BY <2>1 DEF Unserved, TypeOK
    <2>4. \A p \in Ports : \A n \in DOMAIN wire[p] : wire[p][n] \in Nat
      BY DEF OrderInv, WireOrder
    <2>5. RouteOnce'
      BY <2>1 DEF OrderInv, RouteOnce
    <2>6. CASE toAdin' = toAdin
      <3>1. QueueOrder' /\ TaskOrder'
        BY <2>1, <2>2, <2>6 DEF OrderInv, QueueOrder, TaskOrder
      <3>2. WireOrder'
        BY <2>1, <2>2, <2>3, <2>4, <2>6 DEF OrderInv, WireOrder
      <3>. QED  BY <2>5, <3>1, <3>2 DEF OrderInv
    <2>7. CASE toAdin' = Append(toAdin, outFrame)
      <3>1. /\ DOMAIN toAdin' = 1..(Len(toAdin) + 1)
            /\ \A i \in 1..Len(toAdin) : toAdin'[i] = toAdin[i]
            /\ toAdin'[Len(toAdin) + 1] = outFrame
        BY <1>0, <2>1, <2>7, AppendProperties, LenProperties
      <3>2. \A i \in DOMAIN toAdin' :
              \/ i \in DOMAIN toAdin /\ data'[toAdin'[i]] = data[toAdin[i]]
              \/ i = Len(toAdin) + 1 /\ data'[toAdin'[i]] = sent + 1
        <4>. SUFFICES ASSUME NEW i \in DOMAIN toAdin'
                      PROVE  \/ i \in DOMAIN toAdin /\ data'[toAdin'[i]] = data[toAdin[i]]
                             \/ i = Len(toAdin) + 1 /\ data'[toAdin'[i]] = sent + 1
          OBVIOUS
        <4>1. i \in DOMAIN toAdin \/ i = Len(toAdin) + 1
          BY <1>0, <3>1
        <4>. QED  BY <1>0, <2>2, <3>1, <4>1
      <3>a. \A i \in DOMAIN toAdin : data[toAdin[i]] \in 1..sent
        BY DEF OrderInv, QueueOrder
      <3>3. QueueOrder'
        <4>1. \A i \in DOMAIN toAdin' : data'[toAdin'[i]] \in 1..(sent + 1)
          BY <2>1, <3>2, <3>a
        <4>2. ASSUME NEW i \in DOMAIN toAdin', NEW j \in DOMAIN toAdin', i < j
              PROVE  data'[toAdin'[i]] < data'[toAdin'[j]]
          <5>1. i \in DOMAIN toAdin /\ data'[toAdin'[i]] = data[toAdin[i]]
            BY <1>0, <3>1, <3>2, <4>2
          <5>2. CASE j \in DOMAIN toAdin /\ data'[toAdin'[j]] = data[toAdin[j]]
            BY <4>2, <5>1, <5>2 DEF OrderInv, QueueOrder
          <5>3. CASE data'[toAdin'[j]] = sent + 1
            BY <2>1, <3>a, <5>1, <5>3
          <5>. QED  BY <3>2, <5>2, <5>3
        <4>. QED  BY <2>1, <4>1, <4>2 DEF QueueOrder
      <3>4. TaskOrder'
        BY <1>0, <2>1, <2>2, <3>1 DEF OrderInv, TaskOrder
      <3>5. WireOrder'
        BY <1>0, <2>1, <2>2, <2>3, <2>4, <3>1 DEF OrderInv, WireOrder
      <3>. QED  BY <2>5, <3>3, <3>4, <3>5 DEF OrderInv
    <2>. QED  BY <1>3, <2>6, <2>7 DEF DataOut, Submit
  <1>4. CASE TxReceive
    <2>1. /\ toAdin # << >> /\ toAdin' = Tail(toAdin) /\ txFrame' = Head(toAdin)
          /\ txPc' = "route" /\ UNCHANGED <<data, sent, wire>>
      BY <1>4 DEF TxReceive
    <2>2. /\ toAdin' \in Seq(Frames) /\ Len(toAdin') = Len(toAdin) - 1
          /\ \A i \in 1..Len(toAdin') : toAdin'[i] = toAdin[i + 1]
      BY <1>0, <2>1, HeadTailProperties
    <2>3. DOMAIN toAdin' = 1..Len(toAdin') /\ 1 \in DOMAIN toAdin /\ Head(toAdin) = toAdin[1]
      BY <1>0, <2>1, <2>2, LenProperties, EmptySeq
    <2>4. \A i \in DOMAIN toAdin' :
            i \in 1..Len(toAdin') /\ i + 1 \in DOMAIN toAdin /\ 1 < i + 1
      BY <1>0, <2>2, <2>3
    <2>5. QueueOrder' /\ TaskOrder'
      BY <2>1, <2>2, <2>3, <2>4 DEF OrderInv, QueueOrder, TaskOrder
    <2>6. WireOrder'
      BY <2>1, <2>2, <2>3, <2>4 DEF OrderInv, WireOrder, QueueOrder
    <2>7. RouteOnce'
      BY <2>1 DEF RouteOnce
    <2>. QED  BY <2>5, <2>6, <2>7 DEF OrderInv
  <1>5. CASE TxRoute
    <2>1. UNCHANGED <<toAdin, data, txFrame, sent, wire>> /\ txPc = "route"
      BY <1>5 DEF TxRoute, poolVars
    <2>2. \A p : Unserved(p)
      BY <2>1 DEF Unserved
    <2>3. QueueOrder' /\ TaskOrder' /\ WireOrder'
      BY <2>1, <2>2 DEF OrderInv, QueueOrder, TaskOrder, WireOrder
    <2>4. RouteOnce'
      <3>1. txPorts' \in {<<1>>, <<2>>, <<1, 2>>}
        BY <1>5 DEF TxRoute, Routes
      <3>. QED  BY <3>1 DEF RouteOnce
    <2>. QED  BY <2>3, <2>4 DEF OrderInv
  <1>6. ASSUME txPc \in {"write", "delay"}, PortDone,
               UNCHANGED <<toAdin, data, txFrame, sent>>,
               wire' = wire \/ (txPc = "write" /\ Emitted(Head(txPorts)))
        PROVE  OrderInv'
    <2>1. /\ RouteOnce'
          /\ \A p \in Ports : p = Head(txPorts) => ~Unserved(p)'
          /\ \A p \in Ports : Unserved(p)' => Unserved(p)
      BY <1>6, PortDoneServes DEF OrderInv
    <2>2. QueueOrder' /\ TaskOrder'
      BY <1>6 DEF OrderInv, QueueOrder, TaskOrder
    <2>3. CASE wire' = wire
      <3>1. WireOrder'
        BY <1>6, <2>1, <2>3 DEF OrderInv, WireOrder
      <3>. QED  BY <2>1, <2>2, <3>1 DEF OrderInv
    <2>4. CASE Emitted(Head(txPorts))
      <3>. DEFINE q == Head(txPorts)
                  d == data[txFrame]
      <3>1. q \in Ports /\ q = txPorts[1] /\ 1 \in DOMAIN txPorts /\ txFrame \in Frames
        BY <1>6, HeadTailProperties, LenProperties, EmptySeq DEF TypeOK
      <3>2. Unserved(q)
        BY <1>6, <3>1 DEF Unserved
      <3>3. /\ d \in 1..sent /\ sent \in Nat
            /\ \A i \in DOMAIN toAdin : d < data[toAdin[i]]
        BY <3>1 DEF OrderInv, TaskOrder, TypeOK
      <3>4. /\ wire[q] \in Seq(Nat) /\ wire' = [wire EXCEPT ![q] = Append(wire[q], d)]
            /\ wire \in [Ports -> Seq(Nat)]
        BY <2>4, <3>1 DEF Emitted, TypeOK
      <3>5. /\ Len(wire[q]) \in Nat /\ DOMAIN wire[q] = 1..Len(wire[q])
            /\ DOMAIN wire'[q] = 1..(Len(wire[q]) + 1)
            /\ \A n \in 1..Len(wire[q]) : wire'[q][n] = wire[q][n]
            /\ wire'[q][Len(wire[q]) + 1] = d
        BY <3>1, <3>3, <3>4, AppendProperties, LenProperties
      <3>6. \A n \in DOMAIN wire[q] : wire[q][n] < d
        BY <3>1, <3>2 DEF OrderInv, WireOrder
      <3>7. \A p \in Ports \ {q} : wire'[p] = wire[p]
        BY <3>4
      <3>8. ASSUME NEW p \in Ports, NEW n \in DOMAIN wire'[p]
            PROVE  /\ wire'[p][n] \in 1..sent
                   /\ \A m \in DOMAIN wire'[p] : n < m => wire'[p][n] < wire'[p][m]
                   /\ \A i \in DOMAIN toAdin : wire'[p][n] < data[toAdin[i]]
                   /\ wire'[p][n] <= d
                   /\ Unserved(p)' => wire'[p][n] < d
        <4>1. CASE p # q
          <5>1. wire'[p] = wire[p]
            BY <3>7, <4>1
          <5>. QED  BY <2>1, <3>1, <5>1 DEF OrderInv, WireOrder
        <4>2. CASE p = q
          <5>1. ~Unserved(p)'
            BY <2>1, <4>2
          <5>2. CASE n \in DOMAIN wire[q]
            <6>1. wire'[p][n] = wire[q][n] /\ wire[q][n] < d
              BY <3>5, <3>6, <4>2, <5>2
            <6>2. /\ wire[q][n] \in 1..sent
                  /\ \A m \in DOMAIN wire[q] : n < m => wire[q][n] < wire[q][m]
                  /\ \A i \in DOMAIN toAdin : wire[q][n] < data[toAdin[i]]
              BY <3>1, <5>2 DEF OrderInv, WireOrder
            <6>3. ASSUME NEW m \in DOMAIN wire'[p], n < m
                  PROVE  wire'[p][n] < wire'[p][m]
              <7>1. m \in DOMAIN wire[q] \/ m = Len(wire[q]) + 1
                BY <3>5, <4>2
              <7>. QED  BY <3>5, <4>2, <6>1, <6>2, <6>3, <7>1
            <6>4. wire'[p][n] <= d
              BY <3>3, <6>1, <6>2
            <6>. QED  BY <5>1, <6>1, <6>2, <6>3, <6>4
          <5>3. CASE n = Len(wire[q]) + 1
            BY <3>3, <3>5, <4>2, <5>1, <5>3
          <5>. QED  BY <3>5, <4>2, <5>2, <5>3
        <4>. QED  BY <4>1, <4>2
      <3>9. WireOrder'
        BY <1>6, <3>8 DEF WireOrder
      <3>. QED  BY <2>1, <2>2, <3>9 DEF OrderInv
    <2>. QED  BY <1>6, <2>3, <2>4
  <1>7. CASE TxWriteOk \/ TxWriteError
    BY <1>6, <1>7 DEF TxWriteOk, TxWriteError, poolVars
  <1>8. CASE TxNoSpace
    <2>1. UNCHANGED <<toAdin, data, txFrame, txPorts, sent, wire>>
          /\ txPc = "write" /\ txPc' = "delay"
      BY <1>8 DEF TxNoSpace, poolVars
    <2>2. \A p : Unserved(p)' = Unserved(p)
      BY <2>1 DEF Unserved
    <2>. QED
      BY <2>1, <2>2 DEF OrderInv, QueueOrder, TaskOrder, WireOrder, RouteOnce
  <1>9. CASE TxDelayOver
    <2>1. CASE attempt < Attempts
      <3>1. UNCHANGED <<toAdin, data, txFrame, txPorts, sent, wire>>
            /\ txPc = "delay" /\ txPc' = "write"
        BY <1>9, <2>1 DEF TxDelayOver, poolVars
      <3>2. \A p : Unserved(p)' = Unserved(p)
        BY <3>1 DEF Unserved
      <3>. QED
        BY <3>1, <3>2 DEF OrderInv, QueueOrder, TaskOrder, WireOrder, RouteOnce
    <2>2. CASE ~(attempt < Attempts)
      BY <1>6, <1>9, <2>2 DEF TxDelayOver, poolVars
    <2>. QED  BY <2>1, <2>2
  <1>10. CASE TxFree
    <2>1. UNCHANGED <<toAdin, data, sent, wire>> /\ txFrame' = NoFrame /\ txPc' = "receive"
      BY <1>10 DEF TxFree
    <2>2. \A p : ~Unserved(p)'
      BY <2>1 DEF Unserved
    <2>. QED
      BY <2>1, <2>2 DEF OrderInv, QueueOrder, TaskOrder, WireOrder, RouteOnce
  <1>. QED
    BY <1>1, <1>2, <1>3, <1>4, <1>5, <1>7, <1>8, <1>9, <1>10 DEF Next, UsbInterrupt, TxTask

LEMMA OrderAlways == Spec => []OrderInv
  <1>1. Init => OrderInv
    BY DEF Init, OrderInv, QueueOrder, TaskOrder, WireOrder, RouteOnce
  <1>. QED  BY <1>1, TypeCorrect, ArmedAlways, DisjointAlways, OrderStep, PTL DEF Spec

(* Each port gets whole frames, in the host's order, each at most once.    *)
THEOREM OrderKept == Spec => []InOrder
  <1>1. TypeOK /\ OrderInv => InOrder
    BY DEF OrderInv, WireOrder, InOrder, Torn, TypeOK
  <1>. QED  BY <1>1, TypeCorrect, OrderAlways, PTL

-----------------------------------------------------------------------------
(* Refinement *)

QueueData == [i \in DOMAIN toAdin |-> data[toAdin[i]]]

(* The channel's contents, element by element.                             *)
PendingFacts ==
    /\ QueueData \in Seq(Nat)
    /\ Len(QueueData) = Len(toAdin) /\ Len(toAdin) \in Nat
    /\ DOMAIN toAdin = 1..Len(toAdin)
    /\ \A i \in 1..Len(toAdin) : QueueData[i] = data[toAdin[i]]
    /\ txFrame = NoFrame => Pending = QueueData
    /\ txFrame # NoFrame =>
        /\ data[txFrame] \in Nat
        /\ Pending = <<data[txFrame]>> \o QueueData
        /\ Pending \in Seq(Nat)
        /\ Pending # << >>
        /\ Head(Pending) = data[txFrame]
        /\ Tail(Pending) = QueueData

LEMMA PendingShape == TypeOK => PendingFacts
  <1>. SUFFICES ASSUME TypeOK PROVE PendingFacts
    OBVIOUS
  <1>1. /\ Len(toAdin) \in Nat /\ DOMAIN toAdin = 1..Len(toAdin)
        /\ \A i \in 1..Len(toAdin) : toAdin[i] \in Frames
    BY LenProperties, ElementOfSeq DEF TypeOK
  <1>2. /\ QueueData \in Seq(Nat)
        /\ Len(QueueData) = Len(toAdin)
        /\ \A i \in 1..Len(toAdin) : QueueData[i] = data[toAdin[i]]
    <2>1. QueueData \in [1..Len(toAdin) -> Nat]
      BY <1>1 DEF QueueData, TypeOK
    <2>. QED  BY <1>1, <2>1 DEF QueueData
  <1>3. txFrame = NoFrame => Pending = QueueData
    <2>1. << >> \o QueueData = QueueData
      BY <1>2, ConcatEmptySeq
    <2>. QED  BY <2>1 DEF Pending, HeldByTask, QueueData
  <1>4. ASSUME txFrame # NoFrame
        PROVE  /\ data[txFrame] \in Nat
               /\ Pending = <<data[txFrame]>> \o QueueData
               /\ Pending \in Seq(Nat)
               /\ Pending # << >>
               /\ Head(Pending) = data[txFrame]
               /\ Tail(Pending) = QueueData
    <2>. DEFINE d == data[txFrame]
    <2>1. d \in Nat
      BY <1>4 DEF TypeOK
    <2>2. Pending = <<d>> \o QueueData
      BY <1>4 DEF Pending, HeldByTask, QueueData
    <2>. HIDE DEF d
    <2>3. <<d>> \in Seq(Nat) /\ Len(<<d>>) = 1 /\ <<d>>[1] = d
      BY <2>1
    <2>4. /\ Pending \in Seq(Nat)
          /\ Len(Pending) = 1 + Len(QueueData)
          /\ \A i \in 1..(1 + Len(QueueData)) :
                Pending[i] = IF i <= 1 THEN <<d>>[i] ELSE QueueData[i - 1]
      BY <1>2, <2>2, <2>3, ConcatProperties
    <2>5. Pending # << >> /\ Head(Pending) = d
      BY <1>1, <1>2, <2>3, <2>4, EmptySeq
    <2>6. Tail(Pending) = QueueData
      <3>1. /\ Tail(Pending) \in Seq(Nat) /\ Len(Tail(Pending)) = Len(QueueData)
            /\ \A i \in 1..Len(Tail(Pending)) : Tail(Pending)[i] = Pending[i + 1]
        BY <1>1, <1>2, <2>4, <2>5, HeadTailProperties
      <3>2. \A i \in 1..Len(QueueData) : Pending[i + 1] = QueueData[i]
        BY <1>1, <1>2, <2>4
      <3>. QED  BY <1>2, <3>1, <3>2, SeqEqual
    <2>. QED  BY <2>1, <2>2, <2>4, <2>5, <2>6 DEF d
  <1>. QED  BY <1>1, <1>2, <1>3, <1>4 DEF PendingFacts

LEMMA PendingShapeNext == TypeOK' => PendingFacts'
  BY PendingShape, PTL

(* Steps that leave the queue, the held frame and their bytes alone.       *)
LEMMA PendingSame ==
    ASSUME TypeOK, TypeOK', UNCHANGED <<toAdin, txFrame>>,
           \A f \in Queued \cup {txFrame} : f # NoFrame => data'[f] = data[f]
    PROVE  Pending' = Pending
  <1>1. \A i \in DOMAIN toAdin : toAdin[i] \in Frames /\ toAdin[i] \in Queued
    BY LenProperties, ElementOfSeq DEF TypeOK, Queued
  <1>2. QueueData' = QueueData
    BY <1>1, FramesAssumption DEF QueueData
  <1>3. HeldByTask' = HeldByTask
    BY DEF HeldByTask
  <1>. QED  BY <1>2, <1>3 DEF Pending, QueueData

ImplInv == TypeOK /\ ArmedInv /\ Disjoint /\ Counted /\ OrderInv

LEMMA DataOutStep == ImplInv /\ TypeOK' /\ DataOut => Channel!Accept \/ Channel!Lose
  <1>. SUFFICES ASSUME ImplInv, TypeOK', DataOut PROVE Channel!Accept \/ Channel!Lose
    OBVIOUS
  <1>. USE FramesAssumption DEF ImplInv
  <1>1. /\ outFrame \in Frames /\ outFrame \notin Queued /\ txFrame # outFrame
        /\ data' = [data EXCEPT ![outFrame] = sent + 1] /\ sent' = sent + 1
        /\ sent \in Nat /\ UNCHANGED <<txFrame, wire>>
        /\ data \in [Frames -> Nat] /\ txFrame \in Frames \cup {NoFrame}
    BY DEF DataOut, ArmedInv, Disjoint, TypeOK, txVars
  <1>2. \A f \in Queued \cup {txFrame} : f # NoFrame => data'[f] = data[f]
    <2>1. Queued \subseteq Frames
      BY LenProperties, ElementOfSeq DEF TypeOK, Queued
    <2>. QED  BY <1>1, <2>1
  <1>3. CASE UNCHANGED toAdin
    <2>1. Pending' = Pending
      BY <1>1, <1>2, <1>3, PendingSame
    <2>. QED  BY <1>1, <2>1 DEF Channel!Lose
  <1>4. ASSUME NEW next \in free, toAdin' = Append(toAdin, outFrame)
        PROVE  Channel!Accept
    <2>1. Len(Pending) < PoolSize - 1 /\ Pending \in Seq(Nat)
      <3>1. Cardinality(free) \in Nat \ {0}
        BY <1>4, CountRemove, FS_Subset, FS_CardinalityType, FS_EmptySet DEF TypeOK
      <3>2. Len(toAdin) \in Nat /\ Held(outFrame) = 1
        BY <1>1, LenProperties DEF TypeOK, Held
      <3>3. CASE txFrame = NoFrame
        BY <3>1, <3>2, <3>3, PendingShape DEF PendingFacts, Counted, Held
      <3>4. CASE txFrame # NoFrame
        <4>1. Len(Pending) = Len(toAdin) + 1 /\ Pending \in Seq(Nat)
          BY <3>2, <3>4, PendingShape, HeadTailProperties, LenProperties DEF PendingFacts
        <4>. QED  BY <3>1, <3>2, <3>4, <4>1 DEF Counted, Held
      <3>. QED  BY <3>3, <3>4
    <2>2. Pending' = Append(Pending, sent + 1)
      <3>1. QueueData' = Append(QueueData, sent + 1)
        <4>1. /\ toAdin' \in Seq(Frames) /\ Len(toAdin') = Len(toAdin) + 1
              /\ \A i \in 1..Len(toAdin) : toAdin'[i] = toAdin[i]
              /\ toAdin'[Len(toAdin) + 1] = outFrame
          BY <1>1, <1>4, AppendProperties DEF TypeOK
        <4>2. /\ QueueData' \in Seq(Nat) /\ Len(QueueData') = Len(toAdin')
              /\ \A i \in 1..Len(toAdin') : QueueData'[i] = data'[toAdin'[i]]
          BY PendingShapeNext DEF PendingFacts
        <4>3. /\ QueueData \in Seq(Nat) /\ Len(QueueData) = Len(toAdin)
              /\ Len(toAdin) \in Nat
              /\ \A i \in 1..Len(toAdin) : QueueData[i] = data[toAdin[i]]
              /\ \A i \in 1..Len(toAdin) : toAdin[i] \in Queued /\ toAdin[i] \in Frames
          BY PendingShape, LenProperties, ElementOfSeq DEF PendingFacts, TypeOK, Queued
        <4>4. \A i \in 1..Len(toAdin) : QueueData'[i] = QueueData[i]
          <5>. SUFFICES ASSUME NEW i \in 1..Len(toAdin)
                        PROVE  QueueData'[i] = QueueData[i]
            OBVIOUS
          <5>1. i \in 1..Len(toAdin')
            BY <4>1, <4>3
          <5>2. QueueData'[i] = data'[toAdin'[i]] /\ toAdin'[i] = toAdin[i]
            BY <4>1, <4>2, <5>1
          <5>3. toAdin[i] \in Queued /\ toAdin[i] # NoFrame
            BY <4>3
          <5>4. data'[toAdin[i]] = data[toAdin[i]]
            BY <1>2, <5>3
          <5>5. QueueData[i] = data[toAdin[i]]
            BY <4>3
          <5>. QED  BY <5>2, <5>4, <5>5
        <4>5. QueueData'[Len(toAdin) + 1] = sent + 1
          <5>1. Len(toAdin) + 1 \in 1..Len(toAdin')
            BY <4>1, <4>3
          <5>2. QueueData'[Len(toAdin) + 1] = data'[toAdin'[Len(toAdin) + 1]]
            BY <4>2, <5>1
          <5>. QED  BY <1>1, <4>1, <5>2
        <4>. DEFINE s == QueueData
                    t == Append(QueueData, sent + 1)
        <4>6. /\ t \in Seq(Nat) /\ Len(t) = Len(toAdin) + 1
              /\ \A i \in 1..Len(toAdin) : t[i] = QueueData[i]
              /\ t[Len(toAdin) + 1] = sent + 1
          BY <1>1, <4>3, AppendProperties
        <4>7. \A i \in 1..(Len(toAdin) + 1) : QueueData'[i] = t[i]
          BY <4>3, <4>4, <4>5, <4>6
        <4>. QED  BY <4>1, <4>2, <4>6, <4>7, SeqEqual
      <3>2. HeldByTask' = HeldByTask /\ HeldByTask \in Seq(Nat)
        BY <1>1, <1>2 DEF HeldByTask
      <3>3. QueueData \in Seq(Nat)
        BY PendingShape DEF PendingFacts
      <3>4. HeldByTask \o Append(QueueData, sent + 1) = Append(HeldByTask \o QueueData, sent + 1)
        BY <1>1, <3>2, <3>3
      <3>. QED  BY <3>1, <3>2, <3>4 DEF Pending, QueueData
    <2>. QED  BY <1>1, <2>1, <2>2 DEF Channel!Accept
  <1>. QED  BY <1>3, <1>4 DEF DataOut, Submit

LEMMA ChannelStep ==
    ImplInv /\ TypeOK' /\ [Next]_vars => [Channel!Next]_<<sent, Pending, wire>>
  <1>. SUFFICES ASSUME ImplInv, TypeOK', [Next]_vars
                PROVE  Channel!Next \/ UNCHANGED <<sent, Pending, wire>>
    OBVIOUS
  <1>. USE FramesAssumption DEF ImplInv
  <1>1. CASE \/ Configure \/ Reset \/ (\E alt \in AltSettings : SetInterface(alt))
             \/ DataOutEmpty \/ TxRoute \/ TxNoSpace \/ TxDelayOver \/ UNCHANGED vars
    <2>1. UNCHANGED <<toAdin, txFrame, data, sent, wire>>
      BY <1>1 DEF Configure, Reset, SetInterface, DataOutEmpty, TxRoute, TxNoSpace,
         TxDelayOver, vars, poolVars, txVars
    <2>. QED  BY <2>1, PendingSame
  <1>2. CASE OutPacket
    <2>1. UNCHANGED <<toAdin, txFrame, sent, wire>>
      BY <1>2 DEF OutPacket, txVars
    <2>2. \A f \in Queued \cup {txFrame} : f # NoFrame => data'[f] = data[f]
      BY <1>2, LenProperties, ElementOfSeq
      DEF OutPacket, ArmedInv, Disjoint, TypeOK, Queued
    <2>. QED  BY <2>1, <2>2, PendingSame
  <1>3. CASE DataOut
    BY <1>3, DataOutStep DEF Channel!Next
  <1>4. CASE TxReceive
    <2>1. /\ toAdin \in Seq(Frames) /\ toAdin # << >> /\ toAdin' = Tail(toAdin)
          /\ txFrame = NoFrame /\ txFrame' = Head(toAdin) /\ txFrame' # NoFrame
          /\ UNCHANGED <<data, sent, wire>>
      BY <1>4, HeadTailProperties DEF TxReceive, TypeOK
    <2>2. /\ toAdin' \in Seq(Frames) /\ Len(toAdin') = Len(toAdin) - 1
          /\ Len(toAdin) \in Nat \ {0} /\ Head(toAdin) = toAdin[1]
          /\ \A i \in 1..Len(toAdin') : toAdin'[i] = toAdin[i + 1]
      BY <2>1, HeadTailProperties, EmptySeq
    <2>3. /\ Pending = QueueData /\ QueueData \in Seq(Nat) /\ Len(QueueData) = Len(toAdin)
          /\ \A i \in 1..Len(toAdin) : QueueData[i] = data[toAdin[i]]
      BY <2>1, PendingShape DEF PendingFacts
    <2>4. /\ QueueData' \in Seq(Nat) /\ Len(QueueData') = Len(toAdin')
          /\ \A i \in 1..Len(toAdin') : QueueData'[i] = data'[toAdin'[i]]
          /\ Pending' \in Seq(Nat) /\ Pending' # << >>
          /\ Head(Pending') = data'[txFrame']
          /\ Tail(Pending') = QueueData'
      BY <2>1, PendingShapeNext DEF PendingFacts
    <2>5. /\ Len(Pending') = Len(toAdin)
          /\ Pending'[1] = data[toAdin[1]]
          /\ \A i \in 1..(Len(toAdin) - 1) : Pending'[i + 1] = data[toAdin[i + 1]]
      <3>1. /\ Len(Tail(Pending')) = Len(Pending') - 1 /\ Len(Pending') \in Nat
            /\ \A i \in 1..Len(Tail(Pending')) : Tail(Pending')[i] = Pending'[i + 1]
            /\ Head(Pending') = Pending'[1]
        BY <2>1, <2>4, HeadTailProperties, LenProperties
      <3>2. Len(Pending') = Len(toAdin)
        <4>. DEFINE lt == Len(Tail(Pending'))
                    lp == Len(Pending')
                    la == Len(toAdin)
        <4>1. lt = Len(QueueData')
          BY <2>4
        <4>2. lt = la - 1
          BY <2>2, <2>4, <4>1
        <4>3. lt = lp - 1 /\ lp \in Nat /\ la \in Nat
          BY <2>2, <3>1
        <4>. HIDE DEF lt, lp, la
        <4>4. lp = la
          BY <4>2, <4>3
        <4>. QED  BY <4>4 DEF lp, la
      <3>3. Pending'[1] = data[toAdin[1]]
        BY <2>1, <2>2, <2>4, <3>1
      <3>4. ASSUME NEW i \in 1..(Len(toAdin) - 1)
            PROVE  Pending'[i + 1] = data[toAdin[i + 1]]
        <4>1. i \in 1..Len(toAdin') /\ i \in 1..Len(Tail(Pending'))
          BY <2>2, <2>4, <3>1, <3>2
        <4>2. Pending'[i + 1] = Tail(Pending')[i]
          BY <3>1, <4>1
        <4>3. Tail(Pending')[i] = data'[toAdin'[i]]
          BY <2>4, <4>1
        <4>. QED  BY <2>1, <2>2, <4>1, <4>2, <4>3
      <3>. QED  BY <3>2, <3>3, <3>4
    <2>6. \A i \in 1..Len(toAdin) : Pending'[i] = QueueData[i]
      <3>. SUFFICES ASSUME NEW i \in 1..Len(toAdin) PROVE Pending'[i] = QueueData[i]
        OBVIOUS
      <3>1. CASE i = 1
        BY <2>2, <2>3, <2>5, <3>1
      <3>2. CASE i # 1
        <4>1. i - 1 \in 1..(Len(toAdin) - 1) /\ (i - 1) + 1 = i
          BY <2>2, <3>2
        <4>2. Pending'[(i - 1) + 1] = data[toAdin[(i - 1) + 1]]
          BY <2>5, <4>1
        <4>. QED  BY <2>3, <4>1, <4>2
      <3>. QED  BY <3>1, <3>2
    <2>7. Pending' = Pending
      <3>1. Len(Pending') = Len(QueueData) /\ \A i \in 1..Len(Pending') : Pending'[i] = QueueData[i]
        BY <2>3, <2>5, <2>6
      <3>2. Pending' = QueueData
        BY <2>3, <2>4, <3>1, SeqEqual
      <3>. QED  BY <2>3, <3>2
    <2>. QED  BY <2>1, <2>7
  <1>5. CASE TxWriteOk \/ TxWriteError
    <2>1. /\ txPc = "write" /\ txFrame \in Frames /\ txFrame # NoFrame
          /\ UNCHANGED <<toAdin, txFrame, data, sent>>
          /\ wire' = wire \/ Emitted(Head(txPorts))
      BY <1>5 DEF TxWriteOk, TxWriteError, poolVars, TypeOK
    <2>2. Pending' = Pending
      BY <2>1, PendingSame
    <2>3. CASE Emitted(Head(txPorts))
      <3>1. Head(txPorts) \in Ports /\ Unserved(Head(txPorts))
        BY <2>1, HeadTailProperties, LenProperties, EmptySeq DEF TypeOK, Unserved
      <3>2. Pending # << >> /\ Head(Pending) = data[txFrame]
        BY <2>1, PendingShape DEF PendingFacts
      <3>3. \A i \in DOMAIN wire[Head(txPorts)] : wire[Head(txPorts)][i] < Head(Pending)
        BY <3>1, <3>2 DEF OrderInv, WireOrder
      <3>4. wire' = [wire EXCEPT ![Head(txPorts)] = Append(@, Head(Pending))]
        BY <2>3, <3>2 DEF Emitted
      <3>5. Channel!Emit(Head(txPorts))
        BY <2>1, <2>2, <3>2, <3>3, <3>4 DEF Channel!Emit
      <3>. QED  BY <3>1, <3>5 DEF Channel!Next
    <2>. QED  BY <2>1, <2>2, <2>3
  <1>6. CASE TxFree
    <2>1. txFrame \in Frames /\ txFrame' = NoFrame /\ UNCHANGED <<toAdin, data, sent, wire>>
      BY <1>6 DEF TxFree, TypeOK
    <2>2. Pending # << >> /\ Tail(Pending) = QueueData
      BY <2>1, PendingShape DEF PendingFacts
    <2>3. Pending' = QueueData'
      BY <2>1, PendingShapeNext DEF PendingFacts
    <2>4. QueueData' = QueueData
      BY <2>1 DEF QueueData
    <2>. QED  BY <2>1, <2>2, <2>3, <2>4 DEF Channel!Finish, Channel!Next
  <1>. QED
    BY <1>1, <1>2, <1>3, <1>4, <1>5, <1>6 DEF Next, UsbInterrupt, TxTask

(* The downlink, with its buffers, interrupts and retries, implements the  *)
(* lossy ordered channel.                                                  *)
THEOREM Implementation == Spec => IsChannel
  <1>1. Init => Channel!Init
    BY DEF Init, Channel!Init, Pending, HeldByTask
  <1>2. ImplInv /\ TypeOK' /\ [Next]_vars => [Channel!Next]_(Channel!vars)
    BY ChannelStep DEF Channel!vars
  <1>. QED
    BY <1>1, <1>2, TypeCorrect, ArmedAlways, DisjointAlways, CountedAlways, OrderAlways, PTL
    DEF Spec, IsChannel, Channel!Spec, ImplInv
=============================================================================
