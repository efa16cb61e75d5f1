----------------------------- MODULE UsbInProofs -----------------------------
(* Proofs about UsbIn, for any number of frames and alternate settings. *)
EXTENDS UsbIn, SequenceTheorems, TLAPS

-----------------------------------------------------------------------------
(* Type correctness *)

LEMMA NoPackets == << >> \in Seq(Packets)
  BY EmptySeq

(* The end of a transfer. *)
LEMMA EndTransferType ==
    ASSUME TypeOK, NEW packets \in Seq(Packets), EndTransfer(packets)
    PROVE  /\ partial' \in Seq(Packets)
           /\ transfer' \in Seq(Packets)
           /\ got' \in Seq(Nat)
  <1>1. CASE Intact(packets)
    <2>1. packets[1] \in Packets
      BY <1>1, LenProperties DEF Intact
    <2>2. packets[1][1] \in Nat
      BY <2>1 DEF Packets
    <2>. QED  BY <1>1, <2>2, NoPackets DEF EndTransfer, TypeOK
  <1>2. CASE ~Intact(packets)
    BY <1>2, NoPackets DEF EndTransfer, TypeOK
  <1>. QED  BY <1>1, <1>2

(* What the host has received of a transfer. *)
LEMMA LastAppended ==
    ASSUME NEW packets \in Seq(Packets), NEW packet \in Packets
    PROVE  /\ Append(packets, packet) \in Seq(Packets)
           /\ Append(packets, packet) # << >>
           /\ Last(Append(packets, packet)) = packet
  BY AppendProperties DEF Last

LEMMA TypeStep == TypeOK /\ [Next]_vars => TypeOK'
  <1>. SUFFICES ASSUME TypeOK, [Next]_vars PROVE TypeOK'
    OBVIOUS
  <1>. USE AltAssumption, NoPackets DEF TypeOK, SessionTypeOK
  <1>1. CASE Configure
    BY <1>1 DEF Configure, SessionConfigure, senderVars, epVars, hostVars
  <1>2. ASSUME NEW alt \in AltSettings, SetInterface(alt) PROVE TypeOK'
    BY <1>2 DEF SetInterface, SessionSetInterface, Endpoint, senderVars
  <1>3. CASE Reset
    BY <1>3 DEF Reset, SessionReset, Endpoint, senderVars
  <1>4. CASE ReadHead
    <2>1. partial' \in Seq(Packets)
      BY <1>4 DEF ReadHead, Packets
    <2>. QED  BY <1>4, <2>1 DEF ReadHead, sessionVars, senderVars
  <1>5. CASE ReadTail
    <2>1. Append(partial, <<epFrame, "tail">>) \in Seq(Packets)
      BY DEF Packets
    <2>2. /\ partial' \in Seq(Packets) /\ transfer' \in Seq(Packets)
          /\ got' \in Seq(Nat)
      BY <1>5, <2>1, EndTransferType DEF ReadTail
    <2>. QED  BY <1>5, <2>2 DEF ReadTail, DataIn, sessionVars, senderVars
  <1>6. CASE ReadZlp
    <2>1. /\ partial' \in Seq(Packets) /\ transfer' \in Seq(Packets)
          /\ got' \in Seq(Nat)
      BY <1>6, EndTransferType DEF ReadZlp
    <2>. QED  BY <1>6, <2>1 DEF ReadZlp, DataIn, sessionVars, senderVars
  <1>7. CASE SendBegin
    BY <1>7 DEF SendBegin, sessionVars, epVars, hostVars
  <1>8. CASE ClearDone
    BY <1>8 DEF ClearDone, Goto, sessionVars, epVars, hostVars
  <1>9. CASE MarkZlp
    BY <1>9 DEF MarkZlp, Goto, sessionVars, epVars, hostVars
  <1>10. CASE Transmit
    BY <1>10 DEF Transmit, Goto, sessionVars, epVars, hostVars
  <1>11. CASE TransmitFails
    BY <1>11 DEF TransmitFails, Return, sessionVars, epVars, hostVars
  <1>12. CASE WaitDone
    BY <1>12 DEF WaitDone, Return, sessionVars, epVars, hostVars
  <1>13. CASE WaitTimesOut
    BY <1>13 DEF WaitTimesOut, Goto, sessionVars, epVars, hostVars
  <1>14. CASE Flush
    BY <1>14 DEF Flush, Goto, sessionVars, epVars, hostVars
  <1>15. CASE GiveUp
    BY <1>15 DEF GiveUp, Return, sessionVars, epVars, hostVars
  <1>16. CASE UNCHANGED vars
    BY <1>16 DEF vars, sessionVars, senderVars, epVars, hostVars
  <1>. QED
    BY <1>1, <1>2, <1>3, <1>4, <1>5, <1>6, <1>7, <1>8, <1>9, <1>10, <1>11, <1>12,
       <1>13, <1>14, <1>15, <1>16 DEF Next, Sender, UsbInterrupt, Halted

LEMMA InitTyped == Init => TypeOK
  BY AltAssumption, NoPackets, EmptySeq
  DEF Init, SessionInit, TypeOK, SessionTypeOK

(* The types of the sender and of the endpoint, for any number of frames:  *)
(* in particular the task of USBD_ECM_SendFrameBlocking holds a frame      *)
(* exactly while it is inside the call.                                    *)
THEOREM TypeCorrect == Spec => []TypeOK
  BY InitTyped, TypeStep, PTL DEF Spec
-----------------------------------------------------------------------------
(* The inductive invariant *)

(* There is a transfer on the endpoint. *)
Busy == ep \in {"head", "tail", "zlp"}

(* The endpoint is open exactly in a ready session, and sends only for the *)
(* call that waits, which has not been woken yet.                          *)
CallOwnsEndpoint ==
    /\ ep = "closed" <=> ~ready
    /\ pdev <=> configured
    /\ ready => configured
    /\ Busy => pc \in {"wait", "late"} /\ ~done
    /\ ep \in {"head", "tail"} => epFrame = frame
    /\ pc \in {"cleared", "marked"} => ~done

(* The debt of a ZLP is that of the frame on the endpoint. *)
ZlpIsOwed ==
    /\ zlp => full /\ pc \in {"marked", "wait", "late", "flushed", "fault"}
    /\ pc = "marked" \/ ep \in {"head", "tail"} => (zlp <=> full)
    /\ ep = "zlp" \/ (pc = "wait" /\ done) => ~zlp

(* What the host has of the frame in flight, and of the frame a signal is  *)
(* about.                                                                  *)
DeliveredBySignal ==
    /\ ep = "zlp" => partial # << >> /\ Last(partial) = <<frame, "tail">>
    /\ pc = "wait" /\ done => transfer # << >> /\ Last(transfer) = <<frame, "tail">>

(* A frame that may still be sent has not come out. *)
NotYetOut ==
    /\ \A i \in DOMAIN got : got[i] <= sent
    /\ Busy \/ pc \in {"checked", "cleared", "marked"} =>
          \A i \in DOMAIN got : got[i] < frame

Inv ==
    /\ TypeOK
    /\ CallOwnsEndpoint
    /\ ZlpIsOwed
    /\ DeliveredBySignal
    /\ NotYetOut

(* Every step keeps the endpoint with the waiting call. *)
LEMMA CallOwnsStep == Inv /\ [Next]_vars => CallOwnsEndpoint'
  <1>. SUFFICES ASSUME Inv, [Next]_vars PROVE CallOwnsEndpoint'
    OBVIOUS
  <1>. USE DEF CallOwnsEndpoint, Inv, TypeOK, SessionTypeOK, Busy, ZlpIsOwed
  <1>1. CASE Configure
    BY <1>1 DEF Configure, SessionConfigure, senderVars, epVars, hostVars
  <1>2. ASSUME NEW alt \in AltSettings, SetInterface(alt) PROVE CallOwnsEndpoint'
    BY <1>2 DEF SetInterface, SessionSetInterface, Endpoint, senderVars
  <1>3. CASE Reset
    BY <1>3 DEF Reset, SessionReset, Endpoint, senderVars
  <1>4. CASE ReadHead
    BY <1>4 DEF ReadHead, sessionVars, senderVars
  <1>5. CASE ReadTail
    BY <1>5 DEF ReadTail, DataIn, EndTransfer, sessionVars, senderVars
  <1>6. CASE ReadZlp
    BY <1>6 DEF ReadZlp, DataIn, EndTransfer, sessionVars, senderVars
  <1>7. CASE SendBegin
    BY <1>7 DEF SendBegin, sessionVars, epVars, hostVars
  <1>8. CASE ClearDone
    BY <1>8 DEF ClearDone, Goto, sessionVars, epVars, hostVars
  <1>9. CASE MarkZlp
    BY <1>9 DEF MarkZlp, Goto, sessionVars, epVars, hostVars
  <1>10. CASE Transmit
    BY <1>10 DEF Transmit, Goto, sessionVars, epVars, hostVars
  <1>11. CASE TransmitFails
    BY <1>11 DEF TransmitFails, Return, sessionVars, epVars, hostVars
  <1>12. CASE WaitDone
    BY <1>12 DEF WaitDone, Return, sessionVars, epVars, hostVars
  <1>13. CASE WaitTimesOut
    BY <1>13 DEF WaitTimesOut, Goto, sessionVars, epVars, hostVars
  <1>14. CASE Flush
    <2>1. CASE ~pdev
      BY <1>14, <2>1 DEF Flush, Goto, sessionVars, epVars
    <2>2. CASE pdev /\ ep = "closed"
      BY <1>14, <2>2 DEF Flush, Goto, sessionVars
    <2>3. CASE pdev /\ ep # "closed"
      BY <1>14, <2>3 DEF Flush, Goto, sessionVars
    <2>. QED  BY <2>1, <2>2, <2>3
  <1>15. CASE GiveUp
    BY <1>15 DEF GiveUp, Return, sessionVars, epVars, hostVars
  <1>16. CASE UNCHANGED vars
    BY <1>16 DEF vars, sessionVars, senderVars, epVars, hostVars
  <1>. QED
    BY <1>1, <1>2, <1>3, <1>4, <1>5, <1>6, <1>7, <1>8, <1>9, <1>10, <1>11,
       <1>12, <1>13, <1>14, <1>15, <1>16 DEF Next, Sender, UsbInterrupt,
       Halted

(* Every step keeps the debt of a ZLP with its frame. *)
LEMMA ZlpStep == Inv /\ [Next]_vars => ZlpIsOwed'
  <1>. SUFFICES ASSUME Inv, [Next]_vars PROVE ZlpIsOwed'
    OBVIOUS
  <1>. USE DEF ZlpIsOwed, Inv, TypeOK, SessionTypeOK, CallOwnsEndpoint, Busy
  <1>1. CASE Configure
    BY <1>1 DEF Configure, SessionConfigure, senderVars, epVars, hostVars
  <1>2. ASSUME NEW alt \in AltSettings, SetInterface(alt) PROVE ZlpIsOwed'
    BY <1>2 DEF SetInterface, SessionSetInterface, Endpoint, senderVars
  <1>3. CASE Reset
    BY <1>3 DEF Reset, SessionReset, Endpoint, senderVars
  <1>4. CASE ReadHead
    BY <1>4 DEF ReadHead, sessionVars, senderVars
  <1>5. CASE ReadTail
    BY <1>5 DEF ReadTail, DataIn, EndTransfer, sessionVars, senderVars
  <1>6. CASE ReadZlp
    BY <1>6 DEF ReadZlp, DataIn, EndTransfer, sessionVars, senderVars
  <1>7. CASE SendBegin
    BY <1>7 DEF SendBegin, sessionVars, epVars, hostVars
  <1>8. CASE ClearDone
    BY <1>8 DEF ClearDone, Goto, sessionVars, epVars, hostVars
  <1>9. CASE MarkZlp
    BY <1>9 DEF MarkZlp, Goto, sessionVars, epVars, hostVars
  <1>10. CASE Transmit
    BY <1>10 DEF Transmit, Goto, sessionVars, epVars, hostVars
  <1>11. CASE TransmitFails
    BY <1>11 DEF TransmitFails, Return, sessionVars, epVars, hostVars
  <1>12. CASE WaitDone
    BY <1>12 DEF WaitDone, Return, sessionVars, epVars, hostVars
  <1>13. CASE WaitTimesOut
    BY <1>13 DEF WaitTimesOut, Goto, sessionVars, epVars, hostVars
  <1>14. CASE Flush
    BY <1>14 DEF Flush, Goto, sessionVars, epVars, hostVars
  <1>15. CASE GiveUp
    BY <1>15 DEF GiveUp, Return, sessionVars, epVars, hostVars
  <1>16. CASE UNCHANGED vars
    BY <1>16 DEF vars, sessionVars, senderVars, epVars, hostVars
  <1>. QED
    BY <1>1, <1>2, <1>3, <1>4, <1>5, <1>6, <1>7, <1>8, <1>9, <1>10, <1>11,
       <1>12, <1>13, <1>14, <1>15, <1>16 DEF Next, Sender, UsbInterrupt,
       Halted

(* Every step keeps what a signal says true. *)
LEMMA DeliveredStep == Inv /\ [Next]_vars => DeliveredBySignal'
  <1>. SUFFICES ASSUME Inv, [Next]_vars PROVE DeliveredBySignal'
    OBVIOUS
  <1>. USE DEF DeliveredBySignal, Inv, TypeOK, SessionTypeOK, CallOwnsEndpoint, Busy, ZlpIsOwed
  <1>1. CASE Configure
    BY <1>1 DEF Configure, SessionConfigure, senderVars, epVars, hostVars
  <1>2. ASSUME NEW alt \in AltSettings, SetInterface(alt) PROVE DeliveredBySignal'
    BY <1>2 DEF SetInterface, SessionSetInterface, Endpoint, senderVars
  <1>3. CASE Reset
    BY <1>3 DEF Reset, SessionReset, Endpoint, senderVars
  <1>4. CASE ReadHead
    BY <1>4 DEF ReadHead, sessionVars, senderVars
  <1>5. CASE ReadTail
    <2>. DEFINE packets == Append(partial, <<epFrame, "tail">>)
    <2>1. packets # << >> /\ Last(packets) = <<frame, "tail">>
      <3>1. <<epFrame, "tail">> \in Packets /\ epFrame = frame
        BY <1>5 DEF ReadTail, Packets
      <3>. QED  BY <3>1, LastAppended
    <2>2. CASE full
      <3>1. partial' = packets /\ ep' = "zlp" /\ done' = done /\ ~done
        BY <1>5, <2>2 DEF ReadTail, DataIn
      <3>. QED  BY <1>5, <2>1, <3>1 DEF ReadTail, senderVars
    <2>3. CASE ~full
      <3>1. transfer' = packets /\ ep' = "idle"
        BY <1>5, <2>3 DEF ReadTail, DataIn, EndTransfer
      <3>. QED  BY <1>5, <2>1, <3>1 DEF ReadTail, senderVars
    <2>. QED  BY <2>2, <2>3
  <1>6. CASE ReadZlp
    BY <1>6 DEF ReadZlp, DataIn, EndTransfer, sessionVars, senderVars
  <1>7. CASE SendBegin
    BY <1>7 DEF SendBegin, sessionVars, epVars, hostVars
  <1>8. CASE ClearDone
    BY <1>8 DEF ClearDone, Goto, sessionVars, epVars, hostVars
  <1>9. CASE MarkZlp
    BY <1>9 DEF MarkZlp, Goto, sessionVars, epVars, hostVars
  <1>10. CASE Transmit
    BY <1>10 DEF Transmit, Goto, sessionVars, epVars, hostVars
  <1>11. CASE TransmitFails
    BY <1>11 DEF TransmitFails, Return, sessionVars, epVars, hostVars
  <1>12. CASE WaitDone
    BY <1>12 DEF WaitDone, Return, sessionVars, epVars, hostVars
  <1>13. CASE WaitTimesOut
    BY <1>13 DEF WaitTimesOut, Goto, sessionVars, epVars, hostVars
  <1>14. CASE Flush
    BY <1>14 DEF Flush, Goto, sessionVars, epVars, hostVars
  <1>15. CASE GiveUp
    BY <1>15 DEF GiveUp, Return, sessionVars, epVars, hostVars
  <1>16. CASE UNCHANGED vars
    BY <1>16 DEF vars, sessionVars, senderVars, epVars, hostVars
  <1>. QED
    BY <1>1, <1>2, <1>3, <1>4, <1>5, <1>6, <1>7, <1>8, <1>9, <1>10, <1>11,
       <1>12, <1>13, <1>14, <1>15, <1>16 DEF Next, Sender, UsbInterrupt,
       Halted

(* An ended transfer either leaves the frames the host has as they are, or *)
(* adds the frame of the call.                                             *)
LEMMA TransferStep ==
    ASSUME Inv, ReadTail \/ ReadZlp
    PROVE  /\ sent' = sent /\ frame' = frame
           /\ got' = got \/ (got' = Append(got, frame) /\ ep' = "idle")
           /\ frame # 0 /\ \A i \in DOMAIN got : got[i] < frame
  <1>. USE DEF Inv, TypeOK, CallOwnsEndpoint, Busy
  <1>1. frame # 0 /\ \A i \in DOMAIN got : got[i] < frame
    BY DEF ReadTail, ReadZlp, NotYetOut
  <1>2. CASE ReadTail
    <2>. DEFINE packets == Append(partial, <<epFrame, "tail">>)
    <2>1. CASE full
      BY <1>1, <1>2, <2>1 DEF ReadTail, senderVars
    <2>2. CASE ~full /\ ~Intact(packets)
      BY <1>1, <1>2, <2>2 DEF ReadTail, EndTransfer, DataIn, ZlpIsOwed, senderVars
    <2>3. CASE ~full /\ Intact(packets)
      <3>1. packets[2] = <<frame, "tail">>
        BY <1>2, <2>3 DEF ReadTail, Intact
      <3>2. packets[1][1] = frame
        BY <2>3, <3>1 DEF Intact
      <3>. QED  BY <1>1, <1>2, <2>3, <3>2 DEF ReadTail, EndTransfer, DataIn, ZlpIsOwed, senderVars
    <2>. QED  BY <2>1, <2>2, <2>3
  <1>3. CASE ReadZlp
    <2>1. Intact(partial) => partial[1][1] = frame
      BY <1>3 DEF ReadZlp, Intact, DeliveredBySignal, Last
    <2>. QED  BY <1>1, <1>3, <2>1 DEF ReadZlp, EndTransfer, DataIn, ZlpIsOwed, senderVars
  <1>. QED  BY <1>2, <1>3

(* Every step keeps a frame that is still to be sent out of the host's. *)
LEMMA NotYetOutStep == Inv /\ [Next]_vars => NotYetOut'
  <1>. SUFFICES ASSUME Inv, [Next]_vars PROVE NotYetOut'
    OBVIOUS
  <1>. USE DEF NotYetOut, Inv, TypeOK, SessionTypeOK, CallOwnsEndpoint, Busy
  <1>1. CASE Configure
    BY <1>1 DEF Configure, SessionConfigure, senderVars, epVars, hostVars
  <1>2. ASSUME NEW alt \in AltSettings, SetInterface(alt) PROVE NotYetOut'
    BY <1>2 DEF SetInterface, SessionSetInterface, Endpoint, senderVars
  <1>3. CASE Reset
    BY <1>3 DEF Reset, SessionReset, Endpoint, senderVars
  <1>4. CASE ReadHead
    BY <1>4 DEF ReadHead, sessionVars, senderVars
  <1>5. CASE ReadTail
    <2>1. CASE got' = got
      BY <1>5, <2>1, TransferStep DEF ReadTail, senderVars
    <2>2. CASE got' = Append(got, frame) /\ ep' = "idle"
      BY <1>5, <2>2, TransferStep DEF ReadTail, senderVars
    <2>. QED  BY <1>5, <2>1, <2>2, TransferStep
  <1>6. CASE ReadZlp
    <2>1. CASE got' = got
      BY <1>6, <2>1, TransferStep DEF ReadZlp, senderVars
    <2>2. CASE got' = Append(got, frame) /\ ep' = "idle"
      BY <1>6, <2>2, TransferStep DEF ReadZlp, senderVars
    <2>. QED  BY <1>6, <2>1, <2>2, TransferStep
  <1>7. CASE SendBegin
    <2>1. \A i \in DOMAIN got : got[i] \in Nat /\ got[i] <= sent
      OBVIOUS
    <2>2. sent' = sent + 1 /\ got' = got /\ ep' = ep
      BY <1>7 DEF SendBegin, epVars, hostVars
    <2>3. \A i \in DOMAIN got : got[i] < sent'
      BY <2>1, <2>2
    <2>. QED  BY <1>7, <2>2, <2>3 DEF SendBegin
  <1>8. CASE ClearDone
    BY <1>8 DEF ClearDone, Goto, sessionVars, epVars, hostVars
  <1>9. CASE MarkZlp
    BY <1>9 DEF MarkZlp, Goto, sessionVars, epVars, hostVars
  <1>10. CASE Transmit
    BY <1>10 DEF Transmit, Goto, sessionVars, epVars, hostVars
  <1>11. CASE TransmitFails
    BY <1>11 DEF TransmitFails, Return, sessionVars, epVars, hostVars
  <1>12. CASE WaitDone
    BY <1>12 DEF WaitDone, Return, sessionVars, epVars, hostVars
  <1>13. CASE WaitTimesOut
    BY <1>13 DEF WaitTimesOut, Goto, sessionVars, epVars, hostVars
  <1>14. CASE Flush
    BY <1>14 DEF Flush, Goto, sessionVars, epVars, hostVars
  <1>15. CASE GiveUp
    BY <1>15 DEF GiveUp, Return, sessionVars, epVars, hostVars
  <1>16. CASE UNCHANGED vars
    BY <1>16 DEF vars, sessionVars, senderVars, epVars, hostVars
  <1>. QED
    BY <1>1, <1>2, <1>3, <1>4, <1>5, <1>6, <1>7, <1>8, <1>9, <1>10, <1>11,
       <1>12, <1>13, <1>14, <1>15, <1>16 DEF Next, Sender, UsbInterrupt,
       Halted

LEMMA Invariance == Spec => []Inv
  <1>1. Init => Inv
    <2>1. Init => TypeOK
      BY InitTyped
    <2>. QED
      BY <2>1 DEF Init, SessionInit, Inv, CallOwnsEndpoint, Busy, ZlpIsOwed,
         DeliveredBySignal, NotYetOut
  <1>2. Inv /\ [Next]_vars => Inv'
    BY TypeStep, CallOwnsStep, ZlpStep, DeliveredStep, NotYetOutStep DEF Inv
  <1>. QED  BY <1>1, <1>2, PTL DEF Spec

-----------------------------------------------------------------------------
(* The safety properties *)

(* The class borrows the buffer only while the call lasts: the endpoint    *)
(* reads it only while the task waits and has not flushed, whatever        *)
(* interrupts, timeouts and session changes happen in between.             *)
THEOREM Borrowed == Spec => []BufferReturned
  <1>1. Inv => BufferReturned
    BY DEF Inv, TypeOK, CallOwnsEndpoint, Busy, BufferReturned
  <1>. QED  BY <1>1, Invariance, PTL

(* s_in_zlp, shared with ECM_DataIn and cleared on four paths, never       *)
(* outlives the call that set it.                                          *)
THEOREM DebtEnds == Spec => []NoStaleZlp
  <1>1. Inv => NoStaleZlp
    BY DEF Inv, ZlpIsOwed, NoStaleZlp
  <1>. QED  BY <1>1, Invariance, PTL

(* USBD_ECM_SendFrameBlocking returns 0 only for a frame whose last packet *)
(* ended the host's last transfer: a stale s_in_done is never taken for    *)
(* this call's completion.                                                 *)
THEOREM SuccessIsReal == Spec => SuccessIsDelivered
  <1>1. Inv /\ [Next]_vars =>
            [WaitDone => transfer # << >> /\ Last(transfer) = <<frame, "tail">>]_vars
    BY DEF Inv, DeliveredBySignal, WaitDone
  <1>. QED  BY <1>1, Invariance, PTL DEF Spec, SuccessIsDelivered

-----------------------------------------------------------------------------
(* UsbIn implements FrameChannel *)

(* The frame of the call, as the channel sees it. *)
Pending == IF frame = 0 THEN << >> ELSE <<frame>>

(* Every step is one of the channel's or none.  A call puts its frame into *)
(* the channel, the end of an intact transfer takes it out, the return of  *)
(* the call ends it; no other step changes what the channel has.           *)
LEMMA ChannelStep ==
    Inv /\ [Next]_vars => [Channel!Next]_<<sent, Pending, [p \in {"host"} |-> got]>>
  <1>. SUFFICES ASSUME Inv, [Next]_vars
                PROVE  Channel!Next \/ UNCHANGED <<sent, frame, got>>
    BY DEF Pending
  <1>1. CASE SendBegin
    <2>. USE DEF SendBegin, hostVars, Inv, TypeOK
    <2>1. CASE ready /\ pdev
      <3>1. frame = 0 /\ frame' = sent + 1 /\ sent' = sent + 1 /\ frame' # 0 /\ got' = got
        BY <1>1, <2>1
      <3>. QED  BY <3>1 DEF Channel!Next, Channel!Accept
    <2>2. CASE ~(ready /\ pdev)
      BY <1>1, <2>2 DEF Channel!Next, Channel!Lose
    <2>. QED  BY <2>1, <2>2
  <1>2. CASE ReadTail \/ ReadZlp
    <2>1. CASE got' = got
      BY <1>2, <2>1, TransferStep
    <2>2. CASE got' = Append(got, frame)
      BY <1>2, <2>2, TransferStep DEF Channel!Next, Channel!Emit
    <2>. QED  BY <1>2, <2>1, <2>2, TransferStep
  <1>3. CASE TransmitFails \/ WaitDone \/ GiveUp
    <2>1. frame # 0 /\ frame' = 0 /\ sent' = sent /\ got' = got
      BY <1>3 DEF TransmitFails, WaitDone, GiveUp, Return, hostVars, Inv, TypeOK
    <2>. QED  BY <2>1 DEF Channel!Next, Channel!Finish
  <1>4. CASE ClearDone \/ MarkZlp \/ Transmit \/ WaitTimesOut \/ Flush
    BY <1>4 DEF ClearDone, MarkZlp, Transmit, WaitTimesOut, Flush, Goto, hostVars
  <1>5. CASE Configure \/ Reset \/ ReadHead \/ \E alt \in AltSettings : SetInterface(alt)
    BY <1>5 DEF Configure, Reset, ReadHead, SetInterface, senderVars, hostVars
  <1>6. CASE UNCHANGED vars
    BY <1>6 DEF vars, senderVars, hostVars
  <1>. QED
    BY <1>1, <1>2, <1>3, <1>4, <1>5, <1>6 DEF Next, Sender, UsbInterrupt, Halted

(* From net_rx_task to the host, the call is a lossy channel that holds    *)
(* one frame: timeouts, resets and flushes lose frames, and nothing ever   *)
(* reorders or repeats one.                                                *)
THEOREM Implementation == Spec => IsChannel
  <1>1. Init => Channel!Init
    BY DEF Init, Channel!Init
  <1>2. Inv /\ [Next]_vars => [Channel!Next]_(Channel!vars)
    BY ChannelStep DEF Channel!vars, Pending
  <1>. QED
    BY <1>1, <1>2, Invariance, PTL DEF Spec, IsChannel, Channel!Spec
=============================================================================
