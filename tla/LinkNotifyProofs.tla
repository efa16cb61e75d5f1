-------------------------- MODULE LinkNotifyProofs --------------------------
(* Proofs about LinkNotify, for one port or two, with SPI reads and USB    *)
(* transmissions that fail or not.                                         *)
EXTENDS LinkNotify, TLAPS

(* The handle is set exactly while the device is configured, so that a     *)
(* transmission to the NULL handle cannot leave a claim in a session.      *)
Inv == TypeOK /\ BusyIsInFlight /\ (pdev <=> configured)

(* A claim is made for an endpoint that is not in use, and none is left    *)
(* outside a session unless the reset has overtaken it.                    *)
ClaimInv ==
    \/ overtaken
    \/ /\ InFlight => cmdBusy
       /\ pc = "transmit" => configured /\ cmdBusy /\ ~InFlight

(* Every step keeps the variables in range. *)
LEMMA TypeStep == Inv /\ [Next]_vars => TypeOK'
  <1>. SUFFICES ASSUME Inv, [Next]_vars PROVE TypeOK'
    OBVIOUS
  <1>. USE AltAssumption, LinkAssumption DEF Inv, TypeOK, SessionTypeOK, history
  <1>1. CASE PollPort1
    <2>1. 1 \in Ports
      OBVIOUS
    <2>2. link[1] \in BOOLEAN
      BY <2>1
    <2>3. up' = link[1] \/ up' = FALSE
      BY <1>1 DEF PollPort1, Reading
    <2>4. up' \in BOOLEAN
      BY <2>2, <2>3
    <2>. QED  BY <1>1, <2>4 DEF PollPort1, sessionVars, notifyVars
  <1>2. CASE PollPort2
    <2>1. up' \in BOOLEAN
      BY <1>2, Zenon DEF PollPort2
    <2>. QED  BY <1>2, <2>1 DEF PollPort2, sessionVars, notifyVars
  <1>3. CASE Decide
    BY <1>3 DEF Decide, sessionVars, notifyVars
  <1>4. CASE Drop
    BY <1>4 DEF Drop, Recorded, sessionVars, notifyVars
  <1>5. CASE Claim
    BY <1>5 DEF Claim, sessionVars
  <1>6. CASE Transmit
    BY <1>6 DEF Transmit, Recorded, sessionVars
  <1>7. CASE TransmitFails
    BY <1>7 DEF TransmitFails, Recorded, sessionVars
  <1>8. CASE TransmitNull
    BY <1>8 DEF TransmitNull, sessionVars, notifyVars
  <1>9. ASSUME NEW p \in Ports, LinkChange(p) PROVE TypeOK'
    BY <1>9 DEF LinkChange, sessionVars, taskVars, notifyVars
  <1>10. CASE Configure
    BY <1>10 DEF Configure, SessionConfigure, taskVars
  <1>11. ASSUME NEW alt \in AltSettings, SetInterface(alt) PROVE TypeOK'
    BY <1>11 DEF SetInterface, SessionSetInterface, taskVars, notifyVars
  <1>12. CASE Reset
    BY <1>12 DEF Reset, SessionReset, taskVars
  <1>13. CASE HostPolls
    BY <1>13 DEF HostPolls, CmdDataIn, Carrier, sessionVars, taskVars
  <1>14. CASE UNCHANGED vars
    BY <1>14 DEF vars, sessionVars, taskVars, notifyVars
  <1>. QED
    BY <1>1, <1>2, <1>3, <1>4, <1>5, <1>6, <1>7, <1>8, <1>9, <1>10, <1>11,
       <1>12, <1>13, <1>14 DEF Next, LinkTask, Halted

(* Every step keeps a claim with its notification. *)
LEMMA BusyStep == Inv /\ [Next]_vars => BusyIsInFlight'
  <1>. SUFFICES ASSUME Inv, [Next]_vars PROVE BusyIsInFlight'
    OBVIOUS
  <1>. USE DEF Inv, BusyIsInFlight, InFlight
  <1>1. CASE PollPort1
    BY <1>1 DEF PollPort1, Reading, sessionVars, notifyVars
  <1>2. CASE PollPort2
    BY <1>2 DEF PollPort2, Reading, sessionVars, notifyVars
  <1>3. CASE Decide
    BY <1>3 DEF Decide, sessionVars, notifyVars
  <1>4. CASE Drop
    BY <1>4 DEF Drop, Recorded, sessionVars, notifyVars
  <1>5. CASE Claim
    BY <1>5 DEF Claim, sessionVars
  <1>6. CASE Transmit
    BY <1>6 DEF Transmit, Recorded, sessionVars
  <1>7. CASE TransmitFails
    BY <1>7 DEF TransmitFails, Recorded, sessionVars
  <1>8. CASE TransmitNull
    BY <1>8 DEF TransmitNull, sessionVars, notifyVars
  <1>9. ASSUME NEW p \in Ports, LinkChange(p) PROVE BusyIsInFlight'
    BY <1>9 DEF LinkChange, sessionVars, taskVars, notifyVars
  <1>10. CASE Configure
    BY <1>10 DEF Configure, SessionConfigure, taskVars
  <1>11. ASSUME NEW alt \in AltSettings, SetInterface(alt) PROVE BusyIsInFlight'
    BY <1>11 DEF SetInterface, SessionSetInterface, taskVars, notifyVars
  <1>12. CASE Reset
    BY <1>12 DEF Reset, SessionReset, taskVars
  <1>13. CASE HostPolls
    BY <1>13 DEF HostPolls, CmdDataIn, Carrier, sessionVars, taskVars
  <1>14. CASE UNCHANGED vars
    BY <1>14 DEF vars, sessionVars, taskVars, notifyVars
  <1>. QED
    BY <1>1, <1>2, <1>3, <1>4, <1>5, <1>6, <1>7, <1>8, <1>9, <1>10, <1>11,
       <1>12, <1>13, <1>14 DEF Next, LinkTask, Halted

(* Every step keeps the handle with the session. *)
LEMMA HandleStep == Inv /\ [Next]_vars => (pdev <=> configured)'
  <1>. SUFFICES ASSUME Inv, [Next]_vars PROVE (pdev <=> configured)'
    OBVIOUS
  <1>. USE DEF Inv
  <1>1. CASE PollPort1
    BY <1>1 DEF PollPort1, Reading, sessionVars, notifyVars
  <1>2. CASE PollPort2
    BY <1>2 DEF PollPort2, Reading, sessionVars, notifyVars
  <1>3. CASE Decide
    BY <1>3 DEF Decide, sessionVars, notifyVars
  <1>4. CASE Drop
    BY <1>4 DEF Drop, Recorded, sessionVars, notifyVars
  <1>5. CASE Claim
    BY <1>5 DEF Claim, sessionVars
  <1>6. CASE Transmit
    BY <1>6 DEF Transmit, Recorded, sessionVars
  <1>7. CASE TransmitFails
    BY <1>7 DEF TransmitFails, Recorded, sessionVars
  <1>8. CASE TransmitNull
    BY <1>8 DEF TransmitNull, sessionVars, notifyVars
  <1>9. ASSUME NEW p \in Ports, LinkChange(p) PROVE (pdev <=> configured)'
    BY <1>9 DEF LinkChange, sessionVars, taskVars, notifyVars
  <1>10. CASE Configure
    BY <1>10 DEF Configure, SessionConfigure, taskVars
  <1>11. ASSUME NEW alt \in AltSettings, SetInterface(alt) PROVE (pdev <=> configured)'
    BY <1>11 DEF SetInterface, SessionSetInterface, taskVars, notifyVars
  <1>12. CASE Reset
    BY <1>12 DEF Reset, SessionReset, taskVars
  <1>13. CASE HostPolls
    BY <1>13 DEF HostPolls, CmdDataIn, Carrier, sessionVars, taskVars
  <1>14. CASE UNCHANGED vars
    BY <1>14 DEF vars, sessionVars, taskVars, notifyVars
  <1>. QED
    BY <1>1, <1>2, <1>3, <1>4, <1>5, <1>6, <1>7, <1>8, <1>9, <1>10, <1>11,
       <1>12, <1>13, <1>14 DEF Next, LinkTask, Halted

(* Every step keeps the claim over its transfers. *)
LEMMA ClaimStep == Inv /\ ClaimInv /\ [Next]_vars => ClaimInv'
  <1>. SUFFICES ASSUME Inv, ClaimInv, [Next]_vars PROVE ClaimInv'
    OBVIOUS
  <1>. USE DEF Inv, ClaimInv, InFlight, history
  <1>1. CASE PollPort1
    BY <1>1 DEF PollPort1, sessionVars, notifyVars
  <1>2. CASE PollPort2
    BY <1>2 DEF PollPort2, sessionVars, notifyVars
  <1>3. CASE Decide
    BY <1>3 DEF Decide, sessionVars, notifyVars
  <1>4. CASE Drop
    BY <1>4 DEF Drop, Recorded, sessionVars, notifyVars
  <1>5. CASE Claim
    BY <1>5 DEF Claim, sessionVars
  <1>6. CASE Transmit
    BY <1>6 DEF Transmit, Recorded, sessionVars
  <1>7. CASE TransmitFails
    BY <1>7 DEF TransmitFails, Recorded, sessionVars
  <1>8. CASE TransmitNull
    BY <1>8 DEF TransmitNull, sessionVars, notifyVars
  <1>9. ASSUME NEW p \in Ports, LinkChange(p) PROVE ClaimInv'
    BY <1>9 DEF LinkChange, sessionVars, taskVars, notifyVars
  <1>10. CASE Configure
    BY <1>10 DEF Configure, SessionConfigure, taskVars
  <1>11. ASSUME NEW alt \in AltSettings, SetInterface(alt) PROVE ClaimInv'
    BY <1>11 DEF SetInterface, SessionSetInterface, taskVars, notifyVars
  <1>12. CASE Reset
    BY <1>12 DEF Reset, taskVars
  <1>13. CASE HostPolls
    BY <1>13 DEF HostPolls, CmdDataIn, sessionVars, taskVars
  <1>14. CASE UNCHANGED vars
    BY <1>14 DEF vars, sessionVars, taskVars, notifyVars
  <1>. QED
    BY <1>1, <1>2, <1>3, <1>4, <1>5, <1>6, <1>7, <1>8, <1>9, <1>10, <1>11,
       <1>12, <1>13, <1>14 DEF Next, LinkTask, Halted

LEMMA Invariance == Spec => []Inv
  <1>1. Init => Inv
    BY AltAssumption
    DEF Init, SessionInit, Inv, TypeOK, SessionTypeOK, BusyIsInFlight
  <1>2. Inv /\ [Next]_vars => Inv'
    BY TypeStep, BusyStep, HandleStep DEF Inv
  <1>. QED  BY <1>1, <1>2, PTL DEF Spec

(* Types, and that the interrupt endpoint is open exactly while the device *)
(* is configured, for one port or two and whatever fails.                  *)
THEOREM TypeCorrect == Spec => []TypeOK
  <1>1. Inv => TypeOK
    BY DEF Inv
  <1>. QED  BY <1>1, Invariance, PTL

(* s_cmd_busy, which link_task sets and ECM_DataIn clears, never outlives  *)
(* its notification into a session: a bus reset in mid transfer, a refused *)
(* transmission or a speed change still owed cannot block the endpoint.    *)
THEOREM NeverClaimedForNothing == Spec => []BusyIsInFlight
  <1>1. Inv => BusyIsInFlight
    BY DEF Inv
  <1>. QED  BY <1>1, Invariance, PTL

(* And it covers every transfer it was made for, both notifications of a   *)
(* link that is up, unless a reset came between claim and transmission: so *)
(* no transmission replaces another, and no change that finds the flag     *)
(* clear can find the endpoint in use.                                     *)
THEOREM ClaimCovers == Spec => []ClaimCoversTransfer
  <1>1. Init => ClaimInv
    BY DEF Init, ClaimInv, InFlight
  <1>2. ClaimInv => ClaimCoversTransfer
    BY DEF ClaimInv, ClaimCoversTransfer
  <1>. QED  BY <1>1, <1>2, ClaimStep, Invariance, PTL DEF Spec
=============================================================================
