----------------------------- MODULE SpiPortProofs -----------------------------
(* Proofs about SpiPort, for any set of tasks.                             *)
EXTENDS SpiPort, TLAPS

-----------------------------------------------------------------------------
(* The inductive invariant *)

(* The HAL is busy exactly during a polled transfer or a burst.            *)
HalInv == halReady <=> (dma = NoTask /\ \A t \in Tasks : pc[t] # "polling")

(* During a burst there is neither signal nor error; its end leaves both   *)
(* as the burst deserves, and nothing older has got past the two resets.   *)
SignalInv ==
    \A t \in Tasks :
        /\ pc[t] \in {"drop", "start"} => ~spiError
        /\ pc[t] = "start" => ~spiDone
        /\ pc[t] \in {"wait", "abort"} /\ dma # NoTask => ~spiDone /\ ~spiError /\ ~whole
        /\ pc[t] \in {"wait", "abort"} /\ dma = NoTask => spiDone /\ (spiError <=> ~whole)
        /\ pc[t] = "check" => dma = NoTask /\ (spiError <=> ~whole)

ResultInv ==
    /\ ResultIsTrue
    /\ \A t \in Tasks : pc[t] \in InTransfer => result = "none"

PortInv == TypeOK /\ DmaIsBracketed /\ HalInv /\ SignalInv /\ ResultInv

LEMMA PortInit == Init => PortInv
  BY TasksAssumption
  DEF Init, PortInv, TypeOK, DmaIsBracketed, HalInv, SignalInv, ResultInv, ResultIsTrue,
      InTransfer, At

(* Whoever is not idle holds the lock, so no two tasks are.                *)
LEMMA OneActive ==
    ASSUME TypeOK, NEW t \in Tasks, pc[t] # "idle"
    PROVE  lock = t /\ \A u \in Tasks \ {t} : pc[u] = "idle"
  BY DEF TypeOK, At

(* A step of the active task: it suffices to look at that task.            *)
LEMMA ActiveStep ==
    ASSUME PortInv, NEW t \in Tasks, NEW place \in {"return"} \cup InTransfer,
           pc[t] \in {"return"} \cup InTransfer, Goto(t, place),
           UNCHANGED <<lock, select>>, dma' \in {NoTask, t},
           spiDone' \in BOOLEAN, spiError' \in BOOLEAN, halReady' \in BOOLEAN,
           whole' \in BOOLEAN, result' \in {"none", "ok", "error"},
           dma' # NoTask => place \in {"wait", "abort"} /\ ~spiDone' /\ ~spiError' /\ ~whole',
           halReady' <=> (dma' = NoTask /\ place # "polling"),
           place \in {"drop", "start"} => ~spiError',
           place = "start" => ~spiDone',
           place \in {"wait", "abort"} /\ dma' = NoTask => spiDone' /\ (spiError' <=> ~whole'),
           place = "check" => dma' = NoTask /\ (spiError' <=> ~whole'),
           place \in InTransfer => result' = "none",
           result' = "ok" => whole'
    PROVE  PortInv'
  <1>. USE TasksAssumption
  <1>1. /\ lock = t /\ select = t /\ pc' = [pc EXCEPT ![t] = place]
        /\ pc'[t] = place /\ \A u \in Tasks \ {t} : pc'[u] = "idle" /\ pc'[u] = pc[u]
    BY OneActive DEF PortInv, TypeOK, Goto, At, InTransfer
  <1>2. TypeOK'
    BY <1>1 DEF PortInv, TypeOK, At, InTransfer
  <1>3. DmaIsBracketed' /\ HalInv' /\ ResultInv'
    BY <1>1 DEF DmaIsBracketed, HalInv, ResultInv, ResultIsTrue, InTransfer
  <1>4. SignalInv'
    BY <1>1 DEF SignalInv
  <1>. QED  BY <1>2, <1>3, <1>4 DEF PortInv

LEMMA PortStep == PortInv /\ [Next]_vars => PortInv'
  <1>. SUFFICES ASSUME PortInv, [Next]_vars PROVE PortInv'
    OBVIOUS
  <1>. USE TasksAssumption DEF PortInv
  <1>1. ASSUME NEW t \in Tasks, Lock(t) PROVE PortInv'
    BY <1>1 DEF Lock, Goto, At, busVars, sigVars, TypeOK, DmaIsBracketed, HalInv, SignalInv,
       ResultInv, ResultIsTrue, InTransfer
  <1>2. ASSUME NEW t \in Tasks, Unlock(t) PROVE PortInv'
    BY <1>2, OneActive DEF Unlock, Goto, At, busVars, sigVars, TypeOK, DmaIsBracketed, HalInv, SignalInv,
       ResultInv, ResultIsTrue, InTransfer
  <1>3. ASSUME NEW t \in Tasks, Select(t) PROVE PortInv'
    BY <1>3, OneActive DEF Select, Goto, At, busVars, sigVars, TypeOK, DmaIsBracketed, HalInv, SignalInv,
       ResultInv, ResultIsTrue, InTransfer
  <1>4. ASSUME NEW t \in Tasks, Transfer(t) PROVE PortInv'
    <2>1. CASE PollStart(t)
      <3>1. \A u \in Tasks : pc[u] = "polling" => u = t
        BY <2>1, OneActive DEF PollStart, At
      <3>. QED
        BY <2>1, <3>1, ActiveStep DEF PollStart, Return, At, busVars, sigVars, TypeOK,
           DmaIsBracketed, HalInv, SignalInv, ResultInv, ResultIsTrue, InTransfer
    <2>2. CASE PollEnd(t)
      <3>1. \A u \in Tasks : pc[u] = "polling" => u = t
        BY <2>2, OneActive DEF PollEnd, At
      <3>. QED
        BY <2>2, <3>1, ActiveStep DEF PollEnd, Return, At, busVars, sigVars, TypeOK,
           DmaIsBracketed, HalInv, SignalInv, ResultInv, ResultIsTrue, InTransfer
    <2>3. CASE ClearError(t)
      <3>1. \A u \in Tasks : pc[u] = "polling" => u = t
        BY <2>3, OneActive DEF ClearError, At
      <3>. QED
        BY <2>3, <3>1, ActiveStep DEF ClearError, Return, At, busVars, sigVars, TypeOK,
           DmaIsBracketed, HalInv, SignalInv, ResultInv, ResultIsTrue, InTransfer
    <2>4. CASE DropSignal(t)
      <3>1. \A u \in Tasks : pc[u] = "polling" => u = t
        BY <2>4, OneActive DEF DropSignal, At
      <3>. QED
        BY <2>4, <3>1, ActiveStep DEF DropSignal, Return, At, busVars, sigVars, TypeOK,
           DmaIsBracketed, HalInv, SignalInv, ResultInv, ResultIsTrue, InTransfer
    <2>5. CASE DmaStart(t)
      <3>1. \A u \in Tasks : pc[u] = "polling" => u = t
        BY <2>5, OneActive DEF DmaStart, At
      <3>. QED
        BY <2>5, <3>1, ActiveStep DEF DmaStart, Return, At, busVars, sigVars, TypeOK,
           DmaIsBracketed, HalInv, SignalInv, ResultInv, ResultIsTrue, InTransfer
    <2>6. CASE StartFails(t)
      <3>1. \A u \in Tasks : pc[u] = "polling" => u = t
        BY <2>6, OneActive DEF StartFails, At
      <3>. QED
        BY <2>6, <3>1, ActiveStep DEF StartFails, Return, At, busVars, sigVars, TypeOK,
           DmaIsBracketed, HalInv, SignalInv, ResultInv, ResultIsTrue, InTransfer
    <2>7. CASE WaitDone(t)
      <3>1. \A u \in Tasks : pc[u] = "polling" => u = t
        BY <2>7, OneActive DEF WaitDone, At
      <3>. QED
        BY <2>7, <3>1, ActiveStep DEF WaitDone, Return, At, busVars, sigVars, TypeOK,
           DmaIsBracketed, HalInv, SignalInv, ResultInv, ResultIsTrue, InTransfer
    <2>8. CASE WaitTimesOut(t)
      <3>1. \A u \in Tasks : pc[u] = "polling" => u = t
        BY <2>8, OneActive DEF WaitTimesOut, At
      <3>. QED
        BY <2>8, <3>1, ActiveStep DEF WaitTimesOut, Return, At, busVars, sigVars, TypeOK,
           DmaIsBracketed, HalInv, SignalInv, ResultInv, ResultIsTrue, InTransfer
    <2>9. CASE Abort(t)
      <3>1. \A u \in Tasks : pc[u] = "polling" => u = t
        BY <2>9, OneActive DEF Abort, At
      <3>. QED
        BY <2>9, <3>1, ActiveStep DEF Abort, Return, At, busVars, sigVars, TypeOK,
           DmaIsBracketed, HalInv, SignalInv, ResultInv, ResultIsTrue, InTransfer
    <2>10. CASE Check(t)
      <3>1. \A u \in Tasks : pc[u] = "polling" => u = t
        BY <2>10, OneActive DEF Check, At
      <3>. QED
        BY <2>10, <3>1, ActiveStep DEF Check, Return, At, busVars, sigVars, TypeOK,
           DmaIsBracketed, HalInv, SignalInv, ResultInv, ResultIsTrue, InTransfer
    <2>11. CASE Deselect(t)
      BY <2>11, OneActive DEF Deselect, Return, Goto, At, busVars, sigVars, TypeOK,
         DmaIsBracketed, HalInv, SignalInv, ResultInv, ResultIsTrue, InTransfer
    <2>. QED  BY <1>4, <2>1, <2>2, <2>3, <2>4, <2>5, <2>6, <2>7, <2>8, <2>9, <2>10, <2>11 DEF Transfer
  <1>5. CASE Complete
    BY <1>5 DEF Complete, At, TypeOK, DmaIsBracketed, HalInv, SignalInv,
       ResultInv, ResultIsTrue, InTransfer
  <1>6. CASE Error
    BY <1>6 DEF Error, At, TypeOK, DmaIsBracketed, HalInv, SignalInv,
       ResultInv, ResultIsTrue, InTransfer
  <1>7. CASE UNCHANGED vars
    BY <1>7 DEF vars, busVars, sigVars, At, TypeOK, DmaIsBracketed, HalInv, SignalInv,
       ResultInv, ResultIsTrue, InTransfer
  <1>. QED  BY <1>1, <1>2, <1>3, <1>4, <1>5, <1>6, <1>7 DEF Next

LEMMA PortSafe == Spec => []PortInv
  BY PortInit, PortStep, PTL DEF Spec

-----------------------------------------------------------------------------
(* Lock, chip select and program counters fit together.                    *)
THEOREM TypeCorrect == Spec => []TypeOK
  <1>1. PortInv => TypeOK
    BY DEF PortInv
  <1>. QED  BY <1>1, PortSafe, PTL

(* The DMA works only for the task that waits for it with the chip         *)
(* selected, so a buffer is only lent to spi_xfer until it returns.        *)
THEOREM DmaBracketed == Spec => []DmaIsBracketed
  <1>1. PortInv => DmaIsBracketed
    BY DEF PortInv
  <1>. QED  BY <1>1, PortSafe, PTL

(* No transfer of the ADIN2111 is turned down as busy, also after a        *)
(* timeout or an error of the one before.                                  *)
THEOREM HalNeverBusy == Spec => []NeverBusy
  <1>1. PortInv => NeverBusy
    <2>. SUFFICES ASSUME PortInv, NEW t \in Tasks, pc[t] \in {"locked", "poll", "start"}
                  PROVE  halReady
      BY DEF NeverBusy
    <2>1. \A u \in Tasks \ {t} : pc[u] = "idle"
      BY OneActive DEF PortInv
    <2>. QED  BY <2>1 DEF PortInv, HalInv, DmaIsBracketed, TypeOK
  <1>. QED  BY <1>1, PortSafe, PTL

(* A late interrupt of an aborted burst never passes for the completion or *)
(* the error of a later one, and an access that is reported as good has    *)
(* moved all its bytes.                                                    *)
THEOREM GoodIsWhole == Spec => []OkIsWhole
  <1>1. PortInv => SignalIsOfThisBurst
    <2>. SUFFICES ASSUME PortInv, NEW t \in Tasks, pc[t] = "check"
                  PROVE  dma = NoTask /\ spiError = ~whole
      BY DEF SignalIsOfThisBurst, At
    <2>1. dma = NoTask /\ (spiError <=> ~whole)
      BY DEF PortInv, SignalInv
    <2>. QED  BY <2>1, Zenon DEF PortInv, TypeOK
  <1>2. PortInv => OkIsWhole
    BY <1>1 DEF PortInv, ResultInv, OkIsWhole
  <1>. QED  BY <1>2, PortSafe, PTL
=============================================================================
