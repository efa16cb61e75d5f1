------------------------ MODULE ForwardingTableProofs ------------------------
(* Proofs about ForwardingTable, for every table size, set of stations,    *)
(* ageing time and counter width.                                          *)
EXTENDS ForwardingTable, WellFoundedInduction, TLAPS

-----------------------------------------------------------------------------
(* Arithmetic *)

(* Subtraction modulo the counter's range.                                 *)
LEMMA SinceValue ==
    ASSUME NEW now \in Ticks, NEW stamp \in Ticks
    PROVE  /\ Since(now, stamp) = IF stamp <= now THEN now - stamp ELSE now - stamp + TickMod
           /\ Since(now, stamp) \in Ticks
  <1>. USE TableAssumption
  <1>. DEFINE M == TickMod
  <1>1. M \in Nat /\ M > 0 /\ now \in 0..(M - 1) /\ stamp \in 0..(M - 1)
    BY DEF Ticks
  <1>. HIDE DEF M
  <1>2. ASSUME NEW x \in 0..(M - 1) PROVE x % M = x
    BY <1>1
  <1>3. ASSUME NEW x \in (1 - M)..(-1) PROVE x % M = x + M
    BY <1>1
  <1>4. stamp <= now => (now - stamp) % M = now - stamp
    BY <1>1, <1>2
  <1>5. ~(stamp <= now) => (now - stamp) % M = now - stamp + M
    BY <1>1, <1>3
  <1>. QED  BY <1>1, <1>4, <1>5 DEF M, Since, Ticks

LEMMA LeastNat ==
    ASSUME NEW T \in SUBSET Nat, T # {}
    PROVE  \E x \in T : \A y \in T : x <= y
  <1>. DEFINE R == OpToRel(<, Nat)
  <1>1. IsWellFoundedOn(R, Nat)
    BY NatLessThanWellFounded
  <1>2. \A x, y \in Nat : x < y => <<x, y>> \in R
    BY DEF OpToRel
  <1>. HIDE DEF R
  <1>3. PICK x \in T : \A y \in T : ~(<<y, x>> \in R)
    BY <1>1, WFMin
  <1>4. ASSUME NEW y \in T PROVE ~(y < x)
    BY <1>2, <1>3
  <1>5. \A y \in T : x <= y
    BY <1>4
  <1>. QED  BY <1>5

(* The slot pass 2 falls back on exists and has the greatest age.          *)
LEMMA OldestSlotIsOldest ==
    ASSUME TypeOK, \A i \in Slots : Valid(i)
    PROVE  OldestSlot \in Slots /\ \A j \in Slots : Age(j) <= Age(OldestSlot)
  <1>. USE TableAssumption
  <1>1. ASSUME NEW i \in Slots PROVE Age(i) \in Ticks
    <2>1. fdb[i].stamp \in Ticks /\ tick \in Ticks
      BY DEF TypeOK, Valid, Entries
    <2>. QED  BY <2>1, SinceValue DEF Age
  <1>2. Ticks \subseteq Nat /\ Slots \subseteq Nat /\ 0 \in Slots /\ TickMod \in Nat
    BY DEF Ticks, Slots
  <1>. DEFINE Gaps == {TickMod - Age(i) : i \in Slots}
              oldest == {i \in Slots : \A j \in Slots : Age(j) <= Age(i)}
  <1>3. \A i \in Slots : TickMod - Age(i) \in Nat /\ Age(i) \in Int
    BY <1>1 DEF Ticks
  <1>4. Gaps \in SUBSET Nat /\ Gaps # {}
    BY <1>2, <1>3
  <1>5. PICK g \in Gaps : \A h \in Gaps : g <= h
    BY <1>4, LeastNat
  <1>6. PICK i \in Slots : g = TickMod - Age(i)
    BY <1>5
  <1>7. \A j \in Slots : Age(j) <= Age(i)
    <2>. SUFFICES ASSUME NEW j \in Slots PROVE Age(j) <= Age(i)
      OBVIOUS
    <2>1. g <= TickMod - Age(j)
      BY <1>5
    <2>. QED  BY <1>2, <1>3, <1>6, <2>1
  <1>8. i \in oldest
    BY <1>7
  <1>. DEFINE Backs == {MaxEntries - j : j \in oldest}
  <1>9. Backs \in SUBSET Nat /\ Backs # {}
    BY <1>8 DEF Slots
  <1>10. PICK b \in Backs : \A c \in Backs : b <= c
    BY <1>9, LeastNat
  <1>11. PICK k \in oldest : b = MaxEntries - k
    BY <1>10
  <1>12. \A j \in oldest : j <= k
    <2>. SUFFICES ASSUME NEW j \in oldest PROVE j <= k
      OBVIOUS
    <2>1. b <= MaxEntries - j
      BY <1>10
    <2>2. j \in Int /\ k \in Int /\ MaxEntries \in Int
      BY DEF Slots
    <2>. QED  BY <1>11, <2>1, <2>2
  <1>13. OldestSlot \in oldest
    <2>1. OldestSlot = CHOOSE n \in oldest : \A j \in oldest : j <= n
      BY DEF OldestSlot
    <2>. HIDE DEF oldest
    <2>. QED  BY <1>11, <1>12, <2>1
  <1>. QED  BY <1>13

(* A new station gets a slot: a free or aged-out one, or the oldest.       *)
LEMMA SlotForNewIsSlot ==
    ASSUME TypeOK
    PROVE  /\ SlotForNew \in Slots
           /\ \/ Reusable(SlotForNew)
              \/ \A j \in Slots : Valid(j) /\ Age(j) <= Age(SlotForNew)
  <1>. USE TableAssumption
  <1>1. CASE \E i \in Slots : Reusable(i)
    <2>. DEFINE R == {i \in Slots : Reusable(i)}
    <2>1. R \in SUBSET Nat /\ R # {}
      BY <1>1 DEF Slots
    <2>2. PICK i \in R : \A j \in R : i <= j
      BY <2>1, LeastNat
    <2>3. i \in Slots /\ Reusable(i) /\ \A j \in Slots : Reusable(j) => i <= j
      BY <2>2
    <2>4. SlotForNew = CHOOSE n \in Slots : Reusable(n) /\ \A j \in Slots : Reusable(j) => n <= j
      BY <1>1 DEF SlotForNew
    <2>. QED  BY <2>3, <2>4
  <1>2. CASE ~\E i \in Slots : Reusable(i)
    <2>1. \A i \in Slots : Valid(i)
      BY <1>2 DEF Reusable
    <2>2. SlotForNew = OldestSlot
      BY <1>2 DEF SlotForNew
    <2>. QED  BY <2>1, <2>2, OldestSlotIsOldest
  <1>. QED  BY <1>1, <1>2

-----------------------------------------------------------------------------
(* Type correctness *)

JobType == [slot : Slots, ctl : {0, 1, 2}, mac : Nat \X Nat, mask : BOOLEAN]
RegType == [maskUpr : BOOLEAN, maskLwr : BOOLEAN, lwr : Nat, upr : Nat, ctl : {0, 1, 2}]

LEMMA FilterTypes ==
    /\ \A i \in Slots : ClearFilter(i) \in JobType
    /\ \A i \in Slots, m \in Macs, p \in Ports : SetFilter(i, m, p) \in JobType
    /\ ClearFilter(0) \in JobType
  <1>1. 0 \in Slots
    BY TableAssumption DEF Slots
  <1>2. \A p \in Ports : 3 - p \in {0, 1, 2}
    BY DEF Ports
  <1>. QED
    BY <1>1, <1>2, TableAssumption DEF ClearFilter, SetFilter, Filter, JobType

LEMMA RegisterType ==
    ASSUME NEW r \in RegType, NEW f \in JobType, NEW n \in 1..4
    PROVE  WriteRegister(r, f, n) \in RegType
  <1>1. f.mac[1] \in Nat /\ f.mac[2] \in Nat /\ f.mask \in BOOLEAN /\ f.ctl \in {0, 1, 2}
    BY DEF JobType
  <1>2. CASE n = 1
    BY <1>1, <1>2 DEF WriteRegister, RegType
  <1>3. CASE n = 2
    BY <1>1, <1>3 DEF WriteRegister, RegType
  <1>4. CASE n = 3
    BY <1>1, <1>4 DEF WriteRegister, RegType
  <1>5. CASE n = 4
    BY <1>1, <1>5 DEF WriteRegister, RegType
  <1>. QED  BY <1>2, <1>3, <1>4, <1>5

LEMMA EntryType ==
    ASSUME TypeOK, NEW src \in Macs, NEW port \in Ports
    PROVE  Entry(src, port) \in Entries /\ Entry(src, port) # NoEntry
  BY NoEntryAssumption DEF Entry, Entries, TypeOK

LEMMA TypeStep == TypeOK /\ [Next]_vars => TypeOK'
  <1>. SUFFICES ASSUME TypeOK, [Next]_vars PROVE TypeOK'
    OBVIOUS
  <1>. USE TableAssumption
  <1>0. /\ job \in JobType /\ hw \in [Slots -> RegType]
    BY DEF TypeOK, JobType, RegType
  <1>1. ASSUME NEW src \in Macs, NEW port \in Ports, Learn(src, port) PROVE TypeOK'
    <2>0. lock = "none" /\ lock' = "rx" /\ UNCHANGED <<dirty, tick, hw, linkVars>>
      BY <1>1 DEF Learn
    <2>1. CASE fdb' = fdb /\ NoProgram
      BY <2>0, <2>1 DEF NoProgram, TypeOK, linkVars
    <2>2. ASSUME NEW i \in Slots, fdb' = [fdb EXCEPT ![i] = Entry(src, port)],
                 NoProgram \/ Program(SetFilter(i, src, port))
          PROVE  TypeOK'
      <3>1. fdb' \in [Slots -> Entries \cup {NoEntry}]
        BY <2>2, EntryType DEF TypeOK
      <3>2. job' \in JobType /\ step' \in 0..4
        BY <1>0, <2>2, FilterTypes DEF NoProgram, Program, TypeOK
      <3>. QED  BY <2>0, <3>1, <3>2 DEF TypeOK, linkVars, JobType
    <2>3. CASE \E i \in Slots : Valid(i) /\ fdb[i].mac = src /\ Refresh(i, src, port)
      BY <2>2, <2>3 DEF Refresh
    <2>4. CASE Install(SlotForNew, src, port)
      BY <2>2, <2>4, SlotForNewIsSlot DEF Install
    <2>. QED  BY <1>1, <2>1, <2>3, <2>4 DEF Learn
  <1>2. CASE RxUnlock
    BY <1>2 DEF RxUnlock, TypeOK, linkVars
  <1>3. CASE LinkSample
    BY <1>3 DEF LinkSample, TypeOK
  <1>4. CASE LinkLock
    BY <1>4 DEF LinkLock, TypeOK
  <1>5. CASE LinkScan
    <2>1. scan' \in 0..MaxEntries
      BY <1>5 DEF LinkScan, Slots
    <2>2. fdb' \in [Slots -> Entries \cup {NoEntry}] /\ job' \in JobType /\ step' \in 0..4
      BY <1>0, <1>5, FilterTypes DEF LinkScan, Release, Program, NoProgram, TypeOK
    <2>3. UNCHANGED <<dirty, tick, hw, lock, linkPc, linkNow>> /\ lock = "link"
      BY <1>5 DEF LinkScan, TypeOK
    <2>. QED  BY <2>1, <2>2, <2>3 DEF TypeOK, JobType
  <1>6. CASE LinkUnlock
    BY <1>6 DEF LinkUnlock, TypeOK
  <1>7. CASE FilterWrite
    <2>1. step \in 1..4 /\ job.slot \in Slots
      BY <1>0, <1>7 DEF FilterWrite, TypeOK, JobType
    <2>2. hw' \in [Slots -> RegType]
      BY <1>0, <1>7, <2>1, RegisterType DEF FilterWrite
    <2>3. job' \in JobType /\ step' \in 0..4 /\ lock # "none"
      BY <1>0, <1>7, <2>1, FilterTypes DEF FilterWrite, TypeOK
    <2>4. dirty' \subseteq dirty /\ UNCHANGED <<tick, fdb, lock, linkVars>>
      BY <1>7 DEF FilterWrite
    <2>. QED  BY <2>2, <2>3, <2>4 DEF TypeOK, JobType, RegType, linkVars
  <1>8. CASE FilterWriteFails
    <2>1. /\ job' \in JobType /\ step' = 0 /\ dirty' = dirty \cup {job.slot}
          /\ job.slot \in Slots /\ UNCHANGED <<tick, fdb, hw, lock, linkVars>>
      BY <1>0, <1>8, FilterTypes DEF FilterWriteFails, JobType
    <2>. QED  BY <2>1 DEF TypeOK, JobType, linkVars
  <1>9. CASE Tick
    <2>1. tick' \in Ticks
      BY <1>9 DEF Tick, Ticks, TypeOK
    <2>. QED  BY <1>9, <2>1 DEF Tick, TypeOK, linkVars
  <1>10. CASE UNCHANGED vars
    BY <1>10 DEF vars, linkVars, TypeOK
  <1>. QED
    BY <1>1, <1>2, <1>3, <1>4, <1>5, <1>6, <1>7, <1>8, <1>9, <1>10 DEF Next, Link, Spi

(* The table, the registers and the lock stay in range; the lock is held   *)
(* by link_task exactly during its scan and by somebody during any write.  *)
THEOREM TypeCorrect == Spec => []TypeOK
  <1>1. Init => TypeOK
    <2>. SUFFICES ASSUME Init PROVE TypeOK
      OBVIOUS
    <2>0. dirty \subseteq Slots
      BY DEF Init
    <2>1. job \in JobType /\ step = 0
      BY FilterTypes DEF Init
    <2>2. hw \in [Slots -> RegType]
      BY DEF Init, BlankSlot, RegType
    <2>3. 0 \in Ticks /\ 0 \in 0..MaxEntries
      BY TableAssumption DEF Ticks
    <2>4. /\ tick \in Ticks /\ lock = "none" /\ linkPc = "sleep" /\ linkNow = 0 /\ scan = 0
          /\ fdb \in [Slots -> Entries \cup {NoEntry}]
      BY DEF Init
    <2>. QED  BY <2>0, <2>1, <2>2, <2>3, <2>4 DEF TypeOK, JobType, RegType
  <1>. QED  BY <1>1, TypeStep, PTL DEF Spec

-----------------------------------------------------------------------------
(* One entry per station *)

LEMMA UniqueStep == TypeOK /\ UniqueMac /\ [Next]_vars => UniqueMac'
  <1>. SUFFICES ASSUME TypeOK, UniqueMac, [Next]_vars PROVE UniqueMac'
    OBVIOUS
  <1>1. ASSUME NEW src \in Macs, NEW port \in Ports, Learn(src, port) PROVE UniqueMac'
    <2>1. CASE fdb' = fdb
      BY <2>1 DEF UniqueMac, Valid
    <2>2. ASSUME NEW s \in Slots, fdb' = [fdb EXCEPT ![s] = Entry(src, port)],
                 \A i \in Slots \ {s} : ~(Valid(i) /\ fdb[i].mac = src)
          PROVE  UniqueMac'
      <3>1. \A i \in Slots : fdb'[i] = IF i = s THEN Entry(src, port) ELSE fdb[i]
        BY <2>2 DEF TypeOK
      <3>2. Entry(src, port).mac = src
        BY DEF Entry
      <3>. QED  BY <2>2, <3>1, <3>2 DEF UniqueMac, Valid
    <2>3. CASE \E i \in Slots : Valid(i) /\ fdb[i].mac = src
      <3>1. CASE Learnable(src)
        <4>1. PICK s \in Slots : Valid(s) /\ fdb[s].mac = src /\ Refresh(s, src, port)
          BY <1>1, <2>3, <3>1 DEF Learn
        <4>2. \A i \in Slots \ {s} : ~(Valid(i) /\ fdb[i].mac = src)
          BY <4>1 DEF UniqueMac
        <4>. QED  BY <2>2, <4>1, <4>2 DEF Refresh
      <3>2. CASE ~Learnable(src)
        BY <1>1, <2>1, <3>2 DEF Learn
      <3>. QED  BY <3>1, <3>2
    <2>4. CASE ~\E i \in Slots : Valid(i) /\ fdb[i].mac = src
      <3>1. CASE Learnable(src)
        BY <1>1, <2>2, <2>4, <3>1, SlotForNewIsSlot DEF Learn, Install
      <3>2. CASE ~Learnable(src)
        BY <1>1, <2>1, <3>2 DEF Learn
      <3>. QED  BY <3>1, <3>2
    <2>. QED  BY <2>3, <2>4
  <1>2. CASE LinkScan
    <2>1. fdb' = fdb \/ fdb' = [fdb EXCEPT ![scan] = NoEntry]
      BY <1>2 DEF LinkScan, Release
    <2>. QED  BY <2>1 DEF UniqueMac, Valid, TypeOK
  <1>3. CASE RxUnlock \/ LinkSample \/ LinkLock \/ LinkUnlock \/ Spi \/ Tick \/ UNCHANGED vars
    <2>1. fdb' = fdb
      BY <1>3 DEF RxUnlock, LinkSample, LinkLock, LinkUnlock, Spi, FilterWrite,
         FilterWriteFails, Tick, vars
    <2>. QED  BY <2>1 DEF UniqueMac, Valid
  <1>. QED  BY <1>1, <1>2, <1>3 DEF Next, Link

(* A station never has two entries, so lookup and refresh agree on it.     *)
THEOREM OneEntryPerStation == Spec => []UniqueMac
  <1>1. Init => UniqueMac
    BY DEF Init, UniqueMac, Valid
  <1>. QED  BY <1>1, TypeCorrect, UniqueStep, PTL DEF Spec

-----------------------------------------------------------------------------
(* Eviction and ageing *)

(* net_bridge_learn evicts an aged-out entry or the oldest of a full table.*)
THEOREM EvictionIsFair == Spec => VictimIsOldest
  <1>. DEFINE Fair == \A i \in Slots :
                (Valid(i) /\ Valid(i)' /\ fdb'[i].mac # fdb[i].mac) =>
                    \/ Age(i) > AgeTicks
                    \/ \A j \in Slots : Valid(j) /\ Age(j) <= Age(i)
  <1>1. TypeOK /\ [Next]_vars => [Fair]_vars
    <2>. SUFFICES ASSUME TypeOK, [Next]_vars, NEW i \in Slots,
                         Valid(i), Valid(i)', fdb'[i].mac # fdb[i].mac
                  PROVE  \/ Age(i) > AgeTicks
                         \/ \A j \in Slots : Valid(j) /\ Age(j) <= Age(i)
      OBVIOUS
    <2>1. CASE LinkScan
      BY <2>1 DEF LinkScan, Release, Valid, TypeOK
    <2>2. CASE RxUnlock \/ LinkSample \/ LinkLock \/ LinkUnlock \/ Spi \/ Tick \/ UNCHANGED vars
      BY <2>2 DEF RxUnlock, LinkSample, LinkLock, LinkUnlock, Spi, FilterWrite,
         FilterWriteFails, Tick, vars
    <2>3. ASSUME NEW src \in Macs, NEW port \in Ports, Learn(src, port)
          PROVE  \/ Age(i) > AgeTicks
                 \/ \A j \in Slots : Valid(j) /\ Age(j) <= Age(i)
      <3>1. fdb' # fdb
        OBVIOUS
      <3>2. CASE Install(SlotForNew, src, port)
        <4>1. i = SlotForNew
          BY <3>2 DEF Install, TypeOK
        <4>2. ~Reusable(i) \/ Age(i) > AgeTicks
          BY DEF Reusable, Stale
        <4>. QED  BY <4>1, <4>2, SlotForNewIsSlot
      <3>3. ASSUME NEW s \in Slots, fdb[s].mac = src, Refresh(s, src, port) PROVE FALSE
        <4>1. fdb' = [fdb EXCEPT ![s] = Entry(src, port)]
          BY <3>3 DEF Refresh
        <4>2. Entry(src, port).mac = src
          BY DEF Entry
        <4>. QED  BY <3>3, <4>1, <4>2 DEF TypeOK
      <3>. QED  BY <2>3, <3>1, <3>2, <3>3 DEF Learn
    <2>. QED  BY <2>1, <2>2, <2>3 DEF Next, Link
  <1>. QED  BY <1>1, TypeCorrect, PTL DEF Spec, VictimIsOldest

(* Whatever link_task ages out was idle too long, or was refreshed between *)
(* its reading of the tick and its scan, whichever way the counter wraps.  *)
THEOREM AgeingIsSound == Spec => AgedOutOrRaced
  <1>. DEFINE Sound == \A i \in Slots :
                (Valid(i) /\ ~Valid(i)') =>
                    Age(i) > AgeTicks \/ Age(i) < Since(tick, linkNow)
  <1>1. TypeOK /\ [Next]_vars => [Sound]_vars
    <2>. SUFFICES ASSUME TypeOK, [Next]_vars, NEW i \in Slots, Valid(i), ~Valid(i)'
                  PROVE  Age(i) > AgeTicks \/ Age(i) < Since(tick, linkNow)
      OBVIOUS
    <2>1. CASE LinkScan
      <3>1. i = scan /\ Expired(i)
        BY <2>1 DEF LinkScan, Release, Valid, TypeOK
      <3>2. fdb[i].stamp \in Ticks /\ tick \in Ticks /\ linkNow \in Ticks
        BY DEF TypeOK, Valid, Entries
      <3>3. Since(linkNow, fdb[i].stamp) > AgeTicks
        BY <3>1 DEF Expired
      <3>. DEFINE a == fdb[i].stamp
      <3>4. /\ Age(i) = IF a <= tick THEN tick - a ELSE tick - a + TickMod
            /\ Since(tick, linkNow) =
                 IF linkNow <= tick THEN tick - linkNow ELSE tick - linkNow + TickMod
            /\ Since(linkNow, a) = IF a <= linkNow THEN linkNow - a ELSE linkNow - a + TickMod
        BY <3>2, SinceValue DEF Age
      <3>5. /\ a \in Nat /\ tick \in Nat /\ linkNow \in Nat /\ TickMod \in Nat
            /\ a < TickMod /\ tick < TickMod /\ linkNow < TickMod /\ AgeTicks \in Nat
        BY <3>2, TableAssumption DEF Ticks
      <3>. DEFINE age == Age(i)
      <3>. DEFINE elapsed == Since(tick, linkNow)
      <3>. DEFINE seen == Since(linkNow, a)
      <3>6. /\ seen > AgeTicks
            /\ age = IF a <= tick THEN tick - a ELSE tick - a + TickMod
            /\ elapsed = IF linkNow <= tick THEN tick - linkNow ELSE tick - linkNow + TickMod
            /\ seen = IF a <= linkNow THEN linkNow - a ELSE linkNow - a + TickMod
        BY <3>3, <3>4
      <3>. HIDE DEF a, age, elapsed, seen
      <3>7. age > AgeTicks \/ age < elapsed
        <4>1. CASE a <= linkNow /\ linkNow <= tick
          BY <4>1, <3>5, <3>6
        <4>2. CASE a <= linkNow /\ ~(linkNow <= tick)
          BY <4>2, <3>5, <3>6
        <4>3. CASE ~(a <= linkNow) /\ linkNow <= tick
          BY <4>3, <3>5, <3>6
        <4>4. CASE ~(a <= linkNow) /\ ~(linkNow <= tick)
          BY <4>4, <3>5, <3>6
        <4>. QED  BY <4>1, <4>2, <4>3, <4>4
      <3>. QED  BY <3>7 DEF age, elapsed
    <2>2. CASE RxUnlock \/ LinkSample \/ LinkLock \/ LinkUnlock \/ Spi \/ Tick \/ UNCHANGED vars
      BY <2>2 DEF RxUnlock, LinkSample, LinkLock, LinkUnlock, Spi, FilterWrite,
         FilterWriteFails, Tick, vars, Valid
    <2>3. ASSUME NEW src \in Macs, NEW port \in Ports, Learn(src, port) PROVE FALSE
      <3>1. fdb' = fdb \/ \E s \in Slots : fdb' = [fdb EXCEPT ![s] = Entry(src, port)]
        BY <2>3, SlotForNewIsSlot DEF Learn, Refresh, Install
      <3>. QED  BY <3>1, EntryType DEF Valid, TypeOK
    <2>. QED  BY <2>1, <2>2, <2>3 DEF Next, Link
  <1>. QED  BY <1>1, TypeCorrect, PTL DEF Spec, AgedOutOrRaced

-----------------------------------------------------------------------------
(* Table and hardware *)

(* The filter that slot i should have, and the registers it leaves.        *)
FilterOf(i) == IF Valid(i) THEN SetFilter(i, fdb[i].mac, fdb[i].port) ELSE ClearFilter(i)

Writing(i) == step # 0 /\ job.slot = i

(* Every slot that is neither being written nor half-written is up to date;*)
(* the one being written gets the filter of its entry, and has its first   *)
(* registers.                                                              *)
SyncInv ==
    /\ \A i \in Slots \ dirty : ~Writing(i) => hw[i] = Programmed(FilterOf(i))
    /\ step # 0 => job = FilterOf(job.slot)
    /\ step > 1 => hw[job.slot].maskUpr = job.mask
    /\ step > 2 => hw[job.slot].maskLwr = job.mask
    /\ step > 3 => hw[job.slot].lwr = job.mac[2]

(* The table changes while no slot is being written, in one place, whose   *)
(* slot is programmed unless its filter stays what it was.                 *)
LEMMA SyncChange ==
    ASSUME TypeOK, SyncInv, step = 0, NEW s \in Slots, UNCHANGED <<hw, dirty>>,
           \A i \in Slots \ {s} : FilterOf(i)' = FilterOf(i),
           \/ NoProgram /\ FilterOf(s)' = FilterOf(s)
           \/ Program(FilterOf(s)')
    PROVE  SyncInv'
  <1>1. dirty' = dirty /\ \A i \in Slots \ dirty : hw'[i] = Programmed(FilterOf(i))
    BY DEF SyncInv, Writing
  <1>2. CASE NoProgram /\ FilterOf(s)' = FilterOf(s)
    <2>1. step' = 0
      BY <1>2 DEF NoProgram
    <2>2. \A i \in Slots : FilterOf(i)' = FilterOf(i)
      BY <1>2
    <2>. QED  BY <1>1, <2>1, <2>2 DEF SyncInv, Programmed
  <1>3. CASE Program(FilterOf(s)')
    <2>1. step' = 1 /\ job' = FilterOf(s)' /\ FilterOf(s)'.slot = s
      BY <1>3 DEF Program, FilterOf, SetFilter, ClearFilter, Filter
    <2>2. \A i \in Slots \ dirty : ~Writing(i)' => hw'[i] = Programmed(FilterOf(i)')
      BY <1>1, <2>1 DEF Writing, Programmed
    <2>3. job' = FilterOf(job.slot)'
      BY <2>1
    <2>. QED  BY <1>1, <2>1, <2>2, <2>3 DEF SyncInv
  <1>. QED  BY <1>2, <1>3

(* The last register write completes what the others have begun.           *)
LEMMA LastWrite ==
    ASSUME NEW r \in RegType, NEW f,
           r.maskUpr = f.mask, r.maskLwr = f.mask, r.lwr = f.mac[2]
    PROVE  WriteRegister(r, f, 4) = Programmed(f)
  <1>1. WriteRegister(r, f, 4) = [r EXCEPT !.upr = f.mac[1], !.ctl = f.ctl]
    BY DEF WriteRegister
  <1>. QED  BY <1>1 DEF Programmed, RegType

LEMMA SyncStep == TypeOK /\ SyncInv /\ [Next]_vars => SyncInv'
  <1>. SUFFICES ASSUME TypeOK, SyncInv, [Next]_vars PROVE SyncInv'
    OBVIOUS
  <1>. USE TableAssumption
  <1>1. ASSUME NEW s \in Slots, NEW e \in Entries \cup {NoEntry},
               fdb' = [fdb EXCEPT ![s] = e]
        PROVE  /\ \A i \in Slots \ {s} : FilterOf(i)' = FilterOf(i)
               /\ FilterOf(s)' = IF e # NoEntry THEN SetFilter(s, e.mac, e.port)
                                               ELSE ClearFilter(s)
    <2>1. fdb'[s] = e /\ \A i \in Slots \ {s} : fdb'[i] = fdb[i]
      BY <1>1 DEF TypeOK
    <2>. QED  BY <2>1 DEF FilterOf, Valid
  <1>2. ASSUME NEW src \in Macs, NEW port \in Ports, Learn(src, port) PROVE SyncInv'
    <2>1. step = 0 /\ UNCHANGED <<hw, dirty>>
      BY <1>2 DEF Learn, TypeOK
    <2>2. ASSUME NEW s \in Slots, fdb' = [fdb EXCEPT ![s] = Entry(src, port)]
          PROVE  /\ \A i \in Slots \ {s} : FilterOf(i)' = FilterOf(i)
                 /\ FilterOf(s)' = SetFilter(s, src, port)
      <3>1. Entry(src, port).mac = src /\ Entry(src, port).port = port
        BY DEF Entry
      <3>. QED  BY <1>1, <2>2, <3>1, EntryType
    <2>3. CASE fdb' = fdb /\ NoProgram
      <3>1. 0 \in Slots /\ \A i \in Slots : FilterOf(i)' = FilterOf(i)
        BY <2>3 DEF FilterOf, Valid, Slots
      <3>. QED  BY <2>1, <2>3, <3>1, SyncChange
    <2>4. ASSUME NEW s \in Slots, Valid(s), fdb[s].mac = src, Refresh(s, src, port)
          PROVE  SyncInv'
      <3>1. fdb' = [fdb EXCEPT ![s] = Entry(src, port)]
        BY <2>4 DEF Refresh
      <3>2. FilterOf(s)' = SetFilter(s, src, port)
        BY <2>2, <3>1
      <3>0. \A i \in Slots \ {s} : FilterOf(i)' = FilterOf(i)
        BY <2>2, <3>1
      <3>3. CASE fdb[s].port # port
        <4>1. Program(FilterOf(s)')
          BY <2>4, <3>2, <3>3 DEF Refresh
        <4>. QED  BY <2>1, <3>0, <4>1, SyncChange
      <3>4. CASE fdb[s].port = port
        <4>1. FilterOf(s)' = FilterOf(s)
          BY <2>4, <3>2, <3>4 DEF FilterOf
        <4>2. NoProgram
          BY <2>4, <3>4 DEF Refresh
        <4>. QED  BY <2>1, <3>0, <4>1, <4>2, SyncChange
      <3>. QED  BY <3>3, <3>4
    <2>5. CASE Install(SlotForNew, src, port)
      <3>1. /\ SlotForNew \in Slots
            /\ fdb' = [fdb EXCEPT ![SlotForNew] = Entry(src, port)]
            /\ Program(SetFilter(SlotForNew, src, port))
        BY <2>5, SlotForNewIsSlot DEF Install
      <3>2. PICK n \in Slots : n = SlotForNew
        BY <3>1
      <3>3. /\ \A i \in Slots \ {n} : FilterOf(i)' = FilterOf(i)
            /\ FilterOf(n)' = SetFilter(n, src, port)
        BY <2>2, <3>1, <3>2
      <3>4. Program(FilterOf(n)')
        BY <3>1, <3>2, <3>3
      <3>. QED  BY <2>1, <3>3, <3>4, SyncChange
    <2>. QED  BY <1>2, <2>3, <2>4, <2>5 DEF Learn
  <1>3. CASE LinkScan
    <2>1. step = 0 /\ UNCHANGED <<hw, dirty>> /\ scan \in Slots
      BY <1>3 DEF LinkScan
    <2>2. ASSUME NEW s \in Slots, Release(s) PROVE SyncInv'
      <3>1. fdb' = [fdb EXCEPT ![s] = NoEntry] /\ Program(ClearFilter(s))
        BY <2>2 DEF Release
      <3>2. /\ FilterOf(s)' = ClearFilter(s)
            /\ \A i \in Slots \ {s} : FilterOf(i)' = FilterOf(i)
        BY <1>1, <3>1
      <3>3. Program(FilterOf(s)')
        BY <3>1, <3>2
      <3>. QED  BY <2>1, <3>2, <3>3, SyncChange
    <2>3. CASE fdb' = fdb /\ NoProgram
      <3>1. \A i \in Slots : FilterOf(i)' = FilterOf(i)
        BY <2>3 DEF FilterOf, Valid
      <3>. QED  BY <2>1, <2>3, <3>1, SyncChange
    <2>. QED  BY <1>3, <2>1, <2>2, <2>3 DEF LinkScan
  <1>4. CASE FilterWrite
    <2>. DEFINE s == job.slot
    <2>0. step \in 1..4 /\ s \in Slots /\ hw[s] \in RegType
      BY <1>4 DEF FilterWrite, TypeOK, RegType
    <2>0a. step' = IF step = 4 THEN 0 ELSE step + 1
      BY <1>4, <2>0 DEF FilterWrite
    <2>1. /\ step \in 1..4 /\ s \in Slots /\ job = FilterOf(s) /\ fdb' = fdb
          /\ hw' = [hw EXCEPT ![s] = WriteRegister(hw[s], job, step)]
          /\ step' = IF step = 4 THEN 0 ELSE step + 1
          /\ hw[s] \in RegType
      BY <1>4, <2>0, <2>0a DEF FilterWrite, SyncInv
    <2>2. \A i \in Slots : FilterOf(i)' = FilterOf(i)
      BY <2>1 DEF FilterOf, Valid
    <2>3. \A i \in Slots \ (dirty \cup {s}) : hw'[i] = Programmed(FilterOf(i))
      BY <2>1 DEF SyncInv, Writing, TypeOK
    <2>4. hw'[s] = WriteRegister(hw[s], job, step)
      BY <2>1 DEF TypeOK
    <2>5. CASE step = 4
      <3>1. hw'[s] = Programmed(job)
        BY <2>1, <2>4, <2>5, LastWrite DEF SyncInv
      <3>0. dirty' = dirty \ {s}
        BY <1>4, <2>5 DEF FilterWrite
      <3>2. step' = 0 /\ \A i \in Slots \ dirty' : hw'[i] = Programmed(FilterOf(i)')
        BY <2>1, <2>2, <2>3, <2>5, <3>0, <3>1
      <3>. QED  BY <3>2 DEF SyncInv
    <2>6. CASE step # 4
      <3>1. job' = job /\ step' = step + 1 /\ step \in 1..3 /\ dirty' = dirty
        BY <1>4, <2>1, <2>6 DEF FilterWrite
      <3>2. \A i \in Slots \ dirty : ~Writing(i)' => hw'[i] = Programmed(FilterOf(i)')
        BY <2>2, <2>3, <3>1 DEF Writing
      <3>3. job' = FilterOf(job.slot)'
        BY <2>1, <2>2, <3>1
      <3>4. /\ step' > 1 => hw'[s].maskUpr = job.mask
            /\ step' > 2 => hw'[s].maskLwr = job.mask
            /\ step' > 3 => hw'[s].lwr = job.mac[2]
        BY <2>1, <2>4, <3>1 DEF SyncInv, WriteRegister, RegType
      <3>. QED  BY <3>1, <3>2, <3>3, <3>4 DEF SyncInv
    <2>. QED  BY <2>5, <2>6
  <1>5. CASE RxUnlock \/ LinkSample \/ LinkLock \/ LinkUnlock \/ Tick \/ UNCHANGED vars
    <2>1. UNCHANGED <<fdb, hw, job, step, dirty>>
      BY <1>5 DEF RxUnlock, LinkSample, LinkLock, LinkUnlock, Tick, vars
    <2>2. \A i : FilterOf(i)' = FilterOf(i)
      BY <2>1 DEF FilterOf, Valid
    <2>3. \A i : Writing(i)' = Writing(i)
      BY <2>1 DEF Writing
    <2>. QED  BY <2>1, <2>2, <2>3 DEF SyncInv
  <1>6. CASE FilterWriteFails
    <2>1. /\ UNCHANGED <<fdb, hw>> /\ step' = 0
          /\ dirty' = dirty \cup {job.slot}
      BY <1>6 DEF FilterWriteFails
    <2>2. \A i \in Slots : FilterOf(i)' = FilterOf(i)
      BY <2>1 DEF FilterOf, Valid
    <2>3. \A i \in Slots \ dirty' : hw'[i] = Programmed(FilterOf(i)')
      BY <2>1, <2>2 DEF SyncInv, Writing
    <2>. QED  BY <2>1, <2>3 DEF SyncInv
  <1>. QED  BY <1>2, <1>3, <1>4, <1>5, <1>6 DEF Next, Link, Spi

LEMMA SyncIsHwInSync == TypeOK /\ SyncInv => HwInSync
  <1>. SUFFICES ASSUME TypeOK, SyncInv, NEW i \in Slots \ dirty,
                       step # 0 => i # job.slot
                PROVE  /\ hw[i].ctl = (IF Valid(i) THEN 3 - fdb[i].port ELSE 0)
                       /\ Valid(i) => \A m \in Macs : Matches(i, m) = (m = fdb[i].mac)
    BY DEF HwInSync
  <1>1. hw[i] = Programmed(FilterOf(i))
    BY DEF TypeOK, SyncInv, Writing
  <1>2. CASE ~Valid(i)
    BY <1>1, <1>2 DEF FilterOf, ClearFilter, Filter, Programmed
  <1>3. CASE Valid(i)
    <2>1. /\ hw[i].ctl = 3 - fdb[i].port
          /\ hw[i].maskUpr = TRUE /\ hw[i].maskLwr = TRUE
          /\ hw[i].upr = fdb[i].mac[1] /\ hw[i].lwr = fdb[i].mac[2]
      BY <1>1, <1>3 DEF FilterOf, SetFilter, Filter, Programmed
    <2>2. fdb[i].mac \in Nat \X Nat
      BY <1>3, TableAssumption DEF TypeOK, Valid, Entries
    <2>3. ASSUME NEW m \in Macs
          PROVE  Matches(i, m) = (m = fdb[i].mac)
      <3>1. m \in Nat \X Nat
        BY TableAssumption
      <3>2. (m = fdb[i].mac) <=> (m[1] = fdb[i].mac[1] /\ m[2] = fdb[i].mac[2])
        BY <2>2, <3>1
      <3>3. Matches(i, m) <=> (m[1] = fdb[i].mac[1] /\ m[2] = fdb[i].mac[2])
        BY <2>1 DEF Matches
      <3>. QED  BY <3>2, <3>3, Zenon DEF Matches
    <2>. QED  BY <1>3, <2>1, <2>3
  <1>. QED  BY <1>2, <1>3

(* However stations move and are replaced, s_fdb and the filter slots agree*)
(* but for the slot being written and those an SPI error left half-written.*)
THEOREM HardwareAgrees == Spec => []HwInSync
  <1>1. Init => SyncInv
    BY DEF Init, SyncInv, FilterOf, Valid, ClearFilter, Filter, Programmed, BlankSlot
  <1>. QED  BY <1>1, SyncStep, TypeCorrect, SyncIsHwInSync, PTL DEF Spec
=============================================================================
