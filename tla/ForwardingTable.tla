--------------------------- MODULE ForwardingTable ---------------------------
(***************************************************************************)
(* Switch mode's learned forwarding table: s_fdb in RAM, and the ADIN2111  *)
(* address filter slots it programs over SPI.  net_rx_task learns the      *)
(* source of every frame it reads; link_task ages entries out.  Both hold  *)
(* s_adin_lock meanwhile, but link_task reads the tick before it takes the *)
(* lock, and the hardware forwards frames between any two register writes. *)
(*                                                                         *)
(* A MAC address is a pair <<upper 16 bits, lower 32 bits>>, as the filter *)
(* registers split it.  A definition introduced as a wrong variant is no   *)
(* part of Next: it shows which mistake a property would catch.            *)
(***************************************************************************)
EXTENDS Integers

CONSTANTS
    Macs,         \* source addresses that occur on the segment
    GroupMacs,    \* those of them with the group bit
    OwnMac,       \* s_own_mac
    MaxEntries,   \* NET_FDB_MAX_ENTRIES
    AgeTicks,     \* NET_FDB_AGE_MS
    TickMod,      \* the tick counter is uint32_t: 2^32
    MaxLag,       \* ticks link_task may wait for s_adin_lock
    NoEntry       \* an s_fdb entry with valid = false

ASSUME TableAssumption ==
    /\ Macs \subseteq Nat \X Nat
    /\ MaxEntries \in Nat \ {0}
    /\ AgeTicks \in Nat /\ MaxLag \in Nat
    /\ TickMod \in Nat /\ AgeTicks + MaxLag + 1 < TickMod

Ports   == {1, 2}
Slots   == 0..(MaxEntries - 1)   \* hardware slot ADIN_MAC_SLOT_FDB_BASE + i
Ticks   == 0..(TickMod - 1)
Entries == [mac : Macs, port : Ports, stamp : Ticks]

ASSUME NoEntryAssumption == NoEntry \notin Entries

VARIABLES
    tick,      \* xTaskGetTickCount()
    fdb,       \* s_fdb
    hw,        \* hw[i]: the five fields of the slot's filter registers
    lock,      \* the holder of s_adin_lock, or "none"
    job,       \* the filter adin_write_filter is writing
    step,      \* the next of its four register writes; 0 when there is none
    dirty,     \* slots that a failed adin_write_filter has left half-written
    linkPc,    \* where link_task is
    linkNow,   \* its variable now
    scan       \* its loop index

linkVars == <<linkPc, linkNow, scan>>
vars     == <<tick, fdb, hw, lock, job, step, dirty, linkVars>>

(* now - stamp in uint32_t arithmetic *)
Since(now, stamp) == (now - stamp) % TickMod

Valid(i) == fdb[i] # NoEntry

-----------------------------------------------------------------------------
(* The filter slots *)

(* ctl: the ingress port whose frames are relayed to the other one, 0 when *)
(* no APPLY2PORT bit is set.  A mask compares all bits of its half or none.*)
Filter(i, ctl, mac, mask) == [slot |-> i, ctl |-> ctl, mac |-> mac, mask |-> mask]

(* adin2111_fdb_set and adin2111_fdb_clear *)
SetFilter(i, mac, port) == Filter(i, 3 - port, mac, TRUE)
ClearFilter(i)          == Filter(i, 0, <<0, 0>>, FALSE)

BlankSlot == [maskUpr |-> FALSE, maskLwr |-> FALSE, lwr |-> 0, upr |-> 0, ctl |-> 0]

Active(i)     == hw[i].ctl # 0
Matches(i, m) == /\ hw[i].maskUpr => hw[i].upr = m[1]
                 /\ hw[i].maskLwr => hw[i].lwr = m[2]

(* The registers adin_write_filter leaves behind when all writes succeed.  *)
Programmed(f) ==
    [maskUpr |-> f.mask, maskLwr |-> f.mask, lwr |-> f.mac[2], upr |-> f.mac[1],
     ctl |-> f.ctl]

(* The n-th register write of adin_write_filter: both masks, then the      *)
(* lower address, then the upper address with the control bits.            *)
WriteRegister(r, f, n) ==
    CASE n = 1 -> [r EXCEPT !.maskUpr = f.mask]
      [] n = 2 -> [r EXCEPT !.maskLwr = f.mask]
      [] n = 3 -> [r EXCEPT !.lwr = f.mac[2]]
      [] n = 4 -> [r EXCEPT !.upr = f.mac[1], !.ctl = f.ctl]

-----------------------------------------------------------------------------
Init ==
    /\ tick \in Ticks
    /\ fdb = [i \in Slots |-> NoEntry]
    /\ hw = [i \in Slots |-> BlankSlot]
    /\ lock = "none"
    /\ job = ClearFilter(0)
    /\ step = 0
    /\ dirty = {}
    /\ linkPc = "sleep"
    /\ linkNow = 0
    /\ scan = 0

(* One SPI register write of adin_write_filter succeeds.                   *)
FilterWrite ==
    /\ step # 0
    /\ hw' = [hw EXCEPT ![job.slot] = WriteRegister(@, job, step)]
    /\ step' = (step + 1) % 5
    /\ job' = IF step = 4 THEN ClearFilter(0) ELSE job
    /\ dirty' = IF step = 4 THEN dirty \ {job.slot} ELSE dirty
    /\ UNCHANGED <<tick, fdb, lock, linkVars>>

(* It fails: adin_write_filter returns early, and every caller ignores it. *)
FilterWriteFails ==
    /\ step # 0
    /\ dirty' = dirty \cup {job.slot}
    /\ step' = 0
    /\ job' = ClearFilter(0)
    /\ UNCHANGED <<tick, fdb, hw, lock, linkVars>>

-----------------------------------------------------------------------------
(* net_rx_task *)

Learnable(src) == src \notin GroupMacs /\ src # OwnMac

Age(i)      == Since(tick, fdb[i].stamp)
Stale(i)    == Valid(i) /\ Age(i) > AgeTicks
Reusable(i) == ~Valid(i) \/ Stale(i)

(* Wrong variant of the next definition: the most recent one.              *)
YoungestSlot == CHOOSE i \in Slots : \A j \in Slots : Age(i) <= Age(j)

(* Pass 2 over a table of fresh entries: the last of the oldest.           *)
OldestSlot ==
    LET oldest == {i \in Slots : \A j \in Slots : Age(j) <= Age(i)}
    IN  CHOOSE i \in oldest : \A j \in oldest : j <= i

(* Pass 2: the first entry that is free or aged out, else the oldest.      *)
SlotForNew ==
    IF \E i \in Slots : Reusable(i)
    THEN CHOOSE i \in Slots : Reusable(i) /\ \A j \in Slots : Reusable(j) => i <= j
    ELSE OldestSlot

Entry(src, port) == [mac |-> src, port |-> port, stamp |-> tick]

Program(f)  == job' = f /\ step' = 1
NoProgram   == UNCHANGED <<job, step>>

(* Wrong variant of the next definition: never reprograms.                 *)
RefreshKeepsFilter(i, src, port) ==
    fdb' = [fdb EXCEPT ![i] = Entry(src, port)] /\ NoProgram

(* Pass 1: refresh an existing entry, reprogram its slot if the node moved.*)
Refresh(i, src, port) ==
    /\ fdb' = [fdb EXCEPT ![i] = Entry(src, port)]
    /\ IF fdb[i].port # port THEN Program(SetFilter(i, src, port)) ELSE NoProgram

Install(i, src, port) ==
    /\ fdb' = [fdb EXCEPT ![i] = Entry(src, port)]
    /\ Program(SetFilter(i, src, port))

(* Wrong variant of the next definition: no first pass.                    *)
LearnWithoutLookup(src, port) ==
    /\ lock = "none"
    /\ lock' = "rx"
    /\ IF ~Learnable(src)
       THEN UNCHANGED fdb /\ NoProgram
       ELSE Install(SlotForNew, src, port)
    /\ UNCHANGED <<dirty, tick, hw, linkVars>>

(* net_rx_task, holding the lock after reading a frame from src, calls     *)
(* net_bridge_learn; the register writes follow one by one.                *)
Learn(src, port) ==
    /\ lock = "none"
    /\ lock' = "rx"
    /\ IF ~Learnable(src)
       THEN UNCHANGED fdb /\ NoProgram
       ELSE IF \E i \in Slots : Valid(i) /\ fdb[i].mac = src
       THEN \E i \in Slots : /\ Valid(i) /\ fdb[i].mac = src
                             /\ Refresh(i, src, port)
       ELSE Install(SlotForNew, src, port)
    /\ UNCHANGED <<dirty, tick, hw, linkVars>>

(* Wrong variant of the next definition: while the slot is being written.  *)
RxUnlockEarly ==
    /\ lock = "rx"
    /\ lock' = "none"
    /\ UNCHANGED <<dirty, tick, fdb, hw, job, step, linkVars>>

(* ADIN_UNLOCK() after net_bridge_learn *)
RxUnlock ==
    /\ lock = "rx"
    /\ step = 0
    /\ lock' = "none"
    /\ UNCHANGED <<dirty, tick, fdb, hw, job, step, linkVars>>

-----------------------------------------------------------------------------
(* link_task *)

(* now = xTaskGetTickCount(), before ADIN_LOCK() *)
LinkSample ==
    /\ linkPc = "sleep"
    /\ linkPc' = "sampled"
    /\ linkNow' = tick
    /\ UNCHANGED <<dirty, tick, fdb, hw, lock, job, step, scan>>

LinkLock ==
    /\ linkPc = "sampled"
    /\ lock = "none"
    /\ lock' = "link"
    /\ linkPc' = "scan"
    /\ scan' = 0
    /\ UNCHANGED <<dirty, tick, fdb, hw, job, step, linkNow>>

(* Wrong variants of the next definition: one tick early, and without the  *)
(* wrap-around of unsigned subtraction.                                    *)
ExpiredEarly(i) == Valid(i) /\ Since(linkNow, fdb[i].stamp) >= AgeTicks
ExpiredUnwrapped(i) == Valid(i) /\ linkNow > fdb[i].stamp + AgeTicks

Expired(i) == Valid(i) /\ Since(linkNow, fdb[i].stamp) > AgeTicks

Release(i) == fdb' = [fdb EXCEPT ![i] = NoEntry] /\ Program(ClearFilter(i))

(* One iteration of the ageing loop. *)
LinkScan ==
    /\ linkPc = "scan"
    /\ step = 0
    /\ scan \in Slots
    /\ IF Expired(scan) THEN Release(scan) ELSE UNCHANGED fdb /\ NoProgram
    /\ scan' = scan + 1
    /\ UNCHANGED <<dirty, tick, hw, lock, linkPc, linkNow>>

(* ADIN_UNLOCK() and the 250 ms delay *)
LinkUnlock ==
    /\ linkPc = "scan"
    /\ step = 0
    /\ scan = MaxEntries
    /\ lock' = "none"
    /\ linkPc' = "sleep"
    /\ UNCHANGED <<dirty, tick, fdb, hw, job, step, linkNow, scan>>

-----------------------------------------------------------------------------
(* The tick interrupt.  Time does not run away from link_task: it visits   *)
(* every entry within one wrap of the counter (49 days), and waits at most *)
(* MaxLag ticks between reading the tick and the end of its scan.          *)
Tick ==
    /\ \A i \in Slots : Valid(i) => Age(i) < TickMod - 1
    /\ linkPc # "sleep" => Since(tick, linkNow) < MaxLag
    /\ tick' = (tick + 1) % TickMod
    /\ UNCHANGED <<dirty, fdb, hw, lock, job, step, linkVars>>

Link == LinkSample \/ LinkLock \/ LinkScan \/ LinkUnlock
Spi  == FilterWrite \/ FilterWriteFails

Next ==
    \/ \E src \in Macs, port \in Ports : Learn(src, port)
    \/ RxUnlock
    \/ Link
    \/ Spi
    \/ Tick

Spec == Init /\ [][Next]_vars

(* SPI transfers end, time passes and link_task gets to run.  It competes  *)
(* for the lock with net_rx_task, which lets it through again and again    *)
(* because it waits for the ADIN2111 or the host without the lock.         *)
Fairness ==
    /\ WF_vars(Tick)
    /\ WF_vars(Spi)
    /\ WF_vars(RxUnlock)
    /\ WF_vars(LinkSample \/ LinkScan \/ LinkUnlock)
    /\ SF_vars(LinkLock)

FairSpec == Spec /\ Fairness

-----------------------------------------------------------------------------
(* Properties *)

(* Variables in range; the lock is held exactly while its holder works.    *)
TypeOK ==
    /\ tick \in Ticks
    /\ fdb \in [Slots -> Entries \cup {NoEntry}]
    /\ hw \in [Slots -> [maskUpr : BOOLEAN, maskLwr : BOOLEAN, lwr : Nat, upr : Nat,
                         ctl : {0, 1, 2}]]
    /\ lock \in {"none", "rx", "link"}
    /\ job \in [slot : Slots, ctl : {0, 1, 2}, mac : Nat \X Nat, mask : BOOLEAN]
    /\ step \in 0..4
    /\ dirty \subseteq Slots
    /\ linkPc \in {"sleep", "sampled", "scan"}
    /\ linkNow \in Ticks
    /\ scan \in 0..MaxEntries
    /\ (lock = "link") = (linkPc = "scan")
    /\ lock = "none" => step = 0

(* A station has at most one entry, however often it moves and whichever   *)
(* entries are evicted or aged out between its frames.                     *)
UniqueMac ==
    \A i, j \in Slots : Valid(i) /\ Valid(j) /\ fdb[i].mac = fdb[j].mac => i = j

(* Each hardware slot relays exactly what its entry says: to the entry's   *)
(* port, that one address; and a slot without an entry relays nothing.     *)
(* The exceptions are the one slot that is being written, and one that an  *)
(* SPI error has left half-written, until the next filter write to it: no  *)
(* other slot is disturbed.                                                *)
HwInSync ==
    \A i \in Slots \ dirty :
        (step # 0 => i # job.slot) =>
            /\ hw[i].ctl = (IF Valid(i) THEN 3 - fdb[i].port ELSE 0)
            /\ Valid(i) => \A m \in Macs : Matches(i, m) = (m = fdb[i].mac)

(* An entry is only thrown out for a new station if it is aged out, or if  *)
(* the table is full and no entry has been silent longer.                  *)
VictimIsOldest ==
    [][\A i \in Slots :
        (Valid(i) /\ Valid(i)' /\ fdb'[i].mac # fdb[i].mac) =>
            \/ Age(i) > AgeTicks
            \/ \A j \in Slots : Valid(j) /\ Age(j) <= Age(i)]_vars

(* link_task never ages out an entry younger than NET_FDB_AGE_MS, except   *)
(* one that net_rx_task refreshed after link_task read the tick.           *)
AgedOutOrRaced ==
    [][\A i \in Slots :
        (Valid(i) /\ ~Valid(i)') =>
            Age(i) > AgeTicks \/ Age(i) < Since(tick, linkNow)]_vars

(* "Entries idle longer than NET_FDB_AGE_MS become evictable"              *)
(* (app_config.h): link_task ages out no entry that is younger.            *)
AgedOutWasIdle ==
    [][\A i \in Slots : (Valid(i) /\ ~Valid(i)') => Age(i) > AgeTicks]_vars

(* No entry outlives its station: unless it is refreshed or replaced, it   *)
(* is removed.                                                             *)
EntriesAgeOut ==
    \A i \in Slots, t \in Ticks :
        (Valid(i) /\ fdb[i].stamp = t) ~> (~Valid(i) \/ fdb[i].stamp # t)
=============================================================================
