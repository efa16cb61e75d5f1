# USB2T1L in TLA+

The repository is the firmware of an STM32F407 that bridges a USB host (CDC-ECM)
and single-pair Ethernet (an ADIN2111 behind SPI). These modules model its
concurrent core, three FreeRTOS tasks, the USB interrupt and the EXTI interrupt,
which share frame pools, endpoints, a forwarding table and a handful of globals;
how it comes up; and the production record that gives it its identity.
TLC checks small instances; TLAPS proves every safety property that TLC finds to
hold, three refinements among them, and the frame sizes, for all values of the
constants.

Paths below are relative to the repository; `usbd_ecm.c` is
`Middlewares/USB_ECM/usbd_ecm.c`, `net_bridge.c` is `Net/net_bridge.c`,
`adin2111.c` is `Drivers/ADIN2111/adin2111.c`.

## The system

| Part | State | Operations | Runs in |
|---|---|---|---|
| Session control (`usbd_ecm.c`) | `s_pdev`, `s_data_alt`, `s_ready` | SET_CONFIGURATION, SET_INTERFACE, reset | USB interrupt |
| Downlink | `s_tx_pool`, `s_out_frame`, `s_to_adin_q`, the bulk OUT endpoint | `ECM_DataOut`, open and close of the endpoints, `net_tx_task`, `tx_frame_port` | USB interrupt, task of priority 5 |
| Uplink, ADIN side | receive FIFOs, INT, `s_adin_int_sem`, `s_rx_pool` | EXTI, `adin2111_irq_ack`, drain loop, `adin2111_read_frame` | EXTI, task of priority 5 |
| Uplink, USB side | `s_in_done`, `s_in_zlp`, the bulk IN endpoint | `USBD_ECM_SendFrameBlocking`, `ECM_DataIn` | task of priority 5, USB interrupt |
| Link notification | `have_sent`, `last_sent`, `s_cmd_busy`, `s_speed_pending`, the interrupt endpoint | `link_task`, `USBD_ECM_SetLinkState`, `ECM_DataIn` | task of priority 1, USB interrupt |
| Forwarding table | `s_fdb`, filter registers of the ADIN2111, `s_adin_lock` | `net_bridge_learn`, ageing in `link_task`, `adin_write_filter` | tasks of priority 5 and 1; the hardware reads the registers at any time |
| SPI port | `s_spi_done`, `s_spi_error` | polled and DMA transfers | tasks, DMA interrupt |
| Bring-up | all of the above | `main`, `net_bridge_init`, `adin2111_init`, `usb_device_init` | before the scheduler |
| Production record | a flash sector, `s_own_mac`, `s_mac` | `prodinfo_valid`, `bsp_get_mac_address`, `tools/prodinfo.py` | start-up; a host tool |
| Control requests | endpoint 0, `s_data_alt` | `ECM_Setup`, `ECM_HandleClassReq`, descriptor callbacks | USB interrupt |

How they interact: the USB interrupt allocates and submits downlink buffers
(`net_bridge_downlink_*_isr`), `net_tx_task` returns them; EXTI wakes
`net_rx_task` through a semaphore, which learns the source under `s_adin_lock`
and then calls the blocking send, itself completed by the USB interrupt;
`link_task` polls the link under the same lock, calls the class, and ages the
table. Every SPI access of a task is made under `s_adin_lock`; those of the
bring-up need no lock. The tool writes the record over SWD with the MCU halted;
the firmware reads it at start-up and, for the serial number and a vendor
request, whenever the host asks. The session globals are
written only by the USB interrupt but read by all three tasks without a lock.

What is hard here: interrupts between any two statements of a task (the USB and
EXTI interrupts are not masked except in one critical section), a 100 ms timeout
that races its completion, session changes while buffers are in flight, pools
and queues at their limit, an edge-triggered wake-up for a level, register
sequences that the hardware sees half-written, SPI errors after any of them,
unsigned tick arithmetic, interrupts enabled before what they need exists, a
power cut in the middle of the record, and values cached while their source
changes. `hazards` in `PROJECT.json` lists them line by line.

What makes each part correct:

- Downlink: a buffer has one owner and none is lost; the endpoint is armed
  whenever the data interface is active; each port gets whole host frames in
  order, never twice.
- Uplink, ADIN side: every frame in a FIFO is served at some time, in order, at
  most once; no buffer is lost on any error path.
- Uplink, USB side: the endpoint reads a buffer only during the call that lent
  it; success means delivered; every call returns.
- SPI port: an access ends, and nothing of it outlives it: neither a burst nor its
  signal; good means that all bytes have moved.
- Link notification: the interrupt endpoint is claimed while it is in use and not
  for nothing; every host learns the link state and keeps learning its changes.
- Forwarding table: one entry per station; a slot that is not being written and
  whose last write did not fail agrees with the table; eviction takes the oldest;
  ageing takes only idle entries.
- Bring-up: it ends, running or halted; running means that all objects and tasks
  exist and the chip is configured; no interrupt comes too early.
- Production record and control requests: whatever happens to the record, the
  bridge has one usable MAC address and the host is told that one; what the tool
  has verified is what the bridge uses; a request is answered or stalled.
- Framing: every legal frame fits all buffers on its way and keeps its length.

## Modules

| Module | What it is |
|---|---|
| `EcmSession` | The session steps, conjoined by the three data plane modules with their own part of the handlers |
| `FrameChannel` | Abstract: a bounded channel that may lose frames but never reorders, duplicates, tears or invents one |
| `Downlink` | Host to wire. Implements `FrameChannel` |
| `DownlinkProofs` | Its invariants and the refinement, proved |
| `AdinRx` | Wire to `net_rx_task` |
| `AdinProofs` | Its invariants, and what `FrameSizes` guarantees for every length, proved |
| `UsbIn` | `net_rx_task` to host. Implements `FrameChannel` with room for one frame |
| `UsbInProofs` | Its invariants and the refinement, proved |
| `LinkNotify` | Link state to host |
| `LinkNotifyProofs` | Its invariants, proved |
| `ForwardingTable` | `s_fdb` and the filter slots |
| `ForwardingTableProofs` | Its invariants and action properties, proved |
| `SpiPort` | One access to the chip: lock, chip select, polled transfer or DMA burst |
| `SpiPortProofs` | Its invariants, proved |
| `BringUp` | From reset to the running tasks; extends `SpiPort`, whose steps the tasks take once they run |
| `BringUpProofs` | Its invariants, proved, and that it is a behaviour of `SpiPort` |
| `ProdInfo` | The production record, its tool and its readers |
| `Control` | Endpoint 0 on top of `EcmSession` and `ProdInfo` |
| `ControlProofs` | The invariants of both, proved |
| `FrameSizes` | Lengths: operators only |
| `MCDownlink`, `MCAdinRx`, `MCUsbIn`, `MCForwardingTable` | Bounds and constants for TLC. `LinkNotify`, `BringUp` and `Control` are finite and run as they are |

A definition whose comment calls it a wrong variant is not part of any `Next`;
`PROJECT.json` names the property that fails when it takes the place of the
correct one.

### State and actions against the code

**EcmSession.** `configured` is `pdev->dev_state`; `pdev`, `dataAlt`, `ready` are
the globals. `SessionConfigure` is `ECM_Init`, `SessionReset` is `ECM_DeInit`
(after a bus reset or SET_CONFIGURATION(0); it leaves `s_data_alt`),
`SessionSetInterface` is the branch of `ECM_Setup`, which ignores the setting
that is already selected.

**Downlink.** `free` is the pool's queue as a set (buffers are
interchangeable), `outFrame` is `s_out_frame`, `armed` the buffer the endpoint
writes into, `data` which frame a buffer holds, `toAdin` the queue, `txPc` the
place in `net_tx_task`. An interrupt handler is one step, since nothing that
shares its state preempts it; the task is split at each queue, pool and locked SPI
operation. `OutPacket` makes the armed buffer torn, `DataOut` ends a
transfer: it is dropped without a replacement buffer, else submitted.
`DataOutEmpty` is the terminator or oversize branch. `TxRoute` chooses any route
(flood or one port): what the table would answer does not matter to the buffers.
`TxWriteError` is any result but OK and NOSPACE, among them an SPI error in the
FIFO burst, after which the frame may be in the FIFO or not.

**AdinRx.** `fifo`, `err` and the level of INT are the chip's. The EXTI
interrupt (`Edge`) is part of the step that pulls INT low. `trouble` is a history
variable: whether an SPI transfer has failed or the chip has raised SPI_ERR. The
actions follow the loop of `net_rx_task`: wait (with the 50 ms timeout), the two
parts of `adin2111_irq_ack`, `adin2111_rx_ready` and the allocation, the read
with its three outcomes, the send. A read that fails may or may not have taken
the frame from the FIFO; one with an impossible size clears the FIFOs, if that
write succeeds.

**UsbIn.** Each statement of `USBD_ECM_SendFrameBlocking` that touches shared
state is an action. A frame is two packets, head and tail; `full` says that its
length is a multiple of 64, so that a ZLP is owed. The endpoint is modelled as
the class uses it: `Transmit` replaces what it sends, closing and flushing drop
it. Of the host there is the transfer it is receiving (`partial`), the last one it
has received (`transfer`) and the frames that came out whole (`got`). `pc = "fault"` is the dereference of a NULL handle, which ends in
`HardFault_Handler`. One timing assumption is in the guard of `Configure`: after
a reset the host needs milliseconds to configure the device again, so this does
not happen between two neighbouring statements of a task of the highest
priority in use, but may during its wait.

**LinkNotify.** `pc` follows `link_task` and `USBD_ECM_SetLinkState`; `cmd` is
what the interrupt endpoint sends. `carrier` is the host's view, which
starts as unknown in every session. `refused` is a history variable: whether a
transmission has been refused; `overtaken` is another: whether the last reset came
between the claim and the transmission of `link_task`. A failed read of STATUS1 counts as a link that
is down, as in `adin2111_link_up`. The link LED is left out.

**ForwardingTable.** `fdb`, and `hw` with the five register fields of each slot.
A MAC is a pair of numbers, as the registers split it. `Learn` is
`net_bridge_learn` up to the first register write, whose four writes are steps of
`job`, visible to the hardware one by one; `LinkSample`, `LinkLock`, `LinkScan`,
`LinkUnlock` are the ageing part of `link_task`, with the tick read before the
lock. `dirty` is a history variable: the slots whose last programming a failed
write has cut short. Ticks wrap at `TickMod`. Two guards on `Tick` bound time: an entry is
visited within one wrap of the counter (49 days), and `link_task` waits at most
`MaxLag` ticks for the lock and its scan.

**SpiPort.** `pc[t]` follows a task from `ADIN_LOCK` through `adin2111_read_reg`,
`adin2111_write_reg` or a FIFO burst (`Select`, `Deselect`: the chip select) into
`port_spi_xfer_blocking` or, statement by statement, `port_spi_xfer_dma`. `dma` is
the task whose burst the streams move, `halReady` the HAL's state, `whole` a
history variable: whether all bytes of the last access have moved. The interrupt
callbacks (`Complete`, `Error`) are one step each. The check of the length
against the sink is not in it: no frame fails it (`BurstsFit`).

**BringUp.** `stage` is the next statement of `main` with an effect, `halt` where
the firmware has stopped for good (`bsp_fatal`, or the loop of `configASSERT`).
`objects` are the seven kernel objects in the order in which they are created,
`created` the tasks, `enabled` and `pending` the two interrupts that reach the
kernel. `chip` and `registers` are the ADIN2111: which of its five groups of
registers have been written since its reset. `warm` says that only the MCU was
reset: then the chip still has the configuration of an earlier session and may
pull INT low. `spiFailed` is a history variable: whether an access that configures
the chip has failed (the software reset, the polls and PHYID do not). `Checked`
and `Unchecked` tell the writes whose result `adin2111_init` looks at from the
others; `SetSync` has one of each kind, the read of CONFIG0 that nobody checks
before the write that is. `NoMemory` is the malloc hook. `PollReset` is one turn of
the loop over RESETC, `polls` its counter: an unanswered poll and its delay count,
and after `MaxPolls` of them, 100 in the code, the bring-up goes on as if the chip
had answered. Once `stage` is "running" the tasks do the steps of `SpiPort`.

**ProdInfo.** The record is five words, of which the first `words` are programmed;
`corrupt` says that one of them is wrong. `image` is what is meant to be there.
`filterMac` and `usbMac` are the two copies that start-up makes of the MAC address.
`Write` is `cmd_write` up to the flashing (with `--keep`, `--dry-run` and its
refusals), `Erase`, `Program`, `Finish` are what st-flash or OpenOCD do, `Verify`
the read-back, `Abort` the tool's end at any of these places. `PowerCut` may
happen anywhere. A read over SWD restarts the MCU or does not, as the
programmer is OpenOCD or st-flash. Build, decode, dump and read change nothing.

**Control.** `ep0` is the stage of the control transfer, `answer` what the class
has handed to the core. One action per kind of request; a step of `ProdInfo` that
stops or restarts the MCU ends the session. `hostMac` and `hostSerial` are what
the host has read in this session. A class request is told by its recipient and its
data (`ClassRequests`), and `asked` keeps it while endpoint 0 takes its data or does
not answer it. To one without data `ECM_HandleClassReq` does nothing and leaves the
status stage to the core, which sends it for an interface only: one to the device or
an endpoint stays "unanswered". For one with more than 64 bytes the endpoint is
armed for 64 only; the host's next packet finds nobody, "unanswered" too. `Abandon`
is the host's way out. Standard and vendor requests are well formed in the model,
and `UnknownRequest` includes what the core itself stalls, such as a request to an
interface that does not exist.

**FrameSizes.** No state: one operator per length that `adin2111_write_frame`,
`adin2111_read_frame` and the burst functions compute, with the truncation to 16
bits where the code stores into a `uint16_t`.

Ports are 1 and 2 in the models; the C enumeration counts from 0.

### External parts

The USB device core and the HAL (STM32CubeF4, fetched by `scripts/get_deps.sh`),
FreeRTOS and the ADIN2111 are modelled from how the code uses them: the core
calls Init, DeInit and Setup as described; it sends the status stage of a request
without data that the class has accepted if the request is to an interface, and
leaves it to the class otherwise; `USBD_LL_FlushEP` drops what has
not gone out; a semaphore is binary; a filter slot is active while an APPLY2PORT
bit is set and compares the address bits its masks select; the chip appends the
FCS to what it sends. Of FreeRTOS the bring-up needs one more fact: in the
ARM_CM4F port, critical sections nest from a count that only the start of the
scheduler resets, so that after the first kernel call in `main` BASEPRI keeps all
interrupts masked that may call the kernel (`Masked`). st-flash and OpenOCD halt
the MCU while they program and reset it afterwards.

## Runs

| Run | Question | Instance | States |
|---|---|---|---|
| `downlink` | Is every buffer owned once, never lost, always returned? Is the endpoint always armed? Is the path an ordered lossy channel? | 3 buffers, 4 frames, settings 0, 1, 2, 2 attempts; all lengths for the frame sizes | 740,000 |
| `fdb` | Do table and hardware agree, is there one entry per station, are eviction and ageing fair, does every silent entry go? | 3 learnable stations for 2 slots, own and group address, ages to 1 of 4 ticks | 481,000 |
| `boot` | Do the tasks start with everything there and configured, and does no handler come too early? Then: does a burst end before its access, is good whole, does every access end? | 3 tasks, 3 polls, tick above the kernel's interrupts | 32,000 |
| `adin_rx` | Is no edge missed, no buffer leaked, the order kept, every FIFO served? | 2 ports, FIFOs of 2, 3 arrivals each, pool of 8 | 66,000 |
| `usb_in` | Is the buffer only borrowed, success truthful, the order kept, does every call return? | 5 frames, settings 0, 1, 2 | 34,000 |
| `link_notify` | Is the endpoint claimed for a transfer, and only for one? Is a new host told? | 2 ports, SPI and USB failures; unbounded | 27,000 |
| `control` | Is there always a usable MAC, the same for filter and host? Is what was verified in use? Does every request end but the two kinds that hang? | 2 MAC addresses, 1 serial number; unbounded | 643,000 |
| `fdb_ageing_race`, `usb_in_null_handle`, `usb_in_lost_zlp`, `link_carrier`, `boot_delay` | Findings, see below: each refutes one statement of the sources | as above; ages to 2 of 6 ticks; in the next three failures off where the finding does not need them; tick at its configured priority | |

Why the bounds are enough. Downlink: with three buffers one is armed, one queued
and one with the task, so that the pool is empty when the next transfer ends, and
the fourth frame is sent after that drop; setting 2 is an idle setting other than
0. The proofs cover all pools, attempts, modes and numbers of frames. Table: two
slots and three stations force evictions, the halves of the addresses overlap, so
that half-written registers match other stations, and the ages reach the limit,
go beyond it, and wrap. The constraint `OneHalfWritten` follows a behaviour with a
failed write while the slot left behind is slot 0, still relays frames, and the tick
is 0, just after the wrap; beyond that only the dirty slot differs, for
which nothing is claimed, and `HardwareAgrees` is proved without it. AdinRx: a
third arrival finds a FIFO of two full or partly drained. UsbIn: a stale
signal or debt of one call needs a second call to disturb and a third to show it;
five frames leave room for two such faults in a row. Control: with two addresses a record can replace another; a torn record
differs from both. Boot: three tasks are the program's; of the polls the first, one
in the middle and the last differ. `TickPriority` is 4 in `boot`, not the configured
15: with 15 boot stops in its first delay (finding 5), and nothing behind it would
be checked; everything else is as configured. That boot ends is therefore no
property of `boot` but of `boot_delay`, where the priority is the configured one.
Unbounded counters are bounded by `MaxSent` and `MaxArrived` in the MC modules.

Deadlock is checked in every run but `boot_delay`, where the firmware stops.

### Fairness

- `Downlink`: `WF(TxTask)`. The task has the highest priority in use, interrupts
  are finite, a delay expires, and an SPI transfer ends (each has a timeout).
- `AdinRx`: `WF(RxTask)` likewise; `SF(DrainNext)` and `SF(ReadOk)` say that
  reads which are tried again and again do not fail for ever. Without them
  nothing could be promised about a dead bus.
- `UsbIn`: `WF(Sender)`. The timeout expires; the host need not do anything.
- `LinkNotify`: `WF(LinkTask)`, because the tasks above it block on SPI, USB and
  queues, and `WF(HostPolls)`: a host with the device configured polls the
  interrupt endpoint.
- `BringUp`: `WF(Main)`. Nothing preempts `main` but interrupts, which are
  finite between two of its statements, and HAL calls have timeouts. Once the
  scheduler runs, `WF(Transfer(t))` of `SpiPort`: a task that holds the mutex inherits the priority of
  those who wait for it, and the 100 ms pass. Nothing is assumed of the DMA.
- `Control`: `WF(Continue)`. The host goes on with the data and status stages of
  its own request. Nothing is assumed of the tool or the power, nor does the host
  have to give a request up (`Abandon` is not fair): what ends, the device ends.
- `ForwardingTable`: time passes, SPI transfers end, both tasks run, and
  `SF(LinkLock)`: `net_rx_task` releases the lock for every send and wait, and
  the mutex goes to a waiting task in the end.

## Findings

1. `link_task` reads the tick before it takes the lock (`net_bridge.c:330`). An
   entry refreshed in between has a stamp in its future; the unsigned difference
   is huge and the freshest entry is released. `AgedOutOrRaced` shows that this
   is the only way an entry goes too early.
2. A reset during a send sets `s_pdev` to NULL and leaves the sender waiting; its
   timeout passes NULL to `USBD_LL_FlushEP` (`usbd_ecm.c:495`).
3. A timeout after the last data packet but before its ZLP drops the ZLP, and the
   host appends the next frame to the unfinished transfer (`usbd_ecm.c:495`).
4. A link change dropped because a notification is in flight is recorded as
   sent (`usbd_ecm.c:516-521`, `net_bridge.c:321-323`).
5. `adin2111_init` waits with `HAL_Delay` (`adin2111.c:450`) after the first kernel
   objects have been created. The tick behind it has priority 15
   (`config/stm32f4xx_hal_conf.h:50`), which the kernel has masked by then, so that
   the delay never ends and `main` never reaches the scheduler. This rests on the
   behaviour of the FreeRTOS port described under External parts. A priority
   above the kernel's, or creating the objects after `adin2111_init`, cures it.

Seen while modelling, without a run:

- `adin2111_fdb_clear` clears the masks of a slot that is still active
  (`adin2111.c:341`), against the comment at 331-334: for two register writes it
  relays every frame of its port. Reprogramming an active slot has a similar window.
- A host that deselects and reselects the data interface between two polls of
  `link_task` is never notified (`net_bridge.c:317-320`).
- `link_task` ignores a failed `adin2111_fdb_clear` after it has cleared `valid`
  (`net_bridge.c:335-336`), so the slot may stay active with no entry left to age
  out.
- `EXTI` is enabled (`bsp.c:87`) long before `s_adin_int_sem` exists. After a
  reset of the MCU alone a frame in that time makes the handler give a NULL
  semaphore, a failed assertion: the exception in `ObjectsExist`.
- `tools/prodinfo.py` accepts the MAC address zero (65-72), `bsp.c:207-214` refuses
  it and falls back to the unique ID: the exception in `VerifiedIsUsed`.
- `ok &= xTaskCreate()` (`net_bridge.c:384-391`) does not notice a failure, which is
  -1; only the malloc hook does.
- GET_INTERFACE streams a variable of a stack frame that is gone
  (`usbd_ecm.c:287-289`), against the rule in the comment at 256-257.
- Two kinds of class request hang until the host gives up, the exception in
  `EveryRequestEnds` (`Answerable`): one without data to the device or an endpoint,
  for which "core completes the status stage" (`usbd_ecm.c:240`) does not hold, and one
  with more than 64 bytes of data, which is accepted for 64 only
  (`usbd_ecm.c:248-252`).
- `usbd_ecm_if.h:24-27` describes a callback that does not exist (the caller
  frees the buffer, `net_bridge.c:198`).
- `USBD_ECM_SetLinkState` uses `s_pdev` at 530 after its check at 504
  (`TransmitNull`); a reset and a new configuration between its claim and its
  transmission let a second notification overwrite the first: the exception in
  `ClaimCoversTransfer`.

## Proofs

All proofs are in the modules called `...Proofs`, one for each component but
`BringUpProofs`, which extends `SpiPortProofs`, `ControlProofs`, which covers
`ProdInfo` too, and `AdinProofs`, which covers `FrameSizes` too. They assume only
the named assumptions on the constants. TLC finds each inductive
invariant true on the instance of its run, too.

**Downlink.** `TypeCorrect` comes first; its control-flow conjuncts (a buffer is
held exactly outside "receive", a route is left while writing) are what later
steps need. `ArmedInv` strengthens `ReadyIsArmed` to an inductive invariant: `s_ready`, a buffer in `s_out_frame` and an armed endpoint
go together, the selected setting agrees with them (`SessionCoherent`), and while
the interface is closed there is a buffer in the pool. The last part is why
opening it can always arm the endpoint: the pool starts non-empty, closing
returns a buffer, and only `ECM_DataOut`, which runs with the interface open,
takes another. `Ownership` is inductive with these; it gives, by
counting, `NothingLost`: the numbers add up, and as the queue is as long as the
pool and the armed buffer is not in it, the queue has room for that buffer. `OrderInv` strengthens `InOrder` with
the order of the frames still queued and of the one being written against what
each port has got. `Implementation` maps every step to a step of
`FrameChannel` or a stutter.

**ForwardingTable.** `TypeCorrect` needs lemmas on the unsigned difference
(`SinceValue`) and on the two choices of a slot (`OldestSlotIsOldest`,
`SlotForNewIsSlot`). `OneEntryPerStation` is inductive over types.
`EvictionIsFair` and `AgeingIsSound` are action properties from the types.
`HardwareAgrees` rests on `SyncInv`: every slot that is neither dirty nor being
written holds the registers of its entry's filter, and the one being written has
got the first registers of it, so that its last write makes it clean whatever was
there before (`SyncChange` for the steps that change the table, `LastWrite` for
the end of a programming).

**SpiPort.** `PortInv` joins the invariants: the HAL is busy exactly during a polled
transfer or a burst (`HalInv`), and what `s_spi_done` and `s_spi_error` say at each
place of `port_spi_xfer_dma` (`SignalInv`): clean before a burst, silent during it,
true to it after its end. `OneActive` reduces every step to the task that holds
the lock, `ActiveStep` to what the step does to that task.

**BringUp.** `BootIsPort` shows that a step of `main` leaves the port alone and that
a step after it is one of the port, so that `SpiPort`'s theorems carry over
(`PortSafeFromReset`). `ObjectInv` says which objects exist in each part of the
bring-up (`Early`, `Middle`, `Late`) and which interrupts may be pending before there
are any; `NoMissingObject` follows because USB is enabled only when all exist and
EXTI can come early only from a chip that was not reset. `ConfigInv` follows the
registers: `ResetAssert` empties them, each later stage adds its own unless an access fails.
`PollInv` says that the loop over RESETC is entered once, with its counter at zero.
`BootTypeCorrect` joins these with `SpiPort`'s types and `QuietInv`: there is no way
back from the running scheduler (`RunningStays`), and before it no task moves.

**UsbIn.** The safety of the unlocked sharing between task and interrupt rests on
`CallOwnsEndpoint`: the endpoint is open exactly in a ready session, and when it is
sending, then for the call that waits, whose `s_in_done` is still clear. That is
why clearing the semaphore before the transmission is enough, although a
completion may come at any statement: one that comes after the clearing is that of
this call. `BufferReturned` follows from it. `ZlpIsOwed` ties `s_in_zlp` to the
frame on the endpoint; it must say that no debt is left once the signal has been
given, or the return by way of `WaitDone` could leave one behind. `DeliveredBySignal` says
what the host has received when the signal is given; without its part about a ZLP
under way it is not inductive, as the signal for a full-sized frame comes one packet
after its tail. `NotYetOut` (a frame that may still be sent has not come out)
serves the refinement, in which `SendBegin` puts a frame into the channel or loses
it at once, the packet that ends its transfer unmixed lets it out, and the return
of the call ends it, come out or not.

**AdinRx.** `BuffersCounted` says where the one buffer in use is, on each path out
of a read; `PoolNeverEmpty` is a consequence, and so is that no buffer is freed
twice. `EdgeInv` adds to `NoMissedEdge` that an error bit is trouble; the argument is
that `Arrive` signals whenever INT was high, and that the task goes back to waiting
only from an empty drain. `OrderKept` needs the order inside each FIFO (`FifoInv`) and that
what has left a FIFO arrived before all that is still in it (`OutInv`). All the steps
of the task are seen through `Drained`: each FIFO keeps its frames, loses the oldest, or
loses them all.

**LinkNotify.** `BusyIsInFlight` is inductive with the types and one fact more, that
`s_pdev` is set exactly while the device is configured: so the call that finds the
handle NULL, which leaves `s_cmd_busy` set behind it, is never made in a session.
`ClaimCoversTransfer` needs `ClaimInv`: a claim is made for an endpoint that is not in
use, so that no completion can clear it before the transmission, and outside a
session there is none that the last reset has not overtaken.

**ProdInfo, Control.** `CachedIsCurrent` says that the two copies of the MAC address
are what the flash gives now. It holds because the flash changes only under a
halted MCU (`FlashStep`), and the way from there to "running" passes both readers;
with `UsableMac` this is `MacIsUsable`. `VerifiedIsInFlash` carries `verify OK` over
restarts. `AnswerIsTrue` is about the answer prepared and not yet sent: without it
`HostSeesOneIdentity` is not inductive, as the host takes what a step before it
has put on the endpoint.

**FrameSizes.** Linear arithmetic over all lengths once `RoundsUp` has bounded the
rounding and shown that it does not overflow.

Only model-checked: liveness (`Returned`, `EntriesAgeOut`, `AccessEnds`,
`EveryFifoIsServed`, `SendReturns`, `EveryRequestEnds`, `NewHostIsTold`), which the
prover does not handle.

## Not modelled

The bytes of SPI commands and CRC-8 (a wrong CRC is one more failed transfer); the
contents of constant descriptors; the LEDs; the forwarders of `usbd_conf.c` without
effect of their own (suspend, resume, SOF, isochronous, stall); system calls; build
files. The frame sizes are not part of a state machine: a frame that is too long
is one that `TxWriteError` drops. That a looked-up port is still the right one when
the frame is written is no promise of the code: any route is taken in `Downlink`.
Starvation of port 2 by port 1 (`adin2111.c:241`) is a consequence of the fixed order
in `adin2111_read_frame`; nothing in the sources says otherwise. `components` in
`PROJECT.json` lists each part with its reason.

## Plan

Done, in this order: `EcmSession`, `FrameChannel`, `Downlink`, `ForwardingTable`, `UsbIn`,
`LinkNotify`, `AdinRx`, `SpiPort`, `BringUp`, `ProdInfo` and `Control`, `FrameSizes`; and
the proofs of all of them.

Next: `Uplink`, `AdinRx` and `UsbIn` composed, as an implementation of
`FrameChannel` from FIFO to host; `Bridge`, `Downlink` with the lookup of
`ForwardingTable`; and their refinements, proved from the invariants above.
