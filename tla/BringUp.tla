------------------------------- MODULE BringUp -------------------------------
(***************************************************************************)
(* From reset to the running tasks: main, bsp_init, net_bridge_init,       *)
(* adin2111_init and usb_device_init, one statement with an effect after   *)
(* the other, with the interrupts that are enabled on the way.  A failure  *)
(* that is checked ends in bsp_fatal; an assertion of the kernel ends in   *)
(* configASSERT's loop.  When the scheduler runs, the tasks do what SpiPort*)
(* says, which this module extends.                                        *)
(*                                                                         *)
(* Two facts about FreeRTOS matter (ARM_CM4F port, external): until the    *)
(* scheduler starts, the first critical section of the kernel leaves all   *)
(* interrupts masked whose priority number is not below MaxSyscall (USB    *)
(* has 6, EXTI 7); and giving a semaphore that does not exist fails an     *)
(* assertion.                                                              *)
(***************************************************************************)
EXTENDS SpiPort

CONSTANTS
    TickPriority,   \* TICK_INT_PRIORITY, of the timer behind HAL_Delay
    MaxSyscall,     \* configLIBRARY_MAX_SYSCALL_INTERRUPT_PRIORITY
    MaxPolls        \* how often adin2111_init asks for RESETC: 100

ASSUME PriorityAssumption == TickPriority \in 0..15 /\ MaxSyscall \in 1..15
ASSUME PollsAssumption == MaxPolls \in Nat \ {0}

VARIABLES
    stage,       \* what main does next, or "running"
    halt,        \* "none", "fatal" (bsp_fatal) or "assert" (configASSERT)
    objects,     \* kernel objects that exist
    created,     \* tasks that exist
    polls,       \* polls of RESETC that got no answer
    enabled,     \* interrupts enabled in the NVIC
    pending,     \* interrupts raised and not yet taken
    chip,        \* the ADIN2111: "reset", "booting" or "up"
    registers,   \* what has been configured in it
    warm,        \* history: the MCU was reset alone, the chip kept running
    spiFailed    \* history: an access that configures the chip has failed

mainVars == <<stage, halt, objects, created, polls>>
irqVars  == <<enabled, pending>>
chipVars == <<chip, registers, spiFailed>>
bootVars == <<mainVars, irqVars, chipVars, warm, vars>>

\* In the order of their creation; the last one by usb_device_init.
ObjectOrder == <<"rx_pool", "tx_pool", "to_adin_q", "adin_int_sem", "adin_lock",
                 "spi_done", "in_done">>
First(n)  == {ObjectOrder[i] : i \in 1..n}
Objects   == First(7)
Irqs      == {"exti", "usb"}
Registers == {"config2", "group", "imask", "sync", "host"}

\* What the handlers of an interrupt hand to the kernel.
Needs(irq) == IF irq = "exti" THEN {"adin_int_sem"} ELSE {"tx_pool", "to_adin_q", "in_done"}

BootInit ==
    /\ Init
    /\ stage = "hal"
    /\ halt = "none"
    /\ objects = {}
    /\ created = {}
    /\ polls = 0
    /\ enabled = {}
    /\ pending = {}
    /\ warm \in BOOLEAN
    /\ chip = IF warm THEN "up" ELSE "booting"
    /\ registers = IF warm THEN Registers ELSE {}
    /\ spiFailed = FALSE

Masked   == objects # {} /\ stage # "running"
TickRuns == ~Masked \/ TickPriority < MaxSyscall

(* main goes on from one place to another, or calls bsp_fatal.             *)
Reached(place)    == halt = "none" /\ stage = place
Proceed(from, to) == Reached(from) /\ stage' = to /\ UNCHANGED <<halt, polls>>
Fatal(place)      == Reached(place) /\ halt' = "fatal" /\ UNCHANGED <<stage, polls>>

-----------------------------------------------------------------------------
(* HAL_Init and bsp_init *)

\* main ignores the result of HAL_Init.
HalInit ==
    /\ Proceed("hal", "clock")
    /\ UNCHANGED <<objects, created, irqVars, chipVars>>

(* A HAL call that bsp_init makes succeeds, or is fatal. *)
Board(from, to) ==
    /\ Proceed(from, to) \/ Fatal(from)
    /\ UNCHANGED <<objects, created, irqVars, chipVars>>

ClockConfig  == Board("clock", "gpio")
SpiConfig    == Board("spi", "dma")
SpiDmaConfig == Board("dma", "objects")

(* RST is driven high, as before; INT becomes an EXTI source.              *)
GpioConfig ==
    /\ Proceed("gpio", "spi")
    /\ enabled' = enabled \cup {"exti"}
    /\ UNCHANGED <<objects, created, pending, chipVars>>

-----------------------------------------------------------------------------
(* Kernel objects *)

(* frame_pool_init, xQueueCreate, ...: the next object in order.           *)
Create(place, last, to) ==
    /\ Reached(place)
    /\ \E n \in DOMAIN ObjectOrder :
        /\ objects = First(n - 1)
        /\ objects' = First(n)
        /\ stage' = IF ObjectOrder[n] = last THEN to ELSE place
    /\ UNCHANGED <<halt, created, polls, irqVars, chipVars>>

CreateObject == Create("objects", "spi_done", "reset")
CreateInDone == Create("inDone", "in_done", "usb")

(* Wrong variant of the next definition: no hook, only what the sources    *)
(* check themselves.  Of the tasks they check nothing in effect, because   *)
(* "ok &= xTaskCreate()" leaves ok at pdPASS (1) when -1 is returned.      *)
NoMemoryUnhooked ==
    /\ Fatal("objects") \/ Proceed("tasks", "scheduler")
    /\ UNCHANGED <<objects, created, irqVars, chipVars>>

(* The heap is exhausted: vApplicationMallocFailedHook, whoever asks.      *)
NoMemory ==
    /\ \E place \in {"objects", "inDone", "tasks", "scheduler"} : Fatal(place)
    /\ UNCHANGED <<objects, created, irqVars, chipVars>>

-----------------------------------------------------------------------------
(* adin2111_init *)

(* RST low, which resets all registers, then HAL_Delay(5). *)
ResetAssert ==
    /\ Proceed("reset", "resetLow")
    /\ chip' = "reset"
    /\ registers' = {}
    /\ UNCHANGED <<objects, created, irqVars, spiFailed>>

(* The delay is over: RST high, then HAL_Delay(50). *)
ResetDeassert ==
    /\ Proceed("resetLow", "softReset")
    /\ TickRuns
    /\ chip' = "booting"
    /\ UNCHANGED <<objects, created, irqVars, registers, spiFailed>>

(* The write to ADIN_REG_RESET, then HAL_Delay(10).  It has an effect or,  *)
(* if it fails, perhaps not: its result is ignored.                        *)
SoftReset ==
    /\ Proceed("softReset", "poll")
    /\ TickRuns
    /\ chip' \in {"booting", chip}
    /\ UNCHANGED <<objects, created, irqVars, registers, spiFailed>>

(* One poll of RESETC.  The chip answers; or not, or the read fails, and   *)
(* HAL_Delay(1) follows, after the last poll too, which goes on as if the  *)
(* chip had answered.                                                      *)
PollReset ==
    /\ Reached("poll")
    /\ \/ chip = "up" /\ stage' = "identify" /\ UNCHANGED polls
       \/ /\ TickRuns
          /\ polls' = polls + 1
          /\ stage' = IF polls' = MaxPolls THEN "identify" ELSE "poll"
    /\ UNCHANGED <<halt, objects, created, irqVars, chipVars>>

(* PHYID: an ADIN1110 or ADIN2111 answers, or main gives up. *)
Identify ==
    /\ (chip = "up" /\ Proceed("identify", "config2")) \/ Fatal("identify")
    /\ UNCHANGED <<objects, created, irqVars, chipVars>>

(* One configuration step: the registers are written; or an access fails,  *)
(* after which they are or are not, and init gives up if it looks.         *)
Written(reg) == registers' = registers \cup {reg} /\ UNCHANGED spiFailed
Unsure(reg)  == registers' \in {registers, registers \cup {reg}} /\ spiFailed' = TRUE

Checked(reg, to) ==
    /\ \/ Proceed(reg, to) /\ Written(reg)
       \/ Fatal(reg) /\ Unsure(reg)
    /\ UNCHANGED <<objects, created, irqVars, chip>>

Unchecked(reg, to) ==
    /\ Proceed(reg, to)
    /\ Written(reg) \/ Unsure(reg)
    /\ UNCHANGED <<objects, created, irqVars, chip>>

\* Wrong variant of the next definition: the result is ignored.
Config2Unchecked == Unchecked("config2", "group")

\* FIFO_CLR first, its result ignored; it finds the FIFOs of a reset chip.
SetConfig2     == Checked("config2", "group")
SetGroupFilter == Unchecked("group", "imask")
SetImask       == Checked("imask", "sync")

(* CONFIG0 is read first.  If that fails, which nobody notices, its other  *)
(* bits are written as zeros.                                              *)
SetSync ==
    \/ Checked("sync", "host")
    \/ /\ Proceed("sync", "host")
       /\ registers' = registers \cup {"sync"}
       /\ spiFailed' = TRUE
       /\ UNCHANGED <<objects, created, irqVars, chip>>

\* Back in net_bridge_init: adin2111_set_host_mac.
SetHostMac     == Unchecked("host", "inDone")

-----------------------------------------------------------------------------
(* usb_device_init, the tasks and the scheduler *)

\* HAL_PCD_MspInit
EnableUsb == enabled' = enabled \cup {"usb"}

(* USBD_Init, which enables the interrupt before it can fail.              *)
UsbInit ==
    /\ Proceed("usb", "usbStart") \/ Fatal("usb")
    /\ EnableUsb
    /\ UNCHANGED <<objects, created, pending, chipVars>>

(* USBD_RegisterClass and USBD_Start; from here on the host is heard.      *)
UsbStart ==
    /\ Proceed("usbStart", "tasks") \/ Fatal("usbStart")
    /\ UNCHANGED <<objects, created, irqVars, chipVars>>

CreateTask(t) ==
    /\ Reached("tasks")
    /\ t \notin created
    /\ created' = created \cup {t}
    /\ stage' = IF created' = Tasks THEN "scheduler" ELSE "tasks"
    /\ UNCHANGED <<halt, objects, polls, irqVars, chipVars>>

StartScheduler ==
    /\ Proceed("scheduler", "running")
    /\ UNCHANGED <<objects, created, irqVars, chipVars>>

Main ==
    \/ HalInit
    \/ ClockConfig
    \/ GpioConfig
    \/ SpiConfig
    \/ SpiDmaConfig
    \/ CreateObject
    \/ NoMemory
    \/ ResetAssert
    \/ ResetDeassert
    \/ SoftReset
    \/ PollReset
    \/ Identify
    \/ SetConfig2
    \/ SetGroupFilter
    \/ SetImask
    \/ SetSync
    \/ SetHostMac
    \/ CreateInDone
    \/ UsbInit
    \/ UsbStart
    \/ \E t \in Tasks : CreateTask(t)
    \/ StartScheduler

-----------------------------------------------------------------------------
(* The chip, the host and the interrupts *)

ChipBoots ==
    /\ chip = "booting"
    /\ chip' = "up"
    /\ UNCHANGED <<mainVars, irqVars, registers, spiFailed>>

(* A frame arrives: INT falls, if the chip forwards and may interrupt.     *)
Edge ==
    /\ chip = "up"
    /\ {"sync", "imask"} \subseteq registers
    /\ "exti" \in enabled
    /\ pending' = pending \cup {"exti"}
    /\ UNCHANGED <<mainVars, enabled, chipVars>>

UsbEvent ==
    /\ "usb" \in enabled /\ stage \in {"tasks", "scheduler", "running"}
    /\ pending' = pending \cup {"usb"}
    /\ UNCHANGED <<mainVars, enabled, chipVars>>

(* The handler runs, up to the kernel call that misses its object.         *)
Handle(irq) ==
    /\ halt = "none"
    /\ ~Masked
    /\ irq \in pending
    /\ pending' = pending \ {irq}
    /\ halt' = IF Needs(irq) \subseteq objects THEN "none" ELSE "assert"
    /\ UNCHANGED <<stage, objects, created, polls, enabled, chipVars>>

(* bsp_fatal and configASSERT loop with interrupts disabled.               *)
Halted == halt # "none" /\ UNCHANGED <<mainVars, irqVars, chipVars>>

Boot ==
    \/ Main
    \/ ChipBoots
    \/ Edge
    \/ UsbEvent
    \/ \E irq \in Irqs : Handle(irq)
    \/ Halted

Running == stage = "running" /\ halt = "none" /\ UNCHANGED <<mainVars, irqVars, chipVars>>

BootNext ==
    /\ UNCHANGED warm
    /\ \/ Boot /\ UNCHANGED vars
       \/ Running /\ Next

BootSpec == BootInit /\ [][BootNext]_bootVars

(* main is alone, and once the scheduler runs, see FairSpec of SpiPort.    *)
BootFairSpec ==
    /\ BootSpec
    /\ WF_bootVars(Main /\ UNCHANGED <<warm, vars>>)
    /\ \A t \in Tasks : WF_bootVars(Running /\ Transfer(t) /\ UNCHANGED warm)
-----------------------------------------------------------------------------
(* Properties *)

Stages == {"hal", "clock", "gpio", "spi", "dma", "objects", "reset", "resetLow", "softReset",
           "poll", "identify", "inDone", "usb", "usbStart", "tasks", "scheduler", "running"} \cup Registers

(* Variables in range, those of SpiPort included; no task is anywhere      *)
(* before the scheduler starts, objects are created in their order, and    *)
(* the chip is not asked for RESETC more often than allowed.               *)
BootTypeOK ==
    /\ TypeOK
    /\ stage \in Stages
    /\ halt \in {"none", "fatal", "assert"}
    /\ \E n \in 0..7 : objects = First(n)
    /\ created \subseteq Tasks
    /\ polls \in 0..MaxPolls
    /\ stage = "poll" => polls < MaxPolls
    /\ pending \subseteq enabled
    /\ enabled \subseteq Irqs
    /\ chip \in {"reset", "booting", "up"}
    /\ registers \subseteq Registers
    /\ warm \in BOOLEAN
    /\ spiFailed \in BOOLEAN
    /\ stage # "running" => \A t \in Tasks : At(t, "idle")

(* No interrupt handler meets a kernel object that does not exist yet, and *)
(* when the scheduler starts all objects and all tasks do, whatever the    *)
(* creations returned.  The exception: after a reset of the MCU alone, INT *)
(* may fall between gpio_config and the first kernel call, that masks it.  *)
ObjectsExist ==
    /\ stage = "running" => objects = Objects /\ created = Tasks
    /\ halt = "assert" => warm /\ objects = {} /\ "usb" \notin enabled

(* The chip never forwards frames (SYNC) before the forwarding mode and    *)
(* the interrupt mask are set; and the bridge runs only with these, and,   *)
(* unless an access that configures it failed, with both filters: what an  *)
(* earlier session left in the chip is never taken for it.                 *)
RunningIsConfigured ==
    /\ "sync" \in registers => {"config2", "imask"} \subseteq registers
    /\ stage = "running" => "sync" \in registers /\ (spiFailed \/ registers = Registers)

(* Boot ends, "vTaskStartScheduler - hand control to FreeRTOS" (main.c):   *)
(* with the tasks running or in a halt, not in a delay.                    *)
BootEnds == <>(stage = "running" \/ halt # "none")
=============================================================================
