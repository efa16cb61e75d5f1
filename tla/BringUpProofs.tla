---------------------------- MODULE BringUpProofs ----------------------------
(* Proofs about BringUp, for every set of tasks and every priority of the  *)
(* tick.                                                                   *)
EXTENDS BringUp, SpiPortProofs

-----------------------------------------------------------------------------
(* Bring-up and the SPI port *)

(* The steps of main leave the port alone, and the tasks' steps are those  *)
(* of SpiPort: bring-up is one of its behaviours.                          *)
THEOREM BootIsPort == BootSpec => Spec
  <1>1. BootInit => Init
    BY DEF BootInit
  <1>2. [BootNext]_bootVars => [Next]_vars
    BY DEF BootNext, bootVars
  <1>. QED  BY <1>1, <1>2, PTL DEF BootSpec, Spec

(* So what is proved of the port holds from reset on: the DMA only moves   *)
(* bytes within an access, the HAL is never found busy, and an access that *)
(* is reported as good is whole.                                           *)
THEOREM PortSafeFromReset == BootSpec => [](DmaIsBracketed /\ NeverBusy /\ OkIsWhole)
  BY BootIsPort, DmaBracketed, HalNeverBusy, GoodIsWhole, PTL

-----------------------------------------------------------------------------
(* The kernel objects *)

(* The objects one by one. *)
LEMMA ObjectNames ==
    /\ DOMAIN ObjectOrder = 1..7
    /\ ObjectOrder[1] = "rx_pool" /\ ObjectOrder[2] = "tx_pool"
    /\ ObjectOrder[3] = "to_adin_q" /\ ObjectOrder[4] = "adin_int_sem"
    /\ ObjectOrder[5] = "adin_lock" /\ ObjectOrder[6] = "spi_done"
    /\ ObjectOrder[7] = "in_done"
  BY DEF ObjectOrder

(* Which of the last two are among the first n, and that there is none     *)
(* only before the first.                                                  *)
LEMMA FirstObjects ==
    ASSUME NEW n \in 0..7
    PROVE  /\ "spi_done" \in First(n) <=> n \in {6, 7}
           /\ "in_done" \in First(n) <=> n = 7
           /\ First(n) = {} <=> n = 0
  BY ObjectNames DEF First

LEMMA AllObjects == \A irq \in Irqs : Needs(irq) \subseteq Objects
  BY ObjectNames DEF Needs, Irqs, Objects, First

Early  == {"hal", "clock", "gpio", "spi", "dma"}
Middle == {"reset", "resetLow", "softReset", "poll", "identify", "inDone"} \cup Registers
Late   == {"usb", "usbStart", "tasks", "scheduler", "running"}

(* What exists at each stage; and who can raise an interrupt before there  *)
(* are any objects: only a chip that kept running.                         *)
ObjectInv ==
    /\ stage \in Early \cup {"objects"} \cup Middle \cup Late
    /\ halt \in {"none", "fatal", "assert"}
    /\ created \subseteq Tasks
    /\ stage \in Early => objects = {}
    /\ stage = "objects" => \E n \in 0..5 : objects = First(n)
    /\ stage \in Middle => objects = First(6)
    /\ stage \in Late => objects = Objects
    /\ stage \in {"scheduler", "running"} => created = Tasks
    /\ enabled \subseteq Irqs
    /\ pending \subseteq enabled
    /\ "usb" \in enabled => stage \in Late
    /\ "sync" \in registers => warm \/ stage \in Middle \cup Late
    /\ objects = {} /\ pending # {} => warm
    /\ halt = "assert" => warm /\ objects = {}

LEMMA ObjectInit == BootInit => ObjectInv
  BY DEF BootInit, ObjectInv, Early, Middle, Late, Registers, Irqs

LEMMA Zones ==
    /\ Early \cap Middle = {} /\ Early \cap Late = {} /\ Middle \cap Late = {}
    /\ "objects" \notin Early \cup Middle \cup Late
  BY DEF Early, Middle, Late, Registers

(* Once there are objects, main is past its early stages, and conversely.  *)
LEMMA NoObjects ==
    ASSUME ObjectInv
    PROVE  /\ objects = {} => stage \in Early \cup {"objects"}
           /\ stage \in Middle \cup Late => objects # {}
  <1>1. First(6) # {} /\ Objects # {}
    BY FirstObjects DEF Objects
  <1>. QED  BY <1>1 DEF ObjectInv

(* A statement of main within one part of it, or one that is fatal.        *)
LEMMA PlaceStep ==
    ASSUME ObjectInv, UNCHANGED <<objects, created, pending, warm>>,
           NEW from, NEW to, Reached(from), stage' \in {from, to}, halt' \in {"none", "fatal"},
           \/ from \in Early /\ to \in Early
           \/ from = "dma" /\ to = "objects"
           \/ from \in Middle /\ to \in Middle
           \/ from \in Late /\ to \in Late
           \/ from \in {"objects", "inDone", "tasks", "scheduler"} /\ to = from,
           to \in {"scheduler", "running"} => created = Tasks,
           enabled \subseteq enabled', enabled' \subseteq Irqs,
           "usb" \in enabled' => "usb" \in enabled \/ from \in Late,
           "sync" \in registers' => "sync" \in registers \/ from \in Middle
    PROVE  ObjectInv'
  <1>1. stage = from /\ halt = "none" /\ halt' # "assert" /\ stage' \in {from, to}
        /\ halt' \in {"none", "fatal"}
    BY DEF Reached
  <1>2. First(0) = {}
    BY FirstObjects
  <1>3. CASE stage' = from
    BY <1>1, <1>2, <1>3, Zones DEF ObjectInv, Early, Middle, Late, Registers
  <1>4. CASE stage' = to
    BY <1>1, <1>2, <1>4, Zones DEF ObjectInv, Early, Middle, Late, Registers
  <1>. QED  BY <1>1, <1>3, <1>4

LEMMA QuietStep ==
    ASSUME ObjectInv, UNCHANGED <<objects, created, pending, warm>>,
           NEW from, NEW to, Proceed(from, to) \/ Fatal(from),
           \/ from \in Early /\ to \in Early
           \/ from = "dma" /\ to = "objects"
           \/ from \in Middle /\ to \in Middle
           \/ from \in Late /\ to \in Late
           \/ from \in {"objects", "inDone", "tasks", "scheduler"} /\ to = from,
           to \in {"scheduler", "running"} => created = Tasks,
           enabled \subseteq enabled', enabled' \subseteq Irqs,
           "usb" \in enabled' => "usb" \in enabled \/ from \in Late,
           "sync" \in registers' => "sync" \in registers \/ from \in Middle
    PROVE  ObjectInv'
  <1>1. Reached(from) /\ stage' \in {from, to} /\ halt' \in {"none", "fatal"}
    BY DEF Proceed, Fatal, Reached
  <1>. QED  BY <1>1, PlaceStep

(* Statements of main that create nothing. *)
LEMMA QuietMain ==
    ASSUME ObjectInv, UNCHANGED warm,
           \/ HalInit \/ ClockConfig \/ GpioConfig \/ SpiConfig \/ SpiDmaConfig
           \/ ResetAssert \/ ResetDeassert \/ SoftReset \/ PollReset \/ Identify
           \/ SetConfig2 \/ SetGroupFilter \/ SetImask \/ SetSync \/ SetHostMac
           \/ UsbInit \/ UsbStart \/ StartScheduler \/ NoMemory
    PROVE  ObjectInv'
  <1>. enabled \subseteq Irqs /\ Irqs = {"exti", "usb"}
    BY DEF ObjectInv, Irqs
  <1>1. CASE HalInit
    BY <1>1, QuietStep DEF HalInit, Early, irqVars, chipVars
  <1>2. CASE ClockConfig
    BY <1>2, QuietStep DEF ClockConfig, Board, Early, irqVars, chipVars
  <1>3. CASE GpioConfig
    BY <1>3, QuietStep DEF GpioConfig, Early, irqVars, chipVars
  <1>4. CASE SpiConfig
    BY <1>4, QuietStep DEF SpiConfig, Board, Early, irqVars, chipVars
  <1>5. CASE SpiDmaConfig
    BY <1>5, QuietStep DEF SpiDmaConfig, Board, Early, irqVars, chipVars
  <1>6. CASE ResetAssert
    BY <1>6, QuietStep DEF ResetAssert, Middle, Registers, irqVars, chipVars
  <1>7. CASE ResetDeassert
    BY <1>7, QuietStep DEF ResetDeassert, Middle, Registers, irqVars, chipVars
  <1>8. CASE SoftReset
    BY <1>8, QuietStep DEF SoftReset, Middle, Registers, irqVars, chipVars
  <1>9. CASE PollReset
    <2>1. Reached("poll") /\ stage' \in {"poll", "identify"} /\ halt' \in {"none", "fatal"}
      BY <1>9 DEF PollReset, Reached
    <2>. QED  BY <1>9, <2>1, PlaceStep DEF PollReset, Middle, irqVars, chipVars
  <1>10. CASE Identify
    BY <1>10, QuietStep DEF Identify, Middle, Registers, irqVars, chipVars
  <1>11. CASE SetConfig2
    BY <1>11, QuietStep DEF SetConfig2, Checked, Written, Unsure, Middle, Registers, irqVars, chipVars
  <1>12. CASE SetGroupFilter
    BY <1>12, QuietStep DEF SetGroupFilter, Unchecked, Written, Unsure, Middle, Registers, irqVars, chipVars
  <1>13. CASE SetImask
    BY <1>13, QuietStep DEF SetImask, Checked, Written, Unsure, Middle, Registers, irqVars, chipVars
  <1>14. CASE SetSync
    BY <1>14, QuietStep DEF SetSync, Checked, Written, Unsure, Middle, Registers, irqVars, chipVars
  <1>15. CASE SetHostMac
    BY <1>15, QuietStep DEF SetHostMac, Unchecked, Written, Unsure, Middle, Registers, irqVars, chipVars
  <1>16. CASE UsbInit
    BY <1>16, QuietStep DEF UsbInit, EnableUsb, Late, irqVars, chipVars
  <1>17. CASE UsbStart
    BY <1>17, QuietStep DEF UsbStart, Late, irqVars, chipVars
  <1>18. CASE StartScheduler
    <2>1. created = Tasks
      BY <1>18 DEF StartScheduler, Proceed, Reached, ObjectInv
    <2>. QED  BY <1>18, <2>1, QuietStep DEF StartScheduler, Late, irqVars, chipVars
  <1>19. CASE NoMemory
    <2>1. PICK place \in {"objects", "inDone", "tasks", "scheduler"} : Fatal(place)
      BY <1>19 DEF NoMemory
    <2>2. place = "scheduler" => created = Tasks
      BY <2>1 DEF Fatal, Reached, ObjectInv
    <2>. QED  BY <1>19, <2>1, <2>2, QuietStep DEF NoMemory, Late, Middle, irqVars, chipVars
  <1>. QED
    BY <1>1, <1>2, <1>3, <1>4, <1>5, <1>6, <1>7, <1>8, <1>9, <1>10, <1>11, <1>12, <1>13, <1>14, <1>15, <1>16, <1>17, <1>18, <1>19

(* Statements that create an object. *)
LEMMA CreateStep ==
    ASSUME ObjectInv, UNCHANGED warm, CreateObject \/ CreateInDone
    PROVE  ObjectInv'
  <1>0. UNCHANGED <<halt, created, enabled, pending, registers, warm>>
    BY DEF CreateObject, CreateInDone, Create, irqVars, chipVars
  <1>1. CASE CreateObject
    <2>1. stage = "objects" /\ halt = "none"
      BY <1>1 DEF CreateObject, Create, Reached
    <2>2. PICK m \in 0..5 : objects = First(m)
      BY <2>1 DEF ObjectInv
    <2>3. PICK n \in 1..7 :
            /\ objects = First(n - 1)
            /\ objects' = First(n)
            /\ stage' = IF ObjectOrder[n] = "spi_done" THEN "reset" ELSE "objects"
      BY <1>1, ObjectNames DEF CreateObject, Create
    <2>4. n - 1 \in 0..7 /\ n \in 0..7
      OBVIOUS
    <2>5. n \in 1..6
      <3>1. "spi_done" \notin First(m)
        BY FirstObjects
      <3>2. "spi_done" \in First(6)
        BY FirstObjects
      <3>3. n # 7
        BY <2>2, <2>3, <3>1, <3>2
      <3>. QED  BY <3>3
    <2>6. stage' = IF n = 6 THEN "reset" ELSE "objects"
      BY <2>3, <2>5, ObjectNames
    <2>7. objects' # {}
      BY <2>3, <2>4, <2>5, FirstObjects
    <2>. QED
      BY <1>0, <2>1, <2>3, <2>5, <2>6, <2>7, Zones
      DEF ObjectInv, Early, Middle, Late, Registers
  <1>2. CASE CreateInDone
    <2>1. stage = "inDone" /\ halt = "none" /\ objects = First(6)
      BY <1>2 DEF CreateInDone, Create, Reached, ObjectInv, Middle
    <2>2. PICK n \in 1..7 :
            /\ objects = First(n - 1)
            /\ objects' = First(n)
            /\ stage' = IF ObjectOrder[n] = "in_done" THEN "usb" ELSE "inDone"
      BY <1>2, ObjectNames DEF CreateInDone, Create
    <2>3. n - 1 \in 0..7 /\ n \in 0..7 /\ 6 \in 0..7
      OBVIOUS
    <2>4. n = 7
      BY <2>1, <2>2, <2>3, FirstObjects
    <2>5. stage' = "usb" /\ objects' = Objects
      BY <2>2, <2>4, ObjectNames DEF Objects
    <2>6. objects' # {}
      BY <2>2, <2>3, <2>4, FirstObjects
    <2>. QED
      BY <1>0, <2>1, <2>5, <2>6, Zones DEF ObjectInv, Early, Middle, Late, Registers
  <1>. QED  BY <1>1, <1>2

LEMMA TaskStep ==
    ASSUME ObjectInv, UNCHANGED warm, NEW t \in Tasks, CreateTask(t)
    PROVE  ObjectInv'
  BY Zones DEF CreateTask, Reached, ObjectInv, Early, Middle, Late, Registers, irqVars, chipVars

(* The chip, the host and the handlers. *)
LEMMA IrqStep ==
    ASSUME ObjectInv, UNCHANGED warm,
           \/ ChipBoots \/ Edge \/ UsbEvent \/ Halted \/ Running
           \/ \E irq \in Irqs : Handle(irq)
    PROVE  ObjectInv'
  <1>1. CASE ChipBoots \/ Halted \/ Running
    BY <1>1 DEF ChipBoots, Halted, Running, ObjectInv, mainVars, irqVars, chipVars
  <1>2. CASE Edge
    <2>1. objects = {} => warm
      BY <1>2, NoObjects, Zones DEF Edge, ObjectInv
    <2>. QED  BY <1>2, <2>1 DEF Edge, ObjectInv, mainVars, chipVars, Irqs
  <1>3. CASE UsbEvent
    <2>1. objects # {}
      BY <1>3, NoObjects DEF UsbEvent, Late
    <2>. QED  BY <1>3, <2>1 DEF UsbEvent, ObjectInv, mainVars, chipVars, Irqs
  <1>4. ASSUME NEW irq \in Irqs, Handle(irq) PROVE ObjectInv'
    <2>1. /\ UNCHANGED <<stage, objects, created, enabled, registers, warm>>
          /\ pending' \subseteq pending /\ pending # {}
          /\ halt' = IF Needs(irq) \subseteq objects THEN "none" ELSE "assert"
      BY <1>4 DEF Handle, chipVars
    <2>2. objects = {} \/ stage = "running"
      BY <1>4 DEF Handle, Masked
    <2>3. halt' = "assert" => warm /\ objects = {}
      BY <2>1, <2>2, AllObjects DEF ObjectInv, Late
    <2>. QED  BY <2>1, <2>3 DEF ObjectInv
  <1>. QED  BY <1>1, <1>2, <1>3, <1>4

LEMMA ObjectStep == ObjectInv /\ [BootNext]_bootVars => ObjectInv'
  <1>. SUFFICES ASSUME ObjectInv, [BootNext]_bootVars PROVE ObjectInv'
    OBVIOUS
  <1>1. CASE UNCHANGED bootVars
    BY <1>1 DEF bootVars, mainVars, irqVars, chipVars, ObjectInv
  <1>2. CASE Main /\ UNCHANGED warm
    BY <1>2, QuietMain, CreateStep, TaskStep DEF Main
  <1>3. CASE BootNext /\ ~Main
    BY <1>3, IrqStep DEF BootNext, Boot
  <1>. QED  BY <1>1, <1>2, <1>3 DEF BootNext

LEMMA ObjectsAlways == BootSpec => []ObjectInv
  BY ObjectInit, ObjectStep, PTL DEF BootSpec

(* No handler meets an object that does not exist, save after a reset of   *)
(* the MCU alone, before the first kernel call; and the tasks start with   *)
(* all objects there and all of them created.                              *)
THEOREM NoMissingObject == BootSpec => []ObjectsExist
  <1>1. ObjectInv => ObjectsExist
    BY NoObjects, Zones DEF ObjectInv, ObjectsExist, Late
  <1>. QED  BY <1>1, ObjectsAlways, PTL

-----------------------------------------------------------------------------
(* The configuration of the ADIN2111 *)

AfterHost    == {"inDone", "usb", "usbStart", "tasks", "scheduler", "running"}
AfterSync    == {"host"} \cup AfterHost
AfterImask   == {"sync"} \cup AfterSync
AfterGroup   == {"imask"} \cup AfterImask
AfterConfig2 == {"group"} \cup AfterGroup

(* What has been written at each stage; what may have failed unnoticed is  *)
(* there unless an access has failed.                                      *)
ConfigInv ==
    /\ registers \subseteq Registers
    /\ "sync" \in registers => {"config2", "imask"} \subseteq registers
    /\ stage \in AfterConfig2 => "config2" \in registers
    /\ stage \in AfterImask => "imask" \in registers
    /\ stage \in AfterSync => "sync" \in registers
    /\ stage \in AfterGroup => spiFailed \/ "group" \in registers
    /\ stage \in AfterHost => spiFailed \/ "host" \in registers

LEMMA ConfigInit == BootInit => ConfigInv
  BY DEF BootInit, ConfigInv, Registers, AfterConfig2, AfterGroup, AfterImask, AfterSync, AfterHost

(* A statement that touches no register keeps all of this if it proceeds   *)
(* to a stage that demands no more than the one it leaves.                 *)
LEMMA SameRegisters ==
    ASSUME ConfigInv, UNCHANGED <<registers, spiFailed>>,
           \/ stage' = stage
           \/ stage' \notin AfterConfig2
           \/ stage \in AfterHost /\ stage' \in AfterHost
    PROVE  ConfigInv'
  BY DEF ConfigInv, AfterConfig2, AfterGroup, AfterImask, AfterSync, AfterHost

(* The registers are written in their order. *)
LEMMA RegisterStep ==
    ASSUME ConfigInv,
           SetConfig2 \/ SetGroupFilter \/ SetImask \/ SetSync \/ SetHostMac
    PROVE  ConfigInv'
  <1>. USE DEF ConfigInv, Checked, Unchecked, Written, Unsure, Proceed, Fatal, Reached,
         Registers, AfterConfig2, AfterGroup, AfterImask, AfterSync, AfterHost
  <1>1. CASE SetConfig2
    BY <1>1 DEF SetConfig2
  <1>2. CASE SetGroupFilter
    BY <1>2 DEF SetGroupFilter
  <1>3. CASE SetImask
    BY <1>3 DEF SetImask
  <1>4. CASE SetSync
    BY <1>4 DEF SetSync
  <1>5. CASE SetHostMac
    BY <1>5 DEF SetHostMac
  <1>. QED  BY <1>1, <1>2, <1>3, <1>4, <1>5

(* The reset of the chip clears them all. *)
LEMMA ResetStep ==
    ASSUME ConfigInv, ResetAssert \/ ResetDeassert \/ SoftReset \/ PollReset
    PROVE  ConfigInv'
  BY DEF ConfigInv, ResetAssert, ResetDeassert, SoftReset, PollReset, Proceed, Reached,
     AfterConfig2, AfterGroup, AfterImask, AfterSync, AfterHost, chipVars

LEMMA ConfigStep == ConfigInv /\ [BootNext]_bootVars => ConfigInv'
  <1>. SUFFICES ASSUME ConfigInv, [BootNext]_bootVars PROVE ConfigInv'
    OBVIOUS
  <1>. USE DEF AfterConfig2, AfterGroup, AfterImask, AfterSync, AfterHost
  <1>1. CASE \/ ChipBoots \/ Edge \/ UsbEvent \/ Halted \/ Running \/ UNCHANGED bootVars
             \/ \E irq \in Irqs : Handle(irq)
    <2>1. UNCHANGED <<stage, registers, spiFailed>>
      BY <1>1 DEF ChipBoots, Edge, UsbEvent, Halted, Running, Handle, bootVars, mainVars, chipVars
    <2>. QED  BY <2>1, SameRegisters
  <1>2. CASE HalInit \/ ClockConfig \/ GpioConfig \/ SpiConfig \/ SpiDmaConfig
    <2>1. /\ UNCHANGED <<registers, spiFailed>>
          /\ stage' = stage \/ stage' \in {"clock", "gpio", "spi", "dma", "objects"}
      BY <1>2 DEF HalInit, ClockConfig, GpioConfig, SpiConfig, SpiDmaConfig, Board, Proceed,
         Fatal, chipVars
    <2>. QED  BY <2>1, SameRegisters
  <1>3. CASE CreateObject \/ Identify \/ NoMemory
    <2>1. /\ UNCHANGED <<registers, spiFailed>>
          /\ stage' = stage \/ stage' \in {"objects", "reset", "config2"}
      BY <1>3 DEF CreateObject, Create, Identify, NoMemory, Proceed, Fatal, chipVars
    <2>. QED  BY <2>1, SameRegisters
  <1>4. CASE \/ CreateInDone \/ UsbInit \/ UsbStart \/ StartScheduler
             \/ \E t \in Tasks : CreateTask(t)
    <2>1. /\ UNCHANGED <<registers, spiFailed>>
          /\ stage \in {"inDone", "usb", "usbStart", "tasks", "scheduler"}
          /\ stage' \in {"inDone", "usb", "usbStart", "tasks", "scheduler", "running"}
      BY <1>4 DEF CreateInDone, Create, UsbInit, UsbStart, StartScheduler, CreateTask, Proceed,
         Fatal, Reached, chipVars
    <2>. QED  BY <2>1, SameRegisters
  <1>. QED
    BY <1>1, <1>2, <1>3, <1>4, RegisterStep, ResetStep DEF BootNext, Boot, Main

(* The chip forwards only when it is configured to, and the bridge runs    *)
(* only with a chip configured in this session.                            *)
THEOREM NothingHalfConfigured == BootSpec => []RunningIsConfigured
  <1>1. ConfigInv /\ ObjectInv => RunningIsConfigured
    BY DEF ConfigInv, RunningIsConfigured, Registers, AfterConfig2, AfterGroup, AfterImask,
       AfterSync, AfterHost
  <1>2. BootSpec => []ConfigInv
    BY ConfigInit, ConfigStep, PTL DEF BootSpec
  <1>. QED  BY <1>1, <1>2, ObjectsAlways, PTL

-----------------------------------------------------------------------------
(* Types *)

BeforePoll == Early \cup {"objects", "reset", "resetLow", "softReset"}

(* The loop over the polls starts once, from zero, and ends in time. *)
PollInv ==
    /\ polls \in 0..MaxPolls
    /\ stage = "poll" => polls < MaxPolls
    /\ stage \in BeforePoll => polls = 0

LEMMA PollInit == BootInit => PollInv
  BY PollsAssumption DEF BootInit, PollInv

LEMMA PollStep == PollInv /\ [BootNext]_bootVars => PollInv'
  <1>. SUFFICES ASSUME PollInv, [BootNext]_bootVars PROVE PollInv'
    OBVIOUS
  <1>. USE PollsAssumption DEF PollInv, BeforePoll, Early
  <1>1. CASE \/ ChipBoots \/ Edge \/ UsbEvent \/ Halted \/ Running \/ UNCHANGED bootVars
             \/ \E irq \in Irqs : Handle(irq)
    <2>1. UNCHANGED <<stage, polls>>
      BY <1>1 DEF ChipBoots, Edge, UsbEvent, Halted, Running, Handle, bootVars, mainVars
    <2>. QED  BY <2>1
  <1>2. CASE \/ HalInit \/ ClockConfig \/ GpioConfig \/ SpiConfig \/ SpiDmaConfig
             \/ CreateObject \/ ResetAssert \/ ResetDeassert \/ SoftReset \/ NoMemory
    <2>1. /\ UNCHANGED polls
          /\ stage' = stage \/ stage \in BeforePoll
      BY <1>2 DEF HalInit, ClockConfig, GpioConfig, SpiConfig, SpiDmaConfig, Board, CreateObject,
         Create, ResetAssert, ResetDeassert, SoftReset, NoMemory, Proceed, Fatal, Reached
    <2>. QED  BY <2>1
  <1>3. CASE PollReset
    BY <1>3 DEF PollReset, Reached
  <1>4. CASE \/ Identify \/ SetConfig2 \/ SetGroupFilter \/ SetImask \/ SetSync \/ SetHostMac
             \/ CreateInDone \/ UsbInit \/ UsbStart \/ StartScheduler
             \/ \E t \in Tasks : CreateTask(t)
    <2>1. /\ UNCHANGED polls
          /\ stage' \notin BeforePoll \cup {"poll"}
      BY <1>4 DEF Identify, SetConfig2, SetGroupFilter, SetImask, SetSync, SetHostMac, Checked,
         Unchecked, CreateInDone, Create, UsbInit, UsbStart, StartScheduler, CreateTask, Proceed,
         Fatal, Reached
    <2>. QED  BY <2>1
  <1>. QED
    BY <1>1, <1>2, <1>3, <1>4 DEF BootNext, Boot, Main

(* The chip, the history and the tasks, which have no step of their own    *)
(* before the scheduler starts.                                            *)
QuietInv ==
    /\ chip \in {"reset", "booting", "up"}
    /\ warm \in BOOLEAN
    /\ spiFailed \in BOOLEAN
    /\ stage # "running" => \A t \in Tasks : At(t, "idle")

LEMMA QuietInit == BootInit => QuietInv
  BY DEF BootInit, QuietInv, Init, At

(* Whoever moves, a step leaves the chip in one of its states, and spends  *)
(* no history but a failed access.                                         *)
LEMMA ChipStep ==
    ASSUME QuietInv, BootNext
    PROVE  chip' \in {"reset", "booting", "up"} /\ spiFailed' \in BOOLEAN
  <1>. USE DEF QuietInv
  <1>1. CASE \/ HalInit \/ ClockConfig \/ GpioConfig \/ SpiConfig \/ SpiDmaConfig
             \/ CreateObject \/ NoMemory \/ CreateInDone \/ UsbInit \/ UsbStart
             \/ StartScheduler \/ \E t \in Tasks : CreateTask(t)
    <2>1. UNCHANGED <<chip, spiFailed>>
      BY <1>1 DEF HalInit, ClockConfig, GpioConfig, SpiConfig, SpiDmaConfig, Board, CreateObject,
         CreateInDone, Create, NoMemory, UsbInit, UsbStart, StartScheduler, CreateTask, chipVars
    <2>. QED  BY <2>1
  <1>2. CASE ResetAssert \/ ResetDeassert \/ SoftReset \/ PollReset \/ Identify
    BY <1>2 DEF ResetAssert, ResetDeassert, SoftReset, PollReset, Identify, chipVars
  <1>3. CASE SetConfig2 \/ SetGroupFilter \/ SetImask \/ SetSync \/ SetHostMac
    BY <1>3 DEF SetConfig2, SetGroupFilter, SetImask, SetSync, SetHostMac, Checked, Unchecked,
       Written, Unsure
  <1>4. CASE ChipBoots
    BY <1>4 DEF ChipBoots
  <1>5. CASE Edge \/ UsbEvent \/ Halted \/ Running \/ \E irq \in Irqs : Handle(irq)
    <2>1. UNCHANGED <<chip, spiFailed>>
      BY <1>5 DEF Edge, UsbEvent, Halted, Running, Handle, chipVars
    <2>. QED  BY <2>1
  <1>. QED  BY <1>1, <1>2, <1>3, <1>4, <1>5 DEF BootNext, Boot, Main

(* There is no way back from "running": no statement of main starts there, *)
(* and the others leave main where it is.                                  *)
LEMMA RunningStays ==
    ASSUME BootNext, stage = "running"
    PROVE  stage' = "running"
  <1>1. CASE Main
    BY <1>1 DEF Main, HalInit, ClockConfig, GpioConfig, SpiConfig, SpiDmaConfig, Board,
       CreateObject, CreateInDone, Create, NoMemory, ResetAssert, ResetDeassert, SoftReset,
       PollReset, Identify, SetConfig2, SetGroupFilter, SetImask, SetSync, SetHostMac, Checked,
       Unchecked, UsbInit, UsbStart, StartScheduler, CreateTask, Proceed, Fatal, Reached
  <1>2. CASE ~Main
    BY <1>2 DEF BootNext, Boot, ChipBoots, Edge, UsbEvent, Handle, Halted, Running, mainVars
  <1>. QED  BY <1>1, <1>2

LEMMA QuietStaysSo == QuietInv /\ [BootNext]_bootVars => QuietInv'
  <1>. SUFFICES ASSUME QuietInv, [BootNext]_bootVars PROVE QuietInv'
    OBVIOUS
  <1>1. CASE UNCHANGED bootVars
    BY <1>1 DEF QuietInv, At, bootVars, mainVars, chipVars, vars
  <1>2. CASE BootNext
    <2>1. warm' \in BOOLEAN
      BY <1>2 DEF BootNext, QuietInv
    <2>2. ASSUME stage' # "running", NEW t \in Tasks PROVE At(t, "idle")'
      <3>1. stage # "running"
        BY <1>2, <2>2, RunningStays
      <3>2. UNCHANGED vars
        BY <1>2, <3>1 DEF BootNext, Running
      <3>. QED  BY <3>1, <3>2 DEF QuietInv, At, vars
    <2>. QED  BY <1>2, <2>1, <2>2, ChipStep DEF QuietInv
  <1>. QED  BY <1>1, <1>2

(* Every variable stays in its range from reset on, objects are created in *)
(* their order and none is lost, only an enabled interrupt is pending, the *)
(* loop over RESETC ends within its limit, and no task is anywhere before  *)
(* the scheduler starts.                                                   *)
THEOREM BootTypeCorrect == BootSpec => []BootTypeOK
  <1>1. TypeOK /\ ObjectInv /\ ConfigInv /\ PollInv /\ QuietInv => BootTypeOK
    <2>. SUFFICES ASSUME TypeOK, ObjectInv, ConfigInv, PollInv, QuietInv PROVE BootTypeOK
      OBVIOUS
    <2>1. stage \in Stages
      BY DEF ObjectInv, Stages, Early, Middle, Late
    <2>2. \E n \in 0..7 : objects = First(n)
      <3>1. First(0) = {}
        BY FirstObjects
      <3>. QED  BY <3>1 DEF ObjectInv, Objects
    <2>. QED  BY <2>1, <2>2 DEF BootTypeOK, ObjectInv, ConfigInv, PollInv, QuietInv
  <1>2. BootSpec => []ConfigInv
    BY ConfigInit, ConfigStep, PTL DEF BootSpec
  <1>3. BootSpec => []QuietInv
    BY QuietInit, QuietStaysSo, PTL DEF BootSpec
  <1>4. BootSpec => []PollInv
    BY PollInit, PollStep, PTL DEF BootSpec
  <1>. QED  BY <1>1, <1>2, <1>3, <1>4, BootIsPort, TypeCorrect, ObjectsAlways, PTL
=============================================================================
