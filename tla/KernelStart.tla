----------------------------- MODULE KernelStart -----------------------------
(***************************************************************************)
(* The start of the kernel, and interrupts from then on: the boot of core  *)
(* 0, which registers the services one after the other and then starts     *)
(* the other cores one at a time; the dispatch of interrupts on every      *)
(* core; the timer, and cores that sleep on it with int 0x80.              *)
(*                                                                         *)
(* Service calls have their results in structures shared by all cores:     *)
(* getCurrentCoreId stores the id in `slot', and its caller loads it from  *)
(* there; IdtHandler passes the interrupt in `context', that of int 0x80   *)
(* included.  When `overlap' is TRUE another core may come between such a  *)
(* store and the load that follows it, so that a core takes itself for     *)
(* another, or serves another's interrupt; when it is FALSE a core loads   *)
(* what it stored.                                                         *)
(***************************************************************************)
EXTENDS DescriptorTable, Sequences, FiniteSets

CONSTANTS
    N,          \* number of cores; core 0 boots and has the timer
    Sleepers,   \* cores whose programs sleep
    MaxSleep    \* longest sleep, in ticks

ASSUME StartAssumption == /\ N \in Nat \ {0} /\ MaxSleep \in Nat
                         /\ Sleepers \subseteq 1..(N - 1)

Cores == 0..(N - 1)
APs   == 1..(N - 1)
Nobody == N                 \* a number that is no core's, and no record's
Ids    == Cores \cup {Nobody}

VARIABLES
    overlap,    \* may a core come between another's store to a slot and its load?
    boot,       \* next step of bsp_kernel_main; 0 when it has returned early
    reg,        \* services registered with the transport layer
    handlers,   \* interrupt numbers that have a handler
    missed,     \* calls that found no service or no method
    core,       \* each core: see CoreState
    pending,    \* vectors waiting at each local APIC
    slot,       \* kernel.apicManager.returns.core_id
    context,    \* kernel.interruptManager.params.p_interruptContext
    args,       \* whose stack is in kernel.apicManager.params
    touch,      \* touch_flag
    fired,      \* fired_interrupts[WAKEUP_IPI]
    left,       \* wakeup_counter minus the counter of core 0; -1: any less
    wakes       \* wakeup_interrupt is WAKEUP_IPI; before that it is 0

services == <<boot, reg, handlers, missed>>
shared   == <<slot, context, args, touch>>
sleeping == <<fired, left, wakes>>
vars == <<overlap, services, core, pending, shared, sleeping>>

\* The state of core c: the label its program has reached, what it takes for its
\* id in pit_sleep, whose stack it has just moved and onto whose; the label of the interrupt
\* handler running on it, the number of its interrupt, what pit_fire or pit_sleep
\* in the handler take for the id; interrupts enabled, local APIC enabled, descriptor
\* table loaded, an interrupt taken and not ended.
CoreState(c) ==
    [at |-> IF c = 0 THEN "boot" ELSE "off", id |-> c,
     moved |-> Nobody, onto |-> Nobody,
     irq |-> "none", num |-> IRQ0, hid |-> c,
     iflag |-> FALSE, apicOn |-> FALSE, idt |-> FALSE, busy |-> FALSE]

------------------------------------------------------------------------------
(***************************************************************************)
(* Services and calls.                                                     *)
(***************************************************************************)
PhysicalMemoryMethods ==
    {"print_physical_memory", "add_physical_memory_entry", "get_virtual_address",
     "is_usable_address", "is_address", "create_physical_pages_bitmap",
     "initialize_physical_memory_frame", "allocate_physical_frames",
     "deallocate_physical_frame"}
PCIMethods == {"collect_hw", "get_pci_device", "get_pci_device_index",
               "get_pci_device_count", "print_all_pci"}
ConsoleMethods == {"add_string", "add_hexa", "add_hexa128", "switch_terminal",
                   "add_to_terminal", "clear_screen"}
VirtualMemoryMethods ==
    {"linkThirdStageToCollection", "linkThirdStageToCollectionPhysical",
     "linkFourthStageToFrame", "linkFourthStageToFramePhysical"}
APICMethods == {"startup_APIC", "get_current_core_id", "touch_core",
                "move_initial_kernel_stack"}

\* The methods a service has once its initialisation has added them.
Provides(s) ==
    CASE s = "physical_memory_t"  -> PhysicalMemoryMethods
      [] s = "pci_t"              -> PCIMethods
      [] s = "console_t"          -> ConsoleMethods
      [] s = "virtual_memory_t"   -> VirtualMemoryMethods
      [] s = "apic_t"             -> APICMethods
      [] s = "interruptManager_t" -> {"register_interrupt", "service_interrupt"}
      [] s = "ipi_t"              -> {"send_ipi"}
      [] s = "xmlService_t"       -> {"ParseFile", "GetValueFromTag"}
      [] OTHER                    -> {}

\* Mutant: a service is stored over the ones registered before it.
RegisterOverwrites(s) == reg' = IF s = {} THEN reg ELSE s

\* RegisterServiceToKernel for each service of s.
RegisterServiceToKernel(s) == reg' = reg \cup s

\* The calls of cs are dispatched.  The code follows the pointers whatever
\* they are; here a call that finds none is recorded.
DispatchKernel(cs) ==
    missed' = missed \cup {c \in cs : c[1] \notin reg \/ c[2] \notin Provides(c[1])}

\* printk and its variants write to the current terminal or to their own.
Printk == {<<"console_t", "add_string">>, <<"console_t", "add_to_terminal">>}
PM(m)  == <<"physical_memory_t", m>>
GetId  == {<<"apic_t", "get_current_core_id">>, PM("get_virtual_address")}
RegisterInterrupt == {<<"interruptManager_t", "register_interrupt">>} \cup Printk

------------------------------------------------------------------------------
(***************************************************************************)
(* The boot of core 0: a sequence of steps, each with the calls it makes,  *)
(* then the services it registers, the interrupt numbers it gives a        *)
(* handler, and what else it does.                                         *)
(***************************************************************************)
Step(cs, s, h, what) == [calls |-> cs, adds |-> s, handles |-> h, does |-> what]
Calls(cs)     == Step(cs, {}, {}, "nothing")
Adds(s, cs)   == Step(cs, {s}, {}, "nothing")
Handles(n)    == Step(RegisterInterrupt, {}, {n}, "handler")

\* Memory, PCI, page map, console, frames, virtual memory.
BootMemory ==
    << Adds("physical_memory_t", {}),
       Adds("pci_t", {}),
       Calls({PM("is_usable_address")}),
       Adds("console_t", {}),
       Calls({<<"pci_t", "collect_hw">>}),
       Calls({PM("create_physical_pages_bitmap")} \cup Printk),
       Calls({PM("initialize_physical_memory_frame")}),
       Adds("virtual_memory_t", {}) >>

\* The firmware's tables are found, checked and read, or the kernel gives up.
init_acpi == Step({PM("is_address"), PM("add_physical_memory_entry"),
                   PM("get_virtual_address")} \cup Printk, {}, {}, "acpi")

\* ACPI, IPIs, local APICs, segments, interrupts, the stack.
BootProcessors ==
    << init_acpi,
       Adds("ipi_t", {}),
       Step({PM("get_virtual_address")} \cup Printk, {"apic_t"}, {}, "apic"),
       Calls(GetId),
       Calls({<<"pci_t", "print_all_pci">>} \cup Printk),
       Step({}, {"interruptManager_t"}, {}, "idt"),
       Step({<<"apic_t", "move_initial_kernel_stack">>} \cup GetId, {}, {}, "move") >>

\* The disks and the block service: requests are in ATADisk and BlockService.
BootDisks ==
    << Calls(Printk), Handles(46), Handles(47),
       Calls({<<"ipi_t", "send_ipi">>} \cup GetId \cup Printk) >>

enableAPICTimer == Handles(IRQ0)
keyboard_init   == Handles(KEYBOARD)

\* System call, exceptions, timer, the other cores, keyboard, network card.
BootCores ==
    << Handles(SYSCALL), Handles(0), Handles(13),
       enableAPICTimer,
       Step({<<"apic_t", "startup_APIC">>}, {}, {}, "start"),
       Calls(GetId \cup Printk),
       keyboard_init,
       Step({}, {}, {}, "cli"),
       Step({<<"pci_t", "get_pci_device_count">>, <<"pci_t", "get_pci_device_index">>,
             PM("is_address"), PM("add_physical_memory_entry")}
               \cup GetId \cup RegisterInterrupt, {}, {CARD}, "card"),
       Step(Printk, {}, {}, "sti") >>

\* XML and the demonstration service.
BootServices == << Adds("xmlService_t", {}), Adds("ackermannFunctionService_t", Printk) >>

Boot == BootMemory \o BootProcessors \o BootDisks \o BootCores \o BootServices

------------------------------------------------------------------------------
Init ==
    /\ overlap \in BOOLEAN
    /\ boot = 1 /\ reg = {} /\ handlers = {} /\ missed = {}
    /\ core = [c \in Cores |-> CoreState(c)]
    /\ pending = [c \in Cores |-> {}]
    /\ slot = 0 /\ context = IRQ0 /\ args = Nobody
    /\ touch = [c \in Cores |-> c = 0]
    /\ fired = [c \in Cores |-> FALSE]
    /\ left = [c \in Cores |-> 0]
    /\ wakes = [c \in Cores |-> FALSE]

\* The program of core c is at this label, and no handler runs on the core.
At(c, label) == core[c].at = label /\ core[c].irq = "none"

\* The core id that core c, having stored its own, loads from the slot.
LoadedId(c) == IF overlap THEN slot ELSE c

\* The id getCurrentCoreId stores: it reads the register at the address that
\* get_virtual_address leaves in the memory manager's shared results, and while
\* core 0 sets up the network card that may be a register of the card.
StoredId(c) == IF overlap /\ boot \in DOMAIN Boot /\ Boot[boot].does = "card"
               THEN {c, Nobody} ELSE {c}

------------------------------------------------------------------------------
\* Core 0 executes bsp_kernel_main, except startupAPIC.
BootStep ==
    /\ At(0, "boot") /\ boot \in DOMAIN Boot /\ Boot[boot].does # "start"
    /\ LET s == Boot[boot] IN
       /\ DispatchKernel(s.calls)
       /\ RegisterServiceToKernel(s.adds)
       /\ handlers' = handlers \cup s.handles
       /\ \/ boot' = boot + 1
          \/ s.does = "acpi" /\ boot' = 0
       /\ slot' = IF GetId \subseteq s.calls THEN 0 ELSE slot
       /\ core' = [core EXCEPT ![0].apicOn = @ \/ s.does = "apic",
                               ![0].idt    = @ \/ s.does = "idt",
                               ![0].moved  = IF s.does = "move" THEN 0 ELSE @,
                               ![0].onto   = IF s.does = "move" THEN 0 ELSE @,
                               ![0].iflag  = \/ s.does \in {"move", "handler", "card", "sti"}
                                             \/ @ /\ s.does \notin {"idt", "cli"}]
       /\ args' = IF s.does = "move" THEN 0 ELSE args
    /\ UNCHANGED <<overlap, pending, context, touch, sleeping>>

\* Mutant: startup does not wait for the core to touch its flag.
StartsAtOnce(c) == core[c].at # "off"

\* startup returns when the core it started has set its touch_flag.
Started(c) == core[c].at # "off" /\ touch[c]

Starting == At(0, "boot") /\ boot \in DOMAIN Boot /\ Boot[boot].does = "start"

\* startupAPIC: core c is sent INIT and SIPI when those before it are up.
startup(c) ==
    /\ Starting
    /\ core[c].at = "off"
    /\ \A d \in APs : d < c => Started(d)
    /\ core' = [core EXCEPT ![c].at = "up"]
    /\ DispatchKernel(Boot[boot].calls)
    /\ UNCHANGED <<overlap, boot, reg, handlers, pending, shared, sleeping>>

startupReturns ==
    /\ Starting
    /\ \A c \in APs : Started(c)
    /\ boot' = boot + 1
    /\ UNCHANGED <<overlap, reg, handlers, missed, core, pending, shared, sleeping>>

------------------------------------------------------------------------------
\* getCurrentCoreId in the program of core c: the id is stored; at the label
\* `load' it is loaded.
getCurrentCoreId(c, from, load) ==
    /\ At(c, from)
    /\ slot' \in StoredId(c)
    /\ DispatchKernel(GetId)
    /\ core' = [core EXCEPT ![c].at = load]
    /\ UNCHANGED <<overlap, boot, reg, handlers, pending, context, args, touch, sleeping>>

\* ap_kernel_main up to the stack: by the id it loads the core finds its page
\* table, and later its loop, which are not in this module; it leaves its stack
\* in the parameters.
apIdentify(c) ==
    /\ At(c, "up_id")
    /\ core' = [core EXCEPT ![c].at = "move"]
    /\ args' = c
    /\ DispatchKernel({<<"apic_t", "move_initial_kernel_stack">>} \cup Printk)
    /\ UNCHANGED <<overlap, boot, reg, handlers, pending, slot, context, touch, sleeping>>

\* moveInitialKernelStack: the stack of the parameters is copied onto the one of
\* the loaded id, and the core continues there with interrupts enabled.
moveInitialKernelStack(c) ==
    /\ At(c, "move_id")
    /\ core' = [core EXCEPT ![c].moved = args, ![c].onto = LoadedId(c),
                            ![c].iflag = TRUE, ![c].at = "gdt"]
    /\ UNCHANGED <<overlap, services, pending, shared, sleeping>>

\* Mutant: idtInit is forgotten on the other cores.
initTablesNoIdt(c) ==
    /\ At(c, "gdt_id")
    /\ core' = [core EXCEPT ![c].moved = Nobody, ![c].onto = Nobody, ![c].at = "touch"]
    /\ UNCHANGED <<overlap, services, pending, shared, sleeping>>

\* initGlobalDescriptorTable, gdtInit, tssFlush, idtInit.
initTables(c) ==
    /\ At(c, "gdt_id")
    /\ core' = [core EXCEPT ![c].idt = TRUE, ![c].moved = Nobody, ![c].onto = Nobody,
                            ![c].at = "touch"]
    /\ UNCHANGED <<overlap, services, pending, shared, sleeping>>


\* touchCore: if the id is a core's, the local APIC is enabled and its flag set.
touchCore(c) ==
    /\ At(c, "touch_id")
    /\ core' = [core EXCEPT ![c].apicOn = LoadedId(c) \in Cores, ![c].at = "idle"]
    /\ touch' = [i \in Cores |-> touch[i] \/ i = LoadedId(c)]
    /\ UNCHANGED <<overlap, services, pending, slot, context, args, sleeping>>

------------------------------------------------------------------------------
(***************************************************************************)
(* Sleeping.  int 0x80 enters IdtHandler, which serves it like an          *)
(* interrupt; the handler, syscall, and pit_sleep ask for the core's id,   *)
(* and only the last answer matters.  The tick counter slept on is that of *)
(* core 0, the only one that runs.                                         *)
(***************************************************************************)
syscall(c) ==
    /\ c \in Sleepers /\ At(c, "idle") /\ SYSCALL \in handlers
    /\ core' = [core EXCEPT ![c].iflag = FALSE, ![c].irq = "idt_id", ![c].num = SYSCALL]
    /\ slot' \in StoredId(c)
    /\ DispatchKernel(GetId)
    /\ UNCHANGED <<overlap, boot, reg, handlers, pending, context, args, touch, sleeping>>

\* pit_sleep stores when to wake and then by which interrupt ...
pitSleepUntil(c) ==
    /\ At(c, "sys_id") /\ LoadedId(c) \in Cores
    /\ core' = [core EXCEPT ![c].id = LoadedId(c), ![c].at = "arm"]
    /\ \E s \in 0..MaxSleep : left' = [left EXCEPT ![LoadedId(c)] = s]
    /\ UNCHANGED <<overlap, services, pending, shared, fired, wakes>>

pitSleepArm(c) ==
    /\ At(c, "arm")
    /\ wakes' = [wakes EXCEPT ![core[c].id] = TRUE]
    /\ core' = [core EXCEPT ![c].at = "clear"]
    /\ UNCHANGED <<overlap, services, pending, shared, fired, left>>

pitSleepClear(c) ==
    /\ At(c, "clear")
    /\ fired' = [fired EXCEPT ![core[c].id] = FALSE]
    /\ core' = [core EXCEPT ![c].at = "test"]
    /\ UNCHANGED <<overlap, services, pending, shared, left, wakes>>

\* ... and then: while not fired, sti; hlt; cli; end of interrupt.
pitSleepHalt(c) ==
    /\ At(c, "test") /\ ~fired[core[c].id]
    /\ core' = [core EXCEPT ![c].iflag = TRUE, ![c].at = "halt"]
    /\ UNCHANGED <<overlap, services, pending, shared, sleeping>>

pitSleepWoken(c) ==
    /\ At(c, "woken")
    /\ core' = [core EXCEPT ![c].iflag = FALSE, ![c].busy = FALSE, ![c].at = "test"]
    /\ UNCHANGED <<overlap, services, pending, shared, sleeping>>

\* The end of pit_sleep, syscall and IdtHandler.
pitSleepReturns(c) ==
    /\ At(c, "test") /\ fired[core[c].id]
    /\ fired' = [fired EXCEPT ![core[c].id] = FALSE]
    /\ left' = [left EXCEPT ![core[c].id] = -1]
    /\ core' = [core EXCEPT ![c].busy = FALSE, ![c].iflag = TRUE, ![c].id = c,
                            ![c].at = "idle"]
    /\ UNCHANGED <<overlap, services, pending, shared, wakes>>

------------------------------------------------------------------------------
(***************************************************************************)
(* Interrupts.                                                             *)
(***************************************************************************)
RaiseTimer ==
    /\ core[0].apicOn /\ IRQ0 \notin pending[0]
    /\ pending' = [pending EXCEPT ![0] = @ \cup {IRQ0}]
    /\ UNCHANGED <<overlap, services, core, shared, sleeping>>

\* The timer of core 0's local APIC, which enableAPICTimer starts, ticks.
Tick == IRQ0 \in handlers /\ RaiseTimer

\* Line 0 of the I/O APIC has the timer's vector from the start, and may raise
\* it before it has a handler.
LineInterrupt == IRQ0 \notin handlers /\ RaiseTimer

\* The processor enters the stub of the vector, a halted core leaves hlt, and
\* IdtHandler begins: cli, getCurrentCoreId.
Take(c) ==
    /\ core[c].iflag /\ core[c].apicOn /\ core[c].irq = "none" /\ ~core[c].busy
    /\ \E v \in pending[c] :
          /\ pending' = [pending EXCEPT ![c] = @ \ {v}]
          /\ core' = [core EXCEPT ![c].num = IDT[v], ![c].busy = TRUE,
                                  ![c].iflag = FALSE, ![c].irq = "idt_id",
                                  ![c].at = IF @ = "halt" THEN "woken" ELSE @]
    /\ slot' \in StoredId(c)
    /\ DispatchKernel(GetId)
    /\ UNCHANGED <<overlap, boot, reg, handlers, context, args, touch, sleeping>>

\* IdtHandler sets fired_interrupts and passes the interrupt on.
IdtHandler(c) ==
    /\ core[c].irq = "idt_id" /\ LoadedId(c) \in Cores
    /\ core' = [core EXCEPT ![c].irq = "serve"]
    /\ fired' = [fired EXCEPT ![LoadedId(c)] = @ \/ core[c].num = WAKEUP_IPI]
    /\ context' = core[c].num
    /\ DispatchKernel({<<"interruptManager_t", "service_interrupt">>})
    /\ UNCHANGED <<overlap, boot, reg, handlers, pending, slot, args, touch, left, wakes>>

\* The locals of the handler are gone.
NoHandler(s, c) == [s EXCEPT !.irq = "none", !.num = IRQ0, !.hid = c]

\* The number that core c, having stored its context, finds in the shared one.
LoadedNumber(c) == IF overlap THEN context ELSE core[c].num

\* ServiceInterrupt calls the handler of the number, if any, with the context,
\* which it loads again; handlers do nothing when the number in it is another's.
\* A core that made the system call continues in pit_sleep; one that serves the
\* system call of another sleeps in its interrupt handler.  The handlers of the
\* disk, the keyboard and the card are in other modules.
ServiceInterrupt(c) ==
    /\ core[c].irq = "serve"
    /\ LET n == LoadedNumber(c) IN
       /\ DispatchKernel(IF n = SYSCALL THEN Printk ELSE {})
       /\ \/ /\ n \notin handlers \/ n = WAKEUP_IPI \/ overlap
             /\ core' = [core EXCEPT ![c].irq = "eoi", ![c].num = IRQ0]
          \/ /\ n = IRQ0 /\ n \in handlers
             /\ core' = [core EXCEPT ![c].irq = "fire", ![c].num = IRQ0]
          \/ /\ n = SYSCALL /\ n \in handlers /\ core[c].num = SYSCALL
             /\ core' = [core EXCEPT ![c] = [NoHandler(@, c) EXCEPT !.at = "sys"]]
          \/ /\ n = SYSCALL /\ n \in handlers /\ core[c].num # SYSCALL
             /\ core' = [core EXCEPT ![c].irq = "stray", ![c].num = IRQ0]
    /\ UNCHANGED <<overlap, boot, reg, handlers, pending, shared, sleeping>>

\* pit_sleep in an interrupt handler, on the record of the id in the slot: the core
\* halts with interrupts enabled and its own still in service, ...
straySleep(c) ==
    /\ core[c].irq = "stray" /\ slot \in Cores
    /\ core' = [core EXCEPT ![c].hid = slot, ![c].irq = "astray", ![c].iflag = TRUE]
    /\ \E s \in 0..MaxSleep : left' = [left EXCEPT ![slot] = s]
    /\ wakes' = [wakes EXCEPT ![slot] = TRUE]
    /\ fired' = [fired EXCEPT ![slot] = FALSE]
    /\ DispatchKernel(GetId)
    /\ UNCHANGED <<overlap, boot, reg, handlers, pending, shared>>

\* ... until that record is woken, or the core itself is: a wakeup interrupt has
\* priority over the timer's and is handled here in one step.
strayReturns(c) ==
    /\ core[c].irq = "astray"
    /\ fired[core[c].hid] \/ WAKEUP_IPI \in pending[c]
    /\ pending' = [pending EXCEPT ![c] = @ \ {WAKEUP_IPI}]
    /\ fired' = [fired EXCEPT ![core[c].hid] = FALSE]
    /\ left' = [left EXCEPT ![core[c].hid] = -1]
    /\ core' = [core EXCEPT ![c].irq = "eoi", ![c].iflag = FALSE, ![c].hid = c]
    /\ UNCHANGED <<overlap, services, shared, wakes>>

\* pit_fire asks for the core's id again,
pitFireId(c) ==
    /\ core[c].irq = "fire"
    /\ slot' \in StoredId(c)
    /\ DispatchKernel(GetId)
    /\ core' = [core EXCEPT ![c].irq = "fire_id"]
    /\ UNCHANGED <<overlap, boot, reg, handlers, pending, context, args, touch, sleeping>>

\* counts the tick on the core it takes itself for ...
pitFireCount(c) ==
    /\ core[c].irq = "fire_id" /\ LoadedId(c) \in Cores
    /\ core' = [core EXCEPT ![c].hid = LoadedId(c), ![c].irq = "wake"]
    /\ left' = [i \in Cores |-> IF LoadedId(c) = 0 /\ left[i] > -1 THEN left[i] - 1 ELSE left[i]]
    /\ UNCHANGED <<overlap, services, pending, shared, fired, wakes>>

\* A core whose deadline has passed is sent its wakeup interrupt, on this and on
\* every later tick; before its first sleep that is vector 0, which a local APIC
\* does not deliver.
Due(i) == left[i] < 0 /\ wakes[i]

\* ... wakes the cores that wait for core 0's counter, and ends the interrupt.
pitFireWake(c) ==
    /\ core[c].irq = "wake"
    /\ pending' = [i \in Cores |-> IF core[c].hid = 0 /\ i # 0 /\ Due(i)
                                   THEN pending[i] \cup {WAKEUP_IPI} ELSE pending[i]]
    /\ DispatchKernel({<<"ipi_t", "send_ipi">>})
    /\ core' = [core EXCEPT ![c].busy = FALSE, ![c].irq = "eoi", ![c].hid = c]
    /\ UNCHANGED <<overlap, boot, reg, handlers, shared, sleeping>>

\* Mutant: IdtHandler leaves the end of the interrupt to the handler.
IdtHandlerNoEnd(c) ==
    /\ core[c].irq = "eoi"
    /\ core' = [core EXCEPT ![c] = [NoHandler(@, c) EXCEPT !.iflag = TRUE]]
    /\ UNCHANGED <<overlap, services, pending, shared, sleeping>>

\* sendAPICEOI, through any core's record: the register is the own APIC's.  The
\* handler returns with interrupts enabled.
IdtHandlerEnds(c) ==
    /\ core[c].irq = "eoi"
    /\ core' = [core EXCEPT ![c] = [NoHandler(@, c) EXCEPT !.busy = FALSE, !.iflag = TRUE]]
    /\ UNCHANGED <<overlap, services, pending, shared, sleeping>>

\* A core that takes itself for no core uses what is behind the records for its
\* own, addresses of registers included: it is not followed any further.
Lost(c) ==
    /\ LoadedId(c) = Nobody
    /\ core[c].irq \in {"idt_id", "fire_id", "stray"} \/ At(c, "sys_id")
    /\ core' = [core EXCEPT ![c].irq = "lost"]
    /\ UNCHANGED <<overlap, services, pending, shared, sleeping>>

------------------------------------------------------------------------------
\* What the application core c does once started, except to begin a sleep.
Program(c) ==
    \/ getCurrentCoreId(c, "up", "up_id")       \/ apIdentify(c)
    \/ getCurrentCoreId(c, "move", "move_id")   \/ moveInitialKernelStack(c)
    \/ getCurrentCoreId(c, "gdt", "gdt_id")     \/ initTables(c)
    \/ getCurrentCoreId(c, "touch", "touch_id") \/ touchCore(c)
    \/ getCurrentCoreId(c, "sys", "sys_id")     \/ pitSleepUntil(c)
    \/ pitSleepArm(c) \/ pitSleepClear(c)
    \/ pitSleepHalt(c) \/ pitSleepWoken(c) \/ pitSleepReturns(c)

Handler(c) ==
    \/ IdtHandler(c) \/ ServiceInterrupt(c) \/ IdtHandlerEnds(c)
    \/ pitFireId(c) \/ pitFireCount(c) \/ pitFireWake(c)
    \/ straySleep(c) \/ strayReturns(c) \/ Lost(c)

BSP == BootStep \/ (\E c \in APs : startup(c)) \/ startupReturns

Next ==
    \/ BSP \/ Tick \/ LineInterrupt
    \/ \E c \in Cores : Program(c) \/ Handler(c) \/ syscall(c) \/ Take(c)

\* The timer ticks, interrupts are taken and handled, and programs execute, also
\* between interrupts, which are much rarer than instructions (strong fairness).
Fairness ==
    /\ WF_vars(Tick) /\ SF_vars(BSP)
    /\ \A c \in Cores : WF_vars(Take(c) \/ Handler(c))
    /\ \A c \in APs : SF_vars(Program(c))

Spec == Init /\ [][Next]_vars /\ Fairness

------------------------------------------------------------------------------
\* Types: only the timer's vector and the wakeup interrupt are raised, and they
\* and the system call are served.
Raised == {IRQ0, WAKEUP_IPI}
Served == Raised \cup {SYSCALL}
Up == {"idle", "sys", "sys_id", "arm", "clear", "test", "halt", "woken"}
Labels == {"boot", "off", "up", "up_id", "move", "move_id", "gdt", "gdt_id",
           "touch", "touch_id"} \cup Up
CoreStates ==
    [at : Labels,
     id : Cores, moved : Ids, onto : Ids,
     irq : {"none", "idt_id", "serve", "fire", "fire_id", "wake", "stray", "astray",
            "lost", "eoi"},
     num : Served, hid : Cores,
     iflag : BOOLEAN, apicOn : BOOLEAN, idt : BOOLEAN, busy : BOOLEAN]

TypeOK ==
    /\ overlap \in BOOLEAN /\ boot \in 0..(Len(Boot) + 1)
    /\ core \in [Cores -> CoreStates]
    /\ pending \in [Cores -> SUBSET Raised]
    /\ slot \in Ids /\ context \in Served /\ args \in Ids
    /\ touch \in [Cores -> BOOLEAN] /\ fired \in [Cores -> BOOLEAN]
    /\ left \in [Cores -> Int] /\ wakes \in [Cores -> BOOLEAN]

------------------------------------------------------------------------------
(***************************************************************************)
(* Properties.                                                             *)
(***************************************************************************)
\* Every call that the boot, the start of the other cores, sleeping and the
\* interrupt handlers make with DispatchKernel finds its service registered and
\* its method added, which DispatchKernel does not test.
CallsAnswered == missed = {}

\* A core that can be interrupted has its descriptor table, and the services that
\* IdtHandler calls are registered: the order of boot and ap_kernel_main, where
\* moving the stack enables interrupts as a side effect.
ReadyForInterrupts ==
    \A c \in Cores : (core[c].iflag /\ core[c].apicOn) =>
        core[c].idt /\ {"apic_t", "interruptManager_t", "console_t"} \subseteq reg

\* A core that listens for interrupts has none in service, which would block
\* them, even if cores take themselves for others and serve the timer's and the
\* wakeup interrupts of others.  There is one exception: a handler that serves the
\* system call of another core sleeps with its own interrupt in service.
InterruptsEnded ==
    \A c \in Cores : core[c].iflag /\ core[c].busy => core[c].irq = "astray"

\* The stack parameters a starting core passes to moveInitialKernelStack are still
\* its own when they are used, and what it copies its stack onto is never the
\* stack of a core that is yet to start: cores start one at a time.
StackArgumentsKept ==
    \A c \in Cores : /\ core[c].moved \in {c, Nobody}
                     /\ core[c].onto \in (0..c) \cup {Nobody}


\* What makes them inductive.  A core with no handler running, or that of its own
\* system call, has no interrupt in service, and one that runs a handler has
\* interrupts disabled, but for the exception; ...
HandlerInv ==
    \A c \in Cores :
        /\ core[c].irq = "none" \/ core[c].num = SYSCALL => ~core[c].busy
        /\ core[c].irq \notin {"none", "astray", "lost"} => ~core[c].iflag
        /\ core[c].irq = "lost" => ~core[c].iflag \/ ~core[c].busy
        /\ core[c].num = SYSCALL => c \in Sleepers

\* ... an application core that has been started was preceded by those with lower
\* numbers, which have touched their flags, and a core touches its flag last:
\* until then it is the only one to pass its stack, and has the parameters to
\* itself; ...
IdtStep   == 14     \* the place of idtInit in Boot
StartStep == 24     \* the place of startupAPIC in Boot

StartInv ==
    /\ core[0].at = "boot"
    /\ slot \in Cores => core[slot].at # "off"
    /\ boot <= StartStep => slot \in Cores
    /\ boot > StartStep => \A c \in APs : touch[c]
    /\ \A c \in APs :
         /\ core[c].at # "boot"
         /\ core[c].at # "off" => boot >= StartStep
         /\ touch[c] => core[c].at \in Up
         /\ core[c].at \in {"move", "move_id"} => args = c
         /\ \A d \in APs : c < d /\ core[d].at # "off" => touch[c]

\* ... a core loads its descriptor table before it lets interrupts in, core 0
\* after the services that interrupts call are registered ...
ReadyInv ==
    /\ core[0].iflag \/ core[0].irq # "none" => boot > IdtStep
    /\ boot > IdtStep => core[0].idt
    /\ \A c \in APs :
         /\ core[c].at \in {"touch", "touch_id"} \cup Up => core[c].idt
         /\ core[c].apicOn \/ core[c].irq # "none" => core[c].at \in Up

\* ... and the services are registered in this order.
OrderInv ==
    /\ boot > 1  => "physical_memory_t" \in reg
    /\ boot > 2  => "pci_t" \in reg
    /\ boot > 4  => "console_t" \in reg
    /\ boot > 10 => "ipi_t" \in reg
    /\ boot > 11 => "apic_t" \in reg
    /\ boot > IdtStep => "interruptManager_t" \in reg

\* A core that sleeps wakes up, if cores do not overlap: pit_fire repeats the
\* interrupt until the core, awake, has taken it.
SleeperWakes ==
    \A c \in Sleepers : (~overlap /\ core[c].num = SYSCALL) ~> At(c, "idle")
==============================================================================
