-------------------------- MODULE KernelStartProofs --------------------------
(***************************************************************************)
(* Proofs about the start of the kernel and its interrupts, for any number *)
(* of cores.                                                               *)
(***************************************************************************)
EXTENDS KernelStart, TLAPS

(* The two vectors that are raised, the timer's and the wakeup interrupt,  *)
(* have the stub of their own number.                                      *)
LEMMA RaisedEntries == \A v \in Raised : IDT[v] = v
<1> DEFINE f4 == Over(registerSWIRQs, [v \in {255} |-> v])
           f3 == Over(registerAPIRQs, f4)
           f2 == Over(registerIRQs, f3)
<1>1. /\ IRQ0 \in DOMAIN registerIRQs /\ registerIRQs[IRQ0] = IRQ0
      /\ IRQ0 \notin DOMAIN registerExceptions
  BY DEF IRQ0, registerIRQs, registerExceptions
<1>2. /\ WAKEUP_IPI \in DOMAIN registerAPIRQs
      /\ registerAPIRQs[WAKEUP_IPI] = WAKEUP_IPI
      /\ WAKEUP_IPI \notin DOMAIN registerIRQs
      /\ WAKEUP_IPI \notin DOMAIN registerExceptions
  BY DEF WAKEUP_IPI, registerAPIRQs, registerIRQs, registerExceptions
<1>3. IDT = Over(registerExceptions, f2)
  BY DEF IDT
<1> HIDE DEF f4
<1>4. f3[WAKEUP_IPI] = WAKEUP_IPI /\ WAKEUP_IPI \in DOMAIN f3
  BY <1>2 DEF Over
<1> HIDE DEF f3
<1>5. /\ f2[IRQ0] = IRQ0 /\ f2[WAKEUP_IPI] = WAKEUP_IPI
      /\ {IRQ0, WAKEUP_IPI} \subseteq DOMAIN f2
  BY <1>1, <1>2, <1>4 DEF Over
<1> HIDE DEF f2
<1> QED
  BY <1>1, <1>2, <1>3, <1>5 DEF Over, Raised

(* The sequence of bsp_kernel_main: idtInit and startupAPIC happen once,   *)
(* in this order; interrupts are enabled after idtInit, and the stack is   *)
(* moved before the other cores are started.                               *)
LEMMA BootOrder ==
  /\ Len(Boot) = 31 /\ DOMAIN Boot = 1..31
  /\ Boot[IdtStep].does = "idt" /\ Boot[StartStep].does = "start"
  /\ \A b \in 1..31 :
       /\ Boot[b].does = "start" => b = StartStep
       /\ Boot[b].does = "idt" => b = IdtStep
       /\ Boot[b].does = "acpi" => b < IdtStep
       /\ Boot[b].does = "move" => b < StartStep
       /\ Boot[b].does \in {"move", "handler", "card", "sti"} => b > IdtStep
       /\ Boot[b].does = "card" => b > StartStep
<1> USE DEF Boot, BootMemory, BootProcessors, BootDisks, BootCores, BootServices,
            Step, Calls, Adds, Handles, init_acpi, enableAPICTimer, keyboard_init
<1>1. Len(Boot) = 31 /\ DOMAIN Boot = 1..31
  OBVIOUS
<1>2. Boot[IdtStep].does = "idt" /\ Boot[StartStep].does = "start"
  BY DEF IdtStep, StartStep
<1>3. /\ Boot[1].does = "nothing"  /\ Boot[2].does = "nothing"
      /\ Boot[3].does = "nothing"  /\ Boot[4].does = "nothing"
      /\ Boot[5].does = "nothing"  /\ Boot[6].does = "nothing"
      /\ Boot[7].does = "nothing"  /\ Boot[8].does = "nothing"
      /\ Boot[9].does = "acpi"     /\ Boot[10].does = "nothing"
      /\ Boot[11].does = "apic"    /\ Boot[12].does = "nothing"
      /\ Boot[13].does = "nothing" /\ Boot[14].does = "idt"
      /\ Boot[15].does = "move"    /\ Boot[16].does = "nothing"
      /\ Boot[17].does = "handler" /\ Boot[18].does = "handler"
      /\ Boot[19].does = "nothing" /\ Boot[20].does = "handler"
      /\ Boot[21].does = "handler" /\ Boot[22].does = "handler"
      /\ Boot[23].does = "handler" /\ Boot[24].does = "start"
      /\ Boot[25].does = "nothing" /\ Boot[26].does = "handler"
      /\ Boot[27].does = "cli"     /\ Boot[28].does = "card"
      /\ Boot[29].does = "sti"     /\ Boot[30].does = "nothing"
      /\ Boot[31].does = "nothing"
  OBVIOUS
<1> HIDE DEF Boot
<1>4. ASSUME NEW b \in 1..31
      PROVE  \/ b < 9 /\ Boot[b].does = "nothing"
             \/ b \in 9..14 /\ b # 9 /\ b # 14
                  /\ Boot[b].does \in {"nothing", "apic"}
             \/ b = 9 /\ Boot[b].does = "acpi"
             \/ b = 14 /\ Boot[b].does = "idt"
             \/ b = 15 /\ Boot[b].does = "move"
             \/ b = 24 /\ Boot[b].does = "start"
             \/ b = 28 /\ Boot[b].does = "card"
             \/ b > 15 /\ b # 24 /\ b # 28
                  /\ Boot[b].does \in {"nothing", "handler", "cli", "sti"}
  BY <1>3
<1> QED
  BY <1>1, <1>2, <1>4 DEF IdtStep, StartStep

-----------------------------------------------------------------------------
(* The calls of the services.                                              *)

(* A call that finds its method, and whose service is registered before    *)
(* step b of the boot.                                                     *)
Callable(c, b) ==
  /\ c[2] \in Provides(c[1])
  /\ \/ c[1] = "physical_memory_t" /\ b > 1
     \/ c[1] = "pci_t" /\ b > 2
     \/ c[1] = "console_t" /\ b > 4
     \/ c[1] = "ipi_t" /\ b > 10
     \/ c[1] = "apic_t" /\ b > 11
     \/ c[1] = "interruptManager_t" /\ b > IdtStep

(* The methods that boot, cores and handlers call are those the services   *)
(* have added.                                                             *)
LEMMA Methods ==
  /\ Provides("physical_memory_t") = PhysicalMemoryMethods
  /\ Provides("pci_t") = PCIMethods
  /\ Provides("console_t") = ConsoleMethods
  /\ Provides("apic_t") = APICMethods
  /\ Provides("interruptManager_t") = {"register_interrupt", "service_interrupt"}
  /\ Provides("ipi_t") = {"send_ipi"}
  BY DEF Provides

(* The calls of printk, getCurrentCoreId and RegisterInterrupt find their  *)
(* services once these are registered.                                     *)
LEMMA CommonCalls ==
  ASSUME NEW b \in Nat
  PROVE  /\ b > 1 => \A m \in PhysicalMemoryMethods : Callable(PM(m), b)
         /\ b > 4 => \A c \in Printk : Callable(c, b)
         /\ b > 11 => \A c \in GetId : Callable(c, b)
         /\ b > 14 => \A c \in RegisterInterrupt : Callable(c, b)
<1>1. b > 1 => \A m \in PhysicalMemoryMethods : Callable(PM(m), b)
  BY Methods DEF Callable, PM
<1>2. b > 4 => \A c \in Printk : Callable(c, b)
  BY Methods DEF Callable, Printk, ConsoleMethods
<1>3. "get_virtual_address" \in PhysicalMemoryMethods
  BY DEF PhysicalMemoryMethods
<1>4. b > 11 => \A c \in GetId : Callable(c, b)
  <2>1. b > 11 => Callable(<<"apic_t", "get_current_core_id">>, b)
    BY Methods DEF Callable, APICMethods
  <2> QED
    BY <1>1, <1>3, <2>1 DEF GetId
<1>5. b > 14 => \A c \in RegisterInterrupt : Callable(c, b)
  <2>1. b > 14 => Callable(<<"interruptManager_t", "register_interrupt">>, b)
    BY Methods DEF Callable, IdtStep
  <2> QED
    BY <1>2, <2>1 DEF RegisterInterrupt
<1> QED
  BY <1>1, <1>2, <1>4, <1>5

(* Every call of bsp_kernel_main comes after the registration of its       *)
(* service.                                                                *)
LEMMA BootCalls == \A b \in 1..31 : \A c \in Boot[b].calls : Callable(c, b)
<1>1. /\ Boot[1].calls = {} /\ Boot[2].calls = {}
      /\ Boot[3].calls = {PM("is_usable_address")} /\ Boot[4].calls = {}
      /\ Boot[5].calls = {<<"pci_t", "collect_hw">>}
      /\ Boot[6].calls = {PM("create_physical_pages_bitmap")} \cup Printk
      /\ Boot[7].calls = {PM("initialize_physical_memory_frame")}
      /\ Boot[8].calls = {}
      /\ Boot[9].calls = {PM("is_address"), PM("add_physical_memory_entry"),
                          PM("get_virtual_address")} \cup Printk
      /\ Boot[10].calls = {}
      /\ Boot[11].calls = {PM("get_virtual_address")} \cup Printk
      /\ Boot[12].calls = GetId
      /\ Boot[13].calls = {<<"pci_t", "print_all_pci">>} \cup Printk
      /\ Boot[14].calls = {}
      /\ Boot[15].calls = {<<"apic_t", "move_initial_kernel_stack">>} \cup GetId
  BY DEF Boot, BootMemory, BootProcessors, BootDisks, BootCores, BootServices,
         Step, Calls, Adds, Handles, init_acpi, enableAPICTimer, keyboard_init
<1>2. /\ Boot[16].calls = Printk /\ Boot[17].calls = RegisterInterrupt
      /\ Boot[18].calls = RegisterInterrupt
      /\ Boot[19].calls = {<<"ipi_t", "send_ipi">>} \cup GetId \cup Printk
      /\ Boot[20].calls = RegisterInterrupt /\ Boot[21].calls = RegisterInterrupt
      /\ Boot[22].calls = RegisterInterrupt /\ Boot[23].calls = RegisterInterrupt
      /\ Boot[24].calls = {<<"apic_t", "startup_APIC">>}
      /\ Boot[25].calls = GetId \cup Printk
      /\ Boot[26].calls = RegisterInterrupt /\ Boot[27].calls = {}
      /\ Boot[28].calls = {<<"pci_t", "get_pci_device_count">>,
                           <<"pci_t", "get_pci_device_index">>,
                           PM("is_address"), PM("add_physical_memory_entry")}
                             \cup GetId \cup RegisterInterrupt
      /\ Boot[29].calls = Printk /\ Boot[30].calls = {}
      /\ Boot[31].calls = Printk
  BY DEF Boot, BootMemory, BootProcessors, BootDisks, BootCores, BootServices,
         Step, Calls, Adds, Handles, init_acpi, enableAPICTimer, keyboard_init
<1>3. {"is_usable_address", "create_physical_pages_bitmap", "is_address",
       "initialize_physical_memory_frame", "add_physical_memory_entry",
       "get_virtual_address"} \subseteq PhysicalMemoryMethods
  BY DEF PhysicalMemoryMethods
<1>4. /\ \A m \in PCIMethods : \A b \in 3..31 : Callable(<<"pci_t", m>>, b)
      /\ \A m \in APICMethods : \A b \in 12..31 : Callable(<<"apic_t", m>>, b)
      /\ \A b \in 11..31 : Callable(<<"ipi_t", "send_ipi">>, b)
  BY Methods DEF Callable
<1>5. /\ {"collect_hw", "print_all_pci", "get_pci_device_count",
          "get_pci_device_index"} \subseteq PCIMethods
      /\ {"move_initial_kernel_stack", "startup_APIC"} \subseteq APICMethods
  BY DEF PCIMethods, APICMethods
<1>6. ASSUME NEW b \in 1..31 PROVE \A c \in Boot[b].calls : Callable(c, b)
  <2>1. CASE b \in 1..15
    BY <1>1, <1>3, <1>4, <1>5, <2>1, CommonCalls
  <2>2. CASE b \in 16..31
    BY <1>2, <1>3, <1>4, <1>5, <2>2, CommonCalls
  <2> QED
    BY <2>1, <2>2
<1> QED
  BY <1>6

-----------------------------------------------------------------------------
(* Types.  A core that goes on takes itself for a core, if not always for  *)
(* itself, and serves one of the two interrupts that are raised or the     *)
(* system call, if not always its own.                                     *)
THEOREM TypeCorrect == Spec => []TypeOK
<1>0. /\ 0 \in Cores /\ APs \subseteq Cores /\ Sleepers \subseteq APs
      /\ Raised = {IRQ0, WAKEUP_IPI} /\ Nobody \notin Cores
      /\ Ids = Cores \cup {Nobody} /\ Served = {IRQ0, WAKEUP_IPI, SYSCALL}
  BY StartAssumption DEF Cores, APs, Raised, Nobody, Ids, Served
<1>1. Init => TypeOK
  <2> SUFFICES ASSUME Init PROVE TypeOK
    OBVIOUS
  <2>1. \A c \in Cores : CoreState(c) \in CoreStates
    BY <1>0 DEF CoreState, CoreStates, Labels
  <2>2. /\ overlap \in BOOLEAN /\ touch \in [Cores -> BOOLEAN]
        /\ fired \in [Cores -> BOOLEAN] /\ wakes \in [Cores -> BOOLEAN]
    BY Zenon DEF Init
  <2>3. boot \in 0..(Len(Boot) + 1)
    BY BootOrder DEF Init
  <2> QED
    BY <1>0, <2>1, <2>2, <2>3 DEF Init, TypeOK
<1>2. TypeOK /\ [Next]_vars => TypeOK'
  <2> SUFFICES ASSUME TypeOK, [Next]_vars PROVE TypeOK'
    OBVIOUS
  <2>a. \A c \in Cores : LoadedId(c) \in Ids /\ StoredId(c) \subseteq Ids
    BY <1>0 DEF LoadedId, StoredId, TypeOK
  <2>b. \A c \in Cores : core[c] \in CoreStates
    BY DEF TypeOK
  <2>c. ASSUME NEW c \in Cores, NEW s \in CoreStates, core' = [core EXCEPT ![c] = s]
        PROVE  core' \in [Cores -> CoreStates]
    BY <2>c DEF TypeOK
  <2>e. "test" \in Labels /\ "sys" \in Labels
    BY DEF Labels, Up
  <2> USE <1>0 DEF services, shared, sleeping
  <2>1. CASE BootStep
    <3> DEFINE w == Boot[boot].does
               on == core[0].apicOn \/ w = "apic"
               loaded == core[0].idt \/ w = "idt"
               stack == IF w = "move" THEN 0 ELSE core[0].moved
               place == IF w = "move" THEN 0 ELSE core[0].onto
               flag == \/ w \in {"move", "handler", "card", "sti"}
                       \/ core[0].iflag /\ w \notin {"idt", "cli"}
               s == [core[0] EXCEPT !.apicOn = on, !.idt = loaded,
                                    !.moved = stack, !.onto = place,
                                    !.iflag = flag]
    <3>0. core[0] \in CoreStates
      BY <2>b
    <3>a. on \in BOOLEAN /\ loaded \in BOOLEAN /\ flag \in BOOLEAN
      BY Zenon
    <3>b. stack \in Ids /\ place \in Ids
      BY <3>0 DEF CoreStates, Labels
    <3>c. core' = [core EXCEPT ![0].apicOn = on, ![0].idt = loaded,
                               ![0].moved = stack, ![0].onto = place,
                               ![0].iflag = flag]
      BY <2>1 DEF BootStep
    <3> HIDE DEF on, loaded, stack, place, flag
    <3>1. s \in CoreStates
      <4> DEFINE t == [core[0] EXCEPT !.apicOn = on, !.idt = loaded]
      <4>1. t \in CoreStates
        BY <3>0, <3>a DEF CoreStates
      <4>2. s = [t EXCEPT !.moved = stack, !.onto = place, !.iflag = flag]
        BY <3>0 DEF CoreStates
      <4> HIDE DEF t, s
      <4>3. [t EXCEPT !.moved = stack, !.onto = place, !.iflag = flag]
              \in CoreStates
        BY <3>a, <3>b, <4>1 DEF CoreStates
      <4> QED
        BY <4>2, <4>3
    <3>2. core' = [core EXCEPT ![0] = s]
      BY <3>c
    <3> HIDE DEF s
    <3>3. core' \in [Cores -> CoreStates]
      BY <3>1, <3>2, <2>c
    <3>4. boot' \in 0..(Len(Boot) + 1)
      BY <2>1, BootOrder DEF BootStep, TypeOK
    <3> QED
      BY <2>1, <3>3, <3>4 DEF BootStep, TypeOK
  <2>2. ASSUME NEW c \in APs, startup(c) PROVE TypeOK'
    <3> DEFINE s == [core[c] EXCEPT !.at = "up"]
    <3>0. core[c] \in CoreStates
      BY <2>b
    <3>1. s \in CoreStates
      BY <3>0 DEF CoreStates, Labels
    <3>2. core' = [core EXCEPT ![c] = s]
      BY <2>2 DEF startup
    <3> HIDE DEF s
    <3>3. core' \in [Cores -> CoreStates]
      BY <3>1, <3>2, <2>c
    <3> QED
      BY <2>2, <3>3 DEF startup, TypeOK
  <2>3. CASE startupReturns
    BY <2>3, BootOrder DEF startupReturns, Starting, TypeOK
  <2>4. CASE Tick \/ LineInterrupt
    <3>1. RaiseTimer
      BY <2>4 DEF Tick, LineInterrupt
    <3>2. pending' \in [Cores -> SUBSET Raised]
      BY <3>1 DEF RaiseTimer, TypeOK
    <3> QED
      BY <3>1, <3>2 DEF RaiseTimer, TypeOK
  <2>5. ASSUME NEW c \in Cores,
               NEW from, NEW load \in {"up_id", "move_id", "gdt_id", "touch_id",
                                       "sys_id"},
               getCurrentCoreId(c, from, load)
        PROVE  TypeOK'
    <3> DEFINE s == [core[c] EXCEPT !.at = load]
    <3>0. core[c] \in CoreStates
      BY <2>b
    <3>1. s \in CoreStates
      BY <3>0 DEF CoreStates, Labels, Up
    <3>2. core' = [core EXCEPT ![c] = s]
      BY <2>5 DEF getCurrentCoreId
    <3> HIDE DEF s
    <3>3. core' \in [Cores -> CoreStates]
      BY <3>1, <3>2, <2>c
    <3> QED
      BY <2>a, <2>5, <3>3 DEF getCurrentCoreId, TypeOK
  <2>6. ASSUME NEW c \in Cores, apIdentify(c) PROVE TypeOK'
    <3> DEFINE s == [core[c] EXCEPT !.at = "move"]
    <3>0. core[c] \in CoreStates
      BY <2>b
    <3>1. s \in CoreStates
      BY <3>0 DEF CoreStates, Labels
    <3>2. core' = [core EXCEPT ![c] = s]
      BY <2>6 DEF apIdentify
    <3> HIDE DEF s
    <3>3. core' \in [Cores -> CoreStates]
      BY <3>1, <3>2, <2>c
    <3> QED
      BY <2>6, <3>3 DEF apIdentify, TypeOK
  <2>7. ASSUME NEW c \in Cores, moveInitialKernelStack(c) PROVE TypeOK'
    <3> DEFINE s == [core[c] EXCEPT !.moved = args, !.onto = LoadedId(c),
                                    !.iflag = TRUE, !.at = "gdt"]
    <3>0. core[c] \in CoreStates /\ args \in Ids /\ LoadedId(c) \in Ids
      BY <2>a, <2>b DEF TypeOK
    <3>1. s \in CoreStates
      BY <3>0 DEF CoreStates, Labels
    <3>2. core' = [core EXCEPT ![c] = s]
      BY <2>7 DEF moveInitialKernelStack
    <3> HIDE DEF s
    <3>3. core' \in [Cores -> CoreStates]
      BY <3>1, <3>2, <2>c
    <3> QED
      BY <2>7, <3>3 DEF moveInitialKernelStack, TypeOK
  <2>8. ASSUME NEW c \in Cores, initTables(c) PROVE TypeOK'
    <3> DEFINE s == [core[c] EXCEPT !.idt = TRUE, !.moved = Nobody,
                                    !.onto = Nobody, !.at = "touch"]
    <3>0. core[c] \in CoreStates
      BY <2>b
    <3>1. s \in CoreStates
      BY <3>0 DEF CoreStates, Labels
    <3>2. core' = [core EXCEPT ![c] = s]
      BY <2>8 DEF initTables
    <3> HIDE DEF s
    <3>3. core' \in [Cores -> CoreStates]
      BY <3>1, <3>2, <2>c
    <3> QED
      BY <2>8, <3>3 DEF initTables, TypeOK
  <2>9. ASSUME NEW c \in Cores, touchCore(c) PROVE TypeOK'
    <3> DEFINE on == LoadedId(c) \in Cores
               s == [core[c] EXCEPT !.apicOn = on, !.at = "idle"]
    <3>0. core[c] \in CoreStates /\ on \in BOOLEAN
      BY <2>b
    <3>1. s \in CoreStates
      BY <3>0 DEF CoreStates, Labels, Up
    <3>2. core' = [core EXCEPT ![c] = s]
      BY <2>9 DEF touchCore
    <3> HIDE DEF s, on
    <3>3. core' \in [Cores -> CoreStates]
      BY <3>1, <3>2, <2>c
    <3>4. touch' \in [Cores -> BOOLEAN]
      BY <2>9, Zenon DEF touchCore
    <3> QED
      BY <2>9, <3>3, <3>4 DEF touchCore, TypeOK
  <2>10. ASSUME NEW c \in Cores, pitSleepUntil(c) PROVE TypeOK'
    <3> DEFINE s == [core[c] EXCEPT !.id = LoadedId(c), !.at = "arm"]
    <3>0. core[c] \in CoreStates /\ LoadedId(c) \in Cores
      BY <2>b, <2>10 DEF pitSleepUntil
    <3>1. s \in CoreStates
      BY <3>0 DEF CoreStates, Labels, Up
    <3>2. core' = [core EXCEPT ![c] = s]
      BY <2>10 DEF pitSleepUntil
    <3> HIDE DEF s
    <3>3. core' \in [Cores -> CoreStates]
      BY <3>1, <3>2, <2>c
    <3>4. left' \in [Cores -> Int]
      BY <2>10, StartAssumption DEF pitSleepUntil, TypeOK
    <3> QED
      BY <2>10, <3>3, <3>4 DEF pitSleepUntil, TypeOK
  <2>11. ASSUME NEW c \in Cores, pitSleepArm(c) PROVE TypeOK'
    <3> DEFINE s == [core[c] EXCEPT !.at = "clear"]
    <3>0. core[c] \in CoreStates
      BY <2>b
    <3>1. s \in CoreStates
      BY <3>0 DEF CoreStates, Labels, Up
    <3>2. core' = [core EXCEPT ![c] = s]
      BY <2>11 DEF pitSleepArm
    <3> HIDE DEF s
    <3>3. core' \in [Cores -> CoreStates]
      BY <3>1, <3>2, <2>c
    <3>4. wakes' \in [Cores -> BOOLEAN]
      BY <2>11 DEF pitSleepArm, TypeOK
    <3> QED
      BY <2>11, <3>3, <3>4 DEF pitSleepArm, TypeOK
  <2>12. ASSUME NEW c \in Cores, pitSleepClear(c) PROVE TypeOK'
    <3> DEFINE s == [core[c] EXCEPT !.at = "test"]
    <3>0. core[c] \in CoreStates
      BY <2>b
    <3>1. s \in CoreStates
      BY <3>0 DEF CoreStates, Labels, Up
    <3>2. core' = [core EXCEPT ![c] = s]
      BY <2>12 DEF pitSleepClear
    <3> HIDE DEF s
    <3>3. core' \in [Cores -> CoreStates]
      BY <3>1, <3>2, <2>c
    <3>4. fired' \in [Cores -> BOOLEAN]
      BY <2>12 DEF pitSleepClear, TypeOK
    <3> QED
      BY <2>12, <3>3, <3>4 DEF pitSleepClear, TypeOK
  <2>13. ASSUME NEW c \in Cores, pitSleepHalt(c) PROVE TypeOK'
    <3> DEFINE s == [core[c] EXCEPT !.iflag = TRUE, !.at = "halt"]
    <3>0. core[c] \in CoreStates
      BY <2>b
    <3>1. s \in CoreStates
      BY <3>0 DEF CoreStates, Labels, Up
    <3>2. core' = [core EXCEPT ![c] = s]
      BY <2>13 DEF pitSleepHalt
    <3> HIDE DEF s
    <3>3. core' \in [Cores -> CoreStates]
      BY <3>1, <3>2, <2>c
    <3> QED
      BY <2>13, <3>3 DEF pitSleepHalt, TypeOK
  <2>14. ASSUME NEW c \in Cores, pitSleepWoken(c) PROVE TypeOK'
    <3> DEFINE s == [core[c] EXCEPT !.iflag = FALSE,
                         !.busy = FALSE,
                         !.at = "test"]
    <3>0. core[c] \in CoreStates
      BY <2>b
    <3>1. s \in CoreStates
      BY <2>e, <3>0 DEF CoreStates
    <3>2. core' = [core EXCEPT ![c] = s]
      BY <2>14 DEF pitSleepWoken
    <3> HIDE DEF s
    <3>3. core' \in [Cores -> CoreStates]
      BY <3>1, <3>2, <2>c
    <3> QED
      BY <2>14, <3>3 DEF pitSleepWoken, TypeOK
  <2>15. ASSUME NEW c \in Cores, pitSleepReturns(c) PROVE TypeOK'
    <3> DEFINE s == [core[c] EXCEPT !.busy = FALSE,
                         !.iflag = TRUE,
                         !.id = c,
                         !.at = "idle"]
    <3>0. core[c] \in CoreStates
      BY <2>b
    <3>1. s \in CoreStates
      BY <3>0 DEF CoreStates, Labels, Up
    <3>2. core' = [core EXCEPT ![c] = s]
      BY <2>15 DEF pitSleepReturns
    <3> HIDE DEF s
    <3>3. core' \in [Cores -> CoreStates]
      BY <3>1, <3>2, <2>c
    <3>4. fired' \in [Cores -> BOOLEAN]
      BY <2>15 DEF pitSleepReturns, TypeOK
    <3>5. left' \in [Cores -> Int]
      <4>1. left \in [Cores -> Int] /\ -1 \in Int
        BY DEF TypeOK
      <4>2. left' = [left EXCEPT ![core[c].id] = -1]
        BY <2>15 DEF pitSleepReturns
      <4> QED
        BY <4>1, <4>2
    <3> QED
      BY <2>15, <3>3, <3>4, <3>5 DEF pitSleepReturns, TypeOK
  <2>16. ASSUME NEW c \in Cores, syscall(c) PROVE TypeOK'
    <3> DEFINE s == [core[c] EXCEPT !.iflag = FALSE, !.irq = "idt_id",
                                    !.num = SYSCALL]
    <3>0. core[c] \in CoreStates
      BY <2>b
    <3>1. s \in CoreStates
      BY <3>0 DEF CoreStates
    <3>2. core' = [core EXCEPT ![c] = s]
      BY <2>16 DEF syscall
    <3> HIDE DEF s
    <3>3. core' \in [Cores -> CoreStates]
      BY <3>1, <3>2, <2>c
    <3> QED
      BY <2>a, <2>16, <3>3 DEF syscall, TypeOK
  <2>17. ASSUME NEW c \in Cores, Take(c) PROVE TypeOK'
    <3>b. PICK v \in pending[c] :
            /\ pending' = [pending EXCEPT ![c] = @ \ {v}]
            /\ core' = [core EXCEPT ![c].num = IDT[v],
                                    ![c].busy = TRUE, ![c].iflag = FALSE,
                                    ![c].irq = "idt_id",
                                    ![c].at = IF @ = "halt" THEN "woken" ELSE @]
      BY <2>17, Zenon DEF Take
    <3>a. v \in Raised /\ IDT[v] = v
      BY RaisedEntries DEF TypeOK
    <3> DEFINE l == IF core[c].at = "halt" THEN "woken" ELSE core[c].at
               s == [core[c] EXCEPT !.num = v, !.busy = TRUE,
                                    !.iflag = FALSE, !.irq = "idt_id", !.at = l]
    <3>0. core[c] \in CoreStates /\ v \in Served
      BY <2>b, <3>a
    <3>2. core' = [core EXCEPT ![c] = s]
      <4>1. IDT[v] = v
        BY <3>a
      <4> QED
        BY <3>b, <4>1, Zenon
    <3>c. l \in Labels
      BY <3>0 DEF CoreStates, Labels, Up
    <3> HIDE DEF l
    <3>1. s \in CoreStates
      BY <3>0, <3>c DEF CoreStates
    <3> HIDE DEF s
    <3>3. core' \in [Cores -> CoreStates]
      BY <3>1, <3>2, <2>c
    <3> QED
      BY <2>a, <2>17, <3>b, <3>3 DEF Take, TypeOK
  <2>18. ASSUME NEW c \in Cores, IdtHandler(c) PROVE TypeOK'
    <3> DEFINE s == [core[c] EXCEPT !.irq = "serve"]
    <3>0. core[c] \in CoreStates /\ LoadedId(c) \in Cores
      BY <2>b, <2>18 DEF IdtHandler
    <3>1. s \in CoreStates
      BY <3>0 DEF CoreStates
    <3>2. core' = [core EXCEPT ![c] = s]
      BY <2>18 DEF IdtHandler
    <3> HIDE DEF s
    <3>3. core' \in [Cores -> CoreStates]
      BY <3>1, <3>2, <2>c
    <3>4. fired' \in [Cores -> BOOLEAN]
      BY <3>0, <2>18 DEF IdtHandler, TypeOK
    <3>5. context' \in Served
      BY <2>b, <2>18 DEF IdtHandler, CoreStates
    <3> QED
      BY <2>18, <3>3, <3>4, <3>5 DEF IdtHandler, TypeOK
  <2>19. ASSUME NEW c \in Cores, ServiceInterrupt(c) PROVE TypeOK'
    <3>0. core[c] \in CoreStates
      BY <2>b
    <3>1. ASSUME NEW l \in {"eoi", "fire", "stray"},
                 core' = [core EXCEPT ![c].irq = l, ![c].num = IRQ0]
          PROVE  core' \in [Cores -> CoreStates]
      <4> DEFINE s == [core[c] EXCEPT !.irq = l, !.num = IRQ0]
      <4>1. s \in CoreStates
        BY <3>0 DEF CoreStates
      <4>2. core' = [core EXCEPT ![c] = s]
        BY <3>1
      <4> HIDE DEF s
      <4> QED
        BY <4>1, <4>2, <2>c
    <3>2. ASSUME core' = [core EXCEPT ![c] = [NoHandler(@, c) EXCEPT !.at = "sys"]]
          PROVE  core' \in [Cores -> CoreStates]
      <4> DEFINE s == [NoHandler(core[c], c) EXCEPT !.at = "sys"]
      <4>1. s \in CoreStates
        <5>1. NoHandler(core[c], c) \in CoreStates
          BY <3>0 DEF CoreStates, NoHandler
        <5> QED
          BY <2>e, <5>1 DEF CoreStates
      <4>2. core' = [core EXCEPT ![c] = s]
        BY <3>2
      <4> HIDE DEF s
      <4> QED
        BY <4>1, <4>2, <2>c
    <3>3. core' \in [Cores -> CoreStates]
      BY <2>19, <3>1, <3>2 DEF ServiceInterrupt
    <3> QED
      BY <2>19, <3>3 DEF ServiceInterrupt, TypeOK
  <2>20. ASSUME NEW c \in Cores, pitFireId(c) PROVE TypeOK'
    <3> DEFINE s == [core[c] EXCEPT !.irq = "fire_id"]
    <3>0. core[c] \in CoreStates
      BY <2>b
    <3>1. s \in CoreStates
      BY <3>0 DEF CoreStates, Labels
    <3>2. core' = [core EXCEPT ![c] = s]
      BY <2>20 DEF pitFireId
    <3> HIDE DEF s
    <3>3. core' \in [Cores -> CoreStates]
      BY <3>1, <3>2, <2>c
    <3> QED
      BY <2>a, <2>20, <3>3 DEF pitFireId, TypeOK
  <2>21. ASSUME NEW c \in Cores, pitFireCount(c) PROVE TypeOK'
    <3> DEFINE s == [core[c] EXCEPT !.hid = LoadedId(c), !.irq = "wake"]
    <3>0. core[c] \in CoreStates /\ LoadedId(c) \in Cores
      BY <2>b, <2>21 DEF pitFireCount
    <3>1. s \in CoreStates
      BY <3>0 DEF CoreStates, Labels
    <3>2. core' = [core EXCEPT ![c] = s]
      BY <2>21 DEF pitFireCount
    <3> HIDE DEF s
    <3>3. core' \in [Cores -> CoreStates]
      BY <3>1, <3>2, <2>c
    <3>4. left' \in [Cores -> Int]
      BY <2>21 DEF pitFireCount, TypeOK
    <3> QED
      BY <2>21, <3>3, <3>4 DEF pitFireCount, TypeOK
  <2>22. ASSUME NEW c \in Cores, pitFireWake(c) PROVE TypeOK'
    <3> DEFINE s == [core[c] EXCEPT !.busy = FALSE, !.irq = "eoi", !.hid = c]
    <3>0. core[c] \in CoreStates
      BY <2>b
    <3>1. s \in CoreStates
      BY <3>0 DEF CoreStates, Labels
    <3>2. core' = [core EXCEPT ![c] = s]
      BY <2>22 DEF pitFireWake
    <3> HIDE DEF s
    <3>3. core' \in [Cores -> CoreStates]
      BY <3>1, <3>2, <2>c
    <3>4. pending' \in [Cores -> SUBSET Raised]
      BY <2>22 DEF pitFireWake, TypeOK
    <3> QED
      BY <2>22, <3>3, <3>4 DEF pitFireWake, TypeOK
  <2>23. ASSUME NEW c \in Cores, IdtHandlerEnds(c) PROVE TypeOK'
    <3> DEFINE s == [NoHandler(core[c], c) EXCEPT !.busy = FALSE, !.iflag = TRUE]
    <3>0. core[c] \in CoreStates
      BY <2>b
    <3>1. s \in CoreStates
      BY <3>0 DEF CoreStates, NoHandler
    <3>2. core' = [core EXCEPT ![c] = s]
      BY <2>23 DEF IdtHandlerEnds
    <3> HIDE DEF s
    <3>3. core' \in [Cores -> CoreStates]
      BY <3>1, <3>2, <2>c
    <3> QED
      BY <2>23, <3>3 DEF IdtHandlerEnds, TypeOK
  <2>24. ASSUME NEW c \in Cores, straySleep(c) PROVE TypeOK'
    <3> DEFINE s == [core[c] EXCEPT !.hid = slot, !.irq = "astray", !.iflag = TRUE]
    <3>0. core[c] \in CoreStates /\ slot \in Cores
      BY <2>b, <2>24 DEF straySleep
    <3>1. s \in CoreStates
      BY <3>0 DEF CoreStates
    <3>2. core' = [core EXCEPT ![c] = s]
      BY <2>24 DEF straySleep
    <3> HIDE DEF s
    <3>3. core' \in [Cores -> CoreStates]
      BY <3>1, <3>2, <2>c
    <3>4. fired' \in [Cores -> BOOLEAN] /\ wakes' \in [Cores -> BOOLEAN]
      BY <3>0, <2>24 DEF straySleep, TypeOK
    <3>5. left' \in [Cores -> Int]
      BY <3>0, <2>24, StartAssumption DEF straySleep, TypeOK
    <3> QED
      BY <2>24, <3>3, <3>4, <3>5 DEF straySleep, TypeOK
  <2>25. ASSUME NEW c \in Cores, strayReturns(c) PROVE TypeOK'
    <3> DEFINE s == [core[c] EXCEPT !.irq = "eoi", !.iflag = FALSE, !.hid = c]
    <3>0. core[c] \in CoreStates
      BY <2>b
    <3>1. s \in CoreStates
      BY <3>0 DEF CoreStates
    <3>2. core' = [core EXCEPT ![c] = s]
      BY <2>25 DEF strayReturns
    <3> HIDE DEF s
    <3>3. core' \in [Cores -> CoreStates]
      BY <3>1, <3>2, <2>c
    <3>4. fired' \in [Cores -> BOOLEAN] /\ pending' \in [Cores -> SUBSET Raised]
      BY <2>25 DEF strayReturns, TypeOK
    <3>5. left' \in [Cores -> Int]
      <4>1. left \in [Cores -> Int] /\ -1 \in Int
        BY DEF TypeOK
      <4>2. left' = [left EXCEPT ![core[c].hid] = -1]
        BY <2>25 DEF strayReturns
      <4> QED
        BY <4>1, <4>2
    <3> QED
      BY <2>25, <3>3, <3>4, <3>5 DEF strayReturns, TypeOK
  <2>26. ASSUME NEW c \in Cores, Lost(c) PROVE TypeOK'
    <3> DEFINE s == [core[c] EXCEPT !.irq = "lost"]
    <3>0. core[c] \in CoreStates
      BY <2>b
    <3>1. s \in CoreStates
      BY <3>0 DEF CoreStates
    <3>2. core' = [core EXCEPT ![c] = s]
      BY <2>26 DEF Lost
    <3> HIDE DEF s
    <3>3. core' \in [Cores -> CoreStates]
      BY <3>1, <3>2, <2>c
    <3> QED
      BY <2>26, <3>3 DEF Lost, TypeOK
  <2>27. CASE UNCHANGED vars
    BY <2>27 DEF vars, TypeOK
  <2> QED
    BY <2>1, <2>2, <2>3, <2>4, <2>5, <2>6, <2>7, <2>8, <2>9, <2>10, <2>11,
       <2>12, <2>13, <2>14, <2>15, <2>16, <2>17, <2>18, <2>19, <2>20, <2>21,
       <2>22, <2>23, <2>24, <2>25, <2>26, <2>27 DEF Next, BSP, Program, Handler
<1> QED
  BY <1>1, <1>2, PTL DEF Spec

-----------------------------------------------------------------------------
(* Interrupts.                                                             *)

(* A core that runs no handler has ended every interrupt it took, and one  *)
(* that runs a handler lets none in, unless it is the handler of another   *)
(* core's system call that runs.                                           *)
THEOREM HandlerEnds == Spec => []HandlerInv
<1>1. Init => HandlerInv
  BY DEF Init, HandlerInv, CoreState, IRQ0, SYSCALL
<1>2. TypeOK /\ HandlerInv /\ [Next]_vars => HandlerInv'
  <2> SUFFICES ASSUME TypeOK, HandlerInv, [Next]_vars PROVE HandlerInv'
    OBVIOUS
  <2>0. core \in [Cores -> CoreStates] /\ 0 \in Cores /\ APs \subseteq Cores
    BY StartAssumption DEF TypeOK, Cores, APs
  <2>1. CASE BootStep
    <3>1. At(0, "boot")
      BY <2>1 DEF BootStep
    <3>2. /\ core'[0].irq = core[0].irq /\ core'[0].busy = core[0].busy
          /\ core'[0].num = core[0].num
          /\ \A d \in Cores \ {0} : core'[d] = core[d]
      BY <2>0, <2>1 DEF BootStep, CoreStates
    <3> QED
      BY <2>0, <3>1, <3>2 DEF At, HandlerInv
  <2>2. ASSUME NEW c \in APs, startup(c) PROVE HandlerInv'
    BY <2>0, <2>2 DEF startup, HandlerInv, CoreStates
  <2>3. ASSUME NEW c \in Cores, Program(c) PROVE HandlerInv'
    <3>1. core[c].irq = "none"
      BY <2>3 DEF Program, getCurrentCoreId, apIdentify, moveInitialKernelStack,
                  initTables, touchCore, pitSleepUntil, pitSleepArm,
                  pitSleepClear, pitSleepHalt, pitSleepWoken, pitSleepReturns, At
    <3>2. /\ core'[c].irq = core[c].irq /\ core'[c].num = core[c].num
          /\ core'[c].busy => core[c].busy
          /\ \A d \in Cores \ {c} : core'[d] = core[d]
      <4>1. CASE \E from, load : getCurrentCoreId(c, from, load)
        BY <2>0, <4>1 DEF getCurrentCoreId, CoreStates
      <4>2. CASE apIdentify(c) \/ moveInitialKernelStack(c) \/ initTables(c)
                   \/ touchCore(c) \/ pitSleepUntil(c)
        BY <2>0, <4>2 DEF apIdentify, moveInitialKernelStack, initTables,
                          touchCore, pitSleepUntil, CoreStates
      <4>3. CASE pitSleepArm(c) \/ pitSleepClear(c) \/ pitSleepHalt(c)
                   \/ pitSleepWoken(c) \/ pitSleepReturns(c)
        BY <2>0, <4>3 DEF pitSleepArm, pitSleepClear, pitSleepHalt,
                          pitSleepWoken, pitSleepReturns, CoreStates
      <4> QED
        BY <2>3, <4>1, <4>2, <4>3 DEF Program
    <3> QED
      BY <2>0, <3>1, <3>2 DEF HandlerInv
  <2>4. ASSUME NEW c \in Cores, Take(c) \/ syscall(c) PROVE HandlerInv'
    <3>1. CASE Take(c)
      <4>1. PICK v \in pending[c] :
              core' = [core EXCEPT ![c].num = IDT[v], ![c].busy = TRUE,
                                   ![c].iflag = FALSE, ![c].irq = "idt_id",
                                   ![c].at = IF @ = "halt" THEN "woken" ELSE @]
        BY <3>1, Zenon DEF Take
      <4>2. IDT[v] # SYSCALL
        <5>1. v \in Raised
          BY DEF TypeOK
        <5>2. IDT[v] = v
          BY <5>1, RaisedEntries
        <5> QED
          BY <5>1, <5>2 DEF Raised, IRQ0, WAKEUP_IPI, SYSCALL
      <4>3. /\ core'[c].num # SYSCALL /\ ~core'[c].iflag
            /\ core'[c].irq = "idt_id"
            /\ \A d \in Cores \ {c} : core'[d] = core[d]
        BY <2>0, <4>1, <4>2 DEF CoreStates
      <4> QED
        BY <2>0, <4>3 DEF HandlerInv
    <3>2. CASE syscall(c)
      BY <2>0, <3>2 DEF syscall, HandlerInv, CoreStates
    <3> QED
      BY <2>4, <3>1, <3>2
  <2>5. ASSUME NEW c \in Cores, Handler(c) PROVE HandlerInv'
    <3>1. CASE IdtHandlerEnds(c)
      BY <2>0, <3>1 DEF IdtHandlerEnds, NoHandler, HandlerInv, CoreStates, IRQ0,
                        SYSCALL
    <3>2. CASE straySleep(c)
      BY <2>0, <3>2 DEF straySleep, HandlerInv, CoreStates
    <3>3. CASE strayReturns(c)
      BY <2>0, <3>3 DEF strayReturns, HandlerInv, CoreStates
    <3>4. CASE ServiceInterrupt(c)
      <4>0. /\ core[c].irq = "serve" /\ ~core[c].iflag
            /\ \A d \in Cores \ {c} : core'[d] = core[d]
        BY <2>0, <3>4 DEF ServiceInterrupt, HandlerInv
      <4>1. CASE core[c].num = SYSCALL /\ core'[c] = [NoHandler(core[c], c)
                                                        EXCEPT !.at = "sys"]
        <5>1. ~core[c].busy
          BY <4>1 DEF HandlerInv
        <5>2. /\ core'[c].irq = "none" /\ core'[c].busy = core[c].busy
              /\ core'[c].num = IRQ0
          BY <2>0, <4>1 DEF NoHandler, CoreStates
        <5> QED
          BY <2>0, <4>0, <5>1, <5>2 DEF HandlerInv, IRQ0, SYSCALL
      <4>2. CASE /\ core'[c].irq \in {"eoi", "fire", "stray"}
                 /\ core'[c].iflag = core[c].iflag /\ core'[c].num = IRQ0
        BY <2>0, <4>0, <4>2 DEF HandlerInv, IRQ0, SYSCALL
      <4> QED
        BY <2>0, <3>4, <4>1, <4>2 DEF ServiceInterrupt, CoreStates
    <3>5. CASE IdtHandler(c) \/ pitFireId(c) \/ pitFireCount(c) \/ pitFireWake(c)
      <4>1. /\ core[c].irq \notin {"none", "astray", "lost"}
            /\ core'[c].irq \notin {"none", "astray", "lost"}
            /\ core'[c].iflag = core[c].iflag /\ core'[c].num = core[c].num
            /\ core'[c].busy => core[c].busy
            /\ \A d \in Cores \ {c} : core'[d] = core[d]
        BY <2>0, <3>5 DEF IdtHandler, pitFireId, pitFireCount, pitFireWake,
                          CoreStates
      <4> QED
        BY <2>0, <4>1 DEF HandlerInv
    <3>6. CASE Lost(c)
      BY <2>0, <3>6 DEF Lost, At, HandlerInv, CoreStates
    <3> QED
      BY <2>5, <3>1, <3>2, <3>3, <3>4, <3>5, <3>6 DEF Handler
  <2>6. CASE startupReturns \/ Tick \/ LineInterrupt \/ UNCHANGED vars
    BY <2>6 DEF startupReturns, Tick, LineInterrupt, RaiseTimer, vars, HandlerInv
  <2> QED
    BY <2>1, <2>2, <2>3, <2>4, <2>5, <2>6 DEF Next, BSP
<1> QED
  BY <1>1, <1>2, TypeCorrect, PTL DEF Spec

(* Even if cores mistake themselves for others, no core that listens for   *)
(* interrupts has one in service, which would block all later ones, unless *)
(* its handler runs the system call of another core.                       *)
THEOREM AllInterruptsEnded == Spec => []InterruptsEnded
<1>1. TypeOK /\ HandlerInv => InterruptsEnded
  BY DEF HandlerInv, InterruptsEnded
<1> QED
  BY <1>1, TypeCorrect, HandlerEnds, PTL

-----------------------------------------------------------------------------
(* The start of the cores.                                                 *)

(* The application cores start one after the other, each with its stack    *)
(* parameters to itself, after the boot has loaded the descriptor table    *)
(* and registered the services of interrupts, and no core lets interrupts  *)
(* in before its own table is loaded.                                      *)
THEOREM StartOrder == Spec => [](StartInv /\ ReadyInv)
<1>0. /\ 0 \in Cores /\ APs = Cores \ {0} /\ Sleepers \subseteq APs
      /\ Cores \subseteq Nat /\ Nobody \notin Cores /\ Ids = Cores \cup {Nobody}
  BY StartAssumption DEF Cores, APs, Nobody, Ids
<1>1. Init => StartInv /\ ReadyInv
  <2> SUFFICES ASSUME Init PROVE StartInv /\ ReadyInv
    OBVIOUS
  <2>1. /\ core[0] = CoreState(0) /\ slot = 0 /\ boot = 1
        /\ \A c \in APs : core[c] = CoreState(c) /\ ~touch[c]
    BY <1>0 DEF Init
  <2>a. ASSUME NEW c
        PROVE  /\ CoreState(c).irq = "none" /\ CoreState(c).iflag = FALSE
               /\ CoreState(c).apicOn = FALSE
               /\ c = 0 => CoreState(c).at = "boot"
               /\ c # 0 => CoreState(c).at = "off"
    BY DEF CoreState
  <2>2. /\ core[0].at = "boot" /\ core[0].iflag = FALSE /\ core[0].irq = "none"
        /\ \A c \in APs : /\ core[c].at = "off" /\ core[c].irq = "none"
                          /\ core[c].apicOn = FALSE
    BY <1>0, <2>1, <2>a
  <2> QED
    <3>a. slot \in Cores /\ core[slot].at # "off"
      BY <1>0, <2>1, <2>2
    <3>b. ~(boot > StartStep)
      BY <2>1 DEF StartStep
    <3>c. ASSUME NEW c \in APs
          PROVE  /\ core[c].at = "off" /\ core[c].at # "boot"
                 /\ core[c].at \notin {"move", "move_id"} /\ ~touch[c]
      BY <2>1, <2>2
    <3>1. StartInv
      BY <2>2, <3>a, <3>b, <3>c DEF StartInv
    <3>2. ReadyInv
      BY <2>1, <2>2 DEF ReadyInv, Up, IdtStep
    <3> QED
      BY <3>1, <3>2
<1>2. TypeOK /\ HandlerInv /\ StartInv /\ ReadyInv /\ [Next]_vars
        => StartInv' /\ ReadyInv'
  <2> SUFFICES ASSUME TypeOK, HandlerInv, StartInv, ReadyInv, [Next]_vars
               PROVE  StartInv' /\ ReadyInv'
    OBVIOUS
  <2>0. /\ core \in [Cores -> CoreStates] /\ slot \in Ids /\ boot \in Nat
        /\ touch \in [Cores -> BOOLEAN]
    BY BootOrder DEF TypeOK
  <2>a. ASSUME NEW c \in APs, core[c].at \notin Up \cup {"off"},
               NEW d \in APs \ {c}
        PROVE  core[d].at \in Up \cup {"off"}
    BY <1>0, <2>a DEF StartInv
  <2>b. ASSUME NEW c \in Cores, Program(c) \/ syscall(c) PROVE c \in APs
    BY <1>0, <2>b DEF StartInv, Program, getCurrentCoreId, apIdentify,
              moveInitialKernelStack, initTables, touchCore, pitSleepUntil,
              pitSleepArm, pitSleepClear, pitSleepHalt, pitSleepWoken,
              pitSleepReturns, syscall, At
  <2>d. ASSUME NEW c \in Cores, core[c].at # "off", NEW i \in StoredId(c)
        PROVE  /\ i \in Cores => core[i].at # "off" /\ i = c
               /\ boot <= StartStep => i \in Cores
    BY <1>0, <2>0, <2>d, BootOrder DEF StoredId, StartStep
  <2>1. CASE BootStep
    <3>1. /\ core'[0].at = core[0].at /\ core'[0].irq = "none"
          /\ \A d \in Cores \ {0} : core'[d] = core[d]
          /\ core'[0].idt <=> core[0].idt \/ Boot[boot].does = "idt"
          /\ core'[0].iflag => \/ Boot[boot].does \in {"move", "handler", "card",
                                                        "sti"}
                               \/ core[0].iflag
      BY <1>0, <2>0, <2>1 DEF BootStep, At, CoreStates
    <3>2. /\ boot \in 1..31
          /\ boot' = boot + 1 \/ (boot' = 0 /\ Boot[boot].does = "acpi")
          /\ slot' \in {0, slot} /\ UNCHANGED touch
          /\ args' = args \/ Boot[boot].does = "move"
      BY <2>1, BootOrder DEF BootStep
    <3>3. boot' = 0 => boot < IdtStep
      BY <3>2, BootOrder
    <3>4. boot < StartStep => \A c \in APs : core[c].at = "off"
      BY <2>0, <3>2 DEF StartInv, StartStep
    <3>5. args' = args \/ boot < StartStep
      BY <3>2, BootOrder
    <3>a. /\ slot' \in Cores => core'[slot'].at # "off"
          /\ boot' <= StartStep => slot' \in Cores
      <4>1. CASE slot' = 0
        BY <1>0, <3>1, <4>1 DEF StartInv
      <4>2. CASE slot' = slot /\ slot # 0
        <5>1. slot \in Cores => core'[slot] = core[slot]
          BY <3>1, <4>2
        <5>2. boot' <= StartStep => boot <= StartStep
          BY <2>0, <3>2, <3>3 DEF StartStep, IdtStep
        <5> QED
          BY <4>2, <5>1, <5>2 DEF StartInv
      <4> QED
        BY <3>2, <4>1, <4>2
    <3>b. boot' > StartStep => boot > StartStep
      BY <2>0, <2>1, <3>2, BootOrder DEF BootStep, StartStep
    <3>c. boot' > StartStep => \A c \in APs : touch'[c]
      BY <3>2, <3>b DEF StartInv
    <3>6. StartInv'
      BY <1>0, <2>0, <3>1, <3>2, <3>3, <3>4, <3>5, <3>a, <3>c
         DEF StartInv, IdtStep, StartStep, Up
    <3>7. core'[0].iflag => boot' > IdtStep
      BY <3>1, <3>2, <3>3, BootOrder DEF ReadyInv, IdtStep
    <3>8. boot' > IdtStep => core'[0].idt
      BY <3>1, <3>2, BootOrder DEF ReadyInv, IdtStep
    <3> QED
      BY <1>0, <3>1, <3>6, <3>7, <3>8 DEF ReadyInv
  <2>2. ASSUME NEW c \in APs, startup(c) PROVE StartInv' /\ ReadyInv'
    <3>1. /\ core'[c].at = "up" /\ core[c].at = "off"
          /\ core'[c].irq = core[c].irq /\ core'[c].apicOn = core[c].apicOn
          /\ \A d \in Cores \ {c} : core'[d] = core[d]
      BY <1>0, <2>0, <2>2 DEF startup, CoreStates
    <3>2. /\ boot = StartStep /\ UNCHANGED <<boot, slot, touch, args>>
          /\ \A d \in APs : d < c => touch[d]
      BY <2>2, BootOrder DEF startup, Starting, Started, shared
    <3>a. ~touch[c] /\ slot # c
      BY <1>0, <3>1 DEF StartInv, Up
    <3>b. core'[0].at = "boot" /\ slot' \in Cores /\ core'[slot'].at # "off"
      BY <1>0, <2>0, <3>1, <3>2, <3>a DEF StartInv, StartStep
    <3>c. ASSUME NEW e \in APs
          PROVE  /\ core'[e].at # "boot"
                 /\ core'[e].at # "off" => boot' >= StartStep
                 /\ touch'[e] => core'[e].at \in Up
                 /\ core'[e].at \in {"move", "move_id"} => args' = e
                 /\ \A d \in APs : e < d /\ core'[d].at # "off" => touch'[e]
      <4>1. CASE e = c
        <5>1. \A d \in APs : e < d => core'[d].at = "off"
          BY <1>0, <3>1, <3>a, <4>1 DEF StartInv
        <5> QED
          BY <2>0, <3>1, <3>2, <3>a, <4>1, <5>1 DEF StartStep
      <4>2. CASE e # c
        <5>1. core'[e] = core[e]
          BY <1>0, <3>1, <4>2
        <5>2. \A d \in APs : e < d /\ core'[d].at # "off" => touch'[e]
          BY <1>0, <3>1, <3>2 DEF StartInv
        <5> QED
          BY <3>2, <5>1, <5>2 DEF StartInv
      <4> QED
        BY <4>1, <4>2
    <3>3. StartInv'
      BY <3>2, <3>b, <3>c DEF StartInv, StartStep
    <3> QED
      BY <1>0, <2>0, <3>1, <3>2, <3>3 DEF ReadyInv, Up
  <2>3. CASE startupReturns
    <3>1. boot' = boot + 1 /\ UNCHANGED <<core, slot, touch, args>>
          /\ boot = StartStep /\ \A c \in APs : touch[c]
      BY <2>3, BootOrder DEF startupReturns, Starting, Started, shared
    <3> QED
      BY <2>0, <3>1 DEF StartInv, ReadyInv, IdtStep, StartStep
  <2>4. CASE Tick \/ LineInterrupt \/ UNCHANGED vars
    <3>1. UNCHANGED <<core, boot, slot, touch, args>>
      BY <2>4 DEF Tick, LineInterrupt, RaiseTimer, vars, services, shared
    <3> QED
      BY <3>1 DEF StartInv, ReadyInv
  <2>5. ASSUME NEW c \in APs, core[c].at # "off",
               \A d \in Cores \ {c} : core'[d] = core[d],
               core'[c].at \notin {"off", "boot"},
               core'[c].at \in Up <=> core[c].at \in Up,
               core'[c].at \in {"touch", "touch_id"} \cup Up => core'[c].idt,
               core'[c].at \in {"move", "move_id"} => args' = c,
               core'[c].irq = core[c].irq, core'[c].apicOn = core[c].apicOn,
               UNCHANGED <<boot, touch>>, slot' = slot \/ slot' \in StoredId(c),
               args' = args \/ core[c].at \notin Up \cup {"off"}
        PROVE  StartInv' /\ ReadyInv'
    <3>1. \A d \in APs \ {c} : core[d].at \in {"move", "move_id"} => args' = d
      BY <2>a, <2>5 DEF StartInv, Up
    <3>3. /\ slot' \in Cores => core'[slot'].at # "off"
          /\ boot' <= StartStep => slot' \in Cores
      BY <1>0, <2>0, <2>5, <2>d DEF StartInv
    <3>2. StartInv'
      BY <1>0, <2>0, <2>5, <3>1, <3>3 DEF StartInv
    <3> QED
      BY <1>0, <2>0, <2>5, <3>2 DEF ReadyInv
  <2>6. ASSUME NEW c \in Cores, Program(c) PROVE StartInv' /\ ReadyInv'
    <3>0. c \in APs
      BY <2>6, <2>b
    <3>1. ASSUME NEW from, NEW load, getCurrentCoreId(c, from, load),
                 <<from, load>> \in {<<"up", "up_id">>, <<"move", "move_id">>,
                    <<"gdt", "gdt_id">>, <<"touch", "touch_id">>, <<"sys", "sys_id">>}
          PROVE  StartInv' /\ ReadyInv'
      <4>1. /\ core[c].at = from /\ core'[c].at = load
            /\ core'[c].irq = core[c].irq /\ core'[c].apicOn = core[c].apicOn
            /\ core'[c].idt = core[c].idt /\ slot' \in StoredId(c)
            /\ \A d \in Cores \ {c} : core'[d] = core[d]
            /\ UNCHANGED <<boot, touch, args>>
        BY <2>0, <3>1 DEF getCurrentCoreId, At, CoreStates
      <4>2. /\ load \in Up <=> from \in Up
            /\ load \in {"touch", "touch_id"} \cup Up => core[c].idt
            /\ load \in {"move", "move_id"} => args = c
            /\ from # "off" /\ load \notin {"off", "boot"}
        BY <3>0, <3>1, <4>1 DEF StartInv, ReadyInv, Up
      <4> QED
        BY <2>5, <3>0, <4>1, <4>2
    <3>2. CASE apIdentify(c)
      <4>1. /\ core[c].at = "up_id" /\ core'[c].at = "move"
            /\ core'[c].irq = core[c].irq /\ core'[c].apicOn = core[c].apicOn
            /\ \A d \in Cores \ {c} : core'[d] = core[d]
            /\ UNCHANGED <<boot, touch, slot>> /\ args' = c
        BY <2>0, <3>2 DEF apIdentify, At, CoreStates
      <4> QED
        BY <2>5, <3>0, <4>1 DEF Up
    <3>3. CASE moveInitialKernelStack(c)
      <4>1. /\ core[c].at = "move_id" /\ core'[c].at = "gdt"
            /\ core'[c].irq = core[c].irq /\ core'[c].apicOn = core[c].apicOn
            /\ \A d \in Cores \ {c} : core'[d] = core[d]
            /\ UNCHANGED <<boot, touch, slot, args>>
        BY <2>0, <3>3 DEF moveInitialKernelStack, At, CoreStates, services, shared
      <4> QED
        BY <2>5, <3>0, <4>1 DEF Up
    <3>4. CASE initTables(c)
      <4>1. /\ core[c].at = "gdt_id" /\ core'[c].at = "touch" /\ core'[c].idt
            /\ core'[c].irq = core[c].irq /\ core'[c].apicOn = core[c].apicOn
            /\ \A d \in Cores \ {c} : core'[d] = core[d]
            /\ UNCHANGED <<boot, touch, slot, args>>
        BY <2>0, <3>4 DEF initTables, At, CoreStates, services, shared
      <4> QED
        BY <2>5, <3>0, <4>1 DEF Up
    <3>5. CASE touchCore(c)
      <4>1. /\ core[c].at = "touch_id" /\ core'[c].at = "idle"
            /\ core'[c].idt = core[c].idt
            /\ \A d \in Cores \ {c} : core'[d] = core[d]
            /\ UNCHANGED <<boot, slot, args>>
        BY <2>0, <3>5 DEF touchCore, At, CoreStates, services
      <4>2. \A i \in Cores : touch'[i] <=> touch[i] \/ i = LoadedId(c)
        BY <3>5 DEF touchCore
      <4>3. \A d \in APs \ {c} : touch'[d] = touch[d]
        <5>1. LoadedId(c) \in {slot, c}
          BY DEF LoadedId
        <5>2. ASSUME slot # c, slot \in APs PROVE touch[slot]
          <6>1. ~touch[c]
            BY <3>0, <4>1 DEF StartInv, Up
          <6>2. core[slot].at # "off" /\ core[c].at # "off"
            BY <1>0, <4>1, <5>2 DEF StartInv
          <6>3. /\ slot < c => touch[slot]
                /\ c < slot => touch[c]
            BY <3>0, <5>2, <6>2 DEF StartInv
          <6>4. slot < c \/ c < slot
            BY <3>0, <5>2 DEF APs
          <6> QED
            BY <6>1, <6>3, <6>4
        <5>3. ASSUME NEW d \in APs \ {c} PROVE touch'[d] = touch[d]
          <6>1. touch'[d] <=> touch[d] \/ d = LoadedId(c)
            BY <1>0, <4>2
          <6>2. d = LoadedId(c) => touch[d]
            BY <1>0, <2>0, <5>1, <5>2
          <6>3. touch'[d] \in BOOLEAN /\ touch[d] \in BOOLEAN
            BY <1>0, <2>0, <3>5, Zenon DEF touchCore
          <6> QED
            BY <6>1, <6>2, <6>3
        <5> QED
          BY <5>3
      <4>4. touch[c] => touch'[c]
        BY <2>0, <4>2, <1>0, <3>0 DEF LoadedId
      <4>5. StartInv'
        BY <1>0, <2>0, <3>0, <4>1, <4>3, <4>4 DEF StartInv, Up
      <4> QED
        BY <1>0, <3>0, <4>1, <4>5 DEF ReadyInv, Up
    <3>6. CASE pitSleepUntil(c) \/ pitSleepArm(c) \/ pitSleepClear(c)
                 \/ pitSleepHalt(c) \/ pitSleepWoken(c) \/ pitSleepReturns(c)
      <4>1. /\ core[c].at \in Up /\ core'[c].at \in Up
            /\ UNCHANGED <<boot, touch, slot, args>>
            /\ \A d \in Cores \ {c} : core'[d] = core[d]
        BY <2>0, <3>6 DEF pitSleepUntil, pitSleepArm, pitSleepClear, pitSleepHalt,
              pitSleepWoken, pitSleepReturns, At, CoreStates, services, shared, Up
      <4>2. /\ core'[c].irq = core[c].irq /\ core'[c].apicOn = core[c].apicOn
            /\ core'[c].idt = core[c].idt
        BY <2>0, <3>6 DEF pitSleepUntil, pitSleepArm, pitSleepClear, pitSleepHalt,
              pitSleepWoken, pitSleepReturns, CoreStates
      <4>3. core[c].idt
        BY <3>0, <4>1 DEF ReadyInv
      <4> QED
        BY <2>5, <3>0, <4>1, <4>2, <4>3 DEF Up
    <3> QED
      BY <2>6, <3>1, <3>2, <3>3, <3>4, <3>5, <3>6 DEF Program
  <2>7. ASSUME NEW c \in Cores, syscall(c) PROVE StartInv' /\ ReadyInv'
    <3>1. /\ core[c].at = "idle" /\ core'[c].at = "idle"
          /\ core'[c].apicOn = core[c].apicOn
          /\ core'[c].idt = core[c].idt
          /\ \A d \in Cores \ {c} : core'[d] = core[d]
          /\ UNCHANGED <<boot, touch, args>> /\ c \in APs
          /\ slot' \in StoredId(c)
      BY <1>0, <2>0, <2>7 DEF syscall, At, CoreStates
    <3>3. /\ slot' \in Cores => core'[slot'].at # "off"
          /\ boot' <= StartStep => slot' \in Cores
      BY <1>0, <2>0, <2>d, <3>1 DEF StartInv
    <3>4. \A d \in Cores : core'[d].at = core[d].at
      BY <3>1
    <3>2. StartInv'
      BY <1>0, <3>1, <3>3, <3>4 DEF StartInv
    <3> QED
      BY <1>0, <2>0, <3>1, <3>2 DEF ReadyInv, StartInv, Up
  <2>8. ASSUME NEW c \in Cores, Take(c) \/ Handler(c)
        PROVE  StartInv' /\ ReadyInv'
    <3>0. Lost(c) => (c \in APs /\ core[c].at \in Up) \/ core[c].irq # "none"
      BY <1>0 DEF Lost, At, StartInv, Up
    <3>a. Take(c) \/ core[c].irq # "none" \/ (c \in APs /\ core[c].at \in Up)
      BY <2>8, <3>0 DEF Handler, IdtHandler, ServiceInterrupt, pitFireId,
              pitFireCount, pitFireWake, straySleep, strayReturns, IdtHandlerEnds
    <3>1. c \in APs => core[c].at \in Up
      <4>1. Take(c) => core[c].apicOn
        BY DEF Take
      <4> QED
        BY <3>a, <4>1 DEF ReadyInv
    <3>2. c = 0 => boot > IdtStep
      <4>1. Take(c) => core[c].iflag
        BY DEF Take
      <4> QED
        BY <1>0, <3>a, <4>1 DEF ReadyInv
    <3>3. /\ \/ core'[c].at = core[c].at
             \/ core[c].at = "halt" /\ core'[c].at = "woken"
             \/ c \in APs /\ core[c].at \in Up /\ core'[c].at = "sys"
          /\ core'[c].idt = core[c].idt /\ core'[c].apicOn = core[c].apicOn
          /\ \A d \in Cores \ {c} : core'[d] = core[d]
      <4>1. CASE Take(c)
        BY <2>0, <4>1 DEF Take, CoreStates
      <4>2. CASE IdtHandler(c) \/ pitFireCount(c) \/ Lost(c)
        BY <2>0, <4>2 DEF IdtHandler, pitFireCount, Lost, CoreStates
      <4>3. CASE ServiceInterrupt(c)
        <5>1. CASE core[c].num = SYSCALL
          <6>1. c \in APs /\ core[c].at \in Up
            BY <1>0, <3>1, <5>1 DEF HandlerInv
          <6>2. core[c] \in CoreStates
            BY <2>0
          <6>3. \/ \E l : core' = [core EXCEPT ![c].irq = l, ![c].num = IRQ0]
                \/ core' = [core EXCEPT ![c] = [NoHandler(@, c) EXCEPT !.at = "sys"]]
            BY <4>3, Zenon DEF ServiceInterrupt
          <6>4. ASSUME NEW l, core' = [core EXCEPT ![c].irq = l, ![c].num = IRQ0]
                PROVE  /\ core'[c].at = core[c].at /\ core'[c].idt = core[c].idt
                       /\ core'[c].apicOn = core[c].apicOn
                       /\ \A d \in Cores \ {c} : core'[d] = core[d]
            BY <2>0, <6>2, <6>4 DEF CoreStates
          <6>5. ASSUME core' = [core EXCEPT ![c] = [NoHandler(@, c)
                                                      EXCEPT !.at = "sys"]]
                PROVE  /\ core'[c].at = "sys" /\ core'[c].idt = core[c].idt
                       /\ core'[c].apicOn = core[c].apicOn
                       /\ \A d \in Cores \ {c} : core'[d] = core[d]
            BY <2>0, <6>2, <6>5 DEF NoHandler, CoreStates
          <6> QED
            BY <6>1, <6>3, <6>4, <6>5
        <5>2. CASE core[c].num # SYSCALL
          BY <2>0, <4>3, <5>2 DEF ServiceInterrupt, CoreStates
        <5> QED
          BY <5>1, <5>2
      <4>4. CASE pitFireId(c) \/ pitFireWake(c) \/ straySleep(c) \/ strayReturns(c)
        BY <2>0, <4>4 DEF pitFireId, pitFireWake, straySleep, strayReturns,
                          CoreStates
      <4>5. CASE IdtHandlerEnds(c)
        BY <2>0, <4>5 DEF IdtHandlerEnds, NoHandler, CoreStates
      <4> QED
        BY <2>8, <4>1, <4>2, <4>3, <4>4, <4>5 DEF Handler
    <3>4. (slot' = slot \/ slot' \in StoredId(c)) /\ UNCHANGED <<boot, touch, args>>
      <4>1. CASE ServiceInterrupt(c)
        BY <4>1 DEF ServiceInterrupt, shared
      <4>2. CASE Take(c)
        BY <4>2 DEF Take
      <4>4. CASE IdtHandler(c)
        BY <4>4 DEF IdtHandler
      <4>5. CASE pitFireId(c)
        BY <4>5 DEF pitFireId
      <4>6. CASE pitFireCount(c)
        BY <4>6 DEF pitFireCount, services, shared
      <4>7. CASE pitFireWake(c)
        BY <4>7 DEF pitFireWake, shared
      <4>3. CASE straySleep(c) \/ strayReturns(c) \/ Lost(c) \/ IdtHandlerEnds(c)
        BY <4>3 DEF straySleep, strayReturns, Lost, IdtHandlerEnds, services, shared
      <4> QED
        BY <2>8, <4>1, <4>2, <4>3, <4>4, <4>5, <4>6, <4>7 DEF Handler
    <3>b. core[c].at # "off"
      BY <1>0, <3>1 DEF StartInv, Up
    <3>c. /\ slot' \in Cores => core'[slot'].at # "off"
          /\ boot' <= StartStep => slot' \in Cores
      BY <1>0, <2>0, <2>d, <3>3, <3>4, <3>b DEF StartInv
    <3>5. StartInv'
      BY <1>0, <2>0, <3>1, <3>3, <3>4, <3>c DEF StartInv, Up
    <3> QED
      BY <1>0, <2>0, <3>1, <3>2, <3>3, <3>4, <3>5 DEF ReadyInv, StartInv, Up
  <2> QED
    BY <2>1, <2>2, <2>3, <2>4, <2>6, <2>7, <2>8 DEF Next, BSP
<1> QED
  BY <1>1, <1>2, TypeCorrect, HandlerEnds, PTL DEF Spec

(* A starting core copies its own stack: the parameters it left are still  *)
(* in kernel.apicManager.params when moveInitialKernelStack reads them,    *)
(* because no other core is between apIdentify and its touch_flag.  It may *)
(* copy it onto the stack of another core, if it loads another's id, but   *)
(* of none that is yet to start.                                           *)
THEOREM OwnStackMoved == Spec => []StackArgumentsKept
<1>0. /\ 0 \in Cores /\ APs = Cores \ {0} /\ Nobody \notin Cores
      /\ Cores = 0..(N - 1) /\ N \in Nat /\ Ids = Cores \cup {Nobody}
  BY StartAssumption DEF Cores, APs, Nobody, Ids
<1>1. Init => StackArgumentsKept
  BY DEF Init, CoreState, StackArgumentsKept
<1>2. TypeOK /\ StartInv /\ StackArgumentsKept /\ [Next]_vars => StackArgumentsKept'
  <2> SUFFICES ASSUME TypeOK, StartInv, StackArgumentsKept, [Next]_vars,
                      NEW e \in Cores
               PROVE  /\ core'[e].moved \in {e, Nobody}
                      /\ core'[e].onto \in (0..e) \cup {Nobody}
    BY DEF StackArgumentsKept
  <2>0. /\ core \in [Cores -> CoreStates] /\ core[e].moved \in {e, Nobody}
        /\ core[e].onto \in (0..e) \cup {Nobody}
    BY DEF TypeOK, StackArgumentsKept
  <2> DEFINE Kept == core'[e].moved = core[e].moved /\ core'[e].onto = core[e].onto
  <2>1. CASE BootStep
    <3>1. 0 \in 0..e
      BY <1>0
    <3> QED
      BY <1>0, <2>0, <2>1, <3>1 DEF BootStep, CoreStates
  <2>2. ASSUME NEW c \in APs, startup(c) PROVE Kept
    BY <1>0, <2>0, <2>2 DEF startup, CoreStates
  <2>3. ASSUME NEW c \in Cores, Program(c)
        PROVE  /\ core'[e].moved \in {e, Nobody}
               /\ core'[e].onto \in (0..e) \cup {Nobody}
    <3>1. CASE moveInitialKernelStack(c)
      <4>1. args = c /\ c \in APs /\ core[c].at = "move_id"
        BY <1>0, <3>1 DEF moveInitialKernelStack, At, StartInv
      <4>2. \A d \in Cores : c < d => core[d].at = "off"
        BY <1>0, <4>1 DEF StartInv, Up
      <4>3. LoadedId(c) \in (0..c) \cup {Nobody}
        BY <1>0, <4>2 DEF LoadedId, StartInv, TypeOK
      <4>4. core'[e] = [core[e] EXCEPT !.moved = args, !.onto = LoadedId(c),
                                       !.iflag = TRUE, !.at = "gdt"] \/ e # c
        BY <2>0, <3>1 DEF moveInitialKernelStack
      <4>5. e # c => core'[e] = core[e]
        BY <2>0, <3>1 DEF moveInitialKernelStack
      <4>6. e = c => core'[e].moved = args /\ core'[e].onto = LoadedId(c)
        BY <2>0, <4>4 DEF CoreStates
      <4> QED
        BY <2>0, <4>1, <4>3, <4>5, <4>6
    <3>2. CASE \E from, load : getCurrentCoreId(c, from, load)
      BY <2>0, <3>2 DEF getCurrentCoreId, CoreStates
    <3>3. CASE apIdentify(c) \/ touchCore(c) \/ pitSleepUntil(c)
      BY <2>0, <3>3 DEF apIdentify, touchCore, pitSleepUntil, CoreStates
    <3>5. CASE initTables(c)
      BY <2>0, <3>5 DEF initTables, CoreStates
    <3>4. CASE pitSleepArm(c) \/ pitSleepClear(c) \/ pitSleepHalt(c)
                 \/ pitSleepWoken(c) \/ pitSleepReturns(c)
      BY <2>0, <3>4 DEF pitSleepArm, pitSleepClear, pitSleepHalt, pitSleepWoken,
                        pitSleepReturns, CoreStates
    <3> QED
      BY <2>3, <3>1, <3>2, <3>3, <3>4, <3>5 DEF Program
  <2>4. ASSUME NEW c \in Cores, Take(c) \/ syscall(c) \/ Handler(c) PROVE Kept
    <3>1. CASE Take(c)
      BY <2>0, <3>1 DEF Take, CoreStates
    <3>6. CASE syscall(c)
      BY <2>0, <3>6 DEF syscall, CoreStates
    <3>2. CASE IdtHandler(c) \/ pitFireCount(c) \/ pitFireId(c) \/ pitFireWake(c)
      BY <2>0, <3>2 DEF IdtHandler, pitFireCount, pitFireId, pitFireWake, CoreStates
    <3>3. CASE ServiceInterrupt(c)
      <4>1. \/ \E l : core' = [core EXCEPT ![c].irq = l, ![c].num = IRQ0]
            \/ core' = [core EXCEPT ![c] = [NoHandler(@, c) EXCEPT !.at = "sys"]]
        BY <3>3, Zenon DEF ServiceInterrupt
      <4>2. ASSUME NEW l, core' = [core EXCEPT ![c].irq = l, ![c].num = IRQ0]
            PROVE  Kept
        BY <2>0, <4>2 DEF CoreStates
      <4>3. ASSUME core' = [core EXCEPT ![c] = [NoHandler(@, c) EXCEPT !.at = "sys"]]
            PROVE  Kept
        BY <2>0, <4>3 DEF NoHandler, CoreStates
      <4> QED
        BY <4>1, <4>2, <4>3
    <3>4. CASE IdtHandlerEnds(c)
      BY <2>0, <3>4 DEF IdtHandlerEnds, NoHandler, CoreStates
    <3>5. CASE straySleep(c) \/ strayReturns(c) \/ Lost(c)
      BY <2>0, <3>5 DEF straySleep, strayReturns, Lost, CoreStates
    <3> QED
      BY <2>4, <3>1, <3>2, <3>3, <3>4, <3>5, <3>6 DEF Handler
  <2>5. CASE startupReturns \/ Tick \/ LineInterrupt \/ UNCHANGED vars
    BY <2>0, <2>5 DEF startupReturns, Tick, LineInterrupt, RaiseTimer, vars
  <2> QED
    BY <2>0, <2>1, <2>2, <2>3, <2>4, <2>5 DEF Next, BSP
<1> QED
  BY <1>1, <1>2, TypeCorrect, StartOrder, PTL DEF Spec

-----------------------------------------------------------------------------
(* Services and calls.                                                     *)

(* The places in Boot where the services that are called are registered.   *)
LEMMA BootAdds ==
  /\ Boot[1].adds = {"physical_memory_t"} /\ Boot[2].adds = {"pci_t"}
  /\ Boot[4].adds = {"console_t"} /\ Boot[10].adds = {"ipi_t"}
  /\ Boot[11].adds = {"apic_t"} /\ Boot[14].adds = {"interruptManager_t"}
  BY DEF Boot, BootMemory, BootProcessors, BootDisks, BootCores, BootServices,
         Step, Calls, Adds, Handles, init_acpi, enableAPICTimer, keyboard_init

(* Calls that are callable at this step of the boot miss nothing.          *)
LEMMA Answered ==
  ASSUME OrderInv, boot \in Nat, NEW cs, \A c \in cs : Callable(c, boot),
         DispatchKernel(cs)
  PROVE  missed' = missed
<1>1. \A c \in cs : c[1] \in reg /\ c[2] \in Provides(c[1])
  BY DEF OrderInv, Callable
<1> QED
  BY <1>1 DEF DispatchKernel

(* DispatchKernel tests neither the service nor the method, and has not    *)
(* to: every call that the boot, the start of the other cores, sleeping    *)
(* and the interrupt handlers make with it comes after its service is      *)
(* registered with the method.                                             *)
THEOREM ServicesCalled == Spec => [](OrderInv /\ CallsAnswered)
<1>0. 0 \in Cores /\ APs = Cores \ {0}
  BY StartAssumption DEF Cores, APs
<1>1. Init => OrderInv /\ CallsAnswered
  BY DEF Init, OrderInv, CallsAnswered, IdtStep
<1>2. TypeOK /\ StartInv /\ ReadyInv /\ OrderInv /\ CallsAnswered /\ [Next]_vars
        => OrderInv' /\ CallsAnswered'
  <2> SUFFICES ASSUME TypeOK, StartInv, ReadyInv, OrderInv, CallsAnswered,
                      [Next]_vars
               PROVE  OrderInv' /\ CallsAnswered'
    OBVIOUS
  <2>0. boot \in Nat
    BY BootOrder DEF TypeOK
  <2>1. CASE BootStep
    <3>1. /\ boot \in 1..31 /\ boot' \in {0, boot + 1}
          /\ reg' = reg \cup Boot[boot].adds /\ DispatchKernel(Boot[boot].calls)
      BY <2>1, BootOrder DEF BootStep, RegisterServiceToKernel
    <3>2. OrderInv'
      BY <3>1, BootAdds DEF OrderInv, IdtStep
    <3>3. missed' = missed
      BY <2>0, <3>1, Answered, BootCalls
    <3> QED
      BY <3>2, <3>3 DEF CallsAnswered
  <2>2. ASSUME NEW c \in APs, startup(c) PROVE OrderInv' /\ CallsAnswered'
    <3>1. /\ boot \in 1..31 /\ UNCHANGED <<boot, reg>>
          /\ DispatchKernel(Boot[boot].calls)
      BY <2>2, BootOrder DEF startup, Starting
    <3>2. missed' = missed
      BY <2>0, <3>1, Answered, BootCalls
    <3> QED
      BY <3>1, <3>2 DEF OrderInv, CallsAnswered
  <2>3. CASE startupReturns
    <3>1. /\ UNCHANGED <<reg, missed>> /\ boot = StartStep /\ boot' = boot + 1
      BY <2>3, BootOrder DEF startupReturns, Starting
    <3> QED
      BY <3>1 DEF OrderInv, CallsAnswered, IdtStep, StartStep
  <2>4. CASE Tick \/ LineInterrupt \/ UNCHANGED vars
    BY <2>4 DEF Tick, LineInterrupt, RaiseTimer, vars, services, OrderInv,
                CallsAnswered
  <2>5. ASSUME UNCHANGED <<boot, reg>>, boot > IdtStep,
               NEW cs, DispatchKernel(cs),
               cs \subseteq GetId \cup Printk
                       \cup {<<"apic_t", "move_initial_kernel_stack">>,
                             <<"interruptManager_t", "service_interrupt">>,
                             <<"ipi_t", "send_ipi">>}
        PROVE  OrderInv' /\ CallsAnswered'
    <3>1. /\ Callable(<<"apic_t", "move_initial_kernel_stack">>, boot)
          /\ Callable(<<"interruptManager_t", "service_interrupt">>, boot)
          /\ Callable(<<"ipi_t", "send_ipi">>, boot)
      BY <2>0, <2>5, Methods DEF Callable, APICMethods, IdtStep
    <3>2. \A c \in GetId \cup Printk : Callable(c, boot)
      BY <2>0, <2>5, CommonCalls DEF IdtStep
    <3>3. \A c \in cs : Callable(c, boot)
      BY <2>5, <3>1, <3>2
    <3>4. missed' = missed
      BY <2>0, <2>5, <3>3, Answered
    <3> QED
      BY <2>5, <3>4 DEF OrderInv, CallsAnswered
  <2>6. ASSUME UNCHANGED <<boot, reg, missed>> PROVE OrderInv' /\ CallsAnswered'
    BY <2>6 DEF OrderInv, CallsAnswered
  <2>7. ASSUME NEW c \in Cores, Program(c) \/ syscall(c)
        PROVE  OrderInv' /\ CallsAnswered'
    <3>0. core[c].at \notin {"boot", "off"}
      BY <2>7 DEF Program, getCurrentCoreId, apIdentify, moveInitialKernelStack,
              initTables, touchCore, pitSleepUntil, pitSleepArm, pitSleepClear,
              pitSleepHalt, pitSleepWoken, pitSleepReturns, syscall, At
    <3>1. boot > IdtStep
      BY <1>0, <2>0, <3>0 DEF StartInv, StartStep, IdtStep
    <3>2. CASE \E from, load : getCurrentCoreId(c, from, load)
      BY <2>5, <3>1, <3>2 DEF getCurrentCoreId
    <3>3. CASE apIdentify(c)
      BY <2>5, <3>1, <3>3 DEF apIdentify
    <3>4. CASE syscall(c)
      BY <2>5, <3>1, <3>4 DEF syscall
    <3>5. CASE moveInitialKernelStack(c) \/ initTables(c) \/ touchCore(c)
                 \/ pitSleepUntil(c) \/ pitSleepArm(c) \/ pitSleepClear(c)
                 \/ pitSleepHalt(c) \/ pitSleepWoken(c) \/ pitSleepReturns(c)
      BY <2>6, <3>5 DEF moveInitialKernelStack, initTables, touchCore,
              pitSleepUntil, pitSleepArm, pitSleepClear, pitSleepHalt,
              pitSleepWoken, pitSleepReturns, services
    <3> QED
      BY <2>7, <3>2, <3>3, <3>4, <3>5 DEF Program
  <2>8. ASSUME NEW c \in Cores, Take(c) \/ Handler(c)
        PROVE  OrderInv' /\ CallsAnswered'
    <3>1. boot > IdtStep
      <4>0. Lost(c) => core[c].at = "sys_id" \/ core[c].irq # "none"
        BY DEF Lost, At
      <4>1. \/ core[c].irq # "none"
            \/ core[c].iflag /\ core[c].apicOn
            \/ core[c].at = "sys_id"
        <5>1. Take(c) => core[c].iflag /\ core[c].apicOn
          BY DEF Take
        <5>2. ServiceInterrupt(c) => core[c].irq = "serve"
          BY DEF ServiceInterrupt
        <5> QED
          BY <2>8, <4>0, <5>1, <5>2 DEF Handler, IdtHandler, pitFireId,
                pitFireCount, pitFireWake, straySleep, strayReturns, IdtHandlerEnds
      <4>2. CASE c = 0
        BY <1>0, <4>1, <4>2 DEF ReadyInv, StartInv
      <4>3. CASE c # 0
        <5>1. core[c].at # "off"
          BY <1>0, <4>1, <4>3 DEF ReadyInv, Up
        <5> QED
          BY <1>0, <2>0, <4>3, <5>1 DEF StartInv, StartStep, IdtStep
      <4> QED
        BY <4>2, <4>3
    <3>2. CASE Take(c)
      BY <2>5, <3>1, <3>2 DEF Take
    <3>3. CASE IdtHandler(c)
      BY <2>5, <3>1, <3>3 DEF IdtHandler
    <3>4. CASE pitFireId(c)
      BY <2>5, <3>1, <3>4 DEF pitFireId
    <3>5. CASE pitFireWake(c)
      BY <2>5, <3>1, <3>5 DEF pitFireWake
    <3>6. CASE pitFireCount(c) \/ strayReturns(c) \/ Lost(c) \/ IdtHandlerEnds(c)
      BY <2>6, <3>6 DEF pitFireCount, strayReturns, Lost, IdtHandlerEnds, services
    <3>7. CASE ServiceInterrupt(c)
      BY <2>5, <3>1, <3>7 DEF ServiceInterrupt
    <3>8. CASE straySleep(c)
      BY <2>5, <3>1, <3>8 DEF straySleep
    <3> QED
      BY <2>8, <3>2, <3>3, <3>4, <3>5, <3>6, <3>7, <3>8 DEF Handler
  <2> QED
    BY <2>1, <2>2, <2>3, <2>4, <2>7, <2>8 DEF Next, BSP
<1> QED
  BY <1>1, <1>2, TypeCorrect, StartOrder, PTL DEF Spec

(* No core can be interrupted before its descriptor table is loaded and    *)
(* the services that IdtHandler calls are registered.                      *)
THEOREM InterruptsReady == Spec => []ReadyForInterrupts
<1>1. TypeOK /\ StartInv /\ ReadyInv /\ OrderInv => ReadyForInterrupts
  <2> SUFFICES ASSUME TypeOK, StartInv, ReadyInv, OrderInv, NEW c \in Cores,
                      core[c].iflag, core[c].apicOn
               PROVE  core[c].idt /\ boot > IdtStep
    BY BootOrder DEF ReadyForInterrupts, OrderInv, TypeOK, IdtStep
  <2>1. CASE c = 0
    BY <2>1 DEF ReadyInv
  <2>2. CASE c # 0
    <3>a. c \in APs
      BY <2>2, StartAssumption DEF Cores, APs
    <3>b. boot \in Nat
      BY BootOrder DEF TypeOK
    <3>1. c \in APs /\ boot \in Nat
      BY <3>a, <3>b
    <3>2. core[c].at \in Up
      BY <3>1 DEF ReadyInv
    <3> QED
      BY <3>1, <3>2 DEF ReadyInv, StartInv, Up, StartStep, IdtStep
  <2> QED
    BY <2>1, <2>2
<1> QED
  BY <1>1, TypeCorrect, StartOrder, ServicesCalled, PTL
=============================================================================
