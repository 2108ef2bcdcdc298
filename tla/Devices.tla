-------------------------------- MODULE Devices --------------------------------
(***************************************************************************)
(* How the boot finds and starts the devices: the PCI service lists the    *)
(* functions on the buses, detectATADisks looks for the disk controller    *)
(* and the drives, e1000Scan starts a driver for every network card of a   *)
(* model it knows.  One core does all of it; what varies is the machine.   *)
(***************************************************************************)
EXTENDS Integers, Sequences, FiniteSets, FiniteSetsExt

CONSTANTS
    Slots,      \* number of bus, device and function addresses, in scan order
    Functions,  \* what can answer at one
    Drives,     \* what can be at a place for a drive: "none", "ata" or "atapi"
    e1000_models,   \* device ids, in the order they are looked for
    DmaModels   \* ids of the controllers bus mastering is enabled for

\* Where nothing answers all bits read as ones.
Absent == [vend_id |-> "0xFFFF", dev_id |-> "0xFFFF", class |-> "0xFFFF"]

\* A function that answers; 0xFFFF is the id of no vendor.  A half of a pair of words
\* is the set of bits that are on in it: those the drivers write, and other ones.
Bits        == {"memory", "master", "0xA344", "other"}
Word        == [low : SUBSET Bits, high : SUBSET Bits]
PciFunction == [vend_id : STRING \ {"0xFFFF"}, dev_id : STRING, class : STRING,
                dma : BOOLEAN, bar4 : {"ports", "memory"}, eeprom : BOOLEAN,
                registers : {"set", "none"}, config : [command : Word, timing : Word]]

\* No model is looked for twice.
ASSUME DevicesAssumption ==
    /\ Slots \in Nat /\ Functions \subseteq PciFunction
    /\ e1000_models \in Seq(STRING)
    /\ \A i, j \in DOMAIN e1000_models : e1000_models[i] = e1000_models[j] => i = j

VARIABLES
    bus,        \* the function at each address, or Absent, and its configuration space
    drives,     \* what is at each channel and selector
    pciService, \* total_pci_devices, and for each entry of pciDevices its address
    ataManager, \* dma_port_address and dma_mmio_address, the four ataDisks
    cards,      \* the network cards started, in order; kernel.e1000 is the last
    looked,     \* e1000Scan's loops: the place in e1000_models, the index of a card
    phase       \* how far the boot is

deviceVars == <<bus, drives, pciService, ataManager, cards, looked, phase>>

Places == << <<0, 0>>, <<0, 1>>, <<1, 0>>, <<1, 1>> >>     \* channel, slave bit
NULL   == 0

--------------------------------------------------------------------------------
(***************************************************************************)
(* The PCI service.                                                        *)
(***************************************************************************)
\* PciConfigWriteWord writes 32 bits at the aligned address: the word goes to the
\* lower half, whichever half was meant, and 0 to the other.
PciConfigWriteWord(b, s, pair, word) ==
    [b EXCEPT ![s].config[pair] = [low |-> word, high |-> {}]]

EnablePCIBusMastering(b, s) ==
    PciConfigWriteWord(b, s, "command", b[s].config["command"].low \cup {"memory", "master"})

\* The bits of 0xA344 are added to a half of the controller's timing register.
PciConfigWriteCommand(b, s, half) ==
    PciConfigWriteWord(b, s, "timing", b[s].config["timing"][half] \cup {"0xA344"})

\* ScanBusesForCount
Counted == Cardinality({s \in 1..Slots : bus[s] # Absent})

\* Mutant: an address where nothing answers takes an entry of its own.
AllocationKeepsAbsent(total) ==
    LET listed[s \in 0..Slots] ==
            IF s = 0 THEN <<>>
            ELSE IF Len(listed[s - 1]) < total THEN Append(listed[s - 1], s)
            ELSE listed[s - 1]
    IN  listed[Slots]

\* The header at every address is read into the next entry, which is kept when a
\* function answered, until there are as many as were counted.
ScanBusesForAllocation(total) ==
    LET listed[s \in 0..Slots] ==
            IF s = 0 THEN <<>>
            ELSE IF Len(listed[s - 1]) < total /\ bus[s] # Absent THEN Append(listed[s - 1], s)
            ELSE listed[s - 1]
    IN  listed[Slots]

CollectHWInventory ==
    /\ phase = "collect_hw" /\ phase' = "detect"
    /\ LET total == pciService.total_pci_devices + Counted
       IN  pciService' = [total_pci_devices |-> total,
                          pciDevices |-> ScanBusesForAllocation(total)]
    /\ UNCHANGED <<bus, drives, ataManager, cards, looked>>

\* The entries of Intel functions with device id d; how many there are; the one
\* that has j others before it.
Matching(d) ==
    {e \in 1..Len(pciService.pciDevices) :
        /\ bus[pciService.pciDevices[e]].vend_id = "INTEL_VEND"
        /\ bus[pciService.pciDevices[e]].dev_id = d}

Earlier(d, e) == Cardinality({k \in Matching(d) : k < e})

GetPCIDeviceCount(d) == Cardinality(Matching(d))

GetPCIDeviceAtIndex(d, j) ==
    LET found == {e \in Matching(d) : Earlier(d, e) = j}
    IN  IF found = {} THEN NULL ELSE pciService.pciDevices[CHOOSE e \in found : TRUE]

--------------------------------------------------------------------------------
(***************************************************************************)
(* The disks.                                                              *)
(***************************************************************************)
\* The first function of class 1, subclass 1.
getDiskPCIDevice ==
    LET disks == {e \in 1..Len(pciService.pciDevices) :
                      bus[pciService.pciDevices[e]].class = "ide"}
    IN  IF disks = {} THEN NULL ELSE pciService.pciDevices[Min(disks)]

\* Whether the fourth base address is one of ports or of memory.
GetPCIBarType(s) == bus[s].bar4

identifyPCI ==
    LET s == getDiskPCIDevice
        mastering == s # NULL /\ bus[s].dma
    IN  /\ phase = "detect" /\ phase' = "disks"
        /\ bus' = IF mastering /\ bus[s].dev_id \in DmaModels
                  THEN PciConfigWriteCommand(
                           PciConfigWriteCommand(EnablePCIBusMastering(bus, s), s, "low"),
                           s, "high")
                  ELSE bus
        /\ ataManager' = [ataManager EXCEPT
              !.dma_port_address = IF mastering /\ GetPCIBarType(s) = "ports" THEN s ELSE @,
              !.dma_mmio_address = IF mastering /\ GetPCIBarType(s) = "memory" THEN s ELSE @]
        /\ UNCHANGED <<drives, pciService, cards, looked>>

\* IDENTIFY is answered with data by an ATA drive, with an error by an ATAPI
\* drive, and not at all (status 0, or all bits set) where there is none.
identifyDisk(place) == drives[place] = "ata"

initATADisk(place) ==
    [place |-> place, bm_offset |-> place[1] * 8,
     dma |-> ataManager.dma_port_address # NULL \/ ataManager.dma_mmio_address # NULL,
     dma_port_address |-> ataManager.dma_port_address]

detectATADisks ==
    /\ phase = "disks" /\ phase' = "scan"
    /\ ataManager' = [ataManager EXCEPT !.ataDisks =
           [i \in 1..4 |-> IF identifyDisk(Places[i]) THEN <<initATADisk(Places[i])>>
                           ELSE <<>>]]
    /\ UNCHANGED <<bus, drives, pciService, cards, looked>>

--------------------------------------------------------------------------------
(***************************************************************************)
(* The network cards.                                                      *)
(***************************************************************************)
\* e1000DetectEEProm tries a thousand times, unless the flag, which nobody has
\* set, happens to be true in the memory of the new driver already.
eerprom_exists(s) == {bus[s].eeprom, TRUE}

\* The address is read from the EEPROM or from the registers; 0 there is none.
\* A read of an EEPROM that is not there does not end.
MacOf(s, exists) == IF exists THEN "eeprom" ELSE bus[s].registers
Hangs(s, exists) == exists /\ ~bus[s].eeprom

e1000Init(s) ==
    /\ bus' = EnablePCIBusMastering(bus, s)
    /\ \E exists \in eerprom_exists(s) :
          \/ Hangs(s, exists) /\ phase' = "hung" /\ UNCHANGED cards
          \/ /\ ~Hangs(s, exists)
             /\ cards' = Append(cards, [slot |-> s, mac |-> MacOf(s, exists)])
             /\ UNCHANGED phase
    /\ UNCHANGED <<drives, pciService, ataManager>>

\* The cards of a model in turn, then the next model.
e1000Scan ==
    LET d == e1000_models[looked[1]]
        s == GetPCIDeviceAtIndex(d, looked[2])
    IN  /\ phase = "scan" /\ looked[1] <= Len(e1000_models)
        /\ looked[2] < GetPCIDeviceCount(d)
        /\ looked' = <<looked[1], looked[2] + 1>>
        /\ IF s # NULL THEN e1000Init(s)
           ELSE UNCHANGED <<bus, drives, pciService, ataManager, cards, phase>>

NextModel ==
    /\ phase = "scan" /\ looked[1] <= Len(e1000_models)
    /\ looked[2] >= GetPCIDeviceCount(e1000_models[looked[1]])
    /\ looked' = <<looked[1] + 1, 0>>
    /\ UNCHANGED <<bus, drives, pciService, ataManager, cards, phase>>

Scanned == /\ phase = "scan" /\ looked[1] > Len(e1000_models) /\ phase' = "done"
           /\ UNCHANGED <<bus, drives, pciService, ataManager, cards, looked>>

--------------------------------------------------------------------------------
DevicesInit(b, d) ==
    /\ bus = b /\ drives = d
    /\ pciService = [total_pci_devices |-> 0, pciDevices |-> <<>>]
    /\ ataManager = [dma_port_address |-> NULL, dma_mmio_address |-> NULL,
                     ataDisks |-> [i \in 1..4 |-> <<>>]]
    /\ cards = <<>> /\ looked = <<1, 0>> /\ phase = "collect_hw"

\* The loops over pciDevices have an index of 8 bits: with more functions than this
\* GetPCIDeviceCount does not end.
MaxListed == 255
Populations == {b \in [1..Slots -> Functions \cup {Absent}] :
                    Cardinality({s \in 1..Slots : b[s] # Absent}) <= MaxListed}
Cabling     == [{Places[i] : i \in 1..4} -> Drives]

DevicesNext == \/ CollectHWInventory \/ identifyPCI \/ detectATADisks
               \/ e1000Scan \/ NextModel \/ Scanned

DevicesSpec == /\ \E b \in Populations, d \in Cabling : DevicesInit(b, d)
               /\ [][DevicesNext]_deviceVars

--------------------------------------------------------------------------------
(***************************************************************************)
(* Properties.                                                             *)
(***************************************************************************)
\* Whatever is plugged in where, the boot that gets past e1000Scan has started
\* every network card of a known model exactly once, each allowed to use the
\* bus, and has a disk for exactly the ATA drives; a disk is given to bus-master
\* transfers through a port only if it is the port of a controller on the bus.
DevicesReady ==
    phase = "done" =>
        /\ \A s \in 1..Slots :
              LET times == Cardinality({i \in DOMAIN cards : cards[i].slot = s})
              IN  IF bus[s].vend_id = "INTEL_VEND"
                     /\ \E i \in DOMAIN e1000_models : e1000_models[i] = bus[s].dev_id
                  THEN times = 1 /\ "master" \in bus[s].config["command"].low
                  ELSE times = 0
        /\ \A i \in 1..4 :
              LET disk == ataManager.ataDisks[i]
              IN  /\ (disk # <<>>) <=> (drives[Places[i]] = "ata")
                  /\ (disk # <<>> /\ disk[1].dma_port_address # NULL) =>
                        bus[disk[1].dma_port_address].class = "ide"

================================================================================
