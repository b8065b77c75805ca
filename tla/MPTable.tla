-------------------------------- MODULE MPTable --------------------------------
(***************************************************************************)
(* Kernel/Interrupts/MP.cpp: MP::parse.  It looks for the "_MP_" floating  *)
(* pointer in the EBDA, the BIOS ROM and the last KB of base memory, in    *)
(* that order; switches the IMCR to APIC mode when the feature bit says    *)
(* so; gives up on a default configuration or a bad "PCMP" signature; and  *)
(* then walks the configuration table's entry_count entries, one switch    *)
(* case per entry type, filling an SMPData: the LAPICs, the single IOAPIC, *)
(* the legacy IRQ map; local NMI entries are collected and connected to    *)
(* the LAPICs after the walk.                                              *)
(*                                                                         *)
(* The walk is modelled step by step (pc "entries", index i) so that each  *)
(* case is an action.  Entries are records holding the fields the code     *)
(* reads; addresses, lengths and the log output are left out.  A failed    *)
(* ASSERT or FAILED_ASSERTION stops the kernel (pc "assert"); a nullptr    *)
(* return is pc "null".                                                    *)
(***************************************************************************)
EXTENDS Integers, Sequences, SequencesExt

CONSTANTS
    LapicIds,       \* LAPIC ids that appear in the tables
    AllProcessors,  \* the destination id 0xFF: every LAPIC
    NoId,           \* model value: an Optional<u8> without a value
    Tables          \* the entry sequences a BIOS may provide

Regions == <<"EBDA", "ROM", "BASE_KB">>

Polarities   == {"CONFORMING", "ACTIVE_HIGH", "ACTIVE_LOW"}
TriggerModes == {"CONFORMING", "EDGE", "LEVEL"}

VARIABLES
    pc,         \* where MP::parse is
    fpRegion,   \* region the floating pointer was found in ("NONE": none)
    apicMode,   \* IMCR switched to APIC mode
    table,      \* the configuration table's entries (after the header)
    i,          \* loop index of the entry walk (1-based)
    isaBus,     \* isa_bus_id
    pciBus,     \* pci_bus_id
    nmis,       \* lapic_id_to_nmi
    smp         \* *smp_info

vars == <<pc, fpRegion, apicMode, table, i, isaBus, pciBus, nmis, smp>>

NmiInfo == [polarity : Polarities, trigger : TriggerModes, lint : Nat]
IrqInfo == [gsi : Nat, polarity : Polarities, trigger : TriggerModes]

TypeOK ==
    /\ pc \in {"parse", "config", "entries", "done", "null", "assert"}
    /\ fpRegion \in {"NONE"} \cup {Regions[k] : k \in 1..3}
    /\ apicMode \in BOOLEAN
    /\ i \in 1..(Len(table) + 1)
    /\ isaBus \in Nat \cup {NoId} /\ pciBus \in Nat \cup {NoId}
    /\ nmis \in Seq([dest : LapicIds \cup {AllProcessors}, info : NmiInfo])
    /\ smp.bsp \in LapicIds \cup {NoId}
    /\ smp.lapics \in Seq([id : LapicIds, nmi : NmiInfo \cup {NoId}])
    /\ smp.ioapics \in 0..1
    /\ \A k \in DOMAIN smp.irqs : smp.irqs[k] \in IrqInfo

EmptySmp == [bsp |-> NoId, lapics |-> <<>>, ioapics |-> 0, irqs |-> <<>>]

Init ==
    /\ pc = "parse" /\ fpRegion = "NONE" /\ apicMode = FALSE
    /\ table = <<>> /\ i = 1
    /\ isaBus = NoId /\ pciBus = NoId /\ nmis = <<>>
    /\ smp = EmptySmp

(* find_floating_pointer_table: the first region, in search order, whose  *)
(* 16-byte aligned paragraphs hold the signature.                          *)
FindFloatingPointer(hits) ==
    LET k == SelectInSeq(Regions, LAMBDA r : r \in hits)
    IN  IF k = 0 THEN "NONE" ELSE Regions[k]

(* parse: ASSERT no earlier parse, search, nullptr when nothing is found.  *)
Parse ==
    /\ pc = "parse"
    /\ \E hits \in SUBSET {Regions[k] : k \in 1..3} :
          LET r == FindFloatingPointer(hits) IN
          /\ fpRegion' = r
          /\ pc' = IF r = "NONE" THEN "null" ELSE "config"
    /\ UNCHANGED <<apicMode, table, i, isaBus, pciBus, nmis, smp>>

(* parse_configuration_table up to the loop: the IMCR switch, the two     *)
(* early returns, new SMPData.                                             *)
ParseConfigurationTable ==
    /\ pc = "config"
    /\ \E imcr, defaultConfiguration, signatureOk \in BOOLEAN :
          /\ apicMode' = imcr
          /\ IF defaultConfiguration \/ ~signatureOk
             THEN pc' = "null" /\ UNCHANGED table
             ELSE pc' = "entries" /\ \E t \in Tables : table' = t
    /\ UNCHANGED <<fpRegion, i, isaBus, pciBus, nmis, smp>>

Entry == table[i]

(* The end of each switch case: entry_address += sizeof_entry(type).       *)
NextEntry == i' = i + 1

(* case PROCESSOR: remember the BSP's id, append the LAPIC whatever the    *)
(* entry's enabled flag says.                                              *)
ProcessorEntry ==
    /\ pc = "entries" /\ i <= Len(table) /\ Entry.type = "PROCESSOR"
    /\ smp' = [smp EXCEPT !.bsp = IF Entry.bsp THEN Entry.id ELSE @,
                          !.lapics = Append(@, [id |-> Entry.id, nmi |-> NoId])]
    /\ NextEntry
    /\ UNCHANGED <<pc, fpRegion, apicMode, table, isaBus, pciBus, nmis>>

(* case BUS: the first three characters of the type string decide.         *)
BusEntry ==
    /\ pc = "entries" /\ i <= Len(table) /\ Entry.type = "BUS"
    /\ isaBus' = IF Entry.kind = "ISA" THEN Entry.id ELSE isaBus
    /\ pciBus' = IF Entry.kind = "PCI" THEN Entry.id ELSE pciBus
    /\ NextEntry
    /\ UNCHANGED <<pc, fpRegion, apicMode, table, nmis, smp>>

(* Variant used to validate TypeOK: the check for an IOAPIC already       *)
(* recorded is lost.                                                       *)
MultipleIoApicsNever(s) == FALSE

(* `!smp_info->ioapics.empty()`: an IOAPIC is already recorded.            *)
MultipleIoApics(s) == s.ioapics # 0

(* case IO_APIC: unusable ones are skipped, a second usable one is a      *)
(* FAILED_ASSERTION.                                                       *)
IoApicEntry ==
    /\ pc = "entries" /\ i <= Len(table) /\ Entry.type = "IO_APIC"
    /\ \/ /\ ~Entry.ok
          /\ NextEntry /\ UNCHANGED <<pc, smp>>
       \/ /\ Entry.ok /\ MultipleIoApics(smp)
          /\ pc' = "assert" /\ UNCHANGED <<i, smp>>
       \/ /\ Entry.ok /\ ~MultipleIoApics(smp)
          /\ smp' = [smp EXCEPT !.ioapics = @ + 1]
          /\ NextEntry /\ UNCHANGED pc
    /\ UNCHANGED <<fpRegion, apicMode, table, isaBus, pciBus, nmis>>

(* A CONFORMING polarity or trigger mode in a local NMI entry.             *)
NmiOf(e) ==
    [polarity |-> IF e.polarity = "CONFORMING" THEN "ACTIVE_HIGH" ELSE e.polarity,
     trigger  |-> IF e.trigger = "CONFORMING" THEN "EDGE" ELSE e.trigger,
     lint     |-> e.lint]

(* default_polarity_for_bus / default_trigger_mode_for_bus for ISA.        *)
IsaDefault == [polarity |-> "ACTIVE_HIGH", trigger |-> "EDGE"]

(* The IRQ info of an assignment from the ISA bus.                         *)
IrqOf(e) ==
    [gsi      |-> e.pin,
     polarity |-> IF e.polarity # "CONFORMING" THEN e.polarity ELSE IsaDefault.polarity,
     trigger  |-> IF e.trigger # "CONFORMING" THEN e.trigger ELSE IsaDefault.trigger]

(* Variant used to validate LegacyIrqsMatchTable: the source bus is not   *)
(* compared, so PCI interrupts land in the legacy (ISA) IRQ map.           *)
LegacyAssignmentAnyBus(e, bus) ==
    e.type = "IO_INT" /\ e.itype = "INT"

(* The entries that survive the TODO skip: vectored I/O interrupts from   *)
(* the ISA bus.                                                            *)
LegacyAssignment(e, bus) ==
    e.type = "IO_INT" /\ e.itype = "INT" /\ e.bus = bus

(* case IO_INTERRUPT_ASSIGNMENT / LOCAL_INTERRUPT_ASSIGNMENT: ASSERT an    *)
(* ISA bus was seen; local NMIs are collected; other entries that are not  *)
(* legacy assignments are skipped; the rest set                            *)
(* legacy_irqs_to_info[source_bus_irq], a later entry for the same IRQ     *)
(* replacing an earlier one.  The source bus is the ISA bus there, so the  *)
(* PCI and unknown-bus branches of the CONFORMING resolution are           *)
(* unreachable.                                                            *)
InterruptEntry ==
    /\ pc = "entries" /\ i <= Len(table) /\ Entry.type \in {"IO_INT", "LOCAL_INT"}
    /\ IF isaBus = NoId
       THEN pc' = "assert" /\ UNCHANGED <<i, nmis, smp>>
       ELSE /\ NextEntry /\ UNCHANGED pc
            /\ \/ /\ Entry.type = "LOCAL_INT" /\ Entry.itype = "NMI"
                  /\ nmis' = Append(nmis, [dest |-> Entry.dest, info |-> NmiOf(Entry)])
                  /\ UNCHANGED smp
               \/ /\ ~(Entry.type = "LOCAL_INT" /\ Entry.itype = "NMI")
                  /\ ~LegacyAssignment(Entry, isaBus)
                  /\ UNCHANGED <<nmis, smp>>
               \/ /\ LegacyAssignment(Entry, isaBus)
                  /\ smp' = [smp EXCEPT !.irqs = (Entry.irq :> IrqOf(Entry)) @@ @]
                  /\ UNCHANGED nmis
    /\ UNCHANGED <<fpRegion, apicMode, table, isaBus, pciBus>>

(* default: an unknown entry type discards the whole table.                *)
UnknownEntry ==
    /\ pc = "entries" /\ i <= Len(table) /\ Entry.type = "UNKNOWN"
    /\ pc' = "null"
    /\ UNCHANGED <<fpRegion, apicMode, table, i, isaBus, pciBus, nmis, smp>>

(* The per-entry loop of the else branch: each NMI entry goes to the      *)
(* first LAPIC with its id (linear_search), a later entry for that LAPIC   *)
(* replacing an earlier one; entries naming no LAPIC are ignored.          *)
ConnectNmis(lapics, entries) ==
    [k \in DOMAIN lapics |->
        LET j == SelectLastInSeq(entries, LAMBDA n : n.dest = lapics[k].id)
            first == SelectInSeq(lapics, LAMBDA l : l.id = lapics[k].id)
        IN  IF j # 0 /\ first = k
            THEN [lapics[k] EXCEPT !.nmi = entries[j].info]
            ELSE lapics[k]]

(* After the loop: a first NMI entry for all processors must be the only  *)
(* one and is given to every LAPIC; otherwise the entries are connected    *)
(* one by one.                                                             *)
AssignNmis ==
    /\ pc = "entries" /\ i > Len(table)
    /\ \/ /\ nmis = <<>>
          /\ pc' = "done" /\ UNCHANGED smp
       \/ /\ nmis # <<>> /\ nmis[1].dest = AllProcessors /\ Len(nmis) # 1
          /\ pc' = "assert" /\ UNCHANGED smp
       \/ /\ nmis # <<>> /\ nmis[1].dest = AllProcessors /\ Len(nmis) = 1
          /\ smp' = [smp EXCEPT !.lapics = [k \in DOMAIN @ |-> [@[k] EXCEPT !.nmi = nmis[1].info]]]
          /\ pc' = "done"
       \/ /\ nmis # <<>> /\ nmis[1].dest # AllProcessors
          /\ smp' = [smp EXCEPT !.lapics = ConnectNmis(@, nmis)]
          /\ pc' = "done"
    /\ UNCHANGED <<fpRegion, apicMode, table, i, isaBus, pciBus, nmis>>

Next ==
    \/ Parse \/ ParseConfigurationTable
    \/ ProcessorEntry \/ BusEntry \/ IoApicEntry \/ InterruptEntry \/ UnknownEntry
    \/ AssignNmis

(* parse returns, or the kernel stops on an assertion.                     *)
Spec == Init /\ [][Next]_vars

-----------------------------------------------------------------------------
(* Reference definitions, read off the table as a whole.                   *)

Entries(t) == {t[k] : k \in 1..Len(t)}

(* The id of the last ISA bus entry.                                        *)
IsaBusOf(t) ==
    LET k == SelectLastInSeq(t, LAMBDA e : e.type = "BUS" /\ e.kind = "ISA")
    IN  IF k = 0 THEN NoId ELSE t[k].id

(* An I/O interrupt assignment that routes an ISA IRQ.                     *)
RoutesIsaIrq(t, e) ==
    e.type = "IO_INT" /\ e.itype = "INT" /\ e.bus = IsaBusOf(t)

(* The legacy IRQ map a table describes: each ISA IRQ routed by its last   *)
(* assignment, CONFORMING read as the ISA default.                         *)
ReferenceIrqs(t) ==
    [q \in {e.irq : e \in {x \in Entries(t) : RoutesIsaIrq(t, x)}} |->
        LET e == t[SelectLastInSeq(t, LAMBDA x : RoutesIsaIrq(t, x) /\ x.irq = q)]
        IN  [gsi |-> e.pin,
             polarity |-> IF e.polarity = "CONFORMING" THEN "ACTIVE_HIGH" ELSE e.polarity,
             trigger |-> IF e.trigger = "CONFORMING" THEN "EDGE" ELSE e.trigger]]

(* When parse returns an SMPData, its legacy IRQ map is exactly the one    *)
(* the table describes: every ISA IRQ the table routes is there with the   *)
(* pin and modes of its last assignment, and no other interrupt (PCI, NMI, *)
(* SMI, ExtINT, local) has entered it.                                     *)
LegacyIrqsMatchTable ==
    pc = "done" => smp.irqs = ReferenceIrqs(table)

(* The LAPIC list parse returns is what CPU::start_all_processors starts  *)
(* and what the NMI routing is read from: every LAPIC in it belongs to a   *)
(* processor entry whose enabled flag is set (the BSP sends INIT and SIPIs *)
(* to each one and hangs when one does not come up), and every LAPIC a     *)
(* local NMI entry names, by id or all of them by 0xFF, has an NMI         *)
(* connection.                                                             *)
LapicsMatchTable ==
    pc = "done" =>
        \A k \in DOMAIN smp.lapics :
            /\ \E e \in Entries(table) :
                  e.type = "PROCESSOR" /\ e.id = smp.lapics[k].id /\ e.ok
            /\ \A e \in Entries(table) :
                  e.type = "LOCAL_INT" /\ e.itype = "NMI"
                  /\ e.dest \in {smp.lapics[k].id, AllProcessors}
                  => smp.lapics[k].nmi # NoId

================================================================================
