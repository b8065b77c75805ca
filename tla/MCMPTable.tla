------------------------------- MODULE MCMPTable -------------------------------
(* Tables for MPTable: entries in the type order the MP specification      *)
(* prescribes (processors, buses, IOAPICs, I/O then local interrupt        *)
(* assignments), optionally followed by an entry of an unknown type.       *)
EXTENDS MPTable

CONSTANTS All, None

Proc(id, bsp, ok) == [type |-> "PROCESSOR", id |-> id, bsp |-> bsp, ok |-> ok]
Bus(id, kind)     == [type |-> "BUS", id |-> id, kind |-> kind]
IoApic(ok)        == [type |-> "IO_APIC", ok |-> ok]
IoInt(itype, bus, irq, pin, pol, trig) ==
    [type |-> "IO_INT", itype |-> itype, bus |-> bus, irq |-> irq, pin |-> pin,
     polarity |-> pol, trigger |-> trig]
LocalInt(itype, dest, lint, pol, trig) ==
    [type |-> "LOCAL_INT", itype |-> itype, dest |-> dest, lint |-> lint,
     polarity |-> pol, trigger |-> trig]

MCProcessors ==
    { <<Proc(0, TRUE, TRUE)>>, <<Proc(0, TRUE, TRUE), Proc(1, FALSE, TRUE)>>,
      <<Proc(0, TRUE, TRUE), Proc(1, FALSE, FALSE)>>,
      <<Proc(1, FALSE, TRUE), Proc(0, TRUE, TRUE)>> }
MCBuses == { <<>>, <<Bus(0, "ISA")>>, <<Bus(0, "ISA"), Bus(1, "PCI")>>, <<Bus(1, "PCI")>> }
MCIoApics == { <<>>, <<IoApic(TRUE)>>, <<IoApic(FALSE), IoApic(TRUE)>>, <<IoApic(TRUE), IoApic(TRUE)>> }
MCIoInts ==
    SeqOf({ IoInt("INT", 0, 0, 2, "CONFORMING", "CONFORMING"),
            IoInt("INT", 0, 0, 0, "ACTIVE_LOW", "LEVEL"),
            IoInt("INT", 1, 1, 1, "CONFORMING", "CONFORMING"),
            IoInt("ExtINT", 0, 1, 0, "CONFORMING", "CONFORMING") }, 2)
MCLocalInts ==
    SeqOf({ LocalInt("NMI", All, 1, "CONFORMING", "CONFORMING"),
            LocalInt("NMI", 1, 1, "ACTIVE_LOW", "LEVEL"),
            LocalInt("ExtINT", All, 0, "CONFORMING", "CONFORMING") }, 2)
MCUnknown == { <<>>, <<[type |-> "UNKNOWN"]>> }

MCTables ==
    { p \o b \o a \o io \o l \o u :
        p \in MCProcessors, b \in MCBuses, a \in MCIoApics,
        io \in MCIoInts, l \in MCLocalInts, u \in MCUnknown }
================================================================================
