--------------------------------- MODULE GDT ---------------------------------
(***************************************************************************)
(* Kernel/GDT.cpp, Kernel/Core/GDT.h: the single global descriptor table   *)
(* GDT::s_instance, shared by every core.  A table is the record           *)
(* [active, size, hung]: m_active_entries, m_pointer.size (bytes of the    *)
(* entries created so far) and whether new_entry hit hang().  The          *)
(* descriptor fields (base, limit, access, flags) are data no property     *)
(* reads and are left out.  GDT::install is three steps of the core that   *)
(* runs it, on the shared m_pointer.size, without a lock; the modules      *)
(* that run it (BringUp) take them as actions.                             *)
(***************************************************************************)
EXTENDS Integers

(* entry_count: 1 NULL selector + 8 free.                                  *)
EntryCount == 9

(* sizeof(GDT::entry): a PACKED 8-byte descriptor.                         *)
EntrySize == 8

(* GDT::GDT(): no entries; m_pointer{m_active_entries, m_entries} starts   *)
(* the size at m_active_entries, still 0.                                  *)
GdtInit == [active |-> 0, size |-> 0, hung |-> FALSE]

(* new_entry: hang() when all entry_count entries are used, else one more  *)
(* active entry and m_pointer.size grown by one entry.                     *)
NewEntry(g) ==
    IF g.hung THEN g
    ELSE IF g.active >= EntryCount THEN [g EXCEPT !.hung = TRUE]
    ELSE [g EXCEPT !.active = @ + 1, !.size = @ + EntrySize]

(* create_descriptor: new_entry, then the fields of the new entry.         *)
CreateDescriptor(g) == NewEntry(g)

(* create_basic_descriptors: the NULL, kernel code and kernel data         *)
(* descriptors.                                                            *)
CreateBasicDescriptors(g) == CreateDescriptor(CreateDescriptor(CreateDescriptor(g)))

(* The GDTR limit lgdt must be given for a table of n entries: the offset  *)
(* of its last byte.                                                       *)
LimitFor(n) == n * EntrySize - 1

(* Variant used to validate GdtLimitExact: the size is loaded as the limit  *)
(* without the decrement.                                                  *)
InstallShrinkMissing(size) == size

(* install, first statement: m_pointer.size -= 1.                          *)
InstallShrink(size) == size - 1

(* install, last statement: m_pointer.size += 1.                           *)
InstallRestore(size) == size + 1

================================================================================
