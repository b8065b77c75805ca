-------------------------------- MODULE LAPIC --------------------------------
(***************************************************************************)
(* Kernel/Interrupts/LAPIC.h, LAPIC.cpp: the interrupt command register    *)
(* (ICR) as the kernel builds it.  LAPIC::ICR is a bitfield struct; GCC    *)
(* allocates x86 bitfields from the least significant bit of their        *)
(* storage unit, so the struct's first u32 is the ICR low word and its     *)
(* second u32 the high word (static_assert checks only the total size).   *)
(* An ICR is a record of the field values; IcrLower and IcrHigher are the  *)
(* two words the struct holds, read through the volatile u32 pointer.      *)
(* The decoding at the end is the local APIC's, not the kernel's.          *)
(***************************************************************************)
EXTENDS Integers

(* enum class DeliveryMode.                                                *)
DeliveryMode == [NORMAL |-> 0, LOWEST_PRIORITY |-> 1, SMI |-> 2, NMI |-> 4,
                 INIT |-> 5, SIPI |-> 6]

(* enum class DestinationType; LAPIC.cpp names the first one SPECIFIC.     *)
DestinationType == [SPECIFIC |-> 0, SELF |-> 1, ALL_INCLUDING_SELF |-> 2,
                    ALL_EXCLUDING_SELF |-> 3]

(* ICR icr {}: every field zero.                                           *)
ZeroIcr == [vector |-> 0, delivery |-> 0, destMode |-> 0, pending |-> 0,
            level |-> 0, trigger |-> 0, destType |-> 0, dest |-> 0]

(* send_init_to(id): INIT, PHYSICAL, ASSERT, EDGE, SPECIFIC, to id.        *)
IcrInit(id) ==
    [ZeroIcr EXCEPT !.delivery = DeliveryMode.INIT, !.level = 1,
                    !.destType = DestinationType.SPECIFIC, !.dest = id]

(* send_startup_to(id): the same with SIPI and the entry page number 1 in  *)
(* the vector byte (entrypoint_page shares the union with vector_number).  *)
IcrStartup(id) ==
    [ZeroIcr EXCEPT !.vector = 1, !.delivery = DeliveryMode.SIPI, !.level = 1,
                    !.destType = DestinationType.SPECIFIC, !.dest = id]

(* ICR LOWER: vector 0-7, delivery_mode 8-10, destination_mode 11,         *)
(* is_pending 12, reserved_1 13, level 14, trigger_mode 15, reserved_2     *)
(* 16-17, destination_type 18-19, reserved_3 20-31.                        *)
IcrLower(icr) ==
    icr.vector + icr.delivery * 2^8 + icr.destMode * 2^11 + icr.pending * 2^12
    + icr.level * 2^14 + icr.trigger * 2^15 + icr.destType * 2^18

(* Variant used to validate IpisReachTargetOnly: the destination id packed *)
(* right after the low word, as if reserved_4 were missing.                *)
IcrHigherUnpadded(icr) == icr.dest

(* ICR HIGHER: reserved_4 in bits 0-23, destination_id in bits 24-31.      *)
IcrHigher(icr) == icr.dest * 2^24

-----------------------------------------------------------------------------
(* The local APIC sending the IPI when the low word is written (Intel SDM  *)
(* 10.6.1): the cores a destination shorthand and the destination field    *)
(* (physical mode) select, from the core `self`, among `cores`.            *)

IcrField(w, lo, n) == (w \div 2^lo) % 2^n

IpiMode(low) == IcrField(low, 8, 3)

IpiTargets(low, high, self, cores) ==
    CASE IcrField(low, 18, 2) = 0 -> {c \in cores : c = IcrField(high, 24, 8)}
      [] IcrField(low, 18, 2) = 1 -> {self}
      [] IcrField(low, 18, 2) = 2 -> cores
      [] OTHER                    -> cores \ {self}

================================================================================
