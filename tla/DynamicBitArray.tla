--------------------------- MODULE DynamicBitArray ---------------------------
(***************************************************************************)
(* Kernel/Common/DynamicBitArray.h: a bit array of m_bit_count bits stored *)
(* in a DynamicArray<u8>.  set_size grows the byte array to               *)
(* m_bit_count / 8 bytes (never shrinks it), set_bit asserts the index is  *)
(* below m_bit_count and sets or clears one bit of its byte, set_range_to  *)
(* writes the low `count` bits of a number bit by bit, range_as_number     *)
(* reads them back.  Bytes are numbers in 0..255 and the bit operations    *)
(* are Bitwise's.  DynamicArray is not in the snapshot: expand_to is taken *)
(* to append zero bytes, and an index at or past its size is a fault that  *)
(* ends the behaviour (status "oob"), as a failed ASSERT does ("assert"). *)
(***************************************************************************)
EXTENDS Integers, Sequences, Bitwise

CONSTANTS
    MaxBits,     \* largest bit_count passed to set_size
    MaxCount,    \* largest count passed to set_range_to
    Indices,     \* the bit indices callers pass to set_bit and set_range_to
    NoRange      \* model value: no set_range_to since the last other write

VARIABLES
    bitCount,    \* m_bit_count
    bytes,       \* m_bits
    status,      \* "ok", or the fault that stopped the kernel
    lastRange    \* the arguments of the last set_range_to, or NoRange

vars == <<bitCount, bytes, status, lastRange>>

Bytes == 0..255
RangeArgs == [at : Indices, count : 1..MaxCount, number : 0..(2^MaxCount - 1)]

TypeOK ==
    /\ bitCount \in 0..MaxBits
    /\ bytes \in Seq(Bytes) /\ Len(bytes) <= (MaxBits + 7) \div 8
    /\ status \in {"ok", "assert", "oob"}
    /\ lastRange \in RangeArgs \cup {NoRange}

(* byte_of_bit, index_of_bit, bit_as_mask.                                 *)
ByteOfBit(bit) == bit \div 8
IndexOfBit(bit) == bit - ByteOfBit(bit) * 8
BitAsMask(bit) == 2^bit

(* The default constructor: no bits, no bytes.                             *)
Init ==
    /\ bitCount = 0
    /\ bytes = <<>>
    /\ status = "ok"
    /\ lastRange = NoRange

(* Variant used to validate TypeOK: the array is expanded to bit_count     *)
(* bytes, the count in bits mistaken for a count in bytes.                 *)
SetSizeInBits(n) ==
    /\ status = "ok"
    /\ bitCount' = n
    /\ bytes' = IF Len(bytes) < n
                THEN bytes \o [i \in 1..(n - Len(bytes)) |-> 0]
                ELSE bytes
    /\ lastRange' = NoRange
    /\ UNCHANGED status

(* set_size(bit_count): expand_to(bit_count / 8) when the array is shorter.*)
SetSize(n) ==
    /\ status = "ok"
    /\ bitCount' = n
    /\ bytes' = IF Len(bytes) < n \div 8
                THEN bytes \o [i \in 1..(n \div 8 - Len(bytes)) |-> 0]
                ELSE bytes
    /\ lastRange' = NoRange
    /\ UNCHANGED status

(* Variant used to validate RangeRoundTrip: clearing a bit masks with the  *)
(* bit itself instead of its complement.                                   *)
WriteBitNoComplement(b, k, to) ==
    IF to THEN b | BitAsMask(k) ELSE b & BitAsMask(k)

(* The byte b with bit k set (byte |= mask) or cleared (byte &= ~mask,    *)
(* ~mask taken as a u8).                                                   *)
WriteBit(b, k, to) ==
    IF to THEN b | BitAsMask(k) ELSE b & (255 - BitAsMask(k))

(* set_bit(at_index, to) on a state [bits, st]: ASSERT(at_index <          *)
(* m_bit_count), then m_bits[byte_of_bit(at_index)] (past the array's end: *)
(* a fault), then the masked write.                                        *)
SetBitIn(s, at, to) ==
    LET j == ByteOfBit(at) + 1 IN
    CASE s.st # "ok"      -> s
      [] at >= bitCount   -> [s EXCEPT !.st = "assert"]
      [] j > Len(s.bits)  -> [s EXCEPT !.st = "oob"]
      [] OTHER            -> [s EXCEPT !.bits[j] = WriteBit(@, IndexOfBit(at), to)]

(* bit_at(index) of a byte array (index assumed inside it).                *)
BitAt(bs, index) == (bs[ByteOfBit(index) + 1] & BitAsMask(IndexOfBit(index))) # 0

(* range_as_number(index, length): bit i of the result is bit_at(index+i).*)
RECURSIVE RangeAsNumber(_, _, _)
RangeAsNumber(bs, index, length) ==
    IF length = 0 THEN 0
    ELSE (IF BitAt(bs, index) THEN 1 ELSE 0)
         + 2 * RangeAsNumber(bs, index + 1, length - 1)

(* The loop of set_range_to: set_bit(at_index + i, bit i of number) for   *)
(* i = 0 .. count-1, stopping at the first fault.                          *)
RECURSIVE SetRangeLoop(_, _, _, _, _)
SetRangeLoop(s, at, i, count, number) ==
    IF i = count THEN s
    ELSE SetRangeLoop(SetBitIn(s, at + i, (number \div 2^i) % 2 = 1),
                      at, i + 1, count, number)

SetBit(at, to) ==
    LET s == SetBitIn([bits |-> bytes, st |-> status], at, to) IN
    /\ status = "ok"
    /\ bytes' = s.bits /\ status' = s.st
    /\ lastRange' = NoRange
    /\ UNCHANGED bitCount

(* set_range_to(at_index, count, number): ASSERT(number < 2^count), then   *)
(* the loop.                                                               *)
SetRangeTo(at, count, number) ==
    LET s == SetRangeLoop([bits |-> bytes, st |-> status], at, 0, count, number)
    IN  /\ status = "ok"
        /\ IF number > 2^count - 1
           THEN status' = "assert" /\ UNCHANGED <<bytes, lastRange>>
           ELSE /\ bytes' = s.bits /\ status' = s.st
                /\ lastRange' = [at |-> at, count |-> count, number |-> number]
        /\ UNCHANGED bitCount

Next ==
    \/ \E n \in 0..MaxBits : SetSize(n)
    \/ \E at \in Indices, to \in BOOLEAN : SetBit(at, to)
    \/ \E r \in RangeArgs : SetRangeTo(r.at, r.count, r.number)

(* An assertion failure or fault stops the kernel.                         *)
Spec == Init /\ [][Next]_vars

-----------------------------------------------------------------------------

(* After a set_range_to that completed, range_as_number over the same      *)
(* bits gives the number back: set_bit's masks and set_range_to's bit      *)
(* extraction agree with range_as_number's reassembly.                     *)
RangeRoundTrip ==
    status = "ok" /\ lastRange # NoRange =>
        RangeAsNumber(bytes, lastRange.at, lastRange.count) = lastRange.number

(* An index the array accepts (below m_bit_count, so set_bit's ASSERT      *)
(* passes) always has a byte behind it.                                    *)
NoOutOfBounds == status # "oob"

=============================================================================
