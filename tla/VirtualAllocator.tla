--------------------------- MODULE VirtualAllocator ---------------------------
(***************************************************************************)
(* Kernel/Memory/VirtualAlloctor.cpp: a first-fit range allocator keeping  *)
(* two arrays, m_free_ranges and m_allocated_ranges.  allocate_range       *)
(* carves the request from the front of the first free range that fits;    *)
(* deallocate_range (by range or by base address) searches the allocated   *)
(* array and moves the match back to the end of the free array, without    *)
(* coalescing.  hang() halts the core, so a failure ends the behaviour.    *)
(* The callers own the ranges they were given and release each once.       *)
(***************************************************************************)
EXTENDS Integers, Sequences, FiniteSets, SequencesExt

CONSTANTS
    Base,        \* m_full_range.begin()
    Size,        \* m_full_range.length(), in allocation units
    MaxRequest   \* largest length a caller asks for

ASSUME Base \in Nat /\ Size \in Nat \ {0} /\ MaxRequest \in 1..Size

VARIABLES
    freeRanges,       \* m_free_ranges
    allocatedRanges,  \* m_allocated_ranges
    owned,            \* ranges returned to callers and not yet released
    status            \* "ok", or the error after which the core hangs

vars == <<freeRanges, allocatedRanges, owned, status>>

MkRange(b, l) == [begin |-> b, length |-> l]
RangeEnd(r) == r.begin + r.length
Ranges == [begin : Base..(Base + Size), length : 0..Size]
Units == Base..(Base + Size - 1)

(* Range::contains(address). *)
RangeContains(r, a) == a >= r.begin /\ a < RangeEnd(r)

(* VirtualAllocator::contains(const Range&): both ends inside the full     *)
(* range.                                                                  *)
ContainsRange(r) ==
    RangeContains(MkRange(Base, Size), r.begin)
    /\ RangeContains(MkRange(Base, Size), RangeEnd(r) - 1)

TypeOK ==
    /\ freeRanges \in Seq(Ranges)
    /\ allocatedRanges \in Seq(Ranges)
    /\ owned \subseteq Ranges
    /\ status \in {"ok", "out_of_ranges", "not_found"}

(* set_range(base, length): the whole range free, nothing allocated.       *)
Init ==
    /\ freeRanges = <<MkRange(Base, Size)>>
    /\ allocatedRanges = <<>>
    /\ owned = {}
    /\ status = "ok"

(* Variant used to validate TypeOK: the free range is moved past the       *)
(* allocation but keeps its old length, running off the managed range.    *)
AllocateRangeNoShrink(length) ==
    LET i == SelectInSeq(freeRanges, LAMBDA r : r.length >= length) IN
    /\ status = "ok"
    /\ \/ /\ i = 0
          /\ status' = "out_of_ranges"
          /\ UNCHANGED <<freeRanges, allocatedRanges, owned>>
       \/ /\ i # 0
          /\ LET allocated == MkRange(freeRanges[i].begin, length) IN
             /\ allocatedRanges' = Append(allocatedRanges, allocated)
             /\ freeRanges' =
                   IF freeRanges[i] = allocated THEN RemoveAt(freeRanges, i)
                   ELSE [freeRanges EXCEPT ![i] =
                            MkRange(RangeEnd(allocated), @.length)]
             /\ owned' = owned \cup {allocated}
          /\ UNCHANGED status

(* allocate_range(length), length > 0 (a zero length only logs a warning   *)
(* and returns an empty range): first fit, or "out of ranges" and hang.   *)
AllocateRange(length) ==
    LET i == SelectInSeq(freeRanges, LAMBDA r : r.length >= length) IN
    /\ status = "ok"
    /\ \/ /\ i = 0
          /\ status' = "out_of_ranges"
          /\ UNCHANGED <<freeRanges, allocatedRanges, owned>>
       \/ /\ i # 0
          /\ LET allocated == MkRange(freeRanges[i].begin, length) IN
             /\ allocatedRanges' = Append(allocatedRanges, allocated)
             /\ freeRanges' =
                   IF freeRanges[i] = allocated THEN RemoveAt(freeRanges, i)
                   ELSE [freeRanges EXCEPT ![i] =
                            MkRange(RangeEnd(allocated), @.length - length)]
             /\ owned' = owned \cup {allocated}
          /\ UNCHANGED status

(* The search loop shared by both deallocate_range overloads: the index    *)
(* runs over 0 .. m_free_ranges.size()-1 but reads m_allocated_ranges;     *)
(* the first index whose allocated range passes Matches, or 0.  (Past the  *)
(* end of m_allocated_ranges the read is out of bounds; it can only be     *)
(* reached for a range that is not allocated, and is treated as no match.) *)
(* byBase selects the ptr_t overload, which compares begin() only.         *)
Matches(a, r, byBase) == IF byBase THEN a.begin = r.begin ELSE a = r

SearchAllocated(r, byBase) ==
    LET hits == {i \in 1..Len(freeRanges) :
                   i <= Len(allocatedRanges)
                   /\ Matches(allocatedRanges[i], r, byBase)}
    IN  IF hits = {} THEN 0 ELSE CHOOSE i \in hits : \A j \in hits : i <= j

(* Variant used to validate RangesPartition: the range is appended to the  *)
(* free array but not erased from the allocated one.                       *)
ReleaseKeepingAllocated(r, i) ==
    \/ /\ i = 0
       /\ status' = "not_found"
       /\ UNCHANGED <<freeRanges, allocatedRanges, owned>>
    \/ /\ i # 0
       /\ freeRanges' = Append(freeRanges, allocatedRanges[i])
       /\ owned' = owned \ {r}
       /\ UNCHANGED <<allocatedRanges, status>>

(* return_back_to_free_pool(index) for the found index i, and the caller   *)
(* giving up range r; or "wasn't found as allocated" and hang.             *)
Release(r, i) ==
    \/ /\ i = 0
       /\ status' = "not_found"
       /\ UNCHANGED <<freeRanges, allocatedRanges, owned>>
    \/ /\ i # 0
       /\ freeRanges' = Append(freeRanges, allocatedRanges[i])
       /\ allocatedRanges' = RemoveAt(allocatedRanges, i)
       /\ owned' = owned \ {r}
       /\ UNCHANGED status

(* deallocate_range(const Range&): the range must belong to the allocator *)
(* (else "doesn't belong to this allocator" and hang, a branch no range a  *)
(* caller owns can take), then the allocated range equal to it is found.   *)
DeallocateRange(r) ==
    /\ status = "ok"
    /\ ContainsRange(r)
    /\ Release(r, SearchAllocated(r, FALSE))

(* deallocate_range(ptr_t): the allocated range beginning at the address.  *)
DeallocateAddress(r) ==
    /\ status = "ok"
    /\ RangeContains(MkRange(Base, Size), r.begin)
    /\ Release(r, SearchAllocated(r, TRUE))

Next ==
    \/ \E length \in 1..MaxRequest : AllocateRange(length)
    \/ \E r \in owned : DeallocateRange(r) \/ DeallocateAddress(r)

(* hang() stops the core: after an error no step is possible.             *)
Spec == Init /\ [][Next]_vars

-----------------------------------------------------------------------------

(* Every unit of the managed range lies in exactly one free or allocated   *)
(* range, and the allocated array holds exactly the ranges callers own:   *)
(* first-fit splitting and returning ranges never lose or double-hand-out  *)
(* address space.                                                          *)
RangesPartition ==
    /\ \A a \in Units :
          Cardinality({i \in DOMAIN freeRanges : RangeContains(freeRanges[i], a)})
          + Cardinality({i \in DOMAIN allocatedRanges :
                           RangeContains(allocatedRanges[i], a)}) = 1
    /\ \A i \in DOMAIN freeRanges : freeRanges[i].length > 0
    /\ ToSet(allocatedRanges) = owned
    /\ Len(allocatedRanges) = Cardinality(owned)

(* n consecutive units of the managed range that no allocated range       *)
(* covers.                                                                 *)
FreeRun(n) ==
    \E a \in Base..(Base + Size - n) :
        \A u \in a..(a + n - 1), k \in DOMAIN allocatedRanges :
            ~RangeContains(allocatedRanges[k], u)

(* The allocator hangs the core only for a caller's mistake or for real    *)
(* exhaustion: releasing a range it handed out, and that was not released  *)
(* since, always finds it ("wasn't found as allocated" is for foreign or   *)
(* stale ranges), and "out of ranges" is reported only when no run of      *)
(* MaxRequest unallocated units is left, i.e. when no allocator keeping    *)
(* its free space in ranges could serve the request either.                *)
HangsOnlyWhenExhausted ==
    /\ status # "not_found"
    /\ status = "out_of_ranges" => ~FreeRun(MaxRequest)

=============================================================================
