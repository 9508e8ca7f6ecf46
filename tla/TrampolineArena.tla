---------------------------- MODULE TrampolineArena ----------------------------
(***************************************************************************)
(* TrampolineArena of payload/detour/trampoline_arena.cpp: executable      *)
(* memory for the trampolines, mapped in large pieces near the functions   *)
(* they belong to and handed out page by page.  Its mutex makes            *)
(* allocate_near() one step.  Addresses are natural numbers; a mapping     *)
(* ends below the top of the address space.                                *)
(***************************************************************************)
EXTENDS Integers, Sequences

CONSTANTS
    Targets,            \* functions to hook
    Lengths,            \* lengths asked for
    Reach,              \* kMaxRel32Distance
    PageSize,
    kSlotsPerMapping, kMaxMappings,
    MapBases            \* addresses mmap() may return

ASSUME ArenaAssumption ==
    /\ Targets \subseteq Nat \ {0} /\ Lengths \subseteq Nat /\ MapBases \subseteq Nat \ {0}
    /\ Reach \in Nat /\ PageSize \in Nat \ {0}
    /\ kSlotsPerMapping \in Nat \ {0} /\ kMaxMappings \in Nat

VARIABLES
    mappings,       \* mappings_, a sequence of [base, length, used]
    allocations     \* allocations_, a sequence of [begin, end]; and, as history,
                    \* the target each was asked for

arenaVars == <<mappings, allocations>>

MappingLength == PageSize * kSlotsPerMapping
kMaxAllocations == kMaxMappings * kSlotsPerMapping

within_rel32(a, b) == a - b <= Reach /\ b - a <= Reach
valid_mapping(base, target) ==
    within_rel32(base, target) /\ within_rel32(base + MappingLength - 1, target)
align_up(n) == ((n + PageSize - 1) \div PageSize) * PageSize

(* The one caller asks for ONION_X64_TRAMPOLINE_CAPACITY bytes, far less    *)
(* than a mapping; a fresh mapping is not checked to hold the slot.         *)
ASSUME LengthAssumption == \A n \in Lengths : align_up(n) <= MappingLength

ArenaInit == mappings = << >> /\ allocations = << >>
-----------------------------------------------------------------------------
(* What mmap() and the protection make of the 63 hints: any free place in   *)
(* reach, or none.                                                          *)
Free(base) ==
    \A i \in DOMAIN mappings :
        \/ base + MappingLength <= mappings[i].base
        \/ mappings[i].base + mappings[i].length <= base
Mapped(target) == {base \in MapBases : Free(base) /\ valid_mapping(base, target)}

(* A faulty search: the last address of the slot is not compared.           *)
Fits_BeginOnly(i, n, target) ==
    LET map == mappings[i]
    IN  n <= map.length - map.used /\ within_rel32(map.base + map.used, target)

(* The slot that would be cut from a mapping has room and is in reach.      *)
Fits(i, n, target) ==
    LET map == mappings[i]
        address == map.base + map.used
    IN  /\ within_rel32(map.base, target)
        /\ map.used <= map.length /\ n <= map.length - map.used
        /\ within_rel32(address, target) /\ within_rel32(address + n - 1, target)

Unique(address, n) ==
    \A k \in DOMAIN allocations :
        address >= allocations[k].end \/ address + n <= allocations[k].begin

record_unique(address, n, target) ==
    /\ Len(allocations) < kMaxAllocations
    /\ Unique(address, n)
    /\ allocations' = Append(allocations,
                             [begin |-> address, end |-> address + n, target |-> target])

(* The first mapping that fits, if there is one, gives the slot ...         *)
FirstFit(n, target) ==
    {i \in DOMAIN mappings : Fits(i, n, target) /\ \A k \in 1 .. i - 1 : ~Fits(k, n, target)}

Advance_Not(i, n) == UNCHANGED mappings
Advance(i, n) == mappings' = [mappings EXCEPT ![i].used = @ + n]

FromMapping(n, target, address) ==
    \E i \in FirstFit(n, target) :
        /\ address = mappings[i].base + mappings[i].used
        /\ record_unique(address, n, target)
        /\ Advance(i, n)

(* ... or else a new one, from its first page on.                           *)
FromNew(n, target, address) ==
    /\ FirstFit(n, target) = {}
    /\ Len(mappings) < kMaxMappings
    /\ address \in Mapped(target)
    /\ record_unique(address, n, target)
    /\ mappings' = Append(mappings, [base |-> address, length |-> MappingLength, used |-> n])

allocate_near(length, target, address) ==
    /\ length > 0
    /\ \/ FromMapping(align_up(length), target, address)
       \/ FromNew(align_up(length), target, address)

(* No slot: mmap() gave nothing in reach, or there are kMaxMappings.  That  *)
(* record_unique() refuses is a case no state reaches (NeverRefused).       *)
AllocateFails(length, target) ==
    /\ FirstFit(align_up(length), target) = {}
    /\ UNCHANGED arenaVars

Candidates ==
    {mappings[i].base + mappings[i].used : i \in DOMAIN mappings} \cup MapBases

owns(address) ==
    \E i \in DOMAIN mappings :
        address >= mappings[i].base /\ address < mappings[i].base + mappings[i].length

ArenaNext ==
    \E length \in Lengths, target \in Targets :
        \E address \in Candidates : allocate_near(length, target, address)

ArenaSpec == ArenaInit /\ [][ArenaNext]_arenaVars
-----------------------------------------------------------------------------
Slots == {allocations[k] : k \in DOMAIN allocations}
Promise == INSTANCE SlotAllocator WITH slots <- Slots

(* Every slot is handed out once, apart from all others, in reach of the    *)
(* function it was asked for, and kept for ever.                            *)
KeepsItsPromise == Promise!Spec

(* The overlap check of record_unique() is never what an allocation fails   *)
(* at: the bump pointer and the places of the mappings keep slots apart.    *)
NeverRefused ==
    \A length \in Lengths, target \in Targets :
        LET n == align_up(length)
        IN  length > 0 =>
            /\ \A i \in FirstFit(n, target) : Unique(mappings[i].base + mappings[i].used, n)
            /\ \A base \in Mapped(target) : Unique(base, n)
=============================================================================
