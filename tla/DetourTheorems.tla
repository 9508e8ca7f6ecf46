---------------------------- MODULE DetourTheorems ----------------------------
(***************************************************************************)
(* The arena keeps what it promises, for any targets, page size, reach and *)
(* number of mappings, and whatever the calls of InstallDetour() do; the   *)
(* relocator lays the stolen instructions out in order and within a slot;  *)
(* a call of a function runs every hook that was on it; and a thread is    *)
(* always at a place from which it does what the unhooked function would,  *)
(* through the copies of copies that hooks on top of hooks leave.          *)
(***************************************************************************)
EXTENDS Detour, SequenceTheorems, WellFoundedInduction, TLAPS

Mapping == [base : Nat \ {0}, length : Nat, used : Nat]
Allocation == [begin : Nat, end : Nat, target : Targets]

ArenaTypeOK == mappings \in Seq(Mapping) /\ allocations \in Seq(Allocation)

(* A mapping is as long as they all are, and used up to its length.         *)
WithinLength ==
    \A i \in DOMAIN mappings :
        mappings[i].length = MappingLength /\ mappings[i].used <= MappingLength

Apart ==
    \A i, j \in DOMAIN mappings :
        i # j => \/ mappings[i].base + MappingLength <= mappings[j].base
                 \/ mappings[j].base + MappingLength <= mappings[i].base

(* Every slot is in the used part of a mapping.                             *)
Cut(k, i) ==
    /\ mappings[i].base <= allocations[k].begin
    /\ allocations[k].end <= mappings[i].base + mappings[i].used
InUse == \A k \in DOMAIN allocations : \E i \in DOMAIN mappings : Cut(k, i)

ArenaInv == ArenaTypeOK /\ WithinLength /\ Apart /\ InUse

(* A slot is whole pages, at least one.                                     *)
LEMMA AlignUpPositive ==
    ASSUME NEW n \in Nat, n > 0 PROVE align_up(n) \in Nat /\ align_up(n) > 0
<1> DEFINE q == (n + PageSize - 1) \div PageSize
<1>1. PageSize \in Nat /\ PageSize > 0
    BY ArenaAssumption
<1>2. n + PageSize - 1 \in Nat /\ n + PageSize - 1 >= PageSize
    BY <1>1
<1>3. q \in Nat /\ q >= 1
    BY <1>1, <1>2, SMTT(30)
<1> HIDE DEF q
<1>4. q * PageSize \in Nat /\ q * PageSize > 0
    BY <1>1, <1>3, SMTT(30)
<1> QED BY <1>4 DEF align_up, q

LEMMA MappingLengthIsNat == MappingLength \in Nat
BY ArenaAssumption, SMT DEF MappingLength

(* The place behind what is used of a mapping is apart from every slot.     *)
LEMMA FitIsUnique ==
    ASSUME ArenaInv, NEW n \in Nat, NEW fn \in Targets,
           NEW i \in DOMAIN mappings, Fits(i, n, fn)
    PROVE  Unique(mappings[i].base + mappings[i].used, n)
<1> SUFFICES ASSUME NEW k \in DOMAIN allocations
             PROVE  \/ mappings[i].base + mappings[i].used >= allocations[k].end
                    \/ mappings[i].base + mappings[i].used + n <= allocations[k].begin
    BY DEF Unique
<1>1. PICK j \in DOMAIN mappings : Cut(k, j)
    BY DEF ArenaInv, InUse
<1>2. /\ mappings[i] \in Mapping /\ mappings[j] \in Mapping
      /\ allocations[k] \in Allocation
    BY DEF ArenaInv, ArenaTypeOK
<1>3. /\ mappings[i].length = MappingLength /\ mappings[i].used <= MappingLength
      /\ mappings[j].used <= MappingLength
    BY DEF ArenaInv, WithinLength
<1>4. n <= mappings[i].length - mappings[i].used
    BY DEF Fits
<1>5. CASE i = j
    BY <1>1, <1>2, <1>5 DEF Cut, Mapping, Allocation
<1>6. CASE i # j
    <2>1. \/ mappings[i].base + MappingLength <= mappings[j].base
          \/ mappings[j].base + MappingLength <= mappings[i].base
        BY <1>6 DEF ArenaInv, Apart
    <2> QED BY <2>1, <1>1, <1>2, <1>3, <1>4, MappingLengthIsNat DEF Cut, Mapping, Allocation
<1> QED BY <1>5, <1>6

(* A free place is apart from every slot.                                   *)
LEMMA FreeIsUnique ==
    ASSUME ArenaInv, NEW n \in Nat, n <= MappingLength, NEW base \in MapBases, Free(base)
    PROVE  Unique(base, n)
<1> SUFFICES ASSUME NEW k \in DOMAIN allocations
             PROVE  base >= allocations[k].end \/ base + n <= allocations[k].begin
    BY DEF Unique
<1>1. PICK j \in DOMAIN mappings : Cut(k, j)
    BY DEF ArenaInv, InUse
<1>2. mappings[j] \in Mapping /\ allocations[k] \in Allocation /\ base \in Nat
    BY ArenaAssumption DEF ArenaInv, ArenaTypeOK
<1>3. mappings[j].length = MappingLength /\ mappings[j].used <= MappingLength
    BY DEF ArenaInv, WithinLength
<1>4. \/ base + MappingLength <= mappings[j].base
      \/ mappings[j].base + mappings[j].length <= base
    BY DEF Free
<1> QED BY <1>1, <1>2, <1>3, <1>4, MappingLengthIsNat DEF Cut, Mapping, Allocation

(* The overlap check of record_unique() refuses nothing.                    *)
LEMMA InvNeverRefused == ArenaInv => NeverRefused
<1> SUFFICES ASSUME ArenaInv, NEW length \in Lengths, length > 0, NEW fn \in Targets
             PROVE  /\ \A i \in FirstFit(align_up(length), fn) :
                          Unique(mappings[i].base + mappings[i].used, align_up(length))
                    /\ \A base \in Mapped(fn) : Unique(base, align_up(length))
    BY DEF NeverRefused
<1>1. align_up(length) \in Nat /\ align_up(length) <= MappingLength
    BY AlignUpPositive, ArenaAssumption, LengthAssumption
<1>2. \A i \in FirstFit(align_up(length), fn) :
         Unique(mappings[i].base + mappings[i].used, align_up(length))
    BY <1>1, FitIsUnique DEF FirstFit
<1>3. \A base \in Mapped(fn) : Unique(base, align_up(length))
    BY <1>1, FreeIsUnique DEF Mapped
<1> QED BY <1>2, <1>3
-----------------------------------------------------------------------------
LEMMA ArenaInitInv == ArenaInit => ArenaInv
BY DEF ArenaInit, ArenaInv, ArenaTypeOK, WithinLength, Apart, InUse

(* A slot cut from a mapping that has room.                                 *)
LEMMA FromMappingInv ==
    ASSUME ArenaInv, NEW n \in Nat, n > 0, NEW fn \in Targets, NEW address \in Nat,
           FromMapping(n, fn, address)
    PROVE  ArenaInv'
<1>1. PICK i \in FirstFit(n, fn) :
          /\ address = mappings[i].base + mappings[i].used
          /\ record_unique(address, n, fn)
          /\ Advance(i, n)
    BY DEF FromMapping
<1> DEFINE new == [begin |-> address, end |-> address + n, target |-> fn]
<1>2. /\ i \in DOMAIN mappings /\ n <= mappings[i].length - mappings[i].used
      /\ mappings' = [mappings EXCEPT ![i].used = @ + n]
      /\ allocations' = Append(allocations, new)
    BY <1>1 DEF FirstFit, Fits, Advance, record_unique
<1>3. /\ mappings \in Seq(Mapping) /\ allocations \in Seq(Allocation)
      /\ mappings[i] \in Mapping
    BY <1>2 DEF ArenaInv, ArenaTypeOK
<1>4. \A k \in DOMAIN mappings :
          /\ mappings'[k].base = mappings[k].base
          /\ mappings'[k].length = mappings[k].length
          /\ mappings'[k].used = IF k = i THEN mappings[k].used + n ELSE mappings[k].used
    BY <1>2, <1>3 DEF Mapping
<1>5. DOMAIN mappings' = DOMAIN mappings /\ mappings' \in Seq(Mapping)
    <2> DEFINE longer == [mappings[i] EXCEPT !.used = @ + n]
    <2>1. mappings' = [mappings EXCEPT ![i] = longer]
        BY <1>2
    <2>2. longer \in Mapping
        <3>1. mappings[i].used + n \in Nat
            BY <1>3 DEF Mapping
        <3> QED BY <1>3, <3>1 DEF Mapping
    <2> HIDE DEF longer
    <2>3. i \in 1 .. Len(mappings)
        BY <1>2, <1>3
    <2> QED BY <1>3, <2>1, <2>2, <2>3, ExceptSeq
<1>6. new \in Allocation
    BY <1>2 DEF Allocation
<1>7. ArenaTypeOK'
    BY <1>2, <1>3, <1>5, <1>6 DEF ArenaTypeOK
<1>8. WithinLength'
    <2> SUFFICES ASSUME NEW k \in DOMAIN mappings
                 PROVE  mappings'[k].length = MappingLength /\ mappings'[k].used <= MappingLength
        BY <1>5 DEF WithinLength, MappingLength
    <2>1. mappings[k] \in Mapping
        BY <1>3
    <2>2. mappings[k].length = MappingLength /\ mappings[k].used <= MappingLength
        BY DEF ArenaInv, WithinLength
    <2> QED BY <1>2, <1>3, <1>4, <2>1, <2>2, MappingLengthIsNat DEF Mapping
<1>9. Apart'
    BY <1>4, <1>5 DEF ArenaInv, Apart, MappingLength
<1>10. InUse'
    <2> SUFFICES ASSUME NEW k \in DOMAIN allocations'
                 PROVE  \E j \in DOMAIN mappings : Cut(k, j)'
        BY <1>5 DEF InUse
    <2>1. CASE k \in DOMAIN allocations
        <3>1. PICK j \in DOMAIN mappings : Cut(k, j)
            BY <2>1 DEF ArenaInv, InUse
        <3>2. allocations'[k] = allocations[k]
            BY <1>2, <1>3, <2>1
        <3>3. mappings[j] \in Mapping /\ allocations[k] \in Allocation
            BY <1>3, <2>1
        <3> QED BY <1>4, <3>1, <3>2, <3>3 DEF Cut, Mapping, Allocation
    <2>2. CASE k \notin DOMAIN allocations
        <3>1. allocations'[k] = new
            BY <1>2, <1>3, <2>2
        <3>2. /\ mappings'[i].base = mappings[i].base
              /\ mappings'[i].used = mappings[i].used + n
            BY <1>2, <1>4
        <3>3. /\ allocations'[k].begin = mappings[i].base + mappings[i].used
              /\ allocations'[k].end = mappings[i].base + mappings[i].used + n
            BY <1>1, <3>1
        <3>4. mappings[i].base \in Nat /\ mappings[i].used \in Nat
            BY <1>3 DEF Mapping
        <3>5. Cut(k, i)'
            <4> DEFINE b == mappings[i].base
                       u == mappings[i].used
            <4>1. b \in Nat /\ u \in Nat /\ b <= b + u /\ b + u + n <= b + (u + n)
                BY <3>4
            <4> QED BY <3>2, <3>3, <4>1 DEF Cut
        <3> QED BY <1>2, <3>5
    <2> QED BY <2>1, <2>2
<1> QED BY <1>7, <1>8, <1>9, <1>10 DEF ArenaInv

(* A slot at the begin of a new mapping.                                    *)
LEMMA FromNewInv ==
    ASSUME ArenaInv, NEW n \in Nat, n > 0, n <= MappingLength, NEW fn \in Targets,
           NEW address \in Nat, FromNew(n, fn, address)
    PROVE  ArenaInv'
<1> DEFINE new == [begin |-> address, end |-> address + n, target |-> fn]
           fresh == [base |-> address, length |-> MappingLength, used |-> n]
<1>1. /\ mappings' = Append(mappings, fresh) /\ allocations' = Append(allocations, new)
      /\ address \in MapBases /\ Free(address)
    BY DEF FromNew, record_unique, Mapped
<1>2. mappings \in Seq(Mapping) /\ allocations \in Seq(Allocation)
    BY DEF ArenaInv, ArenaTypeOK
<1>3. new \in Allocation /\ fresh \in Mapping
    BY <1>1, ArenaAssumption, MappingLengthIsNat DEF Allocation, Mapping
<1> HIDE DEF new, fresh
<1>4. /\ DOMAIN mappings' = DOMAIN mappings \cup {Len(mappings) + 1}
      /\ mappings'[Len(mappings) + 1] = fresh
      /\ \A i \in DOMAIN mappings : mappings'[i] = mappings[i]
      /\ Len(mappings) + 1 \notin DOMAIN mappings
    BY <1>1, <1>2
<1>5. /\ DOMAIN allocations' = DOMAIN allocations \cup {Len(allocations) + 1}
      /\ allocations'[Len(allocations) + 1] = new
      /\ \A k \in DOMAIN allocations : allocations'[k] = allocations[k]
    BY <1>1, <1>2
<1>6. ArenaTypeOK'
    BY <1>1, <1>2, <1>3 DEF ArenaTypeOK
<1>7. WithinLength'
    BY <1>4 DEF ArenaInv, WithinLength, MappingLength, fresh
<1>8. Apart'
    <2>1. \A i \in DOMAIN mappings :
              \/ fresh.base + MappingLength <= mappings[i].base
              \/ mappings[i].base + MappingLength <= fresh.base
        BY <1>1 DEF Free, ArenaInv, WithinLength, fresh
    <2> QED BY <1>4, <2>1 DEF ArenaInv, Apart, MappingLength
<1>9. InUse'
    <2>1. ASSUME NEW k \in DOMAIN allocations PROVE \E i \in DOMAIN mappings' : Cut(k, i)'
        <3>1. PICK i \in DOMAIN mappings : Cut(k, i)
            BY DEF ArenaInv, InUse
        <3> QED BY <1>4, <1>5, <3>1 DEF Cut
    <2>2. ASSUME NEW k, NEW i, k = Len(allocations) + 1, i = Len(mappings) + 1
          PROVE  Cut(k, i)'
        BY <1>4, <1>5, <2>2 DEF Cut, new, fresh
    <2> QED BY <1>4, <1>5, <2>1, <2>2 DEF InUse
<1> QED BY <1>6, <1>7, <1>8, <1>9 DEF ArenaInv

LEMMA ArenaNextInv == ArenaInv /\ [ArenaNext]_arenaVars => ArenaInv'
<1> SUFFICES ASSUME ArenaInv, [ArenaNext]_arenaVars PROVE ArenaInv'
    OBVIOUS
<1>1. CASE UNCHANGED arenaVars
    BY <1>1 DEF arenaVars, ArenaInv, ArenaTypeOK, WithinLength, Apart, InUse, Cut, MappingLength
<1>2. CASE ArenaNext
    <2>1. PICK length \in Lengths, fn \in Targets, address \in Candidates :
              allocate_near(length, fn, address)
        BY <1>2 DEF ArenaNext
    <2>2. length > 0 /\ length \in Nat
        BY <2>1, ArenaAssumption DEF allocate_near
    <2>3. /\ align_up(length) \in Nat /\ align_up(length) > 0
          /\ align_up(length) <= MappingLength
        BY <2>2, AlignUpPositive, LengthAssumption
    <2>4. address \in Nat
        <3>1. \A i \in DOMAIN mappings : mappings[i] \in Mapping
            BY DEF ArenaInv, ArenaTypeOK
        <3>2. \A i \in DOMAIN mappings : mappings[i].base + mappings[i].used \in Nat
            BY <3>1 DEF Mapping
        <3> QED BY <3>2, ArenaAssumption DEF Candidates
    <2> QED BY <2>1, <2>3, <2>4, FromMappingInv, FromNewInv DEF allocate_near
<1> QED BY <1>1, <1>2
-----------------------------------------------------------------------------
(* A slot that was recorded is one the abstract allocator may hand out.     *)
LEMMA RecordHandsOut ==
    ASSUME ArenaInv, NEW n \in Nat, n > 0, NEW fn \in Targets, NEW address \in Nat,
           record_unique(address, n, fn),
           within_rel32(address, fn), within_rel32(address + n - 1, fn)
    PROVE  Promise!Next
<1> DEFINE new == [begin |-> address, end |-> address + n, target |-> fn]
<1>1. allocations' = Append(allocations, new) /\ allocations \in Seq(Allocation)
    BY DEF record_unique, ArenaInv, ArenaTypeOK
<1>2. new \in [begin : Nat, end : Nat, target : Targets] /\ new.begin < new.end
    OBVIOUS
<1>3. \A t \in Slots : Promise!Disjoint(new, t)
    <2> SUFFICES ASSUME NEW k \in DOMAIN allocations
                 PROVE  Promise!Disjoint(new, allocations[k])
        BY DEF Slots
    <2>1. address >= allocations[k].end \/ address + n <= allocations[k].begin
        BY DEF record_unique, Unique
    <2>2. allocations[k] \in Allocation
        BY DEF ArenaInv, ArenaTypeOK
    <2> QED BY <2>1, <2>2 DEF Promise!Disjoint, Allocation
<1>4. Promise!Near(new.begin, new.target) /\ Promise!Near(new.end - 1, new.target)
    BY DEF within_rel32, Promise!Near
<1> HIDE DEF new
<1>5. Slots' = Slots \cup {new}
    <2>1. /\ DOMAIN allocations' = DOMAIN allocations \cup {Len(allocations) + 1}
          /\ allocations'[Len(allocations) + 1] = new
          /\ \A k \in DOMAIN allocations : allocations'[k] = allocations[k]
        BY <1>1
    <2> QED BY <2>1 DEF Slots
<1>6. Promise!HandOut(new)
    BY <1>2, <1>3, <1>4, <1>5 DEF Promise!HandOut
<1> QED BY <1>5, <1>6 DEF Promise!Next

LEMMA ArenaNextHandsOut ==
    ArenaInv /\ [ArenaNext]_arenaVars => [Promise!Next]_Slots
<1> SUFFICES ASSUME ArenaInv, [ArenaNext]_arenaVars PROVE [Promise!Next]_Slots
    OBVIOUS
<1>1. CASE UNCHANGED arenaVars
    BY <1>1 DEF arenaVars, Slots
<1>2. CASE ArenaNext
    <2>1. PICK length \in Lengths, fn \in Targets, address \in Candidates :
              allocate_near(length, fn, address)
        BY <1>2 DEF ArenaNext
    <2> DEFINE n == align_up(length)
    <2>2. n \in Nat /\ n > 0 /\ n <= MappingLength
        BY <2>1, ArenaAssumption, AlignUpPositive, LengthAssumption DEF allocate_near
    <2>3. fn \in Nat /\ Reach \in Nat
        BY ArenaAssumption
    <2>4. CASE FromMapping(n, fn, address)
        <3>1. PICK i \in FirstFit(n, fn) :
                  /\ address = mappings[i].base + mappings[i].used
                  /\ record_unique(address, n, fn)
            BY <2>4 DEF FromMapping
        <3>2. Fits(i, n, fn) /\ mappings[i] \in Mapping
            BY DEF FirstFit, ArenaInv, ArenaTypeOK
        <3>3. address \in Nat
            BY <3>1, <3>2 DEF Mapping
        <3>4. within_rel32(address, fn) /\ within_rel32(address + n - 1, fn)
            BY <3>1, <3>2 DEF Fits
        <3> QED BY <2>2, <3>1, <3>3, <3>4, RecordHandsOut
    <2>5. CASE FromNew(n, fn, address)
        <3>1. /\ record_unique(address, n, fn) /\ address \in Nat
              /\ valid_mapping(address, fn)
            BY <2>5, ArenaAssumption DEF FromNew, Mapped
        <3>2. within_rel32(address, fn) /\ within_rel32(address + n - 1, fn)
            BY <2>2, <2>3, <3>1, MappingLengthIsNat DEF valid_mapping, within_rel32
        <3> QED BY <2>2, <3>1, <3>2, RecordHandsOut
    <2> QED BY <2>1, <2>4, <2>5 DEF allocate_near
<1> QED BY <1>1, <1>2

(* Whatever the installers and the thread do, the arena sees calls of       *)
(* allocate_near() for a function, or nothing.                              *)
LEMMA DetourNextIsArenaNext == [DetourNext]_detourVars => [ArenaNext]_arenaVars
<1> SUFFICES ASSUME [DetourNext]_detourVars PROVE [ArenaNext]_arenaVars
    OBVIOUS
<1>1. CASE UNCHANGED detourVars
    BY <1>1 DEF detourVars
<1>2. CASE ThreadStep
    BY <1>2 DEF ThreadStep, Call, Jumps, Hooked, Returns, Executes, Leaves, Thread
<1>3. ASSUME NEW h \in Hook, Installs(h) PROVE [ArenaNext]_arenaVars
    <2>1. ASSUME NEW t \in Targets, Allocate(h, t) PROVE ArenaNext
        <3>1. PICK address \in Candidates :
                  allocate_near(ONION_X64_TRAMPOLINE_CAPACITY, t, address)
            BY <2>1 DEF Allocate
        <3> QED BY <3>1, DetourAssumption DEF ArenaNext
    <2>2. CASE \E t \in Targets : NoSlot(h, t)
        BY <2>2 DEF NoSlot, OnlyPc
    <2>3. CASE Protect(h)
        BY <2>3 DEF Protect, OnlyPc
    <2>4. CASE Decode(h)
        BY <2>4 DEF Decode
    <2>5. CASE Relocate(h)
        BY <2>5 DEF Relocate, OnlyPc
    <2>6. CASE BuildPatch(h)
        BY <2>6 DEF BuildPatch
    <2>7. CASE Publish(h)
        BY <2>7 DEF Publish
    <2>8. CASE Commit(h)
        BY <2>8 DEF Commit
    <2>9. CASE CommitFails(h)
        BY <2>9 DEF CommitFails
    <2>10. CASE Retry(h)
        BY <2>10 DEF Retry, OnlyPc
    <2> QED BY <1>3, <2>1, <2>2, <2>3, <2>4, <2>5, <2>6, <2>7, <2>8, <2>9, <2>10 DEF Installs
<1> QED BY <1>1, <1>2, <1>3 DEF DetourNext

(* The arena alone, under calls in any order, is the abstract allocator.    *)
THEOREM ArenaRefines == ArenaSpec => KeepsItsPromise
<1>1. ArenaInit => Promise!Init
    BY DEF ArenaInit, Promise!Init, Slots
<1> QED BY <1>1, ArenaInitInv, ArenaNextInv, ArenaNextHandsOut, PTL
        DEF ArenaSpec, KeepsItsPromise, Promise!Spec

THEOREM DetourIsArena == DetourSpec => ArenaSpec
BY DetourNextIsArenaNext, PTL DEF DetourSpec, DetourInit, ArenaSpec

(* Every trampoline has a slot of its own, in reach of its function, for    *)
(* good: with any number of installations at once.                          *)
THEOREM DetourKeepsPromise == DetourSpec => KeepsItsPromise
BY DetourIsArena, ArenaRefines

(* An allocation fails for want of memory, never at the overlap check.      *)
THEOREM DetourNeverRefused == DetourSpec => []NeverRefused
<1>1. ArenaSpec => []NeverRefused
    BY ArenaInitInv, ArenaNextInv, InvNeverRefused, PTL DEF ArenaSpec
<1> QED BY <1>1, DetourIsArena

-----------------------------------------------------------------------------
(* Induction over the numbers as a fact about sets of numbers, and sums     *)
(* over the first elements of a sequence.                                   *)
LEMMA LeastElement ==
    ASSUME NEW T \in SUBSET Nat, T # {} PROVE \E n \in T : \A m \in T : n <= m
<1> DEFINE R == {ss \in Nat \X Nat : ss[1] < ss[2]}
<1>1. IsWellFoundedOn(R, Nat)
    BY NatLessThanWellFounded DEF OpToRel
<1>2. PICK n \in T : \A m \in T : <<m, n>> \notin R
    <2>1. T \subseteq Nat
        OBVIOUS
    <2> HIDE DEF R
    <2>2. \E n \in T : \A m \in T : ~ (<<m, n>> \in R)
        BY <1>1, <2>1, WFMin
    <2> QED BY <2>2
<1>3. \A m \in T : ~(m < n)
    <2> SUFFICES ASSUME NEW m \in T, m < n PROVE FALSE
        OBVIOUS
    <2>1. <<m, n>> \in Nat \X Nat /\ <<m, n>>[1] < <<m, n>>[2]
        OBVIOUS
    <2>2. <<m, n>> \in R
        BY <2>1
    <2> QED BY <1>2, <2>2
<1> QED BY <1>3

LEMMA NatSetInduction ==
    ASSUME NEW T, 0 \in T, \A n \in Nat : n \in T => n + 1 \in T
    PROVE  \A n \in Nat : n \in T
<1> SUFFICES ASSUME Nat \ T # {} PROVE FALSE
    OBVIOUS
<1>1. PICK n \in Nat \ T : \A m \in Nat \ T : n <= m
    BY LeastElement
<1>2. n # 0 /\ n - 1 \in Nat /\ ~(n <= n - 1)
    OBVIOUS
<1>3. n - 1 \in T
    BY <1>1, <1>2
<1> QED BY <1>1, <1>2, <1>3

(* The sums of the first k sizes, for every k up to m.                      *)
Partial(g, size, m) ==
    g = [k \in 0 .. m |-> IF k = 0 THEN 0 ELSE g[k - 1] + size[k]]

LEMMA PartialExists ==
    ASSUME NEW m \in Nat, NEW size PROVE \E g : Partial(g, size, m)
<1> DEFINE N == {n \in Nat : \E g : Partial(g, size, n)}
<1>1. 0 \in N
    <2>1. PICK g : g = [k \in 0 .. 0 |-> 0]
        OBVIOUS
    <2>2. Partial(g, size, 0)
        BY <2>1 DEF Partial
    <2> QED BY <2>2
<1>2. ASSUME NEW n \in Nat, n \in N PROVE n + 1 \in N
    <2>1. PICK g : Partial(g, size, n)
        BY <1>2
    <2>2. PICK f : f = [k \in 0 .. n + 1 |-> IF k = 0 THEN 0 ELSE g[k - 1] + size[k]]
        OBVIOUS
    <2>3. \A k \in 0 .. n : f[k] = g[k]
        BY <2>1, <2>2 DEF Partial
    <2>4. \A k \in 0 .. n + 1 : k # 0 => f[k - 1] = g[k - 1]
        BY <2>3
    <2>5. f = [k \in 0 .. n + 1 |-> IF k = 0 THEN 0 ELSE f[k - 1] + size[k]]
        BY <2>2, <2>4
    <2>6. Partial(f, size, n + 1)
        BY <2>5 DEF Partial
    <2> QED BY <2>6
<1> HIDE DEF N
<1>3. m \in N
    BY <1>1, <1>2, NatSetInduction
<1> QED BY <1>3 DEF N

(* They are the same whatever the number of sizes they are taken of.        *)
Longer(g, m, f, n) ==
    /\ n <= m
    /\ \E size, other : /\ Partial(g, size, m) /\ Partial(f, other, n)
                        /\ \A k \in 1 .. n : size[k] = other[k]

LEMMA PartialUnique ==
    ASSUME NEW m \in Nat, NEW n \in Nat, NEW g, NEW f, Longer(g, m, f, n)
    PROVE  \A k \in 0 .. n : f[k] = g[k]
<1>0. PICK size, other : /\ Partial(g, size, m) /\ Partial(f, other, n)
                         /\ \A k \in 1 .. n : size[k] = other[k]
    BY DEF Longer
<1> DEFINE N == {k \in Nat : k <= n => f[k] = g[k]}
<1>1. 0 \in N
    BY <1>0 DEF Partial
<1>2. ASSUME NEW k \in Nat, k \in N PROVE k + 1 \in N
    <2> SUFFICES ASSUME k + 1 <= n PROVE f[k + 1] = g[k + 1]
        OBVIOUS
    <2>1. f[k] = g[k]
        BY <1>2
    <2>2. k + 1 \in 1 .. n /\ k + 1 \in 0 .. m /\ (k + 1) - 1 = k /\ k + 1 # 0
        BY DEF Longer
    <2>3. f[k + 1] = f[k] + other[k + 1] /\ g[k + 1] = g[k] + size[k + 1]
        BY <1>0, <2>2 DEF Partial
    <2> QED BY <1>0, <2>1, <2>2, <2>3
<1> HIDE DEF N
<1>3. \A k \in Nat : k \in N
    BY <1>1, <1>2, NatSetInduction
<1> QED BY <1>3 DEF N

LEMMA PartialGrows ==
    ASSUME NEW m \in Nat, NEW size, \A k \in 1 .. m : size[k] \in Nat \ {0},
           NEW g, Partial(g, size, m)
    PROVE  /\ g[0] = 0
           /\ \A k \in 0 .. m : g[k] \in Nat
           /\ \A k \in 1 .. m : g[k] = g[k - 1] + size[k]
           /\ \A i, j \in 0 .. m : i < j => g[i] < g[j]
<1>1. g[0] = 0 /\ \A k \in 1 .. m : g[k] = g[k - 1] + size[k]
    BY DEF Partial
<1> DEFINE N == {n \in Nat : n <= m => \A i \in 0 .. n : g[i] \in Nat /\ (i < n => g[i] < g[n])}
<1>2. 0 \in N
    BY <1>1
<1>3. ASSUME NEW n \in Nat, n \in N PROVE n + 1 \in N
    <2> SUFFICES ASSUME n + 1 <= m
                 PROVE  \A i \in 0 .. n + 1 : g[i] \in Nat /\ (i < n + 1 => g[i] < g[n + 1])
        OBVIOUS
    <2>1. /\ g[n] \in Nat
          /\ \A i \in 0 .. n : g[i] \in Nat /\ (i < n => g[i] < g[n])
        BY <1>3
    <2>2. g[n + 1] = g[n] + size[n + 1] /\ size[n + 1] \in Nat \ {0}
        <3>1. n + 1 \in 1 .. m /\ (n + 1) - 1 = n
            OBVIOUS
        <3> QED BY <1>1, <3>1
    <2>3. \A i \in 0 .. n : g[i] < g[n + 1]
        <3>1. g[n] < g[n + 1] /\ g[n + 1] \in Nat
            BY <2>1, <2>2
        <3> SUFFICES ASSUME NEW i \in 0 .. n PROVE g[i] < g[n + 1]
            OBVIOUS
        <3>2. CASE i = n
            BY <3>1, <3>2
        <3>3. CASE i < n
            <4>1. g[i] < g[n] /\ g[i] \in Nat
                BY <2>1, <3>3
            <4> QED BY <2>1, <3>1, <4>1
        <3> QED BY <3>2, <3>3
    <2>4. \A i \in 0 .. n + 1 : i = n + 1 \/ i \in 0 .. n
        OBVIOUS
    <2>5. g[n + 1] \in Nat
        BY <2>1, <2>2
    <2> QED BY <2>1, <2>3, <2>4, <2>5
<1> HIDE DEF N
<1>4. \A n \in Nat : n \in N
    BY <1>2, <1>3, NatSetInduction
<1>5. \A n \in 0 .. m : n \in N
    BY <1>4
<1> QED BY <1>1, <1>5 DEF N

-----------------------------------------------------------------------------
(* The layout of the stolen instructions, and of their copies.              *)
LEMMA SourceOffsetIs ==
    ASSUME NEW prog, NEW m \in Nat, NEW g, Partial(g, [k \in 1 .. m |-> prog[k].len], m),
           NEW i \in 1 .. m + 1
    PROVE  SourceOffset(prog, i) = g[i - 1]
<1> DEFINE lens == [k \in 1 .. i - 1 |-> prog[k].len]
           Is(f) == f = [k \in 0 .. i - 1 |-> IF k = 0 THEN 0 ELSE f[k - 1] + prog[k].len]
           sum == CHOOSE f : Is(f)
<1>1. \E f : Is(f)
    <2>1. i - 1 \in Nat
        OBVIOUS
    <2>2. PICK f : Partial(f, lens, i - 1)
        <3> HIDE DEF lens
        <3> QED BY <2>1, PartialExists
    <2>3. f = [k \in 0 .. i - 1 |-> IF k = 0 THEN 0 ELSE f[k - 1] + lens[k]]
        BY <2>2 DEF Partial
    <2>4. Is(f)
        <3>1. \A k \in 0 .. i - 1 : k # 0 => k \in 1 .. i - 1
            OBVIOUS
        <3> QED BY <2>3, <3>1
    <2> QED BY <2>4
<1>2. Is(sum)
    BY <1>1
<1>3. SourceOffset(prog, i) = sum[i - 1]
    BY DEF SourceOffset
<1> HIDE DEF sum
<1>4. Partial(sum, lens, i - 1)
    BY <1>2 DEF Partial
<1>5. \A k \in 0 .. i - 1 : sum[k] = g[k]
    <2>1. i - 1 \in Nat /\ i - 1 <= m
        OBVIOUS
    <2>2. \A k \in 1 .. i - 1 : [j \in 1 .. m |-> prog[j].len][k] = lens[k]
        OBVIOUS
    <2> DEFINE all == [j \in 1 .. m |-> prog[j].len]
    <2>3. Partial(g, all, m) /\ \A k \in 1 .. i - 1 : all[k] = lens[k]
        BY <2>2
    <2>4. PICK j : j = i - 1
        OBVIOUS
    <2> HIDE DEF lens, all
    <2>5. /\ j \in Nat /\ j <= m /\ Partial(sum, lens, j)
          /\ \A k \in 1 .. j : all[k] = lens[k]
        BY <1>4, <2>1, <2>3, <2>4
    <2>6. Longer(g, m, sum, j)
        BY <2>3, <2>5 DEF Longer
    <2>7. \A k \in 0 .. j : sum[k] = g[k]
        BY <2>5, <2>6, PartialUnique
    <2> QED BY <2>4, <2>7
<1> QED BY <1>3, <1>5

LEMMA DestinationOffsetIs ==
    ASSUME NEW prog, NEW m \in Nat, NEW g,
           Partial(g, [k \in 1 .. m |-> DestinationSize(prog[k])], m), NEW i \in 1 .. m + 1
    PROVE  DestinationOffset(prog, i) = g[i - 1]
<1> DEFINE lens == [k \in 1 .. i - 1 |-> DestinationSize(prog[k])]
           Is(f) == f = [k \in 0 .. i - 1 |->
                            IF k = 0 THEN 0 ELSE f[k - 1] + DestinationSize(prog[k])]
           sum == CHOOSE f : Is(f)
<1>1. \E f : Is(f)
    <2>1. i - 1 \in Nat
        OBVIOUS
    <2>2. PICK f : Partial(f, lens, i - 1)
        <3> HIDE DEF lens
        <3> QED BY <2>1, PartialExists
    <2>3. f = [k \in 0 .. i - 1 |-> IF k = 0 THEN 0 ELSE f[k - 1] + lens[k]]
        BY <2>2 DEF Partial
    <2>4. Is(f)
        <3>1. \A k \in 0 .. i - 1 : k # 0 => k \in 1 .. i - 1
            OBVIOUS
        <3> QED BY <2>3, <3>1
    <2> QED BY <2>4
<1>2. Is(sum)
    BY <1>1
<1>3. DestinationOffset(prog, i) = sum[i - 1]
    BY DEF DestinationOffset
<1> HIDE DEF sum
<1>4. Partial(sum, lens, i - 1)
    BY <1>2 DEF Partial
<1>5. \A k \in 0 .. i - 1 : sum[k] = g[k]
    <2>1. i - 1 \in Nat /\ i - 1 <= m
        OBVIOUS
    <2>2. \A k \in 1 .. i - 1 : [j \in 1 .. m |-> DestinationSize(prog[j])][k] = lens[k]
        OBVIOUS
    <2> DEFINE all == [j \in 1 .. m |-> DestinationSize(prog[j])]
    <2>3. Partial(g, all, m) /\ \A k \in 1 .. i - 1 : all[k] = lens[k]
        BY <2>2
    <2>4. PICK j : j = i - 1
        OBVIOUS
    <2> HIDE DEF lens, all
    <2>5. /\ j \in Nat /\ j <= m /\ Partial(sum, lens, j)
          /\ \A k \in 1 .. j : all[k] = lens[k]
        BY <1>4, <2>1, <2>3, <2>4
    <2>6. Longer(g, m, sum, j)
        BY <2>3, <2>5 DEF Longer
    <2>7. \A k \in 0 .. j : sum[k] = g[k]
        BY <2>5, <2>6, PartialUnique
    <2> QED BY <2>4, <2>7
<1> QED BY <1>3, <1>5

LEMMA CodeIsSeq ==
    ASSUME NEW prog, IsCode(prog)
    PROVE  /\ Len(prog) \in Nat \ {0} /\ DOMAIN prog = 1 .. Len(prog)
           /\ \A i \in 1 .. Len(prog) :
                 prog[i].len \in Nat \ {0} /\ DestinationSize(prog[i]) \in Nat \ {0}
<1>1. prog \in Seq({prog[i] : i \in DOMAIN prog}) /\ prog # << >>
    BY DEF IsCode
<1>2. Len(prog) \in Nat \ {0} /\ DOMAIN prog = 1 .. Len(prog)
    BY <1>1
<1>3. \A i \in 1 .. Len(prog) : prog[i].len \in Nat \ {0}
    BY <1>2 DEF IsCode, Instruction
<1> QED BY <1>2, <1>3 DEF DestinationSize, kAbsoluteCallSize, kAbsoluteJumpSize,
                          kConditionalJumpSize

(* Each instruction, and its copy, is behind the one before.                *)
Ordered(prog) ==
    LET n == Len(prog)
    IN  /\ SourceOffset(prog, 1) = 0 /\ DestinationOffset(prog, 1) = 0
        /\ \A i \in 1 .. n + 1 :
              SourceOffset(prog, i) \in Nat /\ DestinationOffset(prog, i) \in Nat
        /\ \A i \in 1 .. n :
              /\ SourceOffset(prog, i + 1) = SourceOffset(prog, i) + prog[i].len
              /\ DestinationOffset(prog, i + 1)
                    = DestinationOffset(prog, i) + DestinationSize(prog[i])
        /\ \A i, j \in 1 .. n + 1 : i < j =>
              /\ SourceOffset(prog, i) < SourceOffset(prog, j)
              /\ DestinationOffset(prog, i) < DestinationOffset(prog, j)

LEMMA CodeIsOrdered ==
    ASSUME NEW prog, IsCode(prog) PROVE Ordered(prog)
<1> DEFINE n == Len(prog)
           lens == [k \in 1 .. n |-> prog[k].len]
           sizes == [k \in 1 .. n |-> DestinationSize(prog[k])]
<1>1. n \in Nat \ {0}
    BY CodeIsSeq
<1>2. PICK g : Partial(g, lens, n)
    BY <1>1, PartialExists
<1>3. PICK d : Partial(d, sizes, n)
    BY <1>1, PartialExists
<1>4. \A i \in 1 .. n + 1 : SourceOffset(prog, i) = g[i - 1] /\ DestinationOffset(prog, i) = d[i - 1]
    <2> HIDE DEF n
    <2>1. \A i \in 1 .. n + 1 : SourceOffset(prog, i) = g[i - 1]
        BY <1>1, <1>2, SourceOffsetIs
    <2>2. \A i \in 1 .. n + 1 : DestinationOffset(prog, i) = d[i - 1]
        BY <1>1, <1>3, DestinationOffsetIs
    <2> QED BY <2>1, <2>2
<1>5. \A k \in 1 .. n : lens[k] \in Nat \ {0} /\ lens[k] = prog[k].len
                        /\ sizes[k] \in Nat \ {0} /\ sizes[k] = DestinationSize(prog[k])
    BY CodeIsSeq
<1> HIDE DEF lens, sizes, n
<1>6. /\ g[0] = 0 /\ \A k \in 0 .. n : g[k] \in Nat
      /\ \A k \in 1 .. n : g[k] = g[k - 1] + lens[k]
      /\ \A i, j \in 0 .. n : i < j => g[i] < g[j]
    BY <1>1, <1>2, <1>5, PartialGrows
<1>7. /\ d[0] = 0 /\ \A k \in 0 .. n : d[k] \in Nat
      /\ \A k \in 1 .. n : d[k] = d[k - 1] + sizes[k]
      /\ \A i, j \in 0 .. n : i < j => d[i] < d[j]
    BY <1>1, <1>3, <1>5, PartialGrows
<1>8. \A i \in 1 .. n + 1 : i - 1 \in 0 .. n
    BY <1>1
<1>9. \A i \in 1 .. n : i \in 1 .. n + 1 /\ i + 1 \in 1 .. n + 1 /\ (i + 1) - 1 = i
    BY <1>1
<1>10. \A i, j \in 1 .. n + 1 : i < j => i - 1 < j - 1
    BY <1>1
<1>11. 1 \in 1 .. n + 1 /\ 1 - 1 = 0
    BY <1>1
<1>12. SourceOffset(prog, 1) = 0 /\ DestinationOffset(prog, 1) = 0
    BY <1>4, <1>6, <1>7, <1>11
<1>13. \A i \in 1 .. n + 1 : SourceOffset(prog, i) \in Nat /\ DestinationOffset(prog, i) \in Nat
    BY <1>4, <1>6, <1>7, <1>8
<1>14. ASSUME NEW i \in 1 .. n
       PROVE  /\ SourceOffset(prog, i + 1) = SourceOffset(prog, i) + prog[i].len
              /\ DestinationOffset(prog, i + 1)
                    = DestinationOffset(prog, i) + DestinationSize(prog[i])
    BY <1>4, <1>5, <1>6, <1>7, <1>9
<1>15. ASSUME NEW i \in 1 .. n + 1, NEW j \in 1 .. n + 1, i < j
       PROVE  /\ SourceOffset(prog, i) < SourceOffset(prog, j)
              /\ DestinationOffset(prog, i) < DestinationOffset(prog, j)
    <2>1. i - 1 \in 0 .. n /\ j - 1 \in 0 .. n /\ i - 1 < j - 1
        BY <1>8, <1>10, <1>15
    <2> QED BY <1>4, <1>6, <1>7, <2>1
<1> QED BY <1>12, <1>13, <1>14, <1>15 DEF Ordered, n

(* What is stolen of a function that is long enough.                        *)
LEMMA StolenFacts ==
    ASSUME NEW prog, IsCode(prog), CodeSize(prog) >= HOOK_LENGTH
    PROVE  /\ Stolen(prog) \in 1 .. Len(prog)
           /\ SourceOffset(prog, Stolen(prog) + 1) >= HOOK_LENGTH
           /\ \A k \in 1 .. Stolen(prog) : SourceOffset(prog, k) < HOOK_LENGTH
<1> DEFINE T == {n \in 1 .. Len(prog) : SourceOffset(prog, n + 1) >= HOOK_LENGTH}
           Is(n) == /\ SourceOffset(prog, n + 1) >= HOOK_LENGTH
                    /\ \A k \in 1 .. n : SourceOffset(prog, k) < HOOK_LENGTH
<1>1. Len(prog) \in Nat \ {0} /\ DOMAIN prog = 1 .. Len(prog) /\ Ordered(prog)
    BY CodeIsSeq, CodeIsOrdered
<1>2. Len(prog) \in T
    BY <1>1 DEF CodeSize
<1>3. PICK n \in T : \A m \in T : n <= m
    <2>1. T \in SUBSET Nat
        BY <1>1
    <2> HIDE DEF T
    <2> QED BY <1>2, <2>1, LeastElement
<1>4. \A k \in 1 .. n : SourceOffset(prog, k) < HOOK_LENGTH
    <2> SUFFICES ASSUME NEW k \in 1 .. n PROVE SourceOffset(prog, k) < HOOK_LENGTH
        OBVIOUS
    <2>1. CASE k = 1
        BY <1>1, <2>1, CodeAssumption DEF Ordered
    <2>2. CASE k # 1
        <3>1. k - 1 \in 1 .. Len(prog) /\ k - 1 < n /\ (k - 1) + 1 = k
            BY <1>1, <1>3, <2>2
        <3>2. ~(SourceOffset(prog, k) >= HOOK_LENGTH)
            BY <1>3, <3>1
        <3>3. SourceOffset(prog, k) \in Nat
            BY <1>1, <1>3 DEF Ordered
        <3> QED BY <3>2, <3>3, CodeAssumption
    <2> QED BY <2>1, <2>2
<1>5. \E m \in DOMAIN prog : Is(m)
    BY <1>1, <1>3, <1>4
<1>6. Stolen(prog) = CHOOSE m \in DOMAIN prog : Is(m)
    BY DEF Stolen
<1>7. Stolen(prog) \in DOMAIN prog /\ Is(Stolen(prog))
    <2> HIDE DEF Is
    <2> QED BY <1>5, <1>6
<1> QED BY <1>1, <1>7

(* Where the copy of an instruction is written.                             *)
LEMMA WrittenAt ==
    ASSUME NEW prog, IsCode(prog), NEW src, NEW dst \in Nat, NEW i \in 1 .. Len(prog),
           NEW w \in Written(prog, src, dst, i)
    PROVE  /\ w.at \in Int
           /\ dst + DestinationOffset(prog, i) <= w.at
           /\ w.at < dst + DestinationOffset(prog, i + 1)
<1> DEFINE a == dst + DestinationOffset(prog, i)
<1>1. /\ DestinationOffset(prog, i) \in Nat /\ prog[i].len \in Nat \ {0}
      /\ DestinationOffset(prog, i + 1) = DestinationOffset(prog, i) + DestinationSize(prog[i])
    <2>1. i \in 1 .. Len(prog) + 1 /\ Ordered(prog)
        BY CodeIsSeq, CodeIsOrdered
    <2> QED BY <2>1, CodeIsSeq DEF Ordered
<1>2. /\ prog[i].kind = "call" => DestinationSize(prog[i]) = 16 /\ w.at \in {a, a + 6}
      /\ prog[i].kind = "jump" => DestinationSize(prog[i]) = 14 /\ w.at = a
      /\ prog[i].kind = "cond" => DestinationSize(prog[i]) = 16 /\ w.at \in {a, a + 2}
      /\ prog[i].kind \notin {"call", "jump", "cond"} =>
            DestinationSize(prog[i]) = prog[i].len /\ w.at = a
    BY DEF Written, At, Jump, DestinationSize, kAbsoluteCallSize, kAbsoluteJumpSize,
           kConditionalJumpSize
<1>3. PICK d, l : d = DestinationSize(prog[i]) /\ l = prog[i].len
    OBVIOUS
<1>4. a \in Int /\ l \in Nat \ {0} /\ dst + DestinationOffset(prog, i + 1) = a + d /\ d \in Nat
    BY <1>1, <1>3, CodeIsSeq
<1> HIDE DEF a
<1>5. \/ d = 16 /\ (w.at = a \/ w.at = a + 6 \/ w.at = a + 2)
      \/ d = 14 /\ w.at = a
      \/ d = l /\ w.at = a
    BY <1>2, <1>3
<1>6. w.at \in Int /\ a <= w.at /\ w.at < a + d
    BY <1>4, <1>5
<1> QED BY <1>4, <1>6 DEF a

Capacity == ONION_X64_TRAMPOLINE_CAPACITY

LEMMA CopyIsPieces ==
    ASSUME NEW prog, NEW src, NEW dst, NEW w
    PROVE  w \in onion_x64_relocate(prog, src, dst)
            <=> \/ \E i \in 1 .. Stolen(prog) : w \in Written(prog, src, dst, i)
                \/ w = Jump(dst + DestinationOffset(prog, Stolen(prog) + 1), 14,
                            src + SourceSize(prog))
<1> DEFINE n == Stolen(prog)
           J == Jump(dst + DestinationOffset(prog, n + 1), 14, src + SourceSize(prog))
           U == UNION {Written(prog, src, dst, i) : i \in 1 .. n}
<1>3. onion_x64_relocate(prog, src, dst) = U \cup {J}
    BY DEF onion_x64_relocate
<1>4. w \in U <=> \E i \in 1 .. n : w \in Written(prog, src, dst, i)
    <2>1. PICK D : D = 1 .. n
        OBVIOUS
    <2>2. U = UNION {Written(prog, src, dst, i) : i \in D}
        BY <2>1
    <2> HIDE DEF U, n
    <2>3. w \in U <=> \E i \in D : w \in Written(prog, src, dst, i)
        BY <2>2
    <2> QED BY <2>1, <2>3
<1>5. w \in onion_x64_relocate(prog, src, dst) <=> w \in U \/ w = J
    <2> HIDE DEF U, J
    <2> QED BY <1>3
<1> QED BY <1>4, <1>5

(* What is written for a function stays in a slot it is not refused for.    *)
LEMMA CopyWithinSlot ==
    ASSUME NEW prog, IsCode(prog), CodeSize(prog) >= HOOK_LENGTH,
           NEW src \in Nat, NEW dst \in Nat, ~Refused(prog, src, dst),
           NEW w \in onion_x64_relocate(prog, src, dst)
    PROVE  /\ w.at \in Int /\ dst <= w.at
           /\ Capacity \in Nat => w.at < dst + Capacity
<1> DEFINE n == Stolen(prog)
<1>1. n \in 1 .. Len(prog) /\ Len(prog) \in Nat
    BY StolenFacts, CodeIsSeq
<1>2. Ordered(prog)
    BY CodeIsOrdered
<1>3. /\ n + 1 \in 1 .. Len(prog) + 1 /\ DestinationOffset(prog, n + 1) \in Nat
      /\ \A i \in 1 .. n + 1 : /\ DestinationOffset(prog, i) \in Nat
                               /\ DestinationOffset(prog, i) <= DestinationOffset(prog, n + 1)
    <2>1. n + 1 \in 1 .. Len(prog) + 1
        BY <1>1
    <2> SUFFICES ASSUME NEW i \in 1 .. n + 1
                 PROVE  /\ DestinationOffset(prog, i) \in Nat
                        /\ DestinationOffset(prog, n + 1) \in Nat
                        /\ DestinationOffset(prog, i) <= DestinationOffset(prog, n + 1)
        BY <1>1, <2>1
    <2>2. i \in 1 .. Len(prog) + 1 /\ (i = n + 1 \/ i < n + 1)
        BY <1>1
    <2> HIDE DEF n
    <2> QED BY <1>2, <2>1, <2>2 DEF Ordered
<1>4. DestinationOffset(prog, n + 1) + 14 <= Capacity \/ Capacity \notin Nat
    BY <1>3 DEF Refused, TrampolineSize, kAbsoluteJumpSize, Capacity
<1>5. CASE \E i \in 1 .. n : w \in Written(prog, src, dst, i)
    <2>1. PICK i \in 1 .. n : w \in Written(prog, src, dst, i)
        BY <1>5
    <2>2. i \in 1 .. Len(prog) /\ i \in 1 .. n + 1 /\ i + 1 \in 1 .. n + 1
        BY <1>1
    <2>3. /\ w.at \in Int /\ dst + DestinationOffset(prog, i) <= w.at
          /\ w.at < dst + DestinationOffset(prog, i + 1)
        BY <2>1, <2>2, WrittenAt
    <2>4. /\ DestinationOffset(prog, i) \in Nat /\ DestinationOffset(prog, i + 1) \in Nat
          /\ DestinationOffset(prog, i + 1) <= DestinationOffset(prog, n + 1)
        BY <1>3, <2>2
    <2>5. PICK x, b, c, e : /\ x = w.at /\ b = DestinationOffset(prog, i)
                            /\ c = DestinationOffset(prog, i + 1)
                            /\ e = DestinationOffset(prog, n + 1)
        OBVIOUS
    <2>6. x \in Int /\ dst + b <= x /\ x < dst + c
        BY <2>3, <2>5, Zenon
    <2>7. b \in Nat /\ c \in Nat /\ c <= e
        BY <2>4, <2>5, Zenon
    <2>8. e \in Nat /\ (e + 14 <= Capacity \/ Capacity \notin Nat)
        BY <1>3, <1>4, <2>5, Zenon
    <2>9. dst <= x /\ (Capacity \in Nat => x < dst + Capacity)
        BY <2>6, <2>7, <2>8
    <2> QED BY <2>5, <2>6, <2>9, Zenon
<1>6. CASE w = Jump(dst + DestinationOffset(prog, n + 1), 14, src + SourceSize(prog))
    <2>1. w.at = dst + DestinationOffset(prog, n + 1)
        BY <1>6 DEF Jump, At
    <2> QED BY <1>3, <1>4, <2>1
<1> QED BY <1>5, <1>6, CopyIsPieces

(* A patch is a program: the jump, and the address it loads.                *)
LEMMA PatchIsCode ==
    ASSUME NEW t \in Int, NEW h, bytes \in PointerBytes
    PROVE  /\ IsCode(Patch(t, h)) /\ CodeSize(Patch(t, h)) >= HOOK_LENGTH
           /\ Len(Patch(t, h)) = Len(bytes) + 1
           /\ Patch(t, h)[1] = [op |-> "hook", kind |-> "indirect", neg |-> FALSE,
                                len |-> 6, to |-> t + 6]
           /\ \A i \in 1 .. Len(bytes) : Patch(t, h)[i + 1] = [bytes[i] EXCEPT !.op = h]
<1>1. /\ IsCode(bytes) /\ CodeSize(bytes) >= 8
      /\ bytes \in Seq({bytes[i] : i \in DOMAIN bytes})
    BY CodeAssumption DEF IsCode
<1>2. Len(bytes) \in Nat \ {0} /\ DOMAIN bytes = 1 .. Len(bytes)
    BY <1>1, CodeIsSeq
<1>3. PICK ind : ind = [op |-> "hook", kind |-> "indirect", neg |-> FALSE,
                        len |-> 6, to |-> t + 6]
    OBVIOUS
<1>4. PICK own : own = [i \in DOMAIN bytes |-> [bytes[i] EXCEPT !.op = h]]
    OBVIOUS
<1>5. PICK p : p = Patch(t, h)
    OBVIOUS
<1>6. p = <<ind>> \o own
    BY <1>3, <1>4, <1>5 DEF Patch
<1> DEFINE S == {ind} \cup {own[i] : i \in DOMAIN bytes}
<1>7. own \in Seq(S) /\ Len(own) = Len(bytes) /\ <<ind>> \in Seq(S)
    <2>1. own = [i \in 1 .. Len(bytes) |-> own[i]] /\ \A i \in 1 .. Len(bytes) : own[i] \in S
        BY <1>2, <1>4
    <2>2. ind \in S
        OBVIOUS
    <2> HIDE DEF S
    <2> QED BY <1>2, <2>1, <2>2
<1>8. /\ p \in Seq(S) /\ Len(p) = Len(bytes) + 1 /\ p[1] = ind
      /\ \A i \in 1 .. Len(bytes) : p[i + 1] = own[i]
    <2> HIDE DEF S
    <2>1. /\ p \in Seq(S) /\ Len(p) = 1 + Len(bytes)
          /\ \A i \in 1 .. 1 + Len(bytes) : p[i] = IF i <= 1 THEN <<ind>>[i] ELSE own[i - 1]
        <3>1. Len(<<ind>>) = 1
            OBVIOUS
        <3> QED BY <1>6, <1>7, <3>1, ConcatProperties
    <2>2. 1 \in 1 .. 1 + Len(bytes) /\ \A i \in 1 .. Len(bytes) : i + 1 \in 1 .. 1 + Len(bytes)
        BY <1>2
    <2>3. \A i \in 1 .. Len(bytes) : ~(i + 1 <= 1) /\ (i + 1) - 1 = i
        BY <1>2
    <2> QED BY <1>2, <2>1, <2>2, <2>3
<1>9. \A i \in 1 .. Len(bytes) : own[i] = [bytes[i] EXCEPT !.op = h]
    BY <1>2, <1>4
<1>10. DOMAIN p = 1 .. Len(bytes) + 1 /\ \A i \in DOMAIN p : i = 1 \/ i - 1 \in 1 .. Len(bytes)
    BY <1>2, <1>8
<1>11. IsCode(p)
    <2>1. Instruction(ind)
        BY <1>3 DEF Instruction
    <2>2. ASSUME NEW i \in 1 .. Len(bytes) PROVE Instruction(own[i])
        <3>1. Instruction(bytes[i]) /\ own[i] = [bytes[i] EXCEPT !.op = h]
            BY <1>1, <1>2, <1>9 DEF IsCode
        <3>2. PICK b : b = bytes[i]
            OBVIOUS
        <3>3. /\ b = [op |-> b.op, kind |-> b.kind, neg |-> b.neg, len |-> b.len, to |-> b.to]
              /\ b.neg \in BOOLEAN /\ b.len \in Nat \ {0} /\ b.to \in Int
            BY <3>1, <3>2 DEF Instruction
        <3>4. own[i] = [op |-> h, kind |-> b.kind, neg |-> b.neg, len |-> b.len, to |-> b.to]
            BY <3>1, <3>2, <3>3, Zenon
        <3> QED BY <3>3, <3>4 DEF Instruction
    <2>3. \A i \in DOMAIN p : Instruction(p[i])
        <3> SUFFICES ASSUME NEW i \in DOMAIN p, i # 1 PROVE Instruction(p[i])
            BY <1>8, <2>1
        <3>1. i - 1 \in 1 .. Len(bytes) /\ (i - 1) + 1 = i
            BY <1>10
        <3> QED BY <1>8, <2>2, <3>1
    <2>4. p # << >> /\ p \in Seq({p[i] : i \in DOMAIN p})
        <3> DEFINE R == {p[i] : i \in DOMAIN p}
        <3>1. p = [i \in 1 .. Len(p) |-> p[i]] /\ Len(p) \in Nat /\ Len(p) # 0
            BY <1>2, <1>8
        <3>2. \A i \in 1 .. Len(p) : p[i] \in R
            BY <1>8, <1>10
        <3> HIDE DEF R
        <3>3. p \in Seq(R)
            BY <3>1, <3>2
        <3> QED BY <3>1, <3>3 DEF R
    <2> QED BY <2>3, <2>4 DEF IsCode
<1>12. CodeSize(p) >= HOOK_LENGTH
    <2> DEFINE N == {i \in Nat : i <= Len(bytes) =>
                        SourceOffset(p, i + 2) = 6 + SourceOffset(bytes, i + 1)}
    <2>1. Ordered(p) /\ Ordered(bytes)
        BY <1>1, <1>11, CodeIsOrdered
    <2>2. 0 \in N
        <3>1. SourceOffset(p, 1) = 0 /\ SourceOffset(bytes, 1) = 0
            BY <2>1 DEF Ordered
        <3>2. SourceOffset(p, 1 + 1) = SourceOffset(p, 1) + p[1].len
            BY <1>2, <1>8, <2>1 DEF Ordered
        <3>3. p[1].len = 6
            BY <1>3, <1>8
        <3> QED BY <3>1, <3>2, <3>3
    <2>3. ASSUME NEW i \in Nat, i \in N PROVE i + 1 \in N
        <3> SUFFICES ASSUME i + 1 <= Len(bytes)
                     PROVE  SourceOffset(p, i + 3) = 6 + SourceOffset(bytes, i + 2)
            BY <1>2
        <3>1. SourceOffset(p, i + 2) = 6 + SourceOffset(bytes, i + 1)
            BY <1>2, <2>3
        <3>2. i + 2 \in 1 .. Len(p) /\ i + 1 \in 1 .. Len(bytes) /\ i + 1 \in 1 .. Len(bytes) + 1
              /\ (i + 2) + 1 = i + 3 /\ (i + 1) + 1 = i + 2
            BY <1>2, <1>8
        <3>3. SourceOffset(p, i + 3) = SourceOffset(p, i + 2) + p[i + 2].len
            BY <2>1, <3>2 DEF Ordered
        <3>4. SourceOffset(bytes, i + 2) = SourceOffset(bytes, i + 1) + bytes[i + 1].len
            BY <2>1, <3>2 DEF Ordered
        <3>5. p[i + 2].len = bytes[i + 1].len /\ bytes[i + 1].len \in Nat
            <4>1. p[i + 2] = [bytes[i + 1] EXCEPT !.op = h]
                BY <1>8, <1>9, <3>2
            <4>2. Instruction(bytes[i + 1])
                BY <1>1, <1>2, <3>2 DEF IsCode
            <4>3. PICK b, c : b = bytes[i + 1] /\ c = p[i + 2]
                OBVIOUS
            <4>4. b = [op |-> b.op, kind |-> b.kind, neg |-> b.neg, len |-> b.len, to |-> b.to]
                  /\ b.len \in Nat
                BY <4>2, <4>3 DEF Instruction
            <4>5. c = [b EXCEPT !.op = h]
                BY <4>1, <4>3
            <4>6. c.len = b.len
                BY <4>4, <4>5, Zenon
            <4> QED BY <4>3, <4>4, <4>6
        <3>6. SourceOffset(bytes, i + 1) \in Nat
            BY <2>1, <3>2 DEF Ordered
        <3>7. PICK x, y, u, v, k, l : /\ x = SourceOffset(p, i + 2) /\ y = SourceOffset(p, i + 3)
                                      /\ u = SourceOffset(bytes, i + 1)
                                      /\ v = SourceOffset(bytes, i + 2)
                                      /\ k = p[i + 2].len /\ l = bytes[i + 1].len
            OBVIOUS
        <3>8. x = 6 + u /\ y = x + k /\ v = u + l
            BY <3>1, <3>3, <3>4, <3>7, Zenon
        <3>9. k = l /\ l \in Nat /\ u \in Nat
            BY <3>5, <3>6, <3>7, Zenon
        <3>10. y = 6 + v
            BY <3>8, <3>9
        <3> QED BY <3>7, <3>10, Zenon
    <2> HIDE DEF N
    <2>4. Len(bytes) \in N
        BY <1>2, <2>2, <2>3, NatSetInduction
    <2>5. SourceOffset(p, Len(bytes) + 2) = 6 + CodeSize(bytes)
        BY <1>2, <2>4 DEF N, CodeSize
    <2>6. CodeSize(p) = 6 + CodeSize(bytes) /\ CodeSize(bytes) \in Nat
        <3>1. Len(p) + 1 = Len(bytes) + 2 /\ Len(bytes) + 1 \in 1 .. Len(bytes) + 1
            BY <1>2, <1>8
        <3> QED BY <2>1, <2>5, <3>1 DEF CodeSize, Ordered
    <2> QED BY <1>1, <2>6, CodeAssumption
<1> QED BY <1>3, <1>5, <1>8, <1>9, <1>11, <1>12

(* The copy of a patch, with an address the decoder takes for harmless      *)
(* instructions: the jump still loads the address of the hook it was.       *)
PatchCopied(T, dst, h) ==
    /\ \A w \in T : w.at = dst => w.ins.kind = "indirect" /\ w.ins.to = dst + 6
    /\ \A w \in T : w.ins.kind = "plain" => w.ins.op = h
    /\ \E w \in T : w.at = dst
    /\ \E w \in T : w.at = dst + 6 /\ w.ins.kind = "plain" /\ w.ins.op = h

LEMMA CopyOfPatch ==
    ASSUME NEW t \in Nat, NEW h, NEW dst \in Nat, bytes \in PointerBytes,
           \A i \in DOMAIN bytes : bytes[i].kind = "plain"
    PROVE  PatchCopied(onion_x64_relocate(Patch(t, h), t, dst), dst, h)
<1>1. PICK p : p = Patch(t, h)
    OBVIOUS
<1>2. PICK ind : ind = [op |-> "hook", kind |-> "indirect", neg |-> FALSE,
                        len |-> 6, to |-> t + 6]
    OBVIOUS
<1>3. /\ IsCode(p) /\ CodeSize(p) >= HOOK_LENGTH
      /\ Len(p) = Len(bytes) + 1 /\ p[1] = ind
      /\ \A i \in 1 .. Len(bytes) : p[i + 1] = [bytes[i] EXCEPT !.op = h]
    <2>1. /\ IsCode(Patch(t, h)) /\ CodeSize(Patch(t, h)) >= HOOK_LENGTH
          /\ Len(Patch(t, h)) = Len(bytes) + 1
          /\ Patch(t, h)[1] = [op |-> "hook", kind |-> "indirect", neg |-> FALSE,
                               len |-> 6, to |-> t + 6]
          /\ \A i \in 1 .. Len(bytes) : Patch(t, h)[i + 1] = [bytes[i] EXCEPT !.op = h]
        BY PatchIsCode
    <2> QED BY <1>1, <1>2, <2>1, Zenon
<1>4. /\ Len(p) \in Nat \ {0} /\ Ordered(p)
      /\ Len(bytes) \in Nat \ {0} /\ DOMAIN bytes = 1 .. Len(bytes)
      /\ \A i \in 1 .. Len(bytes) : Instruction(bytes[i])
    BY <1>3, CodeIsSeq, CodeIsOrdered, CodeAssumption DEF IsCode
<1>5. PICK n : n = Stolen(p)
    OBVIOUS
<1>6. /\ n \in 1 .. Len(p) /\ SourceOffset(p, n + 1) >= 14
      /\ \A k \in 1 .. n : SourceOffset(p, k) < 14
    BY <1>3, <1>5, StolenFacts, CodeAssumption
<1>7. /\ SourceOffset(p, 1) = 0 /\ DestinationOffset(p, 1) = 0
      /\ SourceOffset(p, 2) = 6 /\ DestinationOffset(p, 2) = 6
    <2>1. ind.len = 6 /\ DestinationSize(ind) = 6
        BY <1>2 DEF DestinationSize
    <2>2. SourceOffset(p, 1) = 0 /\ DestinationOffset(p, 1) = 0
        BY <1>4 DEF Ordered
    <2>3. /\ SourceOffset(p, 1 + 1) = SourceOffset(p, 1) + p[1].len
          /\ DestinationOffset(p, 1 + 1) = DestinationOffset(p, 1) + DestinationSize(p[1])
        BY <1>4 DEF Ordered
    <2> QED BY <1>3, <2>1, <2>2, <2>3
<1>8. n >= 2
    BY <1>6, <1>7
<1>9. \A i \in 2 .. n : p[i].kind = "plain" /\ p[i].op = h
    <2> SUFFICES ASSUME NEW i \in 2 .. n PROVE p[i].kind = "plain" /\ p[i].op = h
        OBVIOUS
    <2>1. i - 1 \in 1 .. Len(bytes) /\ (i - 1) + 1 = i
        BY <1>3, <1>4, <1>6
    <2>2. PICK b, c : b = bytes[i - 1] /\ c = p[i]
        OBVIOUS
    <2>3. c = [b EXCEPT !.op = h]
        BY <1>3, <2>1, <2>2
    <2>4. /\ b = [op |-> b.op, kind |-> b.kind, neg |-> b.neg, len |-> b.len, to |-> b.to]
          /\ b.kind = "plain"
        BY <1>4, <2>1, <2>2 DEF Instruction
    <2>5. c = [op |-> h, kind |-> b.kind, neg |-> b.neg, len |-> b.len, to |-> b.to]
        BY <2>3, <2>4, Zenon
    <2>6. c.kind = "plain" /\ c.op = h
        BY <2>4, <2>5
    <2> QED BY <2>2, <2>6
<1>10. map_internal_target(p, t, dst, t + 6) = dst + 6
    <2>1. Inside(p, t, t + 6)
        <3>1. SourceOffset(p, n + 1) \in Nat
            BY <1>4, <1>6 DEF Ordered
        <3> QED BY <1>5, <1>6, <3>1 DEF Inside, SourceSize
    <2>2. BoundaryAt(p, t, t + 6) = {2}
        <3>1. 2 \in 1 .. n /\ t + SourceOffset(p, 2) = t + 6
            BY <1>6, <1>7, <1>8
        <3>2. ASSUME NEW i \in 1 .. n, t + SourceOffset(p, i) = t + 6 PROVE i = 2
            <4>1. i \in 1 .. Len(p) + 1 /\ 2 \in 1 .. Len(p) + 1
                BY <1>4, <1>6, <1>8
            <4>2. SourceOffset(p, i) \in Nat
                BY <1>4, <4>1 DEF Ordered
            <4>3. SourceOffset(p, i) = 6
                BY <3>2, <4>2
            <4>4. ~(2 < i) /\ ~(i < 2)
                BY <1>4, <1>7, <4>1, <4>3 DEF Ordered
            <4> QED BY <4>1, <4>4
        <3> QED BY <1>5, <3>1, <3>2 DEF BoundaryAt
    <2>3. (CHOOSE i \in {2} : TRUE) = 2
        OBVIOUS
    <2> QED BY <1>7, <2>1, <2>2, <2>3 DEF map_internal_target
<1>11. PICK new : new = [op |-> "hook", kind |-> "indirect", neg |-> FALSE,
                         len |-> 6, to |-> dst + 6]
    OBVIOUS
<1>12. Written(p, t, dst, 1) = {At(dst, new)}
    <2>1. dst + DestinationOffset(p, 1) = dst
        BY <1>7
    <2>2. [ind EXCEPT !.to = dst + 6] = new
        <3>1. PICK no \in BOOLEAN : no = FALSE
            OBVIOUS
        <3>2. /\ ind = [op |-> "hook", kind |-> "indirect", neg |-> no, len |-> 6, to |-> t + 6]
              /\ new = [op |-> "hook", kind |-> "indirect", neg |-> no, len |-> 6, to |-> dst + 6]
            BY <1>2, <1>11, <3>1, Zenon
        <3> QED BY <3>2
    <2>3. ind.kind = "indirect" /\ ind.to = t + 6
        BY <1>2
    <2> QED BY <1>3, <1>10, <2>1, <2>2, <2>3 DEF Written
<1>13. \A i \in 2 .. n : Written(p, t, dst, i) = {At(dst + DestinationOffset(p, i), p[i])}
    BY <1>9 DEF Written
<1>14. PICK T : T = onion_x64_relocate(p, t, dst)
    OBVIOUS
<1>15. PICK final : final = Jump(dst + DestinationOffset(p, n + 1), 14, t + SourceSize(p))
    OBVIOUS
<1>16. \A w : w \in T <=> (\E i \in 1 .. n : w \in Written(p, t, dst, i)) \/ w = final
    BY <1>5, <1>14, <1>15, CopyIsPieces
<1>17. \A w : w \in T <=> \/ w = At(dst, new)
                          \/ \E i \in 2 .. n : w = At(dst + DestinationOffset(p, i), p[i])
                          \/ w = final
    <2>1. \A w : w \in T <=> (\E i \in 1 .. n : w \in Written(p, t, dst, i)) \/ w = final
        BY <1>16
    <2>2. \A i : i \in 1 .. n <=> i = 1 \/ i \in 2 .. n
        BY <1>6, <1>8
    <2>3. \A w : w \in Written(p, t, dst, 1) <=> w = At(dst, new)
        BY <1>12
    <2>4. \A i \in 2 .. n : \A w : w \in Written(p, t, dst, i)
                                     <=> w = At(dst + DestinationOffset(p, i), p[i])
        BY <1>13
    <2> QED BY <2>1, <2>2, <2>3, <2>4, Zenon
<1>18. final.at # dst /\ final.ins.kind = "jump" /\ \A i \in 2 .. n : DestinationOffset(p, i) \in Nat \ {0}
    <2>1. \A i \in 2 .. n + 1 : i \in 1 .. Len(p) + 1 /\ 1 \in 1 .. Len(p) + 1 /\ 1 < i
        BY <1>4, <1>6, <1>8
    <2>2. \A i \in 2 .. n + 1 : DestinationOffset(p, i) \in Nat /\ DestinationOffset(p, 1) < DestinationOffset(p, i)
        BY <1>4, <2>1 DEF Ordered
    <2>3. n + 1 \in 2 .. n + 1 /\ \A i \in 2 .. n : i \in 2 .. n + 1
        BY <1>6, <1>8
    <2>4. DestinationOffset(p, n + 1) \in Nat \ {0} /\ \A i \in 2 .. n : DestinationOffset(p, i) \in Nat \ {0}
        BY <1>7, <2>2, <2>3
    <2>5. final.at = dst + DestinationOffset(p, n + 1) /\ final.ins.kind = "jump"
        BY <1>15 DEF Jump, At
    <2> QED BY <2>4, <2>5
<1>19. ASSUME NEW w \in T, w.at = dst PROVE w.ins.kind = "indirect" /\ w.ins.to = dst + 6
    <2>1. \A i \in 2 .. n : At(dst + DestinationOffset(p, i), p[i]).at # dst
        BY <1>18 DEF At
    <2>2. w = At(dst, new)
        BY <1>17, <1>18, <1>19, <2>1
    <2> QED BY <1>11, <2>2 DEF At
<1>20. ASSUME NEW w \in T, w.ins.kind = "plain" PROVE w.ins.op = h
    <2>1. At(dst, new).ins.kind = "indirect"
        BY <1>11 DEF At
    <2>2. PICK i \in 2 .. n : w = At(dst + DestinationOffset(p, i), p[i])
        BY <1>17, <1>18, <1>20, <2>1
    <2> QED BY <1>9, <2>2 DEF At
<1>21. At(dst, new) \in T /\ At(dst, new).at = dst
    BY <1>17 DEF At
<1>22. PICK w : w = At(dst + DestinationOffset(p, 2), p[2])
    OBVIOUS
<1>23. w \in T /\ w.at = dst + 6 /\ w.ins.kind = "plain" /\ w.ins.op = h
    <2>1. 2 \in 2 .. n
        BY <1>6, <1>8
    <2> QED BY <1>7, <1>9, <1>17, <1>22, <2>1 DEF At
<1>24. PatchCopied(T, dst, h)
    BY <1>19, <1>20, <1>21, <1>23 DEF PatchCopied
<1> QED BY <1>1, <1>14, <1>24

-----------------------------------------------------------------------------
(* Who is on a function: those that committed; each knows the one it was    *)
(* put over by what it expected to find.                                    *)
Label == {"idle", "allocated", "readable", "decoded", "relocated", "prepared", "published",
          "committed", "failed"}
HasSlot(h) == pc[h] \notin {"idle", "failed"}
IsOn(h, t) == pc[h] = "committed" /\ target[h] = t

InstallTypeOK ==
    /\ code \in Programs /\ bytes \in PointerBytes
    /\ pc \in [Hook -> Label] /\ head \in [Targets -> Hook \cup {None}]
    /\ slot \in [Hook -> Nat] /\ target \in [Hook -> Nat]
    /\ seen \in [Hook -> Hook \cup {None}] /\ expected \in [Hook -> Hook \cup {None}]
    /\ storage \in [Hook -> Nat \cup {None}]
    /\ trampoline = [h \in Hook |-> trampoline[h]]
    /\ spoilt \in [Targets -> SUBSET {"amid", "awaited", "raced", "rewritten", "jumps_back"}]
    /\ \A h \in Hook : HasSlot(h) => target[h] \in Targets /\ target[h] % 16 = 0 /\ slot[h] # 0

(* A slot, once given, is that of one installation; what was copied is in   *)
(* slots, and nothing but a hook's own copy is in its slot.                 *)
InSlot(a, h) == slot[h] <= a /\ a < slot[h] + Capacity
Places ==
    /\ \A i \in DOMAIN mappings : mappings[i].base \in MapBases
    /\ \A h \in Hook : slot[h] # 0 =>
          \E i \in DOMAIN allocations :
              /\ slot[h] = allocations[i].begin /\ slot[h] < allocations[i].end
              /\ slot[h] + Capacity <= allocations[i].end
    /\ \A h, k \in Hook : h # k /\ slot[h] # 0 /\ slot[k] # 0 =>
          slot[h] + Capacity <= slot[k] \/ slot[k] + Capacity <= slot[h]
    /\ \A h \in Hook : \A w \in trampoline[h] :
          /\ w.at \in Int
          /\ \E i \in DOMAIN allocations : allocations[i].begin <= w.at /\ w.at < allocations[i].end
          /\ \A k \in Hook : k # h /\ slot[k] # 0 => ~InSlot(w.at, k)

Copied ==
    \A h \in Hook :
        /\ pc[h] \in {"relocated", "prepared", "published", "committed"} =>
              \/ trampoline[h] = {}
              \/ trampoline[h] = onion_x64_relocate(Decoded(target[h], seen[h]), target[h], slot[h])
        /\ pc[h] \in {"published", "committed"} => storage[h] = slot[h]

(* From the hook a function's head names, what each expected leads to every *)
(* hook on the function.                                                    *)
Closed(S) ==
    \A h \in S : pc[h] = "committed" /\ expected[h] # None => expected[h] \in S
Chained ==
    /\ \A t \in Targets : head[t] # None => IsOn(head[t], t)
    /\ \A h \in Hook :
          /\ pc[h] = "committed" => head[target[h]] # None
          /\ pc[h] \in {"decoded", "relocated", "prepared", "published", "committed"} =>
                seen[h] = None \/ IsOn(seen[h], target[h])
          /\ pc[h] \in {"prepared", "published", "committed"} =>
                expected[h] = None \/ IsOn(expected[h], target[h])
    /\ \A t \in Targets : \A S \in SUBSET Hook :
          Closed(S) /\ head[t] \in S => \A h \in Hook : IsOn(h, t) => h \in S

Watched ==
    \A h \in Hook : pc[h] = "committed" =>
        /\ seen[h] # expected[h] => "raced" \in spoilt[target[h]]
        /\ seen[h] # None /\ (\E i \in DOMAIN bytes : bytes[i].kind # "plain")
              => "rewritten" \in spoilt[target[h]]

(* Until every hook that is due has run, the thread is at the head of a     *)
(* function, in a hook, or at the copy of a patch, and those that are left  *)
(* are ahead of it.                                                         *)
Ahead(x) ==
    \A S \in SUBSET Hook : Closed(S) /\ x \in S => due \ ran \subseteq S
Pending ==
    /\ home \in Int /\ Elsewhere(home)
    /\ \/ cpu \in Targets /\ head[cpu] # None /\ Ahead(head[cpu])
       \/ cpu \in Hook /\ pc[cpu] = "committed" /\ Ahead(cpu)
       \/ \E h \in Hook : /\ pc[h] = "committed" /\ expected[h] # None
                          /\ cpu = slot[h] /\ Ahead(expected[h])
RunsInTurn == Sound => due \subseteq ran \/ Pending

HookInv ==
    InstallTypeOK /\ Places /\ Copied /\ Chained /\ Watched /\ RunsInTurn

LEMMA HookInit == DetourInit => HookInv
<1> SUFFICES ASSUME DetourInit PROVE HookInv
    OBVIOUS
<1>1. /\ mappings = << >> /\ allocations = << >>
      /\ code \in Programs /\ bytes \in PointerBytes
      /\ head = [t \in Targets |-> None] /\ slot = [h \in Hook |-> 0]
      /\ trampoline = [h \in Hook |-> {}] /\ target = [h \in Hook |-> 0]
      /\ pc = [h \in Hook |-> "idle"] /\ storage = [h \in Hook |-> None]
      /\ seen = [h \in Hook |-> None] /\ expected = [h \in Hook |-> None]
      /\ due = {} /\ ran = {} /\ spoilt = [t \in Targets |-> {}]
    BY DEF DetourInit, ArenaInit
<1>2. InstallTypeOK
    <2>1. /\ pc \in [Hook -> Label] /\ head \in [Targets -> Hook \cup {None}]
          /\ slot \in [Hook -> Nat] /\ target \in [Hook -> Nat]
          /\ seen \in [Hook -> Hook \cup {None}] /\ expected \in [Hook -> Hook \cup {None}]
          /\ storage \in [Hook -> Nat \cup {None}]
          /\ trampoline = [h \in Hook |-> trampoline[h]]
        BY <1>1 DEF Label
    <2>2. spoilt \in [Targets -> SUBSET {"amid", "awaited", "raced", "rewritten", "jumps_back"}]
        BY <1>1
    <2>3. \A h \in Hook : ~HasSlot(h)
        BY <1>1 DEF HasSlot
    <2> QED BY <1>1, <2>1, <2>2, <2>3 DEF InstallTypeOK
<1>3. Places
    BY <1>1 DEF Places
<1>4. Copied /\ Watched
    BY <1>1 DEF Copied, Watched
<1>5. Chained
    BY <1>1, NamesAssumption DEF Chained
<1>6. RunsInTurn
    BY <1>1 DEF RunsInTurn
<1> QED BY <1>2, <1>3, <1>4, <1>5, <1>6 DEF HookInv

(* An address in a slot that was handed out is no address of a function.    *)
LEMMA AllocatedIsMapped ==
    ASSUME ArenaInv, \A i \in DOMAIN mappings : mappings[i].base \in MapBases,
           NEW a \in Int, NEW k \in DOMAIN allocations,
           allocations[k].begin <= a, a < allocations[k].end
    PROVE  ~Elsewhere(a)
<1>1. PICK i \in DOMAIN mappings : Cut(k, i)
    BY DEF ArenaInv, InUse
<1>2. /\ mappings[i] \in Mapping /\ allocations[k] \in Allocation
      /\ mappings[i].used <= MappingLength /\ mappings[i].base \in MapBases
    BY DEF ArenaInv, ArenaTypeOK, WithinLength
<1>3. mappings[i].base <= a /\ a < mappings[i].base + MappingLength
    BY <1>1, <1>2, MappingLengthIsNat DEF Cut, Mapping, Allocation
<1>4. ~(a < mappings[i].base) /\ ~(a >= mappings[i].base + MappingLength)
    BY <1>2, <1>3, MappingLengthIsNat DEF Mapping
<1> QED BY <1>2, <1>4 DEF Elsewhere

LEMMA AlignUpCovers ==
    ASSUME NEW n \in Nat PROVE align_up(n) \in Nat /\ n <= align_up(n)
<1> DEFINE m == n + PageSize - 1
           q == m \div PageSize
<1>1. PageSize \in Nat /\ PageSize > 0 /\ m \in Nat
    BY ArenaAssumption
<1>2. q \in Nat /\ m < q * PageSize + PageSize
    BY <1>1, SMTT(30)
<1> HIDE DEF q
<1>3. q * PageSize \in Nat
    BY <1>1, <1>2, SMTT(30)
<1> QED BY <1>1, <1>2, <1>3 DEF align_up, q

(* What allocate_near() does to the arena.                                  *)
LEMMA NewSlot ==
    ASSUME ArenaInv, \A i \in DOMAIN mappings : mappings[i].base \in MapBases,
           NEW t \in Targets, NEW address \in Candidates, allocate_near(Capacity, t, address)
    PROVE  /\ address \in Nat \ {0} /\ Capacity \in Nat \ {0}
           /\ \A i \in DOMAIN mappings' : mappings'[i].base \in MapBases
           /\ \E m \in Nat :
                 /\ Capacity <= m /\ Unique(address, m)
                 /\ allocations' = Append(allocations, [begin |-> address, end |-> address + m,
                                                        target |-> t])
<1>1. Capacity \in Nat \ {0}
    <2>1. Capacity > 0
        BY DEF allocate_near
    <2>2. Capacity \in Nat
        BY ArenaAssumption, DetourAssumption DEF Capacity
    <2> QED BY <2>1, <2>2
<1>2. PICK m \in Nat : m = align_up(Capacity) /\ Capacity <= m
    BY <1>1, AlignUpCovers
<1>3. \A i \in DOMAIN mappings : mappings[i] \in Mapping
    BY DEF ArenaInv, ArenaTypeOK
<1>4. address \in Nat \ {0}
    <2>1. \A i \in DOMAIN mappings : mappings[i].base + mappings[i].used \in Nat \ {0}
        BY <1>3 DEF Mapping
    <2> QED BY <2>1, ArenaAssumption DEF Candidates
<1>5. record_unique(address, m, t)
    BY <1>2 DEF allocate_near, FromMapping, FromNew
<1>6. \A i \in DOMAIN mappings' : mappings'[i].base \in MapBases
    <2>1. mappings \in Seq(Mapping)
        BY DEF ArenaInv, ArenaTypeOK
    <2>2. CASE FromMapping(m, t, address)
        <3>1. PICK i \in DOMAIN mappings : mappings' = [mappings EXCEPT ![i].used = @ + m]
            BY <2>2 DEF FromMapping, FirstFit, Advance
        <3>2. DOMAIN mappings' = DOMAIN mappings
              /\ \A j \in DOMAIN mappings : mappings'[j].base = mappings[j].base
            BY <1>3, <2>1, <3>1 DEF Mapping
        <3> QED BY <3>2
    <2>3. CASE FromNew(m, t, address)
        <3>1. PICK fresh : /\ fresh = [base |-> address, length |-> MappingLength, used |-> m]
                           /\ mappings' = Append(mappings, fresh) /\ address \in MapBases
            BY <2>3 DEF FromNew, Mapped
        <3>2. /\ DOMAIN mappings' = DOMAIN mappings \cup {Len(mappings) + 1}
              /\ mappings'[Len(mappings) + 1] = fresh
              /\ \A i \in DOMAIN mappings : mappings'[i] = mappings[i]
            BY <2>1, <3>1
        <3>3. fresh.base = address
            BY <3>1
        <3> QED BY <3>1, <3>2, <3>3
    <2> QED BY <1>2, <2>2, <2>3 DEF allocate_near
<1> QED BY <1>1, <1>2, <1>4, <1>5, <1>6 DEF record_unique

(* An installer's step other than the exchange leaves who is on a function, *)
(* and in which order, as it is.                                            *)
Quiet(h) ==
    /\ UNCHANGED <<code, bytes, head, cpu, back, home, due, ran, spoilt>>
    /\ pc[h] # "committed" /\ pc'[h] # "committed"
    /\ \A k \in Hook : k # h =>
          /\ pc'[k] = pc[k] /\ target'[k] = target[k] /\ slot'[k] = slot[k]
          /\ seen'[k] = seen[k] /\ expected'[k] = expected[k]

LEMMA QuietIsOn ==
    ASSUME NEW h \in Hook, Quiet(h)
    PROVE  /\ \A k \in Hook : pc'[k] = "committed" <=> pc[k] = "committed"
           /\ \A k \in Hook : pc[k] = "committed" =>
                 target'[k] = target[k] /\ slot'[k] = slot[k] /\ expected'[k] = expected[k]
                 /\ seen'[k] = seen[k]
           /\ \A k \in Hook : \A t : IsOn(k, t)' <=> IsOn(k, t)
           /\ \A S \in SUBSET Hook : Closed(S)' <=> Closed(S)
BY DEF Quiet, IsOn, Closed

LEMMA QuietInTurn ==
    ASSUME NEW h \in Hook, Quiet(h), InstallTypeOK, RunsInTurn PROVE RunsInTurn'
<1>1. UNCHANGED <<head, cpu, back, home, due, ran, spoilt>>
    BY DEF Quiet
<1>2. head \in [Targets -> Hook \cup {None}]
    BY DEF InstallTypeOK
<1>3. \A x : Ahead(x)' <=> Ahead(x)
    BY <1>1, QuietIsOn DEF Ahead
<1>4. Sound' <=> Sound
    BY <1>1 DEF Sound
<1>5. \A x \in Hook : Ahead(x) => Ahead(x)'
    BY <1>3
<1>6. Pending => Pending'
    <2> SUFFICES ASSUME Pending PROVE Pending'
        OBVIOUS
    <2>1. home' \in Int /\ Elsewhere(home')
        BY <1>1 DEF Pending
    <2>2. CASE cpu \in Targets /\ head[cpu] # None /\ Ahead(head[cpu])
        <3>1. Ahead(head[cpu])'
            BY <1>1, <2>2, QuietIsOn DEF Ahead
        <3> QED BY <1>1, <2>1, <2>2, <3>1 DEF Pending
    <2>3. CASE cpu \in Hook /\ pc[cpu] = "committed" /\ Ahead(cpu)
        <3>1. Ahead(cpu)' /\ pc'[cpu] = "committed"
            BY <1>1, <2>3, QuietIsOn DEF Ahead
        <3> QED BY <1>1, <2>1, <2>3, <3>1 DEF Pending
    <2>4. CASE \E k \in Hook : /\ pc[k] = "committed" /\ expected[k] # None
                               /\ cpu = slot[k] /\ Ahead(expected[k])
        <3>1. PICK k \in Hook : /\ pc[k] = "committed" /\ expected[k] # None
                                /\ cpu = slot[k] /\ Ahead(expected[k])
            BY <2>4
        <3>2. /\ pc'[k] = "committed" /\ expected'[k] = expected[k] /\ slot'[k] = slot[k]
            BY <3>1, QuietIsOn
        <3>3. Ahead(expected[k])'
            BY <1>1, <3>1, <3>2, QuietIsOn DEF Ahead
        <3> QED BY <1>1, <2>1, <3>1, <3>2, <3>3 DEF Pending
    <2> QED BY <2>2, <2>3, <2>4 DEF Pending
<1>7. due' \subseteq ran' <=> due \subseteq ran
    BY <1>1
<1> QED BY <1>4, <1>6, <1>7 DEF RunsInTurn

LEMMA QuietWatched ==
    ASSUME NEW h \in Hook, Quiet(h), Watched PROVE Watched'
<1>1. UNCHANGED <<bytes, spoilt>>
    BY DEF Quiet
<1> SUFFICES ASSUME NEW k \in Hook, pc'[k] = "committed"
             PROVE  /\ seen'[k] # expected'[k] => "raced" \in spoilt'[target'[k]]
                    /\ seen'[k] # None /\ (\E i \in DOMAIN bytes' : bytes'[i].kind # "plain")
                          => "rewritten" \in spoilt'[target'[k]]
    BY DEF Watched
<1>2. pc[k] = "committed" /\ target'[k] = target[k] /\ seen'[k] = seen[k] /\ expected'[k] = expected[k]
    BY QuietIsOn
<1> QED BY <1>1, <1>2 DEF Watched

LEMMA QuietChained ==
    ASSUME NEW h \in Hook, Quiet(h), Chained,
           pc'[h] \in {"decoded", "relocated", "prepared", "published"} =>
                seen'[h] = None \/ IsOn(seen'[h], target'[h]),
           pc'[h] \in {"prepared", "published"} =>
                expected'[h] = None \/ IsOn(expected'[h], target'[h]),
           InstallTypeOK'
    PROVE  Chained'
<1>1. head' = head /\ pc'[h] # "committed"
    BY DEF Quiet
<1>2. /\ seen' \in [Hook -> Hook \cup {None}] /\ expected' \in [Hook -> Hook \cup {None}]
      /\ head' \in [Targets -> Hook \cup {None}]
    BY DEF InstallTypeOK
<1>3. \A t \in Targets : head'[t] # None => IsOn(head[t], t)'
    <2> SUFFICES ASSUME NEW t \in Targets, head[t] # None PROVE IsOn(head[t], t)'
        BY <1>1
    <2>1. head[t] \in Hook /\ IsOn(head[t], t)
        BY <1>1, <1>2 DEF Chained
    <2> QED BY <1>1, <2>1, QuietIsOn
<1>4. ASSUME NEW k \in Hook
      PROVE  /\ pc'[k] = "committed" => head'[target'[k]] # None
             /\ pc'[k] \in {"decoded", "relocated", "prepared", "published", "committed"} =>
                   seen'[k] = None \/ IsOn(seen[k], target[k])'
             /\ pc'[k] \in {"prepared", "published", "committed"} =>
                   expected'[k] = None \/ IsOn(expected[k], target[k])'
    <2>1. CASE k = h
        <3>1. pc'[h] \in {"decoded", "relocated", "prepared", "published"} =>
                  seen'[h] = None \/ IsOn(seen[h], target[h])'
            <4> SUFFICES ASSUME IsOn(seen'[h], target'[h]), seen'[h] # None
                         PROVE  IsOn(seen[h], target[h])'
                OBVIOUS
            <4>1. seen'[h] \in Hook
                BY <1>2
            <4>2. pc[seen'[h]] = "committed" /\ target[seen'[h]] = target'[h]
                BY DEF IsOn
            <4>3. pc'[seen'[h]] = "committed" /\ target'[seen'[h]] = target'[h]
                BY <4>1, <4>2, QuietIsOn
            <4> QED BY <4>3 DEF IsOn
        <3>2. pc'[h] \in {"prepared", "published"} =>
                  expected'[h] = None \/ IsOn(expected[h], target[h])'
            <4> SUFFICES ASSUME IsOn(expected'[h], target'[h]), expected'[h] # None
                         PROVE  IsOn(expected[h], target[h])'
                OBVIOUS
            <4>1. expected'[h] \in Hook
                BY <1>2
            <4>2. pc[expected'[h]] = "committed" /\ target[expected'[h]] = target'[h]
                BY DEF IsOn
            <4>3. pc'[expected'[h]] = "committed" /\ target'[expected'[h]] = target'[h]
                BY <4>1, <4>2, QuietIsOn
            <4> QED BY <4>3 DEF IsOn
        <3> QED BY <1>1, <2>1, <3>1, <3>2
    <2>2. CASE k # h
        <3>1. /\ pc'[k] = pc[k] /\ target'[k] = target[k] /\ seen'[k] = seen[k]
              /\ expected'[k] = expected[k]
            BY <2>2 DEF Quiet
        <3>2. /\ pc[k] = "committed" => head[target[k]] # None
              /\ pc[k] \in {"decoded", "relocated", "prepared", "published", "committed"} =>
                    seen[k] = None \/ IsOn(seen[k], target[k])
              /\ pc[k] \in {"prepared", "published", "committed"} =>
                    expected[k] = None \/ IsOn(expected[k], target[k])
            BY DEF Chained
        <3>3. seen[k] \in Hook \cup {None} /\ expected[k] \in Hook \cup {None}
            BY <1>2, <3>1
        <3>4. IsOn(seen[k], target[k]) /\ seen[k] # None => IsOn(seen[k], target[k])'
            <4> SUFFICES ASSUME pc[seen[k]] = "committed", target[seen[k]] = target[k], seen[k] \in Hook
                         PROVE  IsOn(seen[k], target[k])'
                BY <3>3 DEF IsOn
            <4>1. pc'[seen[k]] = "committed" /\ target'[seen[k]] = target[k]
                BY QuietIsOn
            <4> QED BY <3>1, <4>1 DEF IsOn
        <3>5. IsOn(expected[k], target[k]) /\ expected[k] # None => IsOn(expected[k], target[k])'
            <4> SUFFICES ASSUME pc[expected[k]] = "committed", target[expected[k]] = target[k],
                                expected[k] \in Hook
                         PROVE  IsOn(expected[k], target[k])'
                BY <3>3 DEF IsOn
            <4>1. pc'[expected[k]] = "committed" /\ target'[expected[k]] = target[k]
                BY QuietIsOn
            <4> QED BY <3>1, <4>1 DEF IsOn
        <3> QED BY <1>1, <3>1, <3>2, <3>4, <3>5
    <2> QED BY <2>1, <2>2
<1>5. \A t \in Targets : \A S \in SUBSET Hook :
          Closed(S)' /\ head'[t] \in S => \A k \in Hook : IsOn(k, t)' => k \in S
    BY <1>1, QuietIsOn DEF Chained
<1> QED BY <1>3, <1>4, <1>5 DEF Chained

-----------------------------------------------------------------------------
(* The steps of an installer, one by one.                                   *)
InstallInv == InstallTypeOK /\ Places /\ Copied /\ Chained /\ Watched

LEMMA PcStep ==
    ASSUME NEW h \in Hook, NEW l \in Label, InstallTypeOK, Goto(h, l)
    PROVE  /\ pc' \in [Hook -> Label] /\ pc'[h] = l
           /\ \A k \in Hook : k # h => pc'[k] = pc[k]
BY DEF InstallTypeOK, Goto

(* What is left alone where no slot is given and nothing is copied.         *)
LEMMA PlacesKept ==
    ASSUME Places, UNCHANGED <<mappings, allocations, slot, trampoline>> PROVE Places'
BY DEF Places, InSlot

LEMMA CopiedKept ==
    ASSUME Copied, NEW h \in Hook, UNCHANGED <<code, bytes, slot, trampoline, target>>,
           \A k \in Hook : k # h => /\ pc'[k] = pc[k] /\ seen'[k] = seen[k]
                                    /\ storage'[k] = storage[k],
           pc'[h] \in {"prepared", "published", "committed"} =>
                pc[h] \in {"relocated", "prepared", "published"} /\ seen'[h] = seen[h],
           pc'[h] # "relocated",
           pc'[h] \in {"published", "committed"} => storage'[h] = slot[h]
    PROVE  Copied'
<1>1. \A t, x : Decoded(t, x)' = Decoded(t, x)
    BY DEF Decoded, Patch
<1> SUFFICES ASSUME NEW k \in Hook
             PROVE  /\ pc'[k] \in {"relocated", "prepared", "published", "committed"} =>
                          \/ trampoline[k] = {}
                          \/ trampoline[k]
                                = onion_x64_relocate(Decoded(target[k], seen'[k]), target[k], slot[k])
                    /\ pc'[k] \in {"published", "committed"} => storage'[k] = slot[k]
    BY <1>1 DEF Copied
<1>2. /\ pc[k] \in {"relocated", "prepared", "published", "committed"} =>
            \/ trampoline[k] = {}
            \/ trampoline[k] = onion_x64_relocate(Decoded(target[k], seen[k]), target[k], slot[k])
      /\ pc[k] \in {"published", "committed"} => storage[k] = slot[k]
    BY DEF Copied
<1>3. CASE k = h
    BY <1>2, <1>3
<1>4. CASE k # h
    BY <1>2, <1>4
<1> QED BY <1>3, <1>4

LEMMA OnlyPcStep ==
    ASSUME InstallInv, RunsInTurn, NEW h \in Hook, NEW l \in {"readable", "failed", "idle"},
           OnlyPc(h, l), pc[h] # "committed", l = "readable" => HasSlot(h)
    PROVE  HookInv'
<1> USE DEF InstallInv
<1>1. /\ UNCHANGED <<mappings, allocations, code, bytes, head, slot, trampoline, target, seen,
                     expected, storage, cpu, back, home, due, ran, spoilt>>
      /\ Goto(h, l) /\ l \in Label
    BY DEF OnlyPc, arenaVars, threadVars, Label
<1>2. /\ pc' \in [Hook -> Label] /\ pc'[h] = l
      /\ \A k \in Hook : k # h => pc'[k] = pc[k]
    BY <1>1, PcStep
<1>3. InstallTypeOK'
    BY <1>1, <1>2 DEF InstallTypeOK, HasSlot
<1>4. Quiet(h)
    BY <1>1, <1>2 DEF Quiet
<1>5. Copied'
    BY <1>1, <1>2, CopiedKept
<1>6. Chained'
    BY <1>2, <1>3, <1>4, QuietChained
<1> QED BY <1>1, <1>3, <1>4, <1>5, <1>6, PlacesKept, QuietWatched, QuietInTurn DEF HookInv

LEMMA DecodeStep ==
    ASSUME InstallInv, RunsInTurn, NEW h \in Hook, Decode(h) PROVE HookInv'
<1> USE DEF InstallInv
<1>1. /\ UNCHANGED <<mappings, allocations, code, bytes, head, slot, trampoline, target,
                     expected, storage, cpu, back, home, due, ran, spoilt>>
      /\ Goto(h, "decoded") /\ "decoded" \in Label /\ pc[h] = "readable"
      /\ seen' = [seen EXCEPT ![h] = head[target[h]]]
    BY DEF Decode, arenaVars, threadVars, Label
<1>2. /\ pc' \in [Hook -> Label] /\ pc'[h] = "decoded"
      /\ \A k \in Hook : k # h => pc'[k] = pc[k]
    BY <1>1, PcStep
<1>3. target[h] \in Targets
    BY <1>1 DEF InstallTypeOK, HasSlot
<1>4. /\ seen' \in [Hook -> Hook \cup {None}] /\ seen'[h] = head[target[h]]
      /\ \A k \in Hook : k # h => seen'[k] = seen[k]
    BY <1>1, <1>3 DEF InstallTypeOK
<1>5. InstallTypeOK'
    BY <1>1, <1>2, <1>4 DEF InstallTypeOK, HasSlot
<1>6. Quiet(h)
    BY <1>1, <1>2, <1>4 DEF Quiet
<1>7. Copied'
    BY <1>1, <1>2, <1>4, CopiedKept
<1>8. Chained'
    <2>1. seen'[h] = None \/ IsOn(seen'[h], target'[h])
        BY <1>1, <1>3, <1>4 DEF Chained
    <2> QED BY <1>2, <1>5, <1>6, <2>1, QuietChained
<1> QED BY <1>1, <1>5, <1>6, <1>7, <1>8, PlacesKept, QuietWatched, QuietInTurn DEF HookInv

LEMMA BuildPatchStep ==
    ASSUME InstallInv, RunsInTurn, NEW h \in Hook, BuildPatch(h) PROVE HookInv'
<1> USE DEF InstallInv
<1>1. /\ UNCHANGED <<mappings, allocations, code, bytes, head, slot, trampoline, target,
                     seen, storage, cpu, back, home, due, ran, spoilt>>
      /\ Goto(h, "prepared") /\ "prepared" \in Label /\ pc[h] = "relocated"
      /\ expected' = [expected EXCEPT ![h] = head[target[h]]]
    BY DEF BuildPatch, arenaVars, threadVars, Label
<1>2. /\ pc' \in [Hook -> Label] /\ pc'[h] = "prepared"
      /\ \A k \in Hook : k # h => pc'[k] = pc[k]
    BY <1>1, PcStep
<1>3. target[h] \in Targets
    BY <1>1 DEF InstallTypeOK, HasSlot
<1>4. /\ expected' \in [Hook -> Hook \cup {None}] /\ expected'[h] = head[target[h]]
      /\ \A k \in Hook : k # h => expected'[k] = expected[k]
    BY <1>1, <1>3 DEF InstallTypeOK
<1>5. InstallTypeOK'
    BY <1>1, <1>2, <1>4 DEF InstallTypeOK, HasSlot
<1>6. Quiet(h)
    BY <1>1, <1>2, <1>4 DEF Quiet
<1>7. Copied'
    BY <1>1, <1>2, CopiedKept
<1>8. Chained'
    <2>1. expected'[h] = None \/ IsOn(expected'[h], target'[h])
        BY <1>1, <1>3, <1>4 DEF Chained
    <2>2. seen'[h] = None \/ IsOn(seen'[h], target'[h])
        BY <1>1 DEF Chained
    <2> QED BY <1>2, <1>5, <1>6, <2>1, <2>2, QuietChained
<1> QED BY <1>1, <1>5, <1>6, <1>7, <1>8, PlacesKept, QuietWatched, QuietInTurn DEF HookInv

LEMMA PublishStep ==
    ASSUME InstallInv, RunsInTurn, NEW h \in Hook, Publish(h) PROVE HookInv'
<1> USE DEF InstallInv
<1>1. /\ UNCHANGED <<mappings, allocations, code, bytes, head, slot, trampoline, target,
                     seen, expected, cpu, back, home, due, ran, spoilt>>
      /\ Goto(h, "published") /\ "published" \in Label /\ pc[h] = "prepared"
      /\ storage' = [storage EXCEPT ![h] = slot[h]]
    BY DEF Publish, arenaVars, threadVars, Label
<1>2. /\ pc' \in [Hook -> Label] /\ pc'[h] = "published"
      /\ \A k \in Hook : k # h => pc'[k] = pc[k]
    BY <1>1, PcStep
<1>3. /\ storage' \in [Hook -> Nat \cup {None}] /\ storage'[h] = slot[h]
      /\ \A k \in Hook : k # h => storage'[k] = storage[k]
    BY <1>1 DEF InstallTypeOK
<1>4. InstallTypeOK'
    BY <1>1, <1>2, <1>3 DEF InstallTypeOK, HasSlot
<1>5. Quiet(h)
    BY <1>1, <1>2 DEF Quiet
<1>6. Copied'
    BY <1>1, <1>2, <1>3, CopiedKept
<1>7. Chained'
    <2>1. /\ seen'[h] = None \/ IsOn(seen'[h], target'[h])
          /\ expected'[h] = None \/ IsOn(expected'[h], target'[h])
        BY <1>1 DEF Chained
    <2> QED BY <1>2, <1>4, <1>5, <2>1, QuietChained
<1> QED BY <1>1, <1>4, <1>5, <1>6, <1>7, PlacesKept, QuietWatched, QuietInTurn DEF HookInv

LEMMA CommitFailsStep ==
    ASSUME InstallInv, RunsInTurn, NEW h \in Hook, CommitFails(h) PROVE HookInv'
<1> USE DEF InstallInv
<1>1. /\ UNCHANGED <<mappings, allocations, code, bytes, head, slot, trampoline, target,
                     seen, expected, cpu, back, home, due, ran, spoilt>>
      /\ Goto(h, "failed") /\ "failed" \in Label /\ pc[h] = "published"
      /\ storage' = [storage EXCEPT ![h] = None]
    BY DEF CommitFails, arenaVars, threadVars, Label
<1>2. /\ pc' \in [Hook -> Label] /\ pc'[h] = "failed"
      /\ \A k \in Hook : k # h => pc'[k] = pc[k]
    BY <1>1, PcStep
<1>3. /\ storage' \in [Hook -> Nat \cup {None}]
      /\ \A k \in Hook : k # h => storage'[k] = storage[k]
    BY <1>1 DEF InstallTypeOK
<1>4. InstallTypeOK'
    BY <1>1, <1>2, <1>3 DEF InstallTypeOK, HasSlot
<1>5. Quiet(h)
    BY <1>1, <1>2 DEF Quiet
<1>6. Copied'
    BY <1>1, <1>2, <1>3, CopiedKept
<1>7. Chained'
    BY <1>2, <1>4, <1>5, QuietChained
<1> QED BY <1>1, <1>4, <1>5, <1>6, <1>7, PlacesKept, QuietWatched, QuietInTurn DEF HookInv

(* A function, or a patch of one, that is decoded is a program that is long *)
(* enough.                                                                  *)
LEMMA DecodedIsCode ==
    ASSUME InstallTypeOK, NEW h \in Hook, HasSlot(h), NEW x
    PROVE  /\ IsCode(Decoded(target[h], x))
           /\ CodeSize(Decoded(target[h], x)) >= HOOK_LENGTH
           /\ target[h] \in Nat /\ slot[h] \in Nat
<1>1. /\ target[h] \in Targets /\ target[h] % 16 = 0 /\ target[h] \in Nat /\ slot[h] \in Nat
      /\ code \in Programs /\ bytes \in PointerBytes
    BY DEF InstallTypeOK
<1>2. IsCode(code[target[h]]) /\ CodeSize(code[target[h]]) >= HOOK_LENGTH
    BY <1>1, CodeAssumption
<1>3. IsCode(Patch(target[h], x)) /\ CodeSize(Patch(target[h], x)) >= HOOK_LENGTH
    <2>1. PICK t \in Int : t = target[h]
        BY <1>1
    <2>2. IsCode(Patch(t, x)) /\ CodeSize(Patch(t, x)) >= HOOK_LENGTH
        BY <1>1, PatchIsCode
    <2> QED BY <2>1, <2>2
<1> QED BY <1>1, <1>2, <1>3 DEF Decoded

LEMMA RelocateStep ==
    ASSUME InstallInv, RunsInTurn, ArenaInv, NEW h \in Hook, Relocate(h),
           ~Refused(Decoded(target[h], seen[h]), target[h], slot[h])
    PROVE  HookInv'
<1> USE DEF InstallInv
<1> DEFINE source == Decoded(target[h], seen[h])
           copy == onion_x64_relocate(source, target[h], slot[h])
<1>1. /\ UNCHANGED <<mappings, allocations, code, bytes, head, slot, target, seen,
                     expected, storage, cpu, back, home, due, ran, spoilt>>
      /\ Goto(h, "relocated") /\ "relocated" \in Label /\ pc[h] = "decoded"
      /\ trampoline' = [trampoline EXCEPT ![h] = IF head[target[h]] = seen[h] THEN copy ELSE {}]
    BY DEF Relocate, arenaVars, threadVars, Label
<1>2. /\ pc' \in [Hook -> Label] /\ pc'[h] = "relocated"
      /\ \A k \in Hook : k # h => pc'[k] = pc[k]
    BY <1>1, PcStep
<1>3. trampoline = [k \in Hook |-> trampoline[k]] /\ HasSlot(h) /\ slot[h] # 0
    BY <1>1 DEF InstallTypeOK, HasSlot
<1> HIDE DEF copy
<1>4. /\ trampoline' = [k \in Hook |-> trampoline'[k]]
      /\ trampoline'[h] = {} \/ trampoline'[h] = copy
      /\ \A k \in Hook : k # h => trampoline'[k] = trampoline[k]
    BY <1>1, <1>3
<1>5. InstallTypeOK'
    BY <1>1, <1>2, <1>4 DEF InstallTypeOK, HasSlot
<1>6. Quiet(h)
    BY <1>1, <1>2 DEF Quiet
<1>7. Capacity \in Nat
    BY ArenaAssumption, DetourAssumption DEF Capacity
<1>8. ASSUME NEW w \in copy PROVE w.at \in Int /\ slot[h] <= w.at /\ w.at < slot[h] + Capacity
    <2>1. PICK p : p = source
        OBVIOUS
    <2>2. IsCode(p) /\ CodeSize(p) >= HOOK_LENGTH /\ target[h] \in Nat /\ slot[h] \in Nat
        BY <1>3, <2>1, DecodedIsCode
    <2>3. w \in onion_x64_relocate(p, target[h], slot[h]) /\ ~Refused(p, target[h], slot[h])
        BY <2>1 DEF copy
    <2> QED BY <1>7, <2>2, <2>3, CopyWithinSlot
<1>9. Places'
    <2>1. \A k \in Hook : \A w \in trampoline'[k] :
              /\ w.at \in Int
              /\ \E i \in DOMAIN allocations :
                    allocations[i].begin <= w.at /\ w.at < allocations[i].end
              /\ \A j \in Hook : j # k /\ slot[j] # 0 => ~InSlot(w.at, j)
        <3> SUFFICES ASSUME NEW k \in Hook, NEW w \in trampoline'[k]
                     PROVE  /\ w.at \in Int
                            /\ \E i \in DOMAIN allocations :
                                  allocations[i].begin <= w.at /\ w.at < allocations[i].end
                            /\ \A j \in Hook : j # k /\ slot[j] # 0 => ~InSlot(w.at, j)
            OBVIOUS
        <3>1. CASE k # h
            BY <1>4, <3>1 DEF Places
        <3>2. CASE k = h
            <4>1. w \in copy
                BY <1>4, <3>2
            <4>2. w.at \in Int /\ slot[h] <= w.at /\ w.at < slot[h] + Capacity
                BY <1>8, <4>1
            <4>3. PICK i \in DOMAIN allocations :
                      /\ slot[h] = allocations[i].begin
                      /\ slot[h] + Capacity <= allocations[i].end
                BY <1>3 DEF Places
            <4>4. allocations[i].end \in Nat /\ slot[h] \in Nat
                <5>1. allocations[i] \in Allocation
                    BY DEF ArenaInv, ArenaTypeOK
                <5>2. slot[h] \in Nat
                    BY DEF InstallTypeOK
                <5> QED BY <5>1, <5>2 DEF Allocation
            <4>5. allocations[i].begin <= w.at /\ w.at < allocations[i].end
                BY <1>7, <4>2, <4>3, <4>4
            <4>6. ASSUME NEW j \in Hook, j # k, slot[j] # 0 PROVE ~InSlot(w.at, j)
                <5>1. slot[h] + Capacity <= slot[j] \/ slot[j] + Capacity <= slot[h]
                    BY <1>3, <3>2, <4>6 DEF Places
                <5>2. slot[j] \in Nat
                    BY DEF InstallTypeOK
                <5> QED BY <1>7, <4>2, <4>4, <5>1, <5>2 DEF InSlot
            <4> QED BY <4>2, <4>5, <4>6
        <3> QED BY <3>1, <3>2
    <2> QED BY <1>1, <2>1 DEF Places, InSlot
<1>10. Copied'
    <2>1. \A t, x : Decoded(t, x)' = Decoded(t, x)
        BY <1>1 DEF Decoded, Patch
    <2> SUFFICES ASSUME NEW k \in Hook
                 PROVE  /\ pc'[k] \in {"relocated", "prepared", "published", "committed"} =>
                              \/ trampoline'[k] = {}
                              \/ trampoline'[k]
                                    = onion_x64_relocate(Decoded(target[k], seen[k]), target[k], slot[k])
                        /\ pc'[k] \in {"published", "committed"} => storage[k] = slot[k]
        BY <1>1, <2>1 DEF Copied
    <2>2. CASE k = h
        BY <1>2, <1>4, <2>2 DEF copy
    <2>3. CASE k # h
        BY <1>2, <1>4, <2>3 DEF Copied
    <2> QED BY <2>2, <2>3
<1>11. Chained'
    <2>1. seen'[h] = None \/ IsOn(seen'[h], target'[h])
        BY <1>1 DEF Chained
    <2> QED BY <1>2, <1>5, <1>6, <2>1, QuietChained
<1> QED BY <1>5, <1>6, <1>9, <1>10, <1>11, QuietWatched, QuietInTurn DEF HookInv

LEMMA AllocateStep ==
    ASSUME InstallInv, RunsInTurn, ArenaInv, NEW h \in Hook, NEW t \in Targets, Allocate(h, t)
    PROVE  HookInv'
<1> USE DEF InstallInv
<1>1. PICK address \in Candidates :
          /\ allocate_near(Capacity, t, address)
          /\ slot' = [slot EXCEPT ![h] = address]
    BY DEF Allocate, Capacity
<1>2. /\ UNCHANGED <<code, bytes, head, trampoline, seen, expected, storage, cpu, back, home,
                     due, ran, spoilt>>
      /\ target' = [target EXCEPT ![h] = t]
      /\ Goto(h, "allocated") /\ "allocated" \in Label /\ pc[h] = "idle" /\ t % 16 = 0
    BY DEF Allocate, threadVars, Label
<1>3. /\ pc' \in [Hook -> Label] /\ pc'[h] = "allocated"
      /\ \A k \in Hook : k # h => pc'[k] = pc[k]
    BY <1>2, PcStep
<1>4. /\ address \in Nat \ {0} /\ Capacity \in Nat \ {0}
      /\ \A i \in DOMAIN mappings' : mappings'[i].base \in MapBases
    BY <1>1, NewSlot DEF Places
<1>5. PICK m \in Nat :
          /\ Capacity <= m /\ Unique(address, m)
          /\ allocations' = Append(allocations, [begin |-> address, end |-> address + m,
                                                 target |-> t])
    BY <1>1, NewSlot DEF Places
<1>6. t \in Nat
    BY ArenaAssumption
<1>7. /\ slot' \in [Hook -> Nat] /\ slot'[h] = address
      /\ target' \in [Hook -> Nat] /\ target'[h] = t
      /\ \A k \in Hook : k # h => slot'[k] = slot[k] /\ target'[k] = target[k]
    BY <1>1, <1>2, <1>4, <1>6 DEF InstallTypeOK
<1>8. InstallTypeOK'
    BY <1>2, <1>3, <1>4, <1>7 DEF InstallTypeOK, HasSlot
<1>9. Quiet(h)
    BY <1>2, <1>3, <1>7 DEF Quiet
<1>10. allocations \in Seq(Allocation) /\ \A i \in DOMAIN allocations : allocations[i] \in Allocation
    BY DEF ArenaInv, ArenaTypeOK
<1>11. PICK new : new = [begin |-> address, end |-> address + m, target |-> t]
    OBVIOUS
<1>12. /\ DOMAIN allocations' = DOMAIN allocations \cup {Len(allocations) + 1}
       /\ allocations'[Len(allocations) + 1] = new
       /\ \A i \in DOMAIN allocations : allocations'[i] = allocations[i]
    BY <1>5, <1>10, <1>11
<1>13. new.begin = address /\ new.end = address + m
    BY <1>11
<1>14. address \in Nat /\ Capacity \in Nat /\ m \in Nat /\ Capacity <= m
    BY <1>4, <1>5
<1>15. Places'
    <2>1. ASSUME NEW k \in Hook, slot'[k] # 0
          PROVE  \E i \in DOMAIN allocations' :
                    /\ slot'[k] = allocations'[i].begin /\ slot'[k] < allocations'[i].end
                    /\ slot'[k] + Capacity <= allocations'[i].end
        <3>1. CASE k = h
            <4>1. address < address + m /\ address + Capacity <= address + m
                BY <1>4, <1>5
            <4> QED BY <1>7, <1>12, <1>13, <3>1, <4>1
        <3>2. CASE k # h
            <4>1. slot[k] # 0
                BY <1>7, <2>1, <3>2
            <4>2. PICK i \in DOMAIN allocations :
                      /\ slot[k] = allocations[i].begin /\ slot[k] < allocations[i].end
                      /\ slot[k] + Capacity <= allocations[i].end
                BY <4>1 DEF Places
            <4> QED BY <1>7, <1>12, <3>2, <4>2
        <3> QED BY <3>1, <3>2
    <2>2. ASSUME NEW i \in DOMAIN allocations
          PROVE  address >= allocations[i].end \/ address + m <= allocations[i].begin
        BY <1>5 DEF Unique
    <2>3. ASSUME NEW k \in Hook, k # h, slot[k] # 0
          PROVE  address + Capacity <= slot[k] \/ slot[k] + Capacity <= address
        <3>1. PICK i \in DOMAIN allocations :
                  /\ slot[k] = allocations[i].begin /\ slot[k] + Capacity <= allocations[i].end
            BY <2>3 DEF Places
        <3>2. allocations[i].begin \in Nat /\ allocations[i].end \in Nat
            BY <1>10 DEF Allocation
        <3>3. PICK b, e : b = allocations[i].begin /\ e = allocations[i].end
            OBVIOUS
        <3>4. /\ b \in Nat /\ e \in Nat /\ slot[k] = b /\ slot[k] + Capacity <= e
              /\ address >= e \/ address + m <= b
            BY <2>2, <3>1, <3>2, <3>3
        <3> QED BY <1>14, <3>4
    <2>4. ASSUME NEW k \in Hook, NEW j \in Hook, k # j, slot'[k] # 0, slot'[j] # 0
          PROVE  slot'[k] + Capacity <= slot'[j] \/ slot'[j] + Capacity <= slot'[k]
        <3>1. CASE k = h
            BY <1>7, <2>3, <2>4, <3>1
        <3>2. CASE j = h
            BY <1>7, <2>3, <2>4, <3>2
        <3>3. CASE k # h /\ j # h
            BY <1>7, <2>4, <3>3 DEF Places
        <3> QED BY <3>1, <3>2, <3>3
    <2>5. ASSUME NEW k \in Hook, NEW w \in trampoline'[k]
          PROVE  /\ w.at \in Int
                 /\ \E i \in DOMAIN allocations' :
                       allocations'[i].begin <= w.at /\ w.at < allocations'[i].end
                 /\ \A j \in Hook : j # k /\ slot'[j] # 0 =>
                       ~(slot'[j] <= w.at /\ w.at < slot'[j] + Capacity)
        <3>1. w \in trampoline[k]
            BY <1>2
        <3>2. w.at \in Int
            BY <3>1 DEF Places
        <3>3. PICK i \in DOMAIN allocations : allocations[i].begin <= w.at /\ w.at < allocations[i].end
            BY <3>1 DEF Places
        <3>4. i \in DOMAIN allocations' /\ allocations'[i] = allocations[i]
            BY <1>12
        <3>5. ASSUME NEW j \in Hook, j # k, slot'[j] # 0
              PROVE  ~(slot'[j] <= w.at /\ w.at < slot'[j] + Capacity)
            <4>1. CASE j = h
                <5>1. allocations[i].begin \in Nat /\ allocations[i].end \in Nat
                    BY <1>10 DEF Allocation
                <5>2. address >= allocations[i].end \/ address + m <= allocations[i].begin
                    BY <2>2
                <5>3. ~(address <= w.at /\ w.at < address + Capacity)
                    <6>1. PICK b, e, a : /\ b = allocations[i].begin /\ e = allocations[i].end
                                         /\ a = w.at
                        OBVIOUS
                    <6>2. /\ b \in Nat /\ e \in Nat /\ a \in Int /\ b <= a /\ a < e
                          /\ address >= e \/ address + m <= b
                        BY <3>2, <3>3, <5>1, <5>2, <6>1
                    <6>3. ~(address <= a /\ a < address + Capacity)
                        BY <1>14, <6>2
                    <6> QED BY <6>1, <6>3
                <5> QED BY <1>7, <4>1, <5>3
            <4>2. CASE j # h
                <5>1. slot'[j] = slot[j] /\ slot[j] # 0
                    BY <1>7, <3>5, <4>2
                <5>2. ~InSlot(w.at, j)
                    BY <3>1, <3>5, <5>1 DEF Places
                <5> QED BY <5>1, <5>2 DEF InSlot
            <4> QED BY <4>1, <4>2
        <3> QED BY <3>2, <3>3, <3>4, <3>5
    <2> QED BY <1>4, <2>1, <2>4, <2>5 DEF Places, InSlot
<1>16. Copied'
    <2>1. \A x, y : Decoded(x, y)' = Decoded(x, y)
        BY <1>2 DEF Decoded, Patch
    <2> SUFFICES ASSUME NEW k \in Hook
                 PROVE  /\ pc'[k] \in {"relocated", "prepared", "published", "committed"} =>
                              \/ trampoline[k] = {}
                              \/ trampoline[k]
                                    = onion_x64_relocate(Decoded(target'[k], seen[k]), target'[k], slot'[k])
                        /\ pc'[k] \in {"published", "committed"} => storage[k] = slot'[k]
        BY <1>2, <2>1 DEF Copied
    <2>2. CASE k = h
        BY <1>3, <2>2
    <2>3. CASE k # h
        BY <1>3, <1>7, <2>3 DEF Copied
    <2> QED BY <2>2, <2>3
<1>17. Chained'
    BY <1>3, <1>8, <1>9, QuietChained
<1> QED BY <1>8, <1>9, <1>15, <1>16, <1>17, QuietWatched, QuietInTurn DEF HookInv

(* The exchange: the new hook is put before all that were on the function,  *)
(* for it expected the one that was first.                                  *)
LEMMA CommitStep ==
    ASSUME InstallInv, RunsInTurn, NEW h \in Hook, Commit(h) PROVE HookInv'
<1> USE DEF InstallInv
<1>1. PICK t : t = target[h]
    OBVIOUS
<1>2. /\ UNCHANGED <<mappings, allocations, code, bytes, slot, trampoline, target, seen,
                     expected, storage, cpu, back, home, due, ran>>
      /\ Goto(h, "committed") /\ "committed" \in Label /\ pc[h] = "published"
      /\ head[t] = expected[h] /\ head' = [head EXCEPT ![t] = h]
      /\ spoilt' = [spoilt EXCEPT ![t] = @ \cup Hazards(h)]
    BY <1>1 DEF Commit, compare_exchange_patch, arenaVars, threadVars, Label
<1>3. /\ pc' \in [Hook -> Label] /\ pc'[h] = "committed"
      /\ \A k \in Hook : k # h => pc'[k] = pc[k]
    BY <1>2, PcStep
<1>4. t \in Targets
    BY <1>1, <1>2 DEF InstallTypeOK, HasSlot
<1>5. /\ head' \in [Targets -> Hook \cup {None}] /\ head'[t] = h
      /\ \A x \in Targets : x # t => head'[x] = head[x]
      /\ head \in [Targets -> Hook \cup {None}]
    BY <1>2, <1>4 DEF InstallTypeOK
<1>6. h # None
    BY NamesAssumption
<1>7. \A k \in Hook : \A x : IsOn(k, x)' <=> IsOn(k, x) \/ (k = h /\ x = t)
    BY <1>1, <1>2, <1>3 DEF IsOn
<1>8. \A S \in SUBSET Hook : Closed(S)' => Closed(S)
    BY <1>2, <1>3 DEF Closed
<1>9. /\ seen \in [Hook -> Hook \cup {None}] /\ expected \in [Hook -> Hook \cup {None}]
    BY DEF InstallTypeOK
<1>10. PICK spoils \in SUBSET {"amid", "awaited", "raced", "rewritten", "jumps_back"} : spoils = Hazards(h)
    BY DEF Hazards
<1>11. /\ spoilt' \in [Targets -> SUBSET {"amid", "awaited", "raced", "rewritten", "jumps_back"}]
       /\ spoilt'[t] = spoilt[t] \cup spoils
       /\ \A x \in Targets : spoilt[x] \subseteq spoilt'[x]
    <2>1. spoilt \in [Targets -> SUBSET {"amid", "awaited", "raced", "rewritten", "jumps_back"}]
        BY DEF InstallTypeOK
    <2> QED BY <1>2, <1>4, <1>10, <2>1
<1>12. InstallTypeOK'
    BY <1>2, <1>3, <1>5, <1>11 DEF InstallTypeOK, HasSlot
<1>13. Copied'
    <2>1. storage'[h] = slot[h]
        BY <1>2 DEF Copied
    <2> QED BY <1>2, <1>3, <2>1, CopiedKept
<1>14. Chained'
    <2>1. \A x \in Targets : head'[x] # None => IsOn(head[x], x)'
        <3> SUFFICES ASSUME NEW x \in Targets, head'[x] # None PROVE IsOn(head[x], x)'
            OBVIOUS
        <3>1. CASE x = t
            <4>1. pc'[h] = "committed" /\ target'[h] = t
                BY <1>1, <1>2, <1>3
            <4> QED BY <1>5, <3>1, <4>1 DEF IsOn
        <3>2. CASE x # t
            <4>1. head'[x] = head[x] /\ head[x] # None /\ head[x] \in Hook
                BY <1>5, <3>2
            <4>2. PICK g \in Hook : g = head[x]
                BY <4>1
            <4>3. IsOn(head[x], x)
                BY <4>1 DEF Chained
            <4>4. pc[g] = "committed" /\ target[g] = x
                BY <4>2, <4>3 DEF IsOn
            <4>5. pc'[g] = "committed" /\ target'[g] = x
                BY <1>2, <1>3, <4>4
            <4> QED BY <4>1, <4>2, <4>5 DEF IsOn
        <3> QED BY <3>1, <3>2
    <2>2. ASSUME NEW k \in Hook
          PROVE  /\ pc'[k] = "committed" => head'[target'[k]] # None
                 /\ pc'[k] \in {"decoded", "relocated", "prepared", "published", "committed"} =>
                       seen'[k] = None \/ IsOn(seen[k], target[k])'
                 /\ pc'[k] \in {"prepared", "published", "committed"} =>
                       expected'[k] = None \/ IsOn(expected[k], target[k])'
        <3>1. /\ pc[k] = "committed" => head[target[k]] # None
              /\ pc[k] \in {"decoded", "relocated", "prepared", "published", "committed"} =>
                    seen[k] = None \/ IsOn(seen[k], target[k])
              /\ pc[k] \in {"prepared", "published", "committed"} =>
                    expected[k] = None \/ IsOn(expected[k], target[k])
            BY DEF Chained
        <3>2. seen[k] \in Hook \cup {None} /\ expected[k] \in Hook \cup {None}
            BY <1>9
        <3>3. pc'[k] = "committed" => head'[target'[k]] # None
            <4> SUFFICES ASSUME pc'[k] = "committed" PROVE head'[target[k]] # None
                BY <1>2
            <4>1. CASE target[k] = t
                BY <1>5, <1>6, <4>1
            <4>2. CASE target[k] # t
                <5>1. k # h /\ pc[k] = "committed"
                    BY <1>1, <1>3, <4>2
                <5>2. target[k] \in Targets
                    BY <5>1 DEF InstallTypeOK, HasSlot
                <5> QED BY <1>5, <3>1, <4>2, <5>1, <5>2
            <4> QED BY <4>1, <4>2
        <3>4. seen[k] \in Hook /\ IsOn(seen[k], target[k]) => IsOn(seen[k], target[k])'
            <4> SUFFICES ASSUME seen[k] \in Hook, pc[seen[k]] = "committed",
                                target[seen[k]] = target[k]
                         PROVE  IsOn(seen[k], target[k])'
                BY DEF IsOn
            <4>1. pc'[seen[k]] = "committed"
                BY <1>2, <1>3
            <4> QED BY <1>2, <4>1 DEF IsOn
        <3>5. expected[k] \in Hook /\ IsOn(expected[k], target[k]) => IsOn(expected[k], target[k])'
            <4> SUFFICES ASSUME expected[k] \in Hook, pc[expected[k]] = "committed",
                                target[expected[k]] = target[k]
                         PROVE  IsOn(expected[k], target[k])'
                BY DEF IsOn
            <4>1. pc'[expected[k]] = "committed"
                BY <1>2, <1>3
            <4> QED BY <1>2, <4>1 DEF IsOn
        <3>6. /\ pc'[k] \in {"decoded", "relocated", "prepared", "published", "committed"} =>
                    pc[k] \in {"decoded", "relocated", "prepared", "published", "committed"}
              /\ pc'[k] \in {"prepared", "published", "committed"} =>
                    pc[k] \in {"prepared", "published", "committed"}
            BY <1>2, <1>3
        <3> QED BY <1>2, <3>1, <3>2, <3>3, <3>4, <3>5, <3>6
    <2>3. ASSUME NEW x \in Targets, NEW S \in SUBSET Hook, Closed(S)', head'[x] \in S,
                 NEW k \in Hook, IsOn(k, x)'
          PROVE  k \in S
        <3>1. CASE x # t
            <4>1. head[x] \in S /\ IsOn(k, x) /\ Closed(S)
                BY <1>5, <1>7, <1>8, <2>3, <3>1
            <4> QED BY <4>1 DEF Chained
        <3>2. CASE x = t
            <4>1. h \in S /\ (expected[h] # None => expected[h] \in S)
                <5>1. h \in S
                    BY <1>5, <2>3, <3>2
                <5> QED BY <1>2, <1>3, <2>3, <5>1 DEF Closed
            <4>2. CASE k = h
                BY <4>1, <4>2
            <4>3. CASE k # h
                <5>1. IsOn(k, t)
                    BY <1>7, <2>3, <3>2, <4>3
                <5>2. head[t] # None
                    BY <5>1 DEF IsOn, Chained
                <5>3. head[t] \in S /\ Closed(S)
                    BY <1>2, <1>8, <2>3, <4>1, <5>2
                <5> QED BY <1>4, <5>1, <5>3 DEF Chained
            <4> QED BY <4>2, <4>3
        <3> QED BY <3>1, <3>2
    <2> QED BY <2>1, <2>2, <2>3 DEF Chained
<1>15. Watched'
    <2> SUFFICES ASSUME NEW k \in Hook, pc'[k] = "committed"
                 PROVE  /\ seen[k] # expected[k] => "raced" \in spoilt'[target[k]]
                        /\ seen[k] # None /\ (\E i \in DOMAIN bytes : bytes[i].kind # "plain")
                              => "rewritten" \in spoilt'[target[k]]
        BY <1>2 DEF Watched
    <2>1. CASE k # h
        <3>1. pc[k] = "committed" /\ target[k] \in Targets
            BY <1>3, <2>1 DEF InstallTypeOK, HasSlot
        <3>2. spoilt[target[k]] \subseteq spoilt'[target[k]]
            BY <1>11, <3>1
        <3> QED BY <3>1, <3>2 DEF Watched
    <2>2. CASE k = h
        <3>1. /\ seen[h] # expected[h] => "raced" \in Hazards(h)
              /\ seen[h] # None /\ (\E i \in DOMAIN bytes : bytes[i].kind # "plain")
                    => "rewritten" \in Hazards(h)
            BY DEF Hazards
        <3> QED BY <1>1, <1>10, <1>11, <2>2, <3>1
    <2> QED BY <2>1, <2>2
<1>16. RunsInTurn'
    <2>1. Sound' => Sound
        BY <1>11 DEF Sound
    <2>2. \A x : Ahead(x) => \A S \in SUBSET Hook : Closed(S)' /\ x \in S => due \ ran \subseteq S
        BY <1>8 DEF Ahead
    <2> SUFFICES ASSUME Pending PROVE Pending'
        BY <1>2, <2>1 DEF RunsInTurn
    <2>3. home' \in Int /\ Elsewhere(home')
        BY <1>2 DEF Pending
    <2>4. CASE cpu \in Targets /\ head[cpu] # None /\ Ahead(head[cpu])
        <3>1. CASE cpu # t
            <4>1. head'[cpu] = head[cpu]
                BY <1>5, <2>4, <3>1
            <4>2. Ahead(head[cpu])'
                BY <1>2, <2>2, <2>4, <4>1 DEF Ahead
            <4> QED BY <1>2, <2>3, <2>4, <4>1, <4>2 DEF Pending
        <3>2. CASE cpu = t
            <4>1. head'[cpu] = h
                BY <1>5, <3>2
            <4>2. ASSUME NEW S \in SUBSET Hook, Closed(S)', h \in S PROVE due \ ran \subseteq S
                <5>1. expected[h] \in S
                    BY <1>2, <1>3, <2>4, <3>2, <4>2 DEF Closed
                <5> QED BY <1>2, <2>2, <2>4, <3>2, <4>2, <5>1
            <4>3. Ahead(head[cpu])'
                BY <1>2, <4>1, <4>2 DEF Ahead
            <4> QED BY <1>2, <1>6, <2>3, <2>4, <4>1, <4>3 DEF Pending
        <3> QED BY <3>1, <3>2
    <2>5. CASE cpu \in Hook /\ pc[cpu] = "committed" /\ Ahead(cpu)
        <3>1. Ahead(cpu)' /\ pc'[cpu] = "committed"
            BY <1>2, <1>3, <2>2, <2>5 DEF Ahead
        <3> QED BY <1>2, <2>3, <2>5, <3>1 DEF Pending
    <2>6. CASE \E k \in Hook : /\ pc[k] = "committed" /\ expected[k] # None
                               /\ cpu = slot[k] /\ Ahead(expected[k])
        <3>1. PICK k \in Hook : /\ pc[k] = "committed" /\ expected[k] # None
                                /\ cpu = slot[k] /\ Ahead(expected[k])
            BY <2>6
        <3>2. pc'[k] = "committed"
            BY <1>2, <1>3, <3>1
        <3>3. Ahead(expected[k])'
            BY <1>2, <2>2, <3>1 DEF Ahead
        <3> QED BY <1>2, <2>3, <3>1, <3>2, <3>3 DEF Pending
    <2> QED BY <2>4, <2>5, <2>6 DEF Pending
<1> QED BY <1>2, <1>12, <1>13, <1>14, <1>15, <1>16, PlacesKept DEF HookInv

LEMMA InstallStep ==
    ASSUME ArenaInv, InstallInv, RunsInTurn, NEW h \in Hook, Installs(h) PROVE HookInv'
<1>1. CASE \E t \in Targets : Allocate(h, t) \/ NoSlot(h, t)
    <2>1. ASSUME NEW t \in Targets, NoSlot(h, t) PROVE HookInv'
        <3>1. OnlyPc(h, "failed") /\ pc[h] # "committed"
            BY <2>1 DEF NoSlot
        <3> QED BY <3>1, OnlyPcStep
    <2> QED BY <1>1, <2>1, AllocateStep
<1>2. CASE Protect(h)
    <2>1. pc[h] = "allocated"
        BY <1>2 DEF Protect
    <2>2. HasSlot(h) /\ pc[h] # "committed"
        BY <2>1 DEF HasSlot
    <2>3. CASE OnlyPc(h, "readable")
        BY <2>2, <2>3, OnlyPcStep
    <2>4. CASE OnlyPc(h, "failed")
        BY <2>2, <2>4, OnlyPcStep
    <2> QED BY <1>2, <2>3, <2>4 DEF Protect
<1>3. CASE Decode(h)
    BY <1>3, DecodeStep
<1>4. CASE Relocate(h)
    <2>1. pc[h] = "decoded"
        BY <1>4 DEF Relocate
    <2>2. CASE Refused(Decoded(target[h], seen[h]), target[h], slot[h])
        <3>1. OnlyPc(h, "failed") /\ pc[h] # "committed"
            BY <1>4, <2>1, <2>2 DEF Relocate
        <3> QED BY <3>1, OnlyPcStep
    <2>3. CASE ~Refused(Decoded(target[h], seen[h]), target[h], slot[h])
        BY <1>4, <2>3, RelocateStep
    <2> QED BY <2>2, <2>3
<1>5. CASE BuildPatch(h)
    BY <1>5, BuildPatchStep
<1>6. CASE Publish(h)
    BY <1>6, PublishStep
<1>7. CASE Commit(h)
    BY <1>7, CommitStep
<1>8. CASE CommitFails(h)
    BY <1>8, CommitFailsStep
<1>9. CASE Retry(h)
    <2>1. OnlyPc(h, "idle") /\ pc[h] # "committed"
        BY <1>9 DEF Retry
    <2> QED BY <2>1, OnlyPcStep
<1> QED BY <1>1, <1>2, <1>3, <1>4, <1>5, <1>6, <1>7, <1>8, <1>9 DEF Installs

-----------------------------------------------------------------------------
(* The thread.  In memory that mmap() returned there is no function.        *)
LEMMA NoFunctionThere ==
    ASSUME code \in Programs, NEW a \in Int, ~Elsewhere(a)
    PROVE  a \notin Targets /\ AtHome(a) = {}
<1>1. \A t \in Targets : t \in Nat /\ CodeSize(code[t]) \in Nat
    <2> SUFFICES ASSUME NEW t \in Targets PROVE t \in Nat /\ CodeSize(code[t]) \in Nat
        OBVIOUS
    <2>1. IsCode(code[t]) /\ t \in Nat
        BY CodeAssumption, ArenaAssumption
    <2>2. PICK c : c = code[t]
        OBVIOUS
    <2>3. Ordered(c) /\ Len(c) \in Nat
        BY <2>1, <2>2, CodeIsOrdered, CodeIsSeq
    <2> QED BY <2>1, <2>2, <2>3 DEF Ordered, CodeSize
<1>2. a \notin Targets
    <2>1. \A t \in Targets : t \in t .. t + HOOK_LENGTH - 1
        BY <1>1, CodeAssumption
    <2> QED BY <2>1, MemoryAssumption
<1>3. InFunction(a) = {}
    <2> SUFFICES ASSUME NEW t \in InFunction(a) PROVE FALSE
        OBVIOUS
    <2>1. t \in Targets /\ a >= t /\ a < t + CodeSize(code[t])
        BY DEF InFunction, CodeSize
    <2>2. a \in t .. t + CodeSize(code[t])
        BY <1>1, <2>1
    <2> QED BY <2>1, <2>2, MemoryAssumption
<1>4. AtHome(a) = {}
    BY <1>3 DEF AtHome
<1> QED BY <1>2, <1>4

(* The first instruction of a function is at its address.                   *)
LEMMA FirstAtHome ==
    ASSUME code \in Programs, NEW t \in Targets PROVE AtHome(t) # {}
<1>1. IsCode(code[t]) /\ t \in Nat
    BY CodeAssumption, ArenaAssumption
<1>2. PICK c : c = code[t]
    OBVIOUS
<1>3. Ordered(c) /\ Len(c) \in Nat \ {0} /\ DOMAIN c = 1 .. Len(c)
    BY <1>1, <1>2, CodeIsOrdered, CodeIsSeq
<1>4. SourceOffset(c, 1) = 0 /\ SourceOffset(c, Len(c) + 1) \in Nat \ {0} /\ 1 \in DOMAIN c
    <2>1. 1 \in 1 .. Len(c) + 1 /\ Len(c) + 1 \in 1 .. Len(c) + 1 /\ 1 < Len(c) + 1
        BY <1>3
    <2>2. SourceOffset(c, 1) = 0 /\ SourceOffset(c, Len(c) + 1) \in Nat
          /\ SourceOffset(c, 1) < SourceOffset(c, Len(c) + 1)
        BY <1>3, <2>1 DEF Ordered
    <2> QED BY <1>3, <2>2
<1>5. t \in InFunction(t)
    BY <1>1, <1>2, <1>4 DEF InFunction
<1>6. code[t][1] \in {code[t][i] : i \in {k \in DOMAIN code[t] : t + SourceOffset(code[t], k) = t}}
    BY <1>1, <1>2, <1>4
<1> QED BY <1>5, <1>6 DEF AtHome

(* Where a function begins, or goes on behind its jumps, is no trampoline.  *)
LEMMA JumpsElsewhere ==
    ASSUME code \in Programs, NEW b, NEW j \in AtHome(b), j.kind = "jump"
    PROVE  j.to \in Int /\ Elsewhere(j.to)
<1>1. PICK t \in InFunction(b) :
          j \in {code[t][i] : i \in {k \in DOMAIN code[t] : t + SourceOffset(code[t], k) = b}}
    BY DEF AtHome
<1>2. PICK i \in DOMAIN code[t] : j = code[t][i]
    BY <1>1
<1>3. t \in Targets
    BY DEF InFunction
<1>4. Instruction(code[t][i])
    BY <1>3, CodeAssumption DEF IsCode
<1> QED BY <1>2, <1>3, <1>4, MemoryAssumption DEF Instruction, Branch

(* The address behind the jump at an address, if there is one.              *)
Leaving(b) == {i \in AtHome(b) : i.kind = "jump"}
Beyond(b) == IF Leaving(b) = {} THEN b ELSE (CHOOSE i \in Leaving(b) : TRUE).to

LEMMA BehindIs ==
    ASSUME NEW a PROVE BehindJumps(a) = Beyond(Beyond(Beyond(a)))
<1> DEFINE Is(f) == f = [n \in 0 .. 3 |-> IF n = 0 THEN a ELSE Beyond(f[n - 1])]
           F == CHOOSE f : Is(f)
<1>1. BehindJumps(a) = F[3]
    BY DEF BehindJumps, Beyond, Leaving
<1>2. \E f : Is(f)
    <2>1. PICK b, c, d : b = Beyond(a) /\ c = Beyond(b) /\ d = Beyond(c)
        OBVIOUS
    <2>2. PICK f : f = [n \in 0 .. 3 |-> IF n = 0 THEN a ELSE IF n = 1 THEN b
                                         ELSE IF n = 2 THEN c ELSE d]
        OBVIOUS
    <2>3. f[0] = a /\ f[1] = b /\ f[2] = c /\ f[3] = d
        BY <2>2
    <2>4. ASSUME NEW n \in 0 .. 3
          PROVE  f[n] = IF n = 0 THEN a ELSE Beyond(f[n - 1])
        <3>1. n = 0 \/ (n = 1 /\ n - 1 = 0) \/ (n = 2 /\ n - 1 = 1) \/ (n = 3 /\ n - 1 = 2)
            OBVIOUS
        <3> QED BY <2>1, <2>3, <3>1
    <2>5. f = [n \in 0 .. 3 |-> f[n]]
        BY <2>2
    <2> QED BY <2>4, <2>5
<1>3. Is(F)
    BY <1>2
<1> HIDE DEF F
<1>4. /\ F[0] = a /\ F[1] = Beyond(F[0]) /\ F[2] = Beyond(F[1]) /\ F[3] = Beyond(F[2])
    <2>1. \A n \in 0 .. 3 : F[n] = IF n = 0 THEN a ELSE Beyond(F[n - 1])
        BY <1>3
    <2>2. /\ 0 \in 0 .. 3 /\ 1 \in 0 .. 3 /\ 2 \in 0 .. 3 /\ 3 \in 0 .. 3
          /\ 1 - 1 = 0 /\ 2 - 1 = 1 /\ 3 - 1 = 2 /\ 1 # 0 /\ 2 # 0 /\ 3 # 0
        OBVIOUS
    <2> QED BY <2>1, <2>2
<1> QED BY <1>1, <1>4

LEMMA BehindElsewhere ==
    ASSUME code \in Programs, NEW a \in Int, Elsewhere(a)
    PROVE  BehindJumps(a) \in Int /\ Elsewhere(BehindJumps(a))
<1>1. ASSUME NEW b \in Int, Elsewhere(b) PROVE Beyond(b) \in Int /\ Elsewhere(Beyond(b))
    <2>1. CASE Leaving(b) = {}
        BY <1>1, <2>1 DEF Beyond
    <2>2. CASE Leaving(b) # {}
        <3>1. PICK j : j = CHOOSE i \in Leaving(b) : TRUE
            OBVIOUS
        <3>2. j \in AtHome(b) /\ j.kind = "jump"
            BY <2>2, <3>1 DEF Leaving
        <3>3. j.to \in Int /\ Elsewhere(j.to)
            BY <3>2, JumpsElsewhere
        <3> QED BY <2>2, <3>1, <3>3 DEF Beyond
    <2> QED BY <2>1, <2>2
<1> QED BY <1>1, BehindIs

(* What a step of the thread leaves as it is.                               *)
Installed == <<arenaVars, code, bytes, head, installVars, spoilt>>

LEMMA InstalledKept ==
    ASSUME InstallInv, UNCHANGED Installed PROVE InstallInv'
<1>1. UNCHANGED <<mappings, allocations, code, bytes, head, slot, trampoline, target, pc, seen,
                  expected, storage, spoilt>>
    BY DEF Installed, arenaVars, installVars
<1>2. InstallTypeOK'
    <2>1. InstallTypeOK
        BY DEF InstallInv
    <2>2. \A h \in Hook : HasSlot(h)' <=> HasSlot(h)
        BY <1>1 DEF HasSlot
    <2> QED BY <1>1, <2>1, <2>2 DEF InstallTypeOK
<1>3. Places'
    BY <1>1, PlacesKept DEF InstallInv
<1>4. Copied'
    <2>1. \A t, x : Decoded(t, x)' = Decoded(t, x)
        BY <1>1 DEF Decoded, Patch
    <2> SUFFICES ASSUME NEW h \in Hook
                 PROVE  /\ pc[h] \in {"relocated", "prepared", "published", "committed"} =>
                              \/ trampoline[h] = {}
                              \/ trampoline[h]
                                    = onion_x64_relocate(Decoded(target[h], seen[h]), target[h], slot[h])
                        /\ pc[h] \in {"published", "committed"} => storage[h] = slot[h]
        BY <1>1, <2>1 DEF Copied
    <2> QED BY DEF InstallInv, Copied
<1>5. \A k \in Hook : \A x : IsOn(k, x)' <=> IsOn(k, x)
    BY <1>1 DEF IsOn
<1>6. \A S : Closed(S)' <=> Closed(S)
    BY <1>1 DEF Closed
<1>7. Chained'
    <2>1. \A t \in Targets : head'[t] # None => IsOn(head[t], t)'
        BY <1>1 DEF InstallInv, Chained, IsOn
    <2>2. \A h \in Hook :
              /\ pc'[h] = "committed" => head'[target'[h]] # None
              /\ pc'[h] \in {"decoded", "relocated", "prepared", "published", "committed"} =>
                    seen'[h] = None \/ IsOn(seen[h], target[h])'
              /\ pc'[h] \in {"prepared", "published", "committed"} =>
                    expected'[h] = None \/ IsOn(expected[h], target[h])'
        BY <1>1 DEF InstallInv, Chained, IsOn
    <2>3. \A t \in Targets : \A S \in SUBSET Hook :
              Closed(S)' /\ head'[t] \in S => \A h \in Hook : IsOn(h, t)' => h \in S
        BY <1>1, <1>5, <1>6 DEF InstallInv, Chained
    <2> QED BY <2>1, <2>2, <2>3 DEF Chained
<1>8. Watched'
    BY <1>1 DEF InstallInv, Watched
<1> QED BY <1>2, <1>3, <1>4, <1>7, <1>8 DEF InstallInv

(* A call begins at the head, and from there leads to every hook.           *)
LEMMA CallStep ==
    ASSUME InstallInv, NEW t \in Called, Call(t) PROVE RunsInTurn'
<1> USE DEF InstallInv
<1>1. /\ cpu' = t /\ home' = BehindJumps(t) /\ ran' = {} /\ t \in Targets
      /\ due' = {h \in Hook : IsOn(h, t)}
      /\ UNCHANGED <<head, pc, target, expected>>
    BY DetourAssumption DEF Call, installVars, IsOn
<1>2. \A S : Closed(S)' <=> Closed(S)
    BY <1>1 DEF Closed
<1>3. CASE head[t] = None
    <2>1. ~\E h \in Hook : IsOn(h, t)
        BY <1>3 DEF Chained, IsOn
    <2> QED BY <1>1, <2>1 DEF RunsInTurn
<1>4. CASE head[t] # None
    <2>1. home' \in Int /\ Elsewhere(home')
        <3>1. t \in Nat /\ t \in t .. t + HOOK_LENGTH - 1
            BY <1>1, ArenaAssumption, CodeAssumption
        <3>2. code \in Programs
            BY DEF InstallTypeOK
        <3>4. Elsewhere(t)
            BY <1>1, <3>1, <3>2, MemoryAssumption
        <3>3. PICK a \in Int : a = t
            BY <3>1
        <3> QED BY <1>1, <3>2, <3>3, <3>4, BehindElsewhere
    <2>2. ASSUME NEW S \in SUBSET Hook, Closed(S)', head[t] \in S PROVE due' \ ran' \subseteq S
        BY <1>1, <1>2, <2>2 DEF Chained
    <2>3. Ahead(head[cpu])'
        BY <1>1, <2>2 DEF Ahead
    <2> QED BY <1>1, <1>4, <2>1, <2>3 DEF RunsInTurn, Pending
<1> QED BY <1>3, <1>4

(* From the patched head the only way is into the hook in it.               *)
LEMMA AtPatch ==
    ASSUME ArenaInv, InstallInv, NEW t \in Targets, head[t] # None
    PROVE  /\ \A ins \in Fetch(t) : ins.kind = "indirect" /\ ins.to = t + 6
           /\ Loaded(t + 6) \subseteq {head[t]}
           /\ AtHome(t) # {} /\ Fetch(t) # {}
<1> USE DEF InstallInv
<1>2. t \in Nat /\ code \in Programs /\ bytes \in PointerBytes
    <2>1. code \in Programs /\ bytes \in PointerBytes
        BY DEF InstallTypeOK
    <2> QED BY <2>1, ArenaAssumption
<1>3. Fetch(t) # {} /\ \A ins \in Fetch(t) : ins.kind = "indirect" /\ ins.to = t + 6
    <2>1. Fetch(t) = {Patch(t, head[t])[1]}
        BY DEF Fetch
    <2>2. Patch(t, head[t])[1] = [op |-> "hook", kind |-> "indirect", neg |-> FALSE, len |-> 6,
                                  to |-> t + 6]
        BY <1>2, PatchIsCode
    <2> QED BY <2>1, <2>2
<1>4. Loaded(t + 6) \subseteq {head[t]}
    <2> SUFFICES ASSUME NEW x \in Loaded(t + 6), x # head[t] PROVE FALSE
        OBVIOUS
    <2>1. x \notin {head[u] : u \in {v \in Targets : v + 6 = t + 6 /\ head[v] # None}}
        <3>1. \A u \in Targets : u + 6 = t + 6 => u = t
            BY <1>2, ArenaAssumption
        <3> QED BY <3>1
    <2>2. PICK k \in Hook : \E w \in trampoline[k] : w.at = t + 6
        BY <2>1 DEF Loaded
    <2>3. PICK w \in trampoline[k] : w.at = t + 6
        BY <2>2
    <2>4. PICK i \in DOMAIN allocations : allocations[i].begin <= w.at /\ w.at < allocations[i].end
        BY DEF Places
    <2>5. w.at \in Int /\ \A j \in DOMAIN mappings : mappings[j].base \in MapBases
        BY DEF Places
    <2>6. ~Elsewhere(w.at)
        BY <2>4, <2>5, AllocatedIsMapped
    <2>7. w.at \in t .. t + HOOK_LENGTH - 1
        BY <1>2, <2>3, CodeAssumption
    <2> QED BY <1>2, <2>6, <2>7, MemoryAssumption
<1> QED BY <1>2, <1>3, <1>4, FirstAtHome

(* From the copy of a patch the only way is into the hook it was of.        *)
LEMMA AtCopy ==
    ASSUME ArenaInv, InstallInv, Sound, NEW h \in Hook, pc[h] = "committed",
           expected[h] # None
    PROVE  /\ slot[h] \in Nat /\ AtHome(slot[h]) = {}
           /\ \A ins \in Fetch(slot[h]) : ins.kind = "indirect" /\ ins.to = slot[h] + 6
           /\ Loaded(slot[h] + 6) \subseteq {expected[h]}
           /\ expected[h] \in Hook /\ pc[expected[h]] = "committed"
<1> USE DEF InstallInv
<1>1. PICK a, t, g : a = slot[h] /\ t = target[h] /\ g = expected[h]
    OBVIOUS
<1>2. /\ a \in Nat \ {0} /\ t \in Targets /\ t \in Nat
      /\ code \in Programs /\ bytes \in PointerBytes
      /\ g \in Hook \cup {None}
    <2>1. /\ slot[h] \in Nat /\ target[h] \in Nat
          /\ code \in Programs /\ bytes \in PointerBytes /\ expected[h] \in Hook \cup {None}
        BY DEF InstallTypeOK
    <2>2. target[h] \in Targets /\ slot[h] # 0
        BY DEF InstallTypeOK, HasSlot
    <2> QED BY <1>1, <2>1, <2>2
<1>3. g \in Hook /\ pc[g] = "committed"
    <2>1. expected[h] = None \/ IsOn(expected[h], target[h])
        BY DEF Chained
    <2> QED BY <1>1, <1>2, <2>1 DEF IsOn
<1>4. spoilt[t] = {}
    BY <1>2 DEF Sound
<1>5. seen[h] = g /\ \A i \in DOMAIN bytes : bytes[i].kind = "plain"
    <2>1. seen[h] = expected[h]
        BY <1>1, <1>4 DEF Watched
    <2>2. seen[h] # None
        BY <2>1
    <2> QED BY <1>1, <1>4, <2>1, <2>2 DEF Watched
<1>6. PICK T : T = trampoline[h]
    OBVIOUS
<1>7. T = {} \/ T = onion_x64_relocate(Patch(t, g), t, a)
    <2>1. \/ trampoline[h] = {}
          \/ trampoline[h] = onion_x64_relocate(Decoded(target[h], seen[h]), target[h], slot[h])
        BY DEF Copied
    <2>2. Decoded(target[h], seen[h]) = Patch(t, g)
        BY <1>1, <1>5 DEF Decoded
    <2> QED BY <1>1, <1>6, <2>1, <2>2
<1>8. /\ \A w \in T : w.at = a => w.ins.kind = "indirect" /\ w.ins.to = a + 6
      /\ \A w \in T : w.ins.kind = "plain" => w.ins.op = g
    <2>1. CASE T = {}
        BY <2>1
    <2>2. CASE T = onion_x64_relocate(Patch(t, g), t, a)
        <3>1. t \in Nat /\ a \in Nat /\ bytes \in PointerBytes
            BY <1>2
        <3>2. \A i \in DOMAIN bytes : bytes[i].kind = "plain"
            BY <1>5
        <3>3. PatchCopied(onion_x64_relocate(Patch(t, g), t, a), a, g)
            BY <3>1, <3>2, CopyOfPatch
        <3>4. PatchCopied(T, a, g)
            BY <2>2, <3>3, Zenon
        <3> QED BY <3>4 DEF PatchCopied
    <2> QED BY <1>7, <2>1, <2>2
<1>9. InSlot(a, h) /\ InSlot(a + 6, h)
    <2>1. Capacity \in Nat /\ Capacity >= 14
        BY ArenaAssumption, DetourAssumption, CodeAssumption DEF Capacity
    <2> QED BY <1>1, <1>2, <2>1 DEF InSlot
<1>10. ASSUME NEW k \in Hook, NEW w \in trampoline[k], w.at = a \/ w.at = a + 6
       PROVE  k = h
    <2> SUFFICES ASSUME k # h PROVE FALSE
        OBVIOUS
    <2>1. h # k /\ slot[h] # 0
        BY <1>1, <1>2
    <2>2. ~InSlot(w.at, h)
        BY <2>1 DEF Places
    <2> QED BY <1>9, <1>10, <2>2
<1>11. ~Elsewhere(a)
    <2>1. PICK i \in DOMAIN allocations :
              allocations[i].begin = a /\ a < allocations[i].end
        BY <1>1, <1>2 DEF Places
    <2>2. \A j \in DOMAIN mappings : mappings[j].base \in MapBases
        BY DEF Places
    <2>3. allocations[i].begin <= a /\ a \in Int
        BY <1>2, <2>1
    <2> QED BY <2>1, <2>2, <2>3, AllocatedIsMapped
<1>12. a \notin Targets /\ AtHome(a) = {}
    <2>1. a \in Int
        BY <1>2
    <2> QED BY <1>2, <1>11, <2>1, NoFunctionThere
<1>13. ASSUME NEW ins \in Fetch(a) PROVE ins.kind = "indirect" /\ ins.to = a + 6
    <2>1. ins \in {w.ins : w \in {v \in UNION {trampoline[k] : k \in Hook} : v.at = a}}
        BY <1>12 DEF Fetch
    <2>2. PICK w \in UNION {trampoline[k] : k \in Hook} : w.at = a /\ ins = w.ins
        BY <2>1
    <2>3. PICK k \in Hook : w \in trampoline[k]
        OBVIOUS
    <2>4. w \in T
        BY <1>6, <1>10, <2>2, <2>3
    <2> QED BY <1>8, <2>2, <2>4
<1>14. ASSUME NEW x \in Loaded(a + 6) PROVE x = g
    <2>1. x \notin {head[u] : u \in {v \in Targets : v + 6 = a + 6 /\ head[v] # None}}
        <3>1. \A u \in Targets : u + 6 # a + 6
            BY <1>2, <1>12, ArenaAssumption
        <3> QED BY <3>1
    <2>2. PICK k \in Hook : \E w \in trampoline[k] :
              w.at = a + 6 /\ w.ins.op = x /\ w.ins.kind = "plain"
        BY <2>1 DEF Loaded
    <2>3. PICK w \in trampoline[k] : w.at = a + 6 /\ w.ins.op = x /\ w.ins.kind = "plain"
        BY <2>2
    <2>4. w \in T
        BY <1>6, <1>10, <2>3
    <2> QED BY <1>8, <2>3, <2>4
<1> QED BY <1>1, <1>2, <1>3, <1>12, <1>13, <1>14

(* A hook that has run leaves ahead of the thread what was ahead of it.     *)
LEMMA HookRuns ==
    ASSUME InstallInv, NEW h \in Hook, pc[h] = "committed", Ahead(h), ran' = ran \cup {h},
           due' = due, UNCHANGED <<pc, expected>>
    PROVE  /\ expected[h] = None => due' \subseteq ran'
           /\ expected[h] # None =>
                 \A S \in SUBSET Hook : Closed(S)' /\ expected[h] \in S => due' \ ran' \subseteq S
<1>1. ASSUME NEW S \in SUBSET Hook, Closed(S)', expected[h] # None => expected[h] \in S
      PROVE  due \ ran \subseteq S \cup {h}
    <2>1. PICK U \in SUBSET Hook : U = S \cup {h}
        OBVIOUS
    <2>2. Closed(U)
        BY <1>1, <2>1 DEF Closed
    <2> QED BY <2>1, <2>2 DEF Ahead
<1>2. CASE expected[h] = None
    <2>1. Closed({})' /\ {} \in SUBSET Hook
        BY DEF Closed
    <2>2. due \ ran \subseteq {} \cup {h}
        BY <1>1, <1>2, <2>1
    <2> QED BY <1>2, <2>2
<1>3. CASE expected[h] # None
    <2> SUFFICES ASSUME NEW S \in SUBSET Hook, Closed(S)', expected[h] \in S
                 PROVE  due' \ ran' \subseteq S
        BY <1>3
    <2>1. due \ ran \subseteq S \cup {h}
        BY <1>1
    <2> QED BY <2>1
<1> QED BY <1>2, <1>3

(* A step other than a call, while hooks are still due.                     *)
LEMMA PendingStep ==
    ASSUME ArenaInv, InstallInv, Sound, Pending, ThreadStep
    PROVE  due' \subseteq ran' \/ Pending'
<1> USE DEF InstallInv
<1>1. /\ home \in Int /\ Elsewhere(home)
      /\ head \in [Targets -> Hook \cup {None}] /\ slot \in [Hook -> Nat]
    <2>1. head \in [Targets -> Hook \cup {None}] /\ slot \in [Hook -> Nat]
        BY DEF InstallTypeOK
    <2> QED BY <2>1 DEF Pending
<1>2. ASSUME NEW x, x \in Int \cup Hook PROVE x # None
    BY <1>2, NamesAssumption
<1>3. ASSUME NEW address, NEW at, Thread(address, at, None)
      PROVE  /\ cpu' = address /\ home' = at /\ due' = due
             /\ UNCHANGED <<head, slot, pc, expected>>
    BY <1>3 DEF Thread, installVars
<1>4. ASSUME NEW g \in Hook, pc[g] = "committed", Ahead(g), Jumps,
             \A ins \in Fetch(cpu) : ins.kind = "indirect" /\ Loaded(ins.to) \subseteq {g}
      PROVE  Pending'
    <2>1. PICK ins \in Fetch(cpu) : \E h \in Loaded(ins.to) : Thread(h, home, None) /\ ran' = ran
        BY <1>4 DEF Jumps
    <2>2. Thread(g, home, None) /\ ran' = ran
        BY <1>4, <2>1
    <2>3. cpu' = g /\ home' = home /\ due' = due /\ UNCHANGED <<head, slot, pc, expected>>
        BY <1>3, <2>2
    <2>4. \A S : Closed(S)' <=> Closed(S)
        BY <2>3 DEF Closed
    <2>5. Ahead(cpu)'
        BY <1>4, <2>2, <2>3, <2>4 DEF Ahead
    <2> QED BY <1>1, <1>4, <2>3, <2>5 DEF Pending
<1>5. ASSUME \A ins \in Fetch(cpu) : ins.kind = "indirect" PROVE ~Executes
    BY <1>5 DEF Executes, Same
<1>6. CASE cpu \in Targets /\ head[cpu] # None /\ Ahead(head[cpu])
    <2>1. /\ \A ins \in Fetch(cpu) : ins.kind = "indirect" /\ ins.to = cpu + 6
          /\ Loaded(cpu + 6) \subseteq {head[cpu]} /\ AtHome(cpu) # {}
        BY <1>6, AtPatch
    <2>2. cpu \notin Hook \cup {None}
        BY <1>2, <1>6, ArenaAssumption, NamesAssumption
    <2>3. ~(\E t \in Called : Call(t)) /\ ~Hooked /\ ~Returns /\ ~Executes /\ ~Leaves
        BY <1>5, <2>1, <2>2 DEF Call, Hooked, Returns, Leaves, AtEnd
    <2>4. Jumps
        BY <2>3 DEF ThreadStep
    <2>5. head[cpu] \in Hook /\ pc[head[cpu]] = "committed"
        <3>1. head[cpu] \in Hook
            BY <1>1, <1>6
        <3>2. IsOn(head[cpu], cpu)
            BY <1>6 DEF Chained
        <3> QED BY <3>1, <3>2 DEF IsOn
    <2> QED BY <1>4, <1>6, <2>1, <2>4, <2>5
<1>7. CASE cpu \in Hook /\ pc[cpu] = "committed" /\ Ahead(cpu)
    <2>1. Hooked
        BY <1>2, <1>7 DEF ThreadStep, Call, Returns
    <2>2. PICK h \in Hook : h = cpu
        BY <1>7
    <2>3. ran' = ran \cup {h} /\ Thread(storage[h], home, None)
        BY <2>1, <2>2 DEF Hooked
    <2>4. storage[h] = slot[h]
        BY <1>7, <2>2 DEF Copied
    <2>5. cpu' = slot[h] /\ home' = home /\ due' = due /\ UNCHANGED <<head, slot, pc, expected>>
        BY <1>3, <2>3, <2>4
    <2>6. /\ expected[h] = None => due' \subseteq ran'
          /\ expected[h] # None =>
                \A S \in SUBSET Hook : Closed(S)' /\ expected[h] \in S => due' \ ran' \subseteq S
        BY <1>7, <2>2, <2>3, <2>5, HookRuns
    <2>7. CASE expected[h] # None
        <3>1. Ahead(expected[h])'
            BY <2>5, <2>6, <2>7 DEF Ahead
        <3> QED BY <1>1, <1>7, <2>2, <2>5, <2>7, <3>1 DEF Pending
    <2> QED BY <2>6, <2>7
<1>8. ASSUME NEW h \in Hook, pc[h] = "committed", expected[h] # None, cpu = slot[h],
             Ahead(expected[h])
      PROVE  Pending'
    <2>1. /\ slot[h] \in Nat /\ AtHome(slot[h]) = {}
          /\ \A ins \in Fetch(slot[h]) : ins.kind = "indirect" /\ ins.to = slot[h] + 6
          /\ Loaded(slot[h] + 6) \subseteq {expected[h]}
          /\ expected[h] \in Hook /\ pc[expected[h]] = "committed"
        BY <1>8, AtCopy
    <2>2. cpu \notin Hook \cup {None}
        BY <1>2, <1>8, <2>1, NamesAssumption
    <2>3. ~Elsewhere(slot[h])
        <3>1. slot[h] # 0
            BY <1>8 DEF InstallTypeOK, HasSlot
        <3>2. PICK i \in DOMAIN allocations :
                  slot[h] = allocations[i].begin /\ slot[h] < allocations[i].end
            BY <3>1 DEF Places
        <3>3. \A j \in DOMAIN mappings : mappings[j].base \in MapBases
            BY DEF Places
        <3>4. PICK a \in Int : a = slot[h]
            BY <2>1
        <3>5. allocations[i].begin <= a /\ a < allocations[i].end
            BY <3>2, <3>4
        <3> QED BY <3>3, <3>4, <3>5, AllocatedIsMapped
    <2>4. cpu # home
        BY <1>1, <1>8, <2>3
    <2>5. ~(\E t \in Called : Call(t)) /\ ~Hooked /\ ~Returns /\ ~Executes /\ ~Leaves
        BY <1>5, <1>8, <2>1, <2>2, <2>4 DEF Call, Hooked, Returns, Leaves, AtEnd
    <2>6. Jumps
        BY <2>5 DEF ThreadStep
    <2> QED BY <1>4, <1>8, <2>1, <2>6
<1> QED BY <1>6, <1>7, <1>8 DEF Pending

LEMMA ThreadKeeps ==
    ASSUME ArenaInv, HookInv, ThreadStep PROVE HookInv'
<1>1. InstallInv /\ RunsInTurn
    BY DEF HookInv, InstallInv
<1>2. UNCHANGED Installed
    BY DEF ThreadStep, Call, Hooked, Returns, Jumps, Executes, Leaves, Thread, Installed
<1>3. InstallInv'
    BY <1>1, <1>2, InstalledKept
<1>4. RunsInTurn'
    <2>1. CASE \E t \in Called : Call(t)
        BY <1>1, <2>1, CallStep
    <2>2. CASE ~\E t \in Called : Call(t)
        <3>1. due' = due /\ ran \subseteq ran'
            BY <2>2 DEF ThreadStep, Hooked, Returns, Jumps, Executes, Leaves, Thread
        <3>2. Sound' <=> Sound
            BY <1>2 DEF Sound, Installed
        <3>3. CASE due \subseteq ran
            BY <3>1, <3>3 DEF RunsInTurn
        <3>4. CASE Sound /\ Pending
            BY <1>1, <3>4, PendingStep DEF RunsInTurn
        <3> QED BY <1>1, <3>2, <3>3, <3>4 DEF RunsInTurn
    <2> QED BY <2>1, <2>2
<1> QED BY <1>3, <1>4 DEF HookInv, InstallInv

LEMMA HookNextInv == ArenaInv /\ HookInv /\ [DetourNext]_detourVars => HookInv'
<1> SUFFICES ASSUME ArenaInv, HookInv, [DetourNext]_detourVars PROVE HookInv'
    OBVIOUS
<1>1. InstallInv /\ RunsInTurn
    BY DEF HookInv, InstallInv
<1>2. CASE \E h \in Hook : Installs(h)
    BY <1>1, <1>2, InstallStep
<1>3. CASE ThreadStep
    BY <1>3, ThreadKeeps
<1>4. CASE UNCHANGED detourVars
    <2>1. UNCHANGED Installed /\ UNCHANGED <<head, cpu, back, home, due, ran, pc, slot, expected, spoilt>>
        BY <1>4 DEF detourVars, Installed, installVars, threadVars
    <2>2. InstallInv'
        BY <1>1, <2>1, InstalledKept
    <2>3. \A S : Closed(S)' <=> Closed(S)
        BY <2>1 DEF Closed
    <2>4. \A S \in SUBSET Hook : due' \ ran' \subseteq S <=> due \ ran \subseteq S
        BY <2>1
    <2>5. Pending => Pending'
        <3> SUFFICES ASSUME Pending PROVE Pending'
            OBVIOUS
        <3>1. home' \in Int /\ Elsewhere(home')
            BY <2>1 DEF Pending
        <3>2. CASE cpu \in Targets /\ head[cpu] # None /\ Ahead(head[cpu])
            <4>1. Ahead(head[cpu])'
                BY <2>1, <2>3, <2>4, <3>2 DEF Ahead
            <4> QED BY <2>1, <3>1, <3>2, <4>1 DEF Pending
        <3>3. CASE cpu \in Hook /\ pc[cpu] = "committed" /\ Ahead(cpu)
            <4>1. Ahead(cpu)'
                BY <2>1, <2>3, <2>4, <3>3 DEF Ahead
            <4> QED BY <2>1, <3>1, <3>3, <4>1 DEF Pending
        <3>4. ASSUME NEW h \in Hook, pc[h] = "committed", expected[h] # None, cpu = slot[h],
                     Ahead(expected[h])
              PROVE  Pending'
            <4>1. Ahead(expected[h])'
                BY <2>1, <2>3, <2>4, <3>4 DEF Ahead
            <4> QED BY <2>1, <3>1, <3>4, <4>1 DEF Pending
        <3> QED BY <3>2, <3>3, <3>4 DEF Pending
    <2>6. RunsInTurn'
        BY <1>1, <2>1, <2>5 DEF RunsInTurn, Sound
    <2> QED BY <2>2, <2>6 DEF HookInv, InstallInv
<1> QED BY <1>2, <1>3, <1>4 DEF DetourNext

(* A hook that was committed is never lost, whatever the functions, the     *)
(* hooks and the order in which InstallDetour() put them there: a call that *)
(* comes back ran every hook that was on the function when it began, unless *)
(* one of the five things happened that the code does not watch for.        *)
THEOREM HooksAlwaysKept == DetourSpec => []HooksKept
<1>1. DetourInit => ArenaInv /\ HookInv
    BY HookInit, ArenaInitInv DEF DetourInit
<1>2. ArenaInv /\ HookInv /\ [DetourNext]_detourVars => ArenaInv' /\ HookInv'
    BY HookNextInv, ArenaNextInv, DetourNextIsArenaNext
<1>3. HookInv => HooksKept
    <2> SUFFICES ASSUME HookInv, Sound, home = None PROVE due \subseteq ran
        BY DEF HooksKept
    <2>1. home \notin Int
        BY NamesAssumption
    <2> QED BY <2>1 DEF HookInv, RunsInTurn, Pending
<1> QED BY <1>1, <1>2, <1>3, PTL DEF DetourSpec

-----------------------------------------------------------------------------
(* The course of the thread.  Where the instructions of a function are.     *)
LEMMA FunctionFacts ==
    ASSUME code \in Programs, NEW t \in Targets
    PROVE  /\ t \in Nat /\ IsCode(code[t]) /\ CodeSize(code[t]) \in Nat
           /\ Len(code[t]) \in Nat \ {0} /\ DOMAIN code[t] = 1 .. Len(code[t])
           /\ SourceOffset(code[t], 1) = 0
           /\ \A i \in 1 .. Len(code[t]) + 1 :
                 SourceOffset(code[t], i) \in Nat /\ SourceOffset(code[t], i) <= CodeSize(code[t])
           /\ \A i \in 1 .. Len(code[t]) :
                 /\ SourceOffset(code[t], i) < CodeSize(code[t])
                 /\ SourceOffset(code[t], i + 1) = SourceOffset(code[t], i) + code[t][i].len
                 /\ code[t][i].len \in Nat \ {0} /\ code[t][i].to \in Int
                 /\ code[t][i].neg = FALSE /\ code[t][i].kind # "indirect"
           /\ \A i, k \in 1 .. Len(code[t]) + 1 :
                 SourceOffset(code[t], i) = SourceOffset(code[t], k) => i = k
<1>1. t \in Nat /\ IsCode(code[t])
    BY CodeAssumption, ArenaAssumption
<1>2. PICK c : c = code[t]
    OBVIOUS
<1>3. Ordered(c) /\ Len(c) \in Nat \ {0} /\ DOMAIN c = 1 .. Len(c)
    BY <1>1, <1>2, CodeIsOrdered, CodeIsSeq
<1>4. PICK n : n = Len(c) /\ n \in Nat \ {0}
    BY <1>3
<1>5. \A i \in 1 .. n : Instruction(c[i])
    BY <1>1, <1>2, <1>3, <1>4 DEF IsCode
<1>6. \A i \in 1 .. n : c[i].len \in Nat \ {0} /\ c[i].to \in Int
    BY <1>5 DEF Instruction
<1>7. \A i \in 1 .. n : c[i].neg = FALSE /\ c[i].kind # "indirect"
    BY <1>2, <1>3, <1>4, FunctionAssumption
<1>8. /\ SourceOffset(c, 1) = 0
      /\ \A i \in 1 .. n + 1 : SourceOffset(c, i) \in Nat
      /\ \A i \in 1 .. n : SourceOffset(c, i + 1) = SourceOffset(c, i) + c[i].len
      /\ \A i, k \in 1 .. n + 1 : i < k => SourceOffset(c, i) < SourceOffset(c, k)
    BY <1>3, <1>4 DEF Ordered
<1>9. \A i \in 1 .. n : SourceOffset(c, i) < SourceOffset(c, n + 1)
    <2>1. \A i \in 1 .. n : i \in 1 .. n + 1 /\ n + 1 \in 1 .. n + 1 /\ i < n + 1
        BY <1>4
    <2> QED BY <1>8, <2>1
<1>10. \A i \in 1 .. n + 1 : SourceOffset(c, i) <= SourceOffset(c, n + 1)
    <2> SUFFICES ASSUME NEW i \in 1 .. n + 1 PROVE SourceOffset(c, i) <= SourceOffset(c, n + 1)
        OBVIOUS
    <2>1. i \in 1 .. n \/ i = n + 1
        BY <1>4
    <2>2. SourceOffset(c, i) \in Nat /\ SourceOffset(c, n + 1) \in Nat
        BY <1>4, <1>8
    <2> QED BY <1>9, <2>1, <2>2
<1>11. \A i, k \in 1 .. n + 1 : SourceOffset(c, i) = SourceOffset(c, k) => i = k
    <2> SUFFICES ASSUME NEW i \in 1 .. n + 1, NEW k \in 1 .. n + 1,
                        SourceOffset(c, i) = SourceOffset(c, k)
                 PROVE  i = k
        OBVIOUS
    <2>1. ~(i < k) /\ ~(k < i)
        BY <1>8
    <2> QED BY <2>1
<1>12. CodeSize(c) = SourceOffset(c, n + 1) /\ CodeSize(c) \in Nat
    BY <1>4, <1>8 DEF CodeSize
<1> QED BY <1>1, <1>2, <1>3, <1>4, <1>6, <1>7, <1>8, <1>9, <1>10, <1>11, <1>12

LEMMA AtHomeFrom ==
    ASSUME NEW a, NEW j \in AtHome(a), code \in Programs
    PROVE  \E t \in Targets : \E i \in 1 .. Len(code[t]) :
              a = t + SourceOffset(code[t], i) /\ j = code[t][i] /\ t \in InFunction(a)
<1>1. PICK t \in InFunction(a) :
          j \in {code[t][i] : i \in {k \in DOMAIN code[t] : t + SourceOffset(code[t], k) = a}}
    BY DEF AtHome
<1>2. PICK i \in DOMAIN code[t] : j = code[t][i] /\ t + SourceOffset(code[t], i) = a
    BY <1>1
<1>3. t \in Targets
    BY DEF InFunction
<1>4. i \in 1 .. Len(code[t])
    BY <1>3, FunctionFacts
<1> QED BY <1>2, <1>3, <1>4

(* Functions are apart, so that there is one instruction at an address.     *)
LEMMA InFunctionIs ==
    ASSUME code \in Programs, NEW t \in Targets, NEW a \in Int, t <= a, a < t + CodeSize(code[t])
    PROVE  InFunction(a) = {t}
<1>1. t \in InFunction(a)
    BY DEF InFunction, CodeSize
<1>2. ASSUME NEW u \in InFunction(a), u # t PROVE FALSE
    <2>1. u \in Targets /\ u <= a /\ a < u + CodeSize(code[u])
        BY FunctionFacts DEF InFunction, CodeSize
    <2>2. t \in Nat /\ u \in Nat /\ CodeSize(code[t]) \in Nat /\ CodeSize(code[u]) \in Nat
        BY <2>1, FunctionFacts
    <2>3. t < u \/ u < t
        BY <1>2, <2>2
    <2>4. (t < u => t + CodeSize(code[t]) <= u) /\ (u < t => u + CodeSize(code[u]) <= t)
        BY <2>1, FunctionAssumption
    <2> QED BY <2>1, <2>2, <2>3, <2>4
<1> QED BY <1>1, <1>2

LEMMA AtHomeIs ==
    ASSUME code \in Programs, NEW t \in Targets, NEW i \in 1 .. Len(code[t])
    PROVE  /\ AtHome(t + SourceOffset(code[t], i)) = {code[t][i]}
           /\ InFunction(t + SourceOffset(code[t], i)) = {t}
<1>1. PICK a : a = t + SourceOffset(code[t], i)
    OBVIOUS
<1>2. /\ t \in Nat /\ SourceOffset(code[t], i) \in Nat /\ CodeSize(code[t]) \in Nat
      /\ SourceOffset(code[t], i) < CodeSize(code[t])
      /\ DOMAIN code[t] = 1 .. Len(code[t]) /\ Len(code[t]) \in Nat
    <2>1. i \in 1 .. Len(code[t]) + 1
        BY FunctionFacts
    <2> QED BY <2>1, FunctionFacts
<1>3. a \in Int /\ t <= a /\ a < t + CodeSize(code[t])
    BY <1>1, <1>2
<1>4. InFunction(a) = {t}
    BY <1>3, InFunctionIs
<1>5. \A k \in DOMAIN code[t] : t + SourceOffset(code[t], k) = a <=> k = i
    <2> SUFFICES ASSUME NEW k \in 1 .. Len(code[t]), t + SourceOffset(code[t], k) = a PROVE k = i
        BY <1>1, <1>2
    <2>1. k \in 1 .. Len(code[t]) + 1 /\ i \in 1 .. Len(code[t]) + 1
        BY <1>2
    <2>2. SourceOffset(code[t], k) \in Nat
        BY <2>1, FunctionFacts
    <2>3. SourceOffset(code[t], k) = SourceOffset(code[t], i)
        BY <1>1, <1>2, <2>2
    <2> QED BY <2>1, <2>3, FunctionFacts
<1>6. i \in DOMAIN code[t]
    BY <1>2
<1>7. AtHome(a) = {code[t][i]}
    <2>1. \A x : x \in AtHome(a) <=>
              \E f \in InFunction(a) : \E k \in DOMAIN code[f] :
                  f + SourceOffset(code[f], k) = a /\ x = code[f][k]
        BY DEF AtHome
    <2>2. \A x : x \in AtHome(a) <=>
              \E k \in DOMAIN code[t] : t + SourceOffset(code[t], k) = a /\ x = code[t][k]
        BY <1>4, <2>1
    <2>3. \A x : x \in AtHome(a) <=> x = code[t][i]
        BY <1>5, <1>6, <2>2, Zenon
    <2> QED BY <2>3
<1> QED BY <1>1, <1>4, <1>7

(* Behind jumps is behind the jumps that are left.                          *)
LEMMA BehindNothing ==
    ASSUME NEW a, \A j \in AtHome(a) : j.kind # "jump" PROVE BehindJumps(a) = a
<1>1. Leaving(a) = {}
    BY DEF Leaving
<1>2. Beyond(a) = a
    BY <1>1 DEF Beyond
<1> QED BY <1>2, BehindIs

LEMMA JumpAt ==
    ASSUME code \in Programs, NEW x, Leaving(x) # {}
    PROVE  [from |-> x, to |-> Beyond(x)] \in JumpsOf(code)
<1>1. PICK j : j = CHOOSE i \in Leaving(x) : TRUE
    OBVIOUS
<1>2. j \in AtHome(x) /\ j.kind = "jump" /\ Beyond(x) = j.to
    <2>1. j \in Leaving(x)
        BY <1>1
    <2> QED BY <1>1, <2>1 DEF Leaving, Beyond
<1>3. PICK t \in Targets : \E i \in 1 .. Len(code[t]) :
          x = t + SourceOffset(code[t], i) /\ j = code[t][i]
    BY <1>2, AtHomeFrom
<1>4. PICK i \in 1 .. Len(code[t]) : x = t + SourceOffset(code[t], i) /\ j = code[t][i]
    BY <1>3
<1>5. i \in {k \in DOMAIN code[t] : code[t][k].kind = "jump"}
    BY <1>2, <1>4, FunctionFacts
<1>6. [from |-> x, to |-> Beyond(x)]
          \in {[from |-> t + SourceOffset(code[t], k), to |-> code[t][k].to] :
                  k \in {m \in DOMAIN code[t] : code[t][m].kind = "jump"}}
    BY <1>2, <1>4, <1>5
<1> QED BY <1>6 DEF JumpsOf

LEMMA BehindOne ==
    ASSUME code \in Programs, NEW t \in Targets, NEW i \in 1 .. Len(code[t]),
           code[t][i].kind = "jump"
    PROVE  BehindJumps(t + SourceOffset(code[t], i)) = BehindJumps(code[t][i].to)
<1>1. PICK a, b, c, d : /\ a = t + SourceOffset(code[t], i) /\ b = Beyond(a)
                        /\ c = Beyond(b) /\ d = Beyond(c)
    OBVIOUS
<1>2. Leaving(a) = {code[t][i]}
    <2>1. AtHome(a) = {code[t][i]}
        BY <1>1, AtHomeIs, Zenon
    <2>2. PICK own : own = code[t][i]
        OBVIOUS
    <2>3. AtHome(a) = {own} /\ own.kind = "jump"
        BY <2>1, <2>2, Zenon
    <2>4. Leaving(a) = {own}
        BY <2>3 DEF Leaving
    <2> QED BY <2>2, <2>4, Zenon
<1>3. b = code[t][i].to
    BY <1>1, <1>2 DEF Beyond
<1>4. Beyond(d) = d
    <2> SUFFICES ASSUME Leaving(d) # {} PROVE FALSE
        BY DEF Beyond
    <2>1. Leaving(c) # {}
        BY <1>1 DEF Beyond
    <2>2. Leaving(b) # {}
        BY <1>1, <2>1 DEF Beyond
    <2>3. PICK j, k, m, n : /\ j = [from |-> a, to |-> b] /\ k = [from |-> b, to |-> c]
                            /\ m = [from |-> c, to |-> d] /\ n = [from |-> d, to |-> Beyond(d)]
        OBVIOUS
    <2>4. j \in JumpsOf(code) /\ k \in JumpsOf(code) /\ m \in JumpsOf(code) /\ n \in JumpsOf(code)
        BY <1>1, <1>2, <2>1, <2>2, <2>3, JumpAt
    <2>5. j.to = k.from /\ k.to = m.from /\ m.to = n.from
        BY <2>3
    <2> QED BY <2>4, <2>5, FunctionAssumption
<1> QED BY <1>1, <1>3, <1>4, BehindIs

(* What is fetched: a function's own instruction, behind its patch; nothing *)
(* outside; in the slot of a hook what was copied for it.                   *)
LEMMA NoWordsThere ==
    ASSUME ArenaInv, Places, NEW a \in Int, Elsewhere(a), NEW h \in Hook, NEW w \in trampoline[h]
    PROVE  w.at # a
<1> SUFFICES ASSUME w.at = a PROVE FALSE
    OBVIOUS
<1>1. PICK i \in DOMAIN allocations : allocations[i].begin <= w.at /\ w.at < allocations[i].end
    BY DEF Places
<1>2. \A j \in DOMAIN mappings : mappings[j].base \in MapBases
    BY DEF Places
<1>3. ~Elsewhere(a)
    BY <1>1, <1>2, AllocatedIsMapped
<1> QED BY <1>3

LEMMA FetchOutside ==
    ASSUME ArenaInv, Places, NEW a \in Int, Elsewhere(a), ~(a \in Targets /\ head[a] # None)
    PROVE  Fetch(a) = {ins \in AtHome(a) :
                          \A t \in InFunction(a) : head[t] = None \/ a - t >= HOOK_LENGTH}
<1> DEFINE words == {w.ins : w \in {v \in UNION {trampoline[h] : h \in Hook} : v.at = a}}
<1>1. words = {}
    BY NoWordsThere
<1>2. Fetch(a) = {ins \in AtHome(a) :
                     \A t \in InFunction(a) : head[t] = None \/ a - t >= HOOK_LENGTH} \cup words
    BY DEF Fetch
<1> HIDE DEF words
<1> QED BY <1>1, <1>2

LEMMA FetchInFunction ==
    ASSUME ArenaInv, Places, code \in Programs, NEW t \in Targets, NEW i \in 1 .. Len(code[t]),
           NEW a \in Int, a = t + SourceOffset(code[t], i), Elsewhere(a),
           ~(a \in Targets /\ head[a] # None), head[t] = None \/ a - t >= HOOK_LENGTH
    PROVE  Fetch(a) = {code[t][i]}
<1>1. AtHome(a) = {code[t][i]} /\ InFunction(a) = {t}
    BY AtHomeIs
<1>2. Fetch(a) = {ins \in AtHome(a) :
                     \A u \in InFunction(a) : head[u] = None \/ a - u >= HOOK_LENGTH}
    BY FetchOutside
<1> QED BY <1>1, <1>2

LEMMA FetchInCopy ==
    ASSUME ArenaInv, InstallInv, NEW h \in Hook, pc[h] = "committed", NEW a \in Int, InSlot(a, h)
    PROVE  /\ ~Elsewhere(a)
           /\ \A ins : ins \in Fetch(a) <=> \E w \in trampoline[h] : w.at = a /\ w.ins = ins
<1> USE DEF InstallInv
<1>1. slot[h] \in Nat \ {0} /\ code \in Programs
    <2>1. slot[h] \in Nat /\ code \in Programs
        BY DEF InstallTypeOK
    <2>2. slot[h] # 0
        BY DEF InstallTypeOK, HasSlot
    <2> QED BY <2>1, <2>2
<1>2. Capacity \in Nat
    BY ArenaAssumption, DetourAssumption DEF Capacity
<1>3. ~Elsewhere(a)
    <2>1. PICK i \in DOMAIN allocations :
              slot[h] = allocations[i].begin /\ slot[h] + Capacity <= allocations[i].end
        BY <1>1 DEF Places
    <2>2. \A j \in DOMAIN mappings : mappings[j].base \in MapBases
        BY DEF Places
    <2>3. allocations[i] \in Allocation
        BY DEF ArenaInv, ArenaTypeOK
    <2>4. allocations[i].begin <= a /\ a < allocations[i].end
        BY <1>1, <1>2, <2>1, <2>3 DEF InSlot, Allocation
    <2> QED BY <2>2, <2>4, AllocatedIsMapped
<1>4. a \notin Targets /\ AtHome(a) = {}
    BY <1>1, <1>3, NoFunctionThere
<1>5. ASSUME NEW k \in Hook, NEW w \in trampoline[k], w.at = a PROVE k = h
    BY <1>1, <1>5 DEF Places
<1>6. Fetch(a) = {w.ins : w \in {v \in UNION {trampoline[k] : k \in Hook} : v.at = a}}
    BY <1>4 DEF Fetch
<1>7. ASSUME NEW ins \in Fetch(a) PROVE \E w \in trampoline[h] : w.at = a /\ w.ins = ins
    <2>1. PICK w \in UNION {trampoline[k] : k \in Hook} : w.at = a /\ ins = w.ins
        BY <1>6
    <2>2. PICK k \in Hook : w \in trampoline[k]
        OBVIOUS
    <2> QED BY <1>5, <2>1, <2>2
<1>8. ASSUME NEW w \in trampoline[h], w.at = a PROVE w.ins \in Fetch(a)
    BY <1>6, <1>8
<1> QED BY <1>3, <1>7, <1>8

(* What is found in a copy: of each instruction what was written for it, in *)
(* its place, and the jump back behind the last one.                        *)
LEMMA CopyWords ==
    ASSUME NEW prog, IsCode(prog), CodeSize(prog) >= HOOK_LENGTH, NEW src, NEW dst \in Nat,
           NEW w \in onion_x64_relocate(prog, src, dst)
    PROVE  /\ \A i \in 1 .. Stolen(prog) :
                 dst + DestinationOffset(prog, i) <= w.at
                 /\ w.at < dst + DestinationOffset(prog, i + 1)
                    => w \in Written(prog, src, dst, i)
           /\ w.at = dst + DestinationOffset(prog, Stolen(prog) + 1)
                 => w = Jump(dst + DestinationOffset(prog, Stolen(prog) + 1), 14,
                             src + SourceSize(prog))
<1>1. PICK n : n = Stolen(prog) /\ n \in 1 .. Len(prog)
    BY StolenFacts
<1>2. Len(prog) \in Nat /\ Ordered(prog)
    BY CodeIsSeq, CodeIsOrdered
<1>3. /\ \A i \in 1 .. n + 1 : DestinationOffset(prog, i) \in Nat
      /\ \A i, j \in 1 .. n + 1 : i <= j => DestinationOffset(prog, i) <= DestinationOffset(prog, j)
    <2>1. \A i \in 1 .. n + 1 : i \in 1 .. Len(prog) + 1
        BY <1>1, <1>2
    <2>2. \A i \in 1 .. n + 1 : DestinationOffset(prog, i) \in Nat
        BY <1>2, <2>1 DEF Ordered
    <2>3. \A i, j \in 1 .. n + 1 : i < j => DestinationOffset(prog, i) < DestinationOffset(prog, j)
        BY <1>2, <2>1 DEF Ordered
    <2>4. ASSUME NEW i \in 1 .. n + 1, NEW j \in 1 .. n + 1, i <= j
          PROVE  DestinationOffset(prog, i) <= DestinationOffset(prog, j)
        <3>1. i < j \/ i = j
            BY <2>4
        <3> QED BY <2>2, <2>3, <3>1
    <2> QED BY <2>2, <2>4
<1>4. CASE \E j \in 1 .. n : w \in Written(prog, src, dst, j)
    <2>1. PICK j \in 1 .. n : w \in Written(prog, src, dst, j)
        BY <1>4
    <2>2. /\ w.at \in Int /\ dst + DestinationOffset(prog, j) <= w.at
          /\ w.at < dst + DestinationOffset(prog, j + 1)
        <3>1. j \in 1 .. Len(prog)
            BY <1>1, <1>2
        <3> QED BY <2>1, <3>1, WrittenAt
    <2>3. ASSUME NEW i \in 1 .. n, dst + DestinationOffset(prog, i) <= w.at,
                 w.at < dst + DestinationOffset(prog, i + 1)
          PROVE  i = j
        <3>1. i \in 1 .. n + 1 /\ i + 1 \in 1 .. n + 1 /\ j \in 1 .. n + 1 /\ j + 1 \in 1 .. n + 1
            BY <1>1
        <3>2. CASE j + 1 <= i
            <4>1. DestinationOffset(prog, j + 1) <= DestinationOffset(prog, i)
                BY <1>3, <3>1, <3>2
            <4>2. DestinationOffset(prog, j + 1) \in Nat /\ DestinationOffset(prog, i) \in Nat
                BY <1>3, <3>1
            <4> QED BY <2>2, <2>3, <4>1, <4>2
        <3>3. CASE i + 1 <= j
            <4>1. DestinationOffset(prog, i + 1) <= DestinationOffset(prog, j)
                BY <1>3, <3>1, <3>3
            <4>2. DestinationOffset(prog, i + 1) \in Nat /\ DestinationOffset(prog, j) \in Nat
                BY <1>3, <3>1
            <4> QED BY <2>2, <2>3, <4>1, <4>2
        <3> QED BY <3>2, <3>3
    <2>4. w.at # dst + DestinationOffset(prog, n + 1)
        <3>1. j + 1 \in 1 .. n + 1 /\ n + 1 \in 1 .. n + 1 /\ j + 1 <= n + 1
            BY <1>1
        <3>2. DestinationOffset(prog, j + 1) <= DestinationOffset(prog, n + 1)
            BY <1>3, <3>1
        <3>3. DestinationOffset(prog, j + 1) \in Nat /\ DestinationOffset(prog, n + 1) \in Nat
            BY <1>3, <3>1
        <3> QED BY <2>2, <3>2, <3>3
    <2> QED BY <1>1, <2>1, <2>3, <2>4
<1>5. CASE w = Jump(dst + DestinationOffset(prog, n + 1), 14, src + SourceSize(prog))
    <2>1. w.at = dst + DestinationOffset(prog, n + 1)
        BY <1>5 DEF Jump, At
    <2>2. ASSUME NEW i \in 1 .. n PROVE ~(w.at < dst + DestinationOffset(prog, i + 1))
        <3>1. i + 1 \in 1 .. n + 1 /\ n + 1 \in 1 .. n + 1 /\ i + 1 <= n + 1
            BY <1>1
        <3>2. DestinationOffset(prog, i + 1) <= DestinationOffset(prog, n + 1)
            BY <1>3, <3>1
        <3>3. DestinationOffset(prog, i + 1) \in Nat /\ DestinationOffset(prog, n + 1) \in Nat
            BY <1>3, <3>1
        <3> QED BY <2>1, <3>2, <3>3
    <2> QED BY <1>1, <1>5, <2>2
<1>6. (\E j \in 1 .. n : w \in Written(prog, src, dst, j))
      \/ w = Jump(dst + DestinationOffset(prog, n + 1), 14, src + SourceSize(prog))
    BY <1>1, CopyIsPieces
<1> QED BY <1>4, <1>5, <1>6

(* The words written for an instruction, kind by kind.                      *)
WordsAre(words, own, a, to) ==
    /\ own.kind = "jump" => words = {Jump(a, 14, to)}
    /\ own.kind = "call" =>
          \E f : /\ f.kind = "call" /\ f.op = own.op /\ f.to = to /\ f.len = 6
                 /\ words = {At(a, f), Jump(a + 6, 2, a + 16)}
    /\ own.kind = "cond" =>
          \E f : /\ f.kind = "cond" /\ f.op = own.op /\ f.neg = TRUE /\ f.to = a + 16
                 /\ f.len = 2 /\ words = {At(a, f), Jump(a + 2, 14, to)}
    /\ own.kind = "rip" =>
          \E f : /\ f.kind = "rip" /\ f.op = own.op /\ f.to = to /\ f.len = own.len
                 /\ words = {At(a, f)}
    /\ own.kind \notin {"jump", "call", "cond", "rip", "indirect"} => words = {At(a, own)}

LEMMA WrittenWords ==
    ASSUME NEW prog, IsCode(prog), NEW src, NEW dst \in Nat, NEW i \in 1 .. Len(prog),
           prog[i].neg = FALSE
    PROVE  WordsAre(Written(prog, src, dst, i), prog[i], dst + DestinationOffset(prog, i),
                    map_internal_target(prog, src, dst, prog[i].to))
<1>0. PICK own, a, to, words :
          /\ own = prog[i] /\ a = dst + DestinationOffset(prog, i)
          /\ to = map_internal_target(prog, src, dst, own.to)
          /\ words = Written(prog, src, dst, i)
    OBVIOUS
<1> SUFFICES WordsAre(words, own, a, to)
    BY <1>0
<1>1. PICK no \in BOOLEAN : no = own.neg
    <2>1. own.neg = FALSE
        BY <1>0, Zenon
    <2>2. PICK no \in BOOLEAN : no = FALSE
        OBVIOUS
    <2>3. own.neg \in BOOLEAN
        BY <2>1, <2>2, Zenon
    <2> QED BY <2>3, Zenon
<1>9. a \in Int
    <2>1. i \in 1 .. Len(prog) + 1 /\ Ordered(prog)
        BY CodeIsSeq, CodeIsOrdered
    <2>2. DestinationOffset(prog, i) \in Nat
        BY <2>1 DEF Ordered
    <2> QED BY <1>0, <2>2
<1>2. own = [op |-> own.op, kind |-> own.kind, neg |-> no, len |-> own.len, to |-> own.to]
    <2>1. Instruction(own)
        BY <1>0, CodeIsSeq DEF IsCode
    <2>2. own = [op |-> own.op, kind |-> own.kind, neg |-> own.neg, len |-> own.len, to |-> own.to]
        BY <2>1 DEF Instruction
    <2> QED BY <1>1, <2>2, Zenon
<1>3. CASE own.kind = "jump"
    BY <1>0, <1>3 DEF Written, WordsAre
<1>4. CASE own.kind = "call"
    <2>1. words = {At(a, [own EXCEPT !.to = to, !.len = 6]), Jump(a + 6, 2, a + 16)}
        BY <1>0, <1>4 DEF Written
    <2>2. PICK f : f = [own EXCEPT !.to = to, !.len = 6]
        OBVIOUS
    <2>3. f.kind = "call" /\ f.op = own.op /\ f.to = to /\ f.len = 6
        BY <1>2, <1>4, <2>2
    <2> QED BY <1>4, <2>1, <2>2, <2>3 DEF WordsAre
<1>5. CASE own.kind = "cond"
    <2>1. PICK yes \in BOOLEAN : yes = TRUE
        OBVIOUS
    <2>2. words = {At(a, [own EXCEPT !.to = a + 2 + kAbsoluteJumpSize, !.len = 2, !.neg = ~own.neg]),
                   Jump(a + 2, 14, to)}
        BY <1>0, <1>5 DEF Written
    <2>3. PICK f : f = [own EXCEPT !.to = a + 2 + kAbsoluteJumpSize, !.len = 2, !.neg = yes]
        OBVIOUS
    <2>4. words = {At(a, f), Jump(a + 2, 14, to)}
        <3>1. (~own.neg) = yes
            BY <1>0, <2>1, Zenon
        <3> QED BY <2>2, <2>3, <3>1, Zenon
    <2>5. f.kind = "cond" /\ f.op = own.op /\ f.neg = yes /\ f.to = a + 16 /\ f.len = 2
        BY <1>2, <1>5, <1>9, <2>3 DEF kAbsoluteJumpSize
    <2>6. f.neg = TRUE
        BY <2>1, <2>5, Zenon
    <2> QED BY <1>5, <2>4, <2>5, <2>6 DEF WordsAre
<1>6. CASE own.kind = "rip"
    <2>1. words = {At(a, [own EXCEPT !.to = to])}
        BY <1>0, <1>6 DEF Written
    <2>2. PICK f : f = [own EXCEPT !.to = to]
        OBVIOUS
    <2>3. f.kind = "rip" /\ f.op = own.op /\ f.to = to /\ f.len = own.len
        BY <1>2, <1>6, <2>2
    <2> QED BY <1>6, <2>1, <2>2, <2>3 DEF WordsAre
<1>7. CASE own.kind \notin {"jump", "call", "cond", "rip", "indirect"}
    <2>1. words = {At(a, own)}
        BY <1>0, <1>7 DEF Written
    <2> QED BY <1>7, <2>1 DEF WordsAre
<1>8. CASE own.kind = "indirect"
    BY <1>8 DEF WordsAre
<1> QED BY <1>3, <1>4, <1>5, <1>6, <1>7, <1>8

-----------------------------------------------------------------------------
(* A copy is one the relocator accepted, and there is none only where       *)
(* another hook came first; a function that jumps back is marked.           *)
Source(h) == Decoded(target[h], seen[h])
Intact ==
    \A h \in Hook : pc[h] \in {"relocated", "prepared", "published", "committed"} =>
        /\ trampoline[h] # {} => ~Refused(Source(h), target[h], slot[h])
        /\ trampoline[h] = {} =>
              /\ pc[h] = "relocated" => seen[h] # head[target[h]]
              /\ pc[h] # "relocated" => seen[h] # expected[h]
Marked ==
    \A t \in Targets : head[t] # None /\ JumpsBack(t) => "jumps_back" \in spoilt[t]

(* What is known of a hook that was committed while nothing went wrong.     *)
LEMMA SoundCopy ==
    ASSUME InstallInv, Intact, Marked, Sound, NEW h \in Hook, pc[h] = "committed"
    PROVE  /\ target[h] \in Targets /\ target[h] \in Nat /\ target[h] % 16 = 0
           /\ slot[h] \in Nat \ {0} /\ storage[h] = slot[h] /\ code \in Programs
           /\ head[target[h]] # None /\ ~JumpsBack(target[h])
           /\ seen[h] = expected[h]
           /\ trampoline[h] = onion_x64_relocate(Source(h), target[h], slot[h])
           /\ trampoline[h] # {}
           /\ ~Refused(Source(h), target[h], slot[h])
           /\ IsCode(Source(h)) /\ CodeSize(Source(h)) >= HOOK_LENGTH
           /\ seen[h] = None => Source(h) = code[target[h]]
           /\ seen[h] # None =>
                 /\ Source(h) = Patch(target[h], seen[h]) /\ bytes \in PointerBytes
                 /\ \A i \in DOMAIN bytes : bytes[i].kind = "plain"
                 /\ seen[h] \in Hook /\ IsOn(seen[h], target[h])
<1> USE DEF InstallInv
<1>1. /\ slot[h] \in Nat /\ target[h] \in Nat /\ code \in Programs /\ bytes \in PointerBytes
      /\ seen[h] \in Hook \cup {None}
    BY DEF InstallTypeOK
<1>2. target[h] \in Targets /\ target[h] % 16 = 0 /\ slot[h] # 0 /\ HasSlot(h)
    BY DEF InstallTypeOK, HasSlot
<1>3. storage[h] = slot[h]
    BY DEF Copied
<1>4. spoilt[target[h]] = {}
    BY <1>2 DEF Sound
<1>5. head[target[h]] # None /\ (seen[h] = None \/ IsOn(seen[h], target[h]))
    BY DEF Chained
<1>6. ~JumpsBack(target[h])
    BY <1>2, <1>4, <1>5 DEF Marked
<1>7. seen[h] = expected[h] /\ (seen[h] # None => \A i \in DOMAIN bytes : bytes[i].kind = "plain")
    BY <1>4 DEF Watched
<1>8. trampoline[h] # {} /\ ~Refused(Source(h), target[h], slot[h])
    BY <1>7 DEF Intact
<1>9. trampoline[h] = onion_x64_relocate(Source(h), target[h], slot[h])
    BY <1>8 DEF Copied, Source
<1>10. IsCode(Source(h)) /\ CodeSize(Source(h)) >= HOOK_LENGTH
    BY <1>2, DecodedIsCode DEF Source
<1>11. /\ seen[h] = None => Source(h) = code[target[h]]
       /\ seen[h] # None => Source(h) = Patch(target[h], seen[h])
    BY DEF Source, Decoded
<1> QED BY <1>1, <1>2, <1>3, <1>5, <1>6, <1>7, <1>8, <1>9, <1>10, <1>11

(* Where a branch of the stolen instructions leads: out of them, or to the  *)
(* copy of one of them.                                                     *)
LEMMA LandingIs ==
    ASSUME NEW prog, IsCode(prog), NEW src \in Nat, NEW dst, ~Refused(prog, src, dst),
           NEW i \in 1 .. Stolen(prog), prog[i].kind \in {"rip", "call", "jump", "cond"},
           NEW to, to = prog[i].to
    PROVE  \/ ~Inside(prog, src, to) /\ map_internal_target(prog, src, dst, to) = to
           \/ \E k \in 1 .. Stolen(prog) :
                 /\ to = src + SourceOffset(prog, k)
                 /\ map_internal_target(prog, src, dst, to) = dst + DestinationOffset(prog, k)
<1>1. CASE ~Inside(prog, src, to)
    BY <1>1 DEF map_internal_target
<1>2. CASE Inside(prog, src, to)
    <2>1. BoundaryAt(prog, src, to) # {}
        BY <1>2 DEF Refused
    <2>2. PICK k : k = CHOOSE j \in BoundaryAt(prog, src, to) : TRUE
        OBVIOUS
    <2>3. k \in BoundaryAt(prog, src, to)
        BY <2>1, <2>2
    <2>4. map_internal_target(prog, src, dst, to) = dst + DestinationOffset(prog, k)
        BY <1>2, <2>2 DEF map_internal_target
    <2> QED BY <2>3, <2>4 DEF BoundaryAt
<1> QED BY <1>1, <1>2

(* What a thread fetches in a slot.                                         *)
LEMMA CopyFetched ==
    ASSUME ArenaInv, InstallInv, Intact, Marked, Sound, NEW h \in Hook, pc[h] = "committed",
           NEW w \in onion_x64_relocate(Source(h), target[h], slot[h])
    PROVE  /\ ~Elsewhere(w.at) /\ w.ins \in Fetch(w.at) /\ w.at \in Int
           /\ \A ins \in Fetch(w.at) :
                 \E v \in onion_x64_relocate(Source(h), target[h], slot[h]) :
                    v.at = w.at /\ v.ins = ins
<1>1. PICK T : T = trampoline[h]
    OBVIOUS
<1>2. /\ T = onion_x64_relocate(Source(h), target[h], slot[h])
      /\ IsCode(Source(h)) /\ CodeSize(Source(h)) >= HOOK_LENGTH
      /\ target[h] \in Nat /\ slot[h] \in Nat /\ ~Refused(Source(h), target[h], slot[h])
    BY <1>1, SoundCopy
<1>3. Capacity \in Nat
    BY ArenaAssumption, DetourAssumption DEF Capacity
<1>4. w.at \in Int /\ slot[h] <= w.at /\ w.at < slot[h] + Capacity
    BY <1>2, <1>3, CopyWithinSlot
<1>5. PICK a \in Int : a = w.at
    BY <1>4
<1>6. InSlot(a, h)
    BY <1>4, <1>5 DEF InSlot
<1>7. /\ ~Elsewhere(a)
      /\ \A ins : ins \in Fetch(a) <=> \E v \in T : v.at = a /\ v.ins = ins
    BY <1>1, <1>6, FetchInCopy
<1>8. w \in T
    BY <1>2
<1> QED BY <1>2, <1>5, <1>7, <1>8

(* The copy of an instruction, where the hook was put on the function       *)
(* itself.                                                                  *)
CopyRead(a, own, to) ==
    /\ ~Elsewhere(a) /\ a \in Int /\ Fetch(a) # {}
    /\ own.kind \notin {"relative", "undecodable", "indirect"}
    /\ \A ins \in Fetch(a) :
          /\ own.kind = "jump" => ins.kind = "jump" /\ ins.to = to
          /\ own.kind # "jump" => ins.kind = own.kind /\ ins.op = own.op
          /\ own.kind = "call" => ins.to = to /\ ins.len = 6
          /\ own.kind = "cond" => ins.neg = TRUE /\ ins.to = a + 16 /\ ins.len = 2
          /\ own.kind = "rip" => ins.to = to /\ ins.len = own.len
          /\ own.kind \notin {"jump", "call", "cond", "rip"} => ins = own
    /\ own.kind = "call" =>
          /\ ~Elsewhere(a + 6) /\ Fetch(a + 6) # {}
          /\ \A ins \in Fetch(a + 6) : ins.kind = "jump" /\ ins.to = a + 16
    /\ own.kind = "cond" =>
          /\ ~Elsewhere(a + 2) /\ Fetch(a + 2) # {}
          /\ \A ins \in Fetch(a + 2) : ins.kind = "jump" /\ ins.to = to

LEMMA CopyFetch ==
    ASSUME ArenaInv, InstallInv, Intact, Marked, Sound, NEW h \in Hook, pc[h] = "committed",
           seen[h] = None, NEW i \in 1 .. Stolen(Source(h))
    PROVE  CopyRead(slot[h] + DestinationOffset(Source(h), i), Source(h)[i],
                    map_internal_target(Source(h), target[h], slot[h], Source(h)[i].to))
<1>0. PICK t, s, prog : t = target[h] /\ s = slot[h] /\ prog = code[t]
    OBVIOUS
<1>19. Source(h) = prog
    BY <1>0, SoundCopy
<1>20. PICK own, a : own = prog[i] /\ a = s + DestinationOffset(prog, i)
    OBVIOUS
<1>21. PICK to : to = map_internal_target(prog, t, s, own.to)
    OBVIOUS
<1>22. SUFFICES CopyRead(a, own, to)
    BY <1>0, <1>19, <1>20, <1>21
<1> USE <1>0, <1>19, <1>20, <1>21
<1>1. /\ IsCode(prog) /\ CodeSize(prog) >= HOOK_LENGTH /\ t \in Nat /\ s \in Nat
      /\ ~Refused(prog, t, s) /\ Source(h) = prog /\ t \in Targets /\ code \in Programs
    BY SoundCopy
<1>2. i \in 1 .. Len(prog)
    BY <1>1, StolenFacts, CodeIsSeq
<1>3. own.neg = FALSE /\ own.kind # "indirect" /\ own.len \in Nat \ {0}
    BY <1>1, <1>2, FunctionFacts
<1>4. own.kind \notin {"relative", "undecodable"}
    BY <1>1 DEF Refused
<1>5. PICK T : T = onion_x64_relocate(prog, t, s)
    OBVIOUS
<1>6. PICK words : words = Written(prog, t, s, i)
    OBVIOUS
<1>7. words \subseteq T
    BY <1>5, <1>6, CopyIsPieces
<1>8. /\ DestinationOffset(prog, i) \in Nat /\ DestinationOffset(prog, i + 1) \in Nat
      /\ DestinationOffset(prog, i + 1) = DestinationOffset(prog, i) + DestinationSize(own)
    <2>1. Ordered(prog) /\ i \in 1 .. Len(prog) + 1 /\ i + 1 \in 1 .. Len(prog) + 1
        BY <1>1, <1>2, CodeIsSeq, CodeIsOrdered
    <2> QED BY <1>2, <2>1 DEF Ordered
<1>9. a \in Int
    BY <1>1, <1>8
<1>10. \A w \in T : a <= w.at /\ w.at < a + DestinationSize(own) => w \in words
    <2> SUFFICES ASSUME NEW w \in T, a <= w.at, w.at < a + DestinationSize(own)
                 PROVE  w \in words
        OBVIOUS
    <2>1. s + DestinationOffset(prog, i) <= w.at /\ w.at < s + DestinationOffset(prog, i + 1)
        <3>1. DestinationSize(own) \in Nat
            BY <1>1, <1>2, CodeIsSeq
        <3>2. a + DestinationSize(own) = s + DestinationOffset(prog, i + 1)
            BY <1>1, <1>8, <3>1
        <3> QED BY <3>2
    <2> QED BY <1>1, <1>5, <1>6, <2>1, CopyWords
<1>11. ASSUME NEW w \in words
       PROVE  /\ ~Elsewhere(w.at) /\ Fetch(w.at) # {}
              /\ \A ins \in Fetch(w.at) : \E v \in T : v.at = w.at /\ v.ins = ins
    <2>1. w \in onion_x64_relocate(Source(h), target[h], slot[h])
        BY <1>1, <1>5, <1>7
    <2>2. /\ ~Elsewhere(w.at) /\ w.ins \in Fetch(w.at)
          /\ \A ins \in Fetch(w.at) :
                 \E v \in onion_x64_relocate(Source(h), target[h], slot[h]) :
                    v.at = w.at /\ v.ins = ins
        BY <2>1, CopyFetched
    <2> QED BY <1>1, <1>5, <2>2
<1>12. WordsAre(words, own, a, to)
    <2>1. prog[i].neg = FALSE
        BY <1>3, Zenon
    <2>2. WordsAre(Written(prog, t, s, i), prog[i], s + DestinationOffset(prog, i),
                   map_internal_target(prog, t, s, prog[i].to))
        BY <1>1, <1>2, <2>1, WrittenWords
    <2> QED BY <1>6, <2>2, Zenon
<1>13. ASSUME NEW f, At(a, f) \in words, \A v \in words : v.at = a => v = At(a, f)
       PROVE  /\ ~Elsewhere(a) /\ Fetch(a) # {} /\ \A ins \in Fetch(a) : ins = f
    <2>1. At(a, f).at = a /\ At(a, f).ins = f
        BY DEF At
    <2>2. DestinationSize(own) \in Nat \ {0}
        BY <1>1, <1>2, CodeIsSeq
    <2>3. ASSUME NEW ins \in Fetch(a) PROVE ins = f
        <3>1. PICK v \in T : v.at = a /\ v.ins = ins
            BY <1>11, <1>13, <2>1
        <3>2. v \in words
            BY <1>9, <1>10, <2>2, <3>1
        <3> QED BY <1>13, <2>1, <3>1, <3>2
    <2> QED BY <1>11, <1>13, <2>1, <2>3
<1>14. CASE own.kind = "jump"
    <2>1. PICK f : f = [op |-> "jump", kind |-> "jump", neg |-> FALSE, len |-> 14, to |-> to]
        OBVIOUS
    <2>2. words = {At(a, f)}
        BY <1>12, <1>14, <2>1 DEF Jump, WordsAre
    <2>3. ~Elsewhere(a) /\ Fetch(a) # {} /\ \A ins \in Fetch(a) : ins = f
        BY <1>13, <2>2
    <2>4. f.kind = "jump" /\ f.to = to
        BY <2>1
    <2> QED BY <1>3, <1>4, <1>9, <1>14, <2>3, <2>4 DEF CopyRead
<1>15. CASE own.kind = "call"
    <2>1. PICK f : /\ f.kind = "call" /\ f.op = own.op /\ f.to = to /\ f.len = 6
                   /\ words = {At(a, f), Jump(a + 6, 2, a + 16)}
        BY <1>12, <1>15 DEF WordsAre
    <2>2. PICK g : g = [op |-> "jump", kind |-> "jump", neg |-> FALSE, len |-> 2, to |-> a + 16]
        OBVIOUS
    <2>3. Jump(a + 6, 2, a + 16) = At(a + 6, g) /\ g.kind = "jump" /\ g.to = a + 16
        BY <2>2 DEF Jump
    <2>4. At(a + 6, g).at = a + 6 /\ At(a, f).at = a /\ At(a + 6, g).ins = g
        BY DEF At
    <2>5. ~Elsewhere(a) /\ Fetch(a) # {} /\ \A ins \in Fetch(a) : ins = f
        <3>1. a + 6 # a
            BY <1>9
        <3> QED BY <1>13, <2>1, <2>3, <2>4, <3>1
    <2>6. At(a + 6, g) \in words
        BY <2>1, <2>3
    <2>7. ~Elsewhere(a + 6) /\ Fetch(a + 6) # {}
        BY <1>11, <2>4, <2>6
    <2>8. ASSUME NEW ins \in Fetch(a + 6) PROVE ins = g
        <3>1. PICK v \in T : v.at = a + 6 /\ v.ins = ins
            BY <1>11, <2>4, <2>6
        <3>2. a <= v.at /\ v.at < a + DestinationSize(own)
            BY <1>9, <1>15, <3>1 DEF DestinationSize, kAbsoluteCallSize
        <3>3. v \in words
            BY <1>10, <3>2
        <3>4. v = At(a + 6, g)
            BY <1>9, <2>1, <2>3, <2>4, <3>1, <3>3
        <3> QED BY <2>4, <3>1, <3>4
    <2> QED BY <1>3, <1>4, <1>9, <1>15, <2>1, <2>3, <2>5, <2>7, <2>8 DEF CopyRead
<1>16. CASE own.kind = "cond"
    <2>1. PICK f : /\ f.kind = "cond" /\ f.op = own.op /\ f.neg = TRUE /\ f.to = a + 16
                   /\ f.len = 2 /\ words = {At(a, f), Jump(a + 2, 14, to)}
        BY <1>12, <1>16 DEF WordsAre
    <2>2. PICK g : g = [op |-> "jump", kind |-> "jump", neg |-> FALSE, len |-> 14, to |-> to]
        OBVIOUS
    <2>3. Jump(a + 2, 14, to) = At(a + 2, g) /\ g.kind = "jump" /\ g.to = to
        BY <2>2 DEF Jump
    <2>4. At(a + 2, g).at = a + 2 /\ At(a, f).at = a /\ At(a + 2, g).ins = g
        BY DEF At
    <2>5. ~Elsewhere(a) /\ Fetch(a) # {} /\ \A ins \in Fetch(a) : ins = f
        <3>1. a + 2 # a
            BY <1>9
        <3> QED BY <1>13, <2>1, <2>3, <2>4, <3>1
    <2>6. At(a + 2, g) \in words
        BY <2>1, <2>3
    <2>7. ~Elsewhere(a + 2) /\ Fetch(a + 2) # {}
        BY <1>11, <2>4, <2>6
    <2>8. ASSUME NEW ins \in Fetch(a + 2) PROVE ins = g
        <3>1. PICK v \in T : v.at = a + 2 /\ v.ins = ins
            BY <1>11, <2>4, <2>6
        <3>2. a <= v.at /\ v.at < a + DestinationSize(own)
            BY <1>9, <1>16, <3>1 DEF DestinationSize, kConditionalJumpSize
        <3>3. v \in words
            BY <1>10, <3>2
        <3>4. v = At(a + 2, g)
            BY <1>9, <2>1, <2>3, <2>4, <3>1, <3>3
        <3> QED BY <2>4, <3>1, <3>4
    <2> QED BY <1>3, <1>4, <1>9, <1>16, <2>1, <2>3, <2>5, <2>7, <2>8 DEF CopyRead
<1>17. CASE own.kind = "rip"
    <2>1. PICK f : /\ f.kind = "rip" /\ f.op = own.op /\ f.to = to /\ f.len = own.len
                   /\ words = {At(a, f)}
        BY <1>12, <1>17 DEF WordsAre
    <2>2. ~Elsewhere(a) /\ Fetch(a) # {} /\ \A ins \in Fetch(a) : ins = f
        <3>1. At(a, f) \in words /\ \A v \in words : v = At(a, f)
            BY <2>1, Zenon
        <3> QED BY <1>13, <3>1, Zenon
    <2> QED BY <1>3, <1>4, <1>9, <1>17, <2>1, <2>2 DEF CopyRead
<1>18. CASE own.kind \notin {"jump", "call", "cond", "rip"}
    <2>1. words = {At(a, own)}
        BY <1>3, <1>12, <1>18 DEF WordsAre
    <2>2. ~Elsewhere(a) /\ Fetch(a) # {} /\ \A ins \in Fetch(a) : ins = own
        BY <1>13, <2>1
    <2> QED BY <1>3, <1>4, <1>9, <1>18, <2>2 DEF CopyRead
<1> QED BY <1>14, <1>15, <1>16, <1>17, <1>18

-----------------------------------------------------------------------------
(* The places a thread goes through, and where the unhooked function is     *)
(* then: the functions, short of what a patch covers; a hook; the copy of   *)
(* an instruction, or the jump back behind the last one; and inside the     *)
(* long form of a call or of a conditional jump that is taken.              *)
CopyAt(h, i) == slot[h] + DestinationOffset(Source(h), i)
Origin(h, i) == target[h] + SourceOffset(Source(h), i)

InPlace(a, b) ==
    /\ a \in Int /\ Elsewhere(a) /\ b = BehindJumps(a)
    /\ \A t \in Targets : head[t] # None => a \notin (t + 1) .. (t + HOOK_LENGTH - 1)
InHook(a, b) == a \in Hook /\ pc[a] = "committed" /\ b = BehindJumps(target[a])
InCopy(a, b) ==
    \E h \in Hook : \E i \in 1 .. Stolen(Source(h)) + 1 :
        /\ pc[h] = "committed" /\ (seen[h] # None => i = 1)
        /\ a = CopyAt(h, i) /\ b = BehindJumps(Origin(h, i))
BehindCall(a, b) ==
    \E h \in Hook : \E i \in 1 .. Stolen(Source(h)) :
        /\ pc[h] = "committed" /\ seen[h] = None /\ Source(h)[i].kind = "call"
        /\ a = CopyAt(h, i) + 6 /\ b = BehindJumps(Origin(h, i + 1))
Taken(a, b) ==
    \E h \in Hook : \E i \in 1 .. Stolen(Source(h)) :
        /\ pc[h] = "committed" /\ seen[h] = None /\ Source(h)[i].kind = "cond"
        /\ a = CopyAt(h, i) + 2 /\ b = BehindJumps(Source(h)[i].to)
OnPath(a, b) == InPlace(a, b) \/ InHook(a, b) \/ InCopy(a, b) \/ BehindCall(a, b) \/ Taken(a, b)

Path == Sound => (cpu = None \/ OnPath(cpu, home)) /\ (back = None \/ OnPath(back, home))
CourseInv == Intact /\ Marked /\ Path

(* What an installer's step leaves as it is of the other hooks, and of all  *)
(* of them once they are committed.                                         *)
LEMMA OthersKept ==
    ASSUME InstallInv, NEW h \in Hook, Installs(h)
    PROVE  /\ UNCHANGED <<code, bytes, cpu, back, home>>
           /\ \A k \in Hook : k # h =>
                 /\ pc'[k] = pc[k] /\ target'[k] = target[k] /\ slot'[k] = slot[k]
                 /\ seen'[k] = seen[k] /\ expected'[k] = expected[k]
                 /\ trampoline'[k] = trampoline[k]
           /\ pc[h] # "committed"
<1> USE DEF InstallInv
<1>1. /\ slot \in [Hook -> Nat] /\ target \in [Hook -> Nat] /\ pc \in [Hook -> Label]
      /\ seen \in [Hook -> Hook \cup {None}] /\ expected \in [Hook -> Hook \cup {None}]
      /\ trampoline = [k \in Hook |-> trampoline[k]]
    BY DEF InstallTypeOK
<1>2. ASSUME NEW l, OnlyPc(h, l) PROVE UNCHANGED <<code, bytes, cpu, back, home>>
          /\ \A k \in Hook : k # h =>
                 /\ pc'[k] = pc[k] /\ target'[k] = target[k] /\ slot'[k] = slot[k]
                 /\ seen'[k] = seen[k] /\ expected'[k] = expected[k]
                 /\ trampoline'[k] = trampoline[k]
    BY <1>1, <1>2 DEF OnlyPc, Goto, threadVars
<1>3. CASE \E t \in Targets : Allocate(h, t)
    BY <1>1, <1>3 DEF Allocate, Goto, threadVars
<1>4. CASE \E t \in Targets : NoSlot(h, t)
    BY <1>2, <1>4 DEF NoSlot
<1>5. CASE Protect(h)
    BY <1>2, <1>5 DEF Protect
<1>6. CASE Decode(h)
    BY <1>1, <1>6 DEF Decode, Goto, threadVars
<1>7. CASE Relocate(h)
    <2>1. CASE Refused(Decoded(target[h], seen[h]), target[h], slot[h])
        BY <1>2, <1>7, <2>1 DEF Relocate
    <2>2. CASE ~Refused(Decoded(target[h], seen[h]), target[h], slot[h])
        <3>1. PICK T : trampoline' = [trampoline EXCEPT ![h] = T]
            BY <1>7, <2>2 DEF Relocate
        <3>2. /\ pc[h] = "decoded" /\ Goto(h, "relocated")
              /\ UNCHANGED <<code, bytes, slot, target, seen, expected, threadVars>>
            BY <1>7, <2>2 DEF Relocate
        <3> QED BY <1>1, <3>1, <3>2 DEF Goto, threadVars
    <2> QED BY <2>1, <2>2
<1>8. CASE BuildPatch(h)
    BY <1>1, <1>8 DEF BuildPatch, Goto, threadVars
<1>9. CASE Publish(h)
    BY <1>1, <1>9 DEF Publish, Goto, threadVars
<1>10. CASE Commit(h)
    BY <1>1, <1>10 DEF Commit, Goto, threadVars
<1>11. CASE CommitFails(h)
    BY <1>1, <1>11 DEF CommitFails, Goto, threadVars
<1>12. CASE Retry(h)
    BY <1>2, <1>12 DEF Retry
<1> QED BY <1>3, <1>4, <1>5, <1>6, <1>7, <1>8, <1>9, <1>10, <1>11, <1>12 DEF Installs

(* The head changes by an exchange alone, and leaves its traces.            *)
LEMMA HeadChanges ==
    ASSUME InstallInv, NEW h \in Hook, Installs(h)
    PROVE  \/ UNCHANGED <<head, spoilt>> /\ ~Commit(h)
           \/ /\ Commit(h) /\ head' = [head EXCEPT ![target[h]] = h] /\ target[h] \in Targets
              /\ spoilt' = [spoilt EXCEPT ![target[h]] = @ \cup Hazards(h)]
              /\ pc[h] = "published"
<1> USE DEF InstallInv
<1>1. CASE Commit(h)
    <2>1. target[h] \in Targets
        BY <1>1 DEF Commit, InstallTypeOK, HasSlot
    <2> QED BY <1>1, <2>1 DEF Commit, compare_exchange_patch
<1>2. CASE ~Commit(h)
    <2>1. UNCHANGED <<head, spoilt>>
        BY <1>2 DEF Installs, Allocate, NoSlot, Protect, Decode, Relocate, BuildPatch, Publish,
                    CommitFails, Retry, OnlyPc
    <2> QED BY <1>2, <2>1
<1> QED BY <1>1, <1>2

(* Only what another hook changes is copied in vain; no copy is changed.    *)
IntactAt(h) ==
    pc[h] \in {"relocated", "prepared", "published", "committed"} =>
        /\ trampoline[h] # {} => ~Refused(Source(h), target[h], slot[h])
        /\ trampoline[h] = {} =>
              /\ pc[h] = "relocated" => seen[h] # head[target[h]]
              /\ pc[h] # "relocated" => seen[h] # expected[h]

LEMMA IntactStep ==
    ASSUME InstallInv, Intact, NEW h \in Hook, Installs(h) PROVE Intact'
<1> USE DEF InstallInv
<1>1. /\ slot \in [Hook -> Nat] /\ target \in [Hook -> Nat] /\ pc \in [Hook -> Label]
      /\ seen \in [Hook -> Hook \cup {None}] /\ expected \in [Hook -> Hook \cup {None}]
      /\ trampoline = [k \in Hook |-> trampoline[k]]
      /\ head \in [Targets -> Hook \cup {None}]
      /\ \A k \in Hook : HasSlot(k) => target[k] \in Targets
    BY DEF InstallTypeOK
<1>2. /\ UNCHANGED <<code, bytes, cpu, back, home>>
      /\ \A k \in Hook : k # h =>
                 /\ pc'[k] = pc[k] /\ target'[k] = target[k] /\ slot'[k] = slot[k]
                 /\ seen'[k] = seen[k] /\ expected'[k] = expected[k]
                 /\ trampoline'[k] = trampoline[k]
      /\ pc[h] # "committed"
    BY OthersKept
<1>3. \A t, x : Decoded(t, x)' = Decoded(t, x)
    BY <1>2 DEF Decoded, Patch
<1>4. \A k \in Hook : IntactAt(k)
    BY DEF Intact, IntactAt
<1>5. SUFFICES \A k \in Hook : IntactAt(k)'
    BY DEF Intact, IntactAt
<1>6. ASSUME NEW k \in Hook, k # h PROVE IntactAt(k)'
    <2>1. Source(k)' = Source(k)
        BY <1>2, <1>3, <1>6 DEF Source
    <2>2. pc[k] = "relocated" /\ seen[k] # head[target[k]] => seen[k] # head'[target[k]]
        <3>1. CASE UNCHANGED head
            BY <3>1
        <3>2. CASE head' = [head EXCEPT ![target[h]] = h] /\ pc[h] = "published"
            <4> SUFFICES ASSUME pc[k] = "relocated", seen[k] # head[target[k]],
                                seen[k] = head'[target[k]]
                         PROVE  FALSE
                OBVIOUS
            <4>1. target[k] \in Targets
                BY <1>1 DEF HasSlot
            <4>2. seen[k] = h
                BY <1>1, <3>2, <4>1
            <4>3. seen[k] = None \/ IsOn(seen[k], target[k])
                BY DEF Chained
            <4> QED BY <3>2, <4>2, <4>3, NamesAssumption DEF IsOn
        <3> QED BY <3>1, <3>2, HeadChanges
    <2> QED BY <1>2, <1>4, <1>6, <2>1, <2>2 DEF IntactAt
<1>7. ASSUME NEW l, OnlyPc(h, l), l \in {"failed", "readable", "idle"} PROVE IntactAt(h)'
    <2>1. pc'[h] = l
        BY <1>1, <1>7 DEF OnlyPc, Goto
    <2> QED BY <1>7, <2>1 DEF IntactAt
<1>8. CASE (\E t \in Targets : Allocate(h, t)) \/ Decode(h) \/ CommitFails(h)
    <2>1. pc'[h] \in {"allocated", "decoded", "failed"}
        BY <1>1, <1>8 DEF Allocate, Decode, CommitFails, Goto
    <2> QED BY <1>6, <2>1 DEF IntactAt
<1>9. CASE (\E t \in Targets : NoSlot(h, t)) \/ Protect(h) \/ Retry(h)
    BY <1>6, <1>7, <1>9 DEF NoSlot, Protect, Retry
<1>10. CASE Relocate(h)
    <2>1. CASE Refused(Decoded(target[h], seen[h]), target[h], slot[h])
        BY <1>6, <1>7, <1>10, <2>1 DEF Relocate
    <2>2. CASE ~Refused(Decoded(target[h], seen[h]), target[h], slot[h])
        <3>1. PICK T : T = onion_x64_relocate(Decoded(target[h], seen[h]), target[h], slot[h])
            OBVIOUS
        <3>2. /\ trampoline' = [trampoline EXCEPT ![h] = IF head[target[h]] = seen[h] THEN T ELSE {}]
              /\ pc[h] = "decoded" /\ Goto(h, "relocated")
              /\ UNCHANGED <<head, slot, target, seen, expected>>
            BY <1>10, <2>2, <3>1 DEF Relocate
        <3>3. /\ pc'[h] = "relocated"
              /\ trampoline'[h] = IF head[target[h]] = seen[h] THEN T ELSE {}
            BY <1>1, <3>2 DEF Goto
        <3>4. Source(h)' = Decoded(target[h], seen[h])
            BY <1>3, <3>2 DEF Source
        <3>5. T # {}
            <4>1. PICK p, src, dst : p = Decoded(target[h], seen[h]) /\ src = target[h] /\ dst = slot[h]
                OBVIOUS
            <4>2. Jump(dst + DestinationOffset(p, Stolen(p) + 1), 14, src + SourceSize(p))
                      \in onion_x64_relocate(p, src, dst)
                BY CopyIsPieces
            <4> QED BY <3>1, <4>1, <4>2
        <3>6. IntactAt(h)'
            BY <2>2, <3>2, <3>3, <3>4, <3>5 DEF IntactAt
        <3> QED BY <1>6, <3>6
    <2> QED BY <2>1, <2>2
<1>11. CASE BuildPatch(h)
    <2>1. /\ pc[h] = "relocated" /\ pc'[h] = "prepared" /\ expected'[h] = head[target[h]]
          /\ UNCHANGED <<slot, target, seen, trampoline>>
        BY <1>1, <1>11 DEF BuildPatch, Goto
    <2>2. Source(h)' = Source(h)
        BY <1>3, <2>1 DEF Source
    <2>3. IntactAt(h)'
        BY <1>4, <2>1, <2>2 DEF IntactAt
    <2> QED BY <1>6, <2>3
<1>12. CASE Publish(h) \/ Commit(h)
    <2>1. /\ pc[h] \in {"prepared", "published"} /\ pc'[h] \in {"published", "committed"}
          /\ UNCHANGED <<slot, target, seen, trampoline, expected>>
        BY <1>1, <1>12 DEF Publish, Commit, Goto
    <2>2. Source(h)' = Source(h)
        BY <1>3, <2>1 DEF Source
    <2>3. IntactAt(h)'
        BY <1>4, <2>1, <2>2 DEF IntactAt
    <2> QED BY <1>6, <2>3
<1> QED BY <1>8, <1>9, <1>10, <1>11, <1>12 DEF Installs

(* An exchange on a function that jumps back leaves its mark.               *)
LEMMA MarkedStep ==
    ASSUME InstallInv, Marked, NEW h \in Hook, Installs(h) PROVE Marked'
<1>1. /\ head \in [Targets -> Hook \cup {None}]
      /\ spoilt \in [Targets -> SUBSET {"amid", "awaited", "raced", "rewritten", "jumps_back"}]
    BY DEF InstallInv, InstallTypeOK
<1>2. code' = code
    BY OthersKept
<1>3. \A t : JumpsBack(t)' <=> JumpsBack(t)
    BY <1>2 DEF JumpsBack
<1> SUFFICES ASSUME NEW t \in Targets, head'[t] # None, JumpsBack(t) PROVE "jumps_back" \in spoilt'[t]
    BY <1>3 DEF Marked
<1>4. CASE UNCHANGED <<head, spoilt>>
    BY <1>4 DEF Marked
<1>5. CASE /\ head' = [head EXCEPT ![target[h]] = h]
           /\ spoilt' = [spoilt EXCEPT ![target[h]] = @ \cup Hazards(h)]
    <2>1. CASE t = target[h]
        <3>1. "jumps_back" \in Hazards(h)
            BY <2>1 DEF Hazards
        <3> QED BY <1>1, <1>5, <2>1, <3>1
    <2>2. CASE t # target[h]
        BY <1>1, <1>5, <2>2 DEF Marked
    <2> QED BY <2>1, <2>2
<1> QED BY <1>4, <1>5, HeadChanges

LEMMA SoundBefore ==
    ASSUME InstallInv, NEW h \in Hook, Installs(h), Sound' PROVE Sound
<1>1. spoilt \in [Targets -> SUBSET {"amid", "awaited", "raced", "rewritten", "jumps_back"}]
    BY DEF InstallInv, InstallTypeOK
<1>2. \A t \in Targets : spoilt[t] \subseteq spoilt'[t]
    <2>1. CASE UNCHANGED spoilt
        BY <2>1
    <2>2. CASE spoilt' = [spoilt EXCEPT ![target[h]] = @ \cup Hazards(h)]
        BY <1>1, <2>2
    <2> QED BY <2>1, <2>2, HeadChanges
<1> QED BY <1>2 DEF Sound

(* An installer's step leaves the thread on its path: an exchange while the *)
(* thread is amid the bytes that are replaced is one of the five things.    *)
LEMMA CommittedStays ==
    ASSUME InstallInv, NEW h \in Hook, Installs(h)
    PROVE  /\ \A k \in Hook : pc[k] = "committed" =>
                 /\ pc'[k] = "committed" /\ target'[k] = target[k] /\ slot'[k] = slot[k]
                 /\ seen'[k] = seen[k] /\ Source(k)' = Source(k)
                 /\ \A i : CopyAt(k, i)' = CopyAt(k, i) /\ Origin(k, i)' = Origin(k, i)
           /\ \A a : BehindJumps(a)' = BehindJumps(a)
<1>1. /\ UNCHANGED <<code, bytes, cpu, back, home>>
      /\ \A k \in Hook : k # h =>
                 /\ pc'[k] = pc[k] /\ target'[k] = target[k] /\ slot'[k] = slot[k]
                 /\ seen'[k] = seen[k] /\ expected'[k] = expected[k]
                 /\ trampoline'[k] = trampoline[k]
      /\ pc[h] # "committed"
    BY OthersKept
<1>2. \A a : BehindJumps(a)' = BehindJumps(a)
    BY <1>1 DEF BehindJumps, AtHome, InFunction
<1>3. \A t, x : Decoded(t, x)' = Decoded(t, x)
    BY <1>1 DEF Decoded, Patch
<1>4. ASSUME NEW k \in Hook, pc[k] = "committed"
      PROVE  /\ pc'[k] = "committed" /\ target'[k] = target[k] /\ slot'[k] = slot[k]
             /\ seen'[k] = seen[k] /\ Source(k)' = Source(k)
    BY <1>1, <1>3, <1>4 DEF Source
<1>5. ASSUME NEW k \in Hook, pc[k] = "committed", NEW i
      PROVE  CopyAt(k, i)' = CopyAt(k, i) /\ Origin(k, i)' = Origin(k, i)
    BY <1>4, <1>5 DEF CopyAt, Origin
<1> QED BY <1>2, <1>4, <1>5

LEMMA PathStep ==
    ASSUME InstallInv, Path, NEW h \in Hook, Installs(h) PROVE Path'
<1>1. UNCHANGED <<cpu, back, home>>
    BY OthersKept
<1> SUFFICES ASSUME Sound', NEW a, NEW b, a = cpu \/ a = back, OnPath(a, b) PROVE OnPath(a, b)'
    <2>1. ASSUME NEW a, a = cpu \/ a = back, a = None \/ OnPath(a, home), Sound'
          PROVE  a = None \/ OnPath(a, home)'
        BY <1>1, <2>1
    <2> QED BY <1>1, <2>1, SoundBefore DEF Path
<1>3. /\ \A k \in Hook : pc[k] = "committed" =>
                 /\ pc'[k] = "committed" /\ target'[k] = target[k] /\ slot'[k] = slot[k]
                 /\ seen'[k] = seen[k] /\ Source(k)' = Source(k)
                 /\ \A i : CopyAt(k, i)' = CopyAt(k, i) /\ Origin(k, i)' = Origin(k, i)
      /\ \A x : BehindJumps(x)' = BehindJumps(x)
    BY CommittedStays
<1>4. CASE InPlace(a, b)
    <2>1. ASSUME NEW t \in Targets, head'[t] # None
          PROVE  a \notin (t + 1) .. (t + HOOK_LENGTH - 1)
        <3>1. CASE head[t] # None
            BY <1>4, <3>1 DEF InPlace
        <3>2. CASE head[t] = None
            <4>1. head \in [Targets -> Hook \cup {None}]
                  /\ spoilt \in [Targets -> SUBSET {"amid", "awaited", "raced", "rewritten", "jumps_back"}]
                BY DEF InstallInv, InstallTypeOK
            <4>2. head # head'
                BY <2>1, <3>2
            <4>3. /\ head' = [head EXCEPT ![target[h]] = h]
                  /\ spoilt' = [spoilt EXCEPT ![target[h]] = @ \cup Hazards(h)]
                BY <4>2, HeadChanges
            <4>4. t = target[h]
                BY <2>1, <3>2, <4>1, <4>3
            <4>5. "amid" \notin Hazards(h) /\ "awaited" \notin Hazards(h)
                BY <4>1, <4>3, <4>4 DEF Sound
            <4>6. cpu \notin Behind(t) /\ back \notin Behind(t)
                BY <4>4, <4>5 DEF Hazards
            <4> QED BY <4>6 DEF Behind
        <3> QED BY <3>1, <3>2
    <2> QED BY <1>3, <1>4, <2>1 DEF InPlace, OnPath
<1>5. CASE InHook(a, b)
    BY <1>3, <1>5 DEF InHook, OnPath
<1>6. CASE InCopy(a, b)
    <2>0. PICK k \in Hook : \E i \in 1 .. Stolen(Source(k)) + 1 :
              /\ pc[k] = "committed" /\ (seen[k] # None => i = 1)
              /\ a = CopyAt(k, i) /\ b = BehindJumps(Origin(k, i))
        BY <1>6 DEF InCopy
    <2>1. PICK i \in 1 .. Stolen(Source(k)) + 1 :
              /\ pc[k] = "committed" /\ (seen[k] # None => i = 1)
              /\ a = CopyAt(k, i) /\ b = BehindJumps(Origin(k, i))
        BY <2>0
    <2>2. /\ i \in 1 .. Stolen(Source(k)') + 1 /\ pc'[k] = "committed" /\ (seen'[k] # None => i = 1)
          /\ a = CopyAt(k, i)' /\ b = BehindJumps(Origin(k, i))'
        BY <1>3, <2>1
    <2> QED BY <2>2 DEF InCopy, OnPath
<1>7. CASE BehindCall(a, b)
    <2>0. PICK k \in Hook : \E i \in 1 .. Stolen(Source(k)) :
              /\ pc[k] = "committed" /\ seen[k] = None /\ Source(k)[i].kind = "call"
              /\ a = CopyAt(k, i) + 6 /\ b = BehindJumps(Origin(k, i + 1))
        BY <1>7 DEF BehindCall
    <2>1. PICK i \in 1 .. Stolen(Source(k)) :
              /\ pc[k] = "committed" /\ seen[k] = None /\ Source(k)[i].kind = "call"
              /\ a = CopyAt(k, i) + 6 /\ b = BehindJumps(Origin(k, i + 1))
        BY <2>0
    <2>2. /\ i \in 1 .. Stolen(Source(k)') /\ pc'[k] = "committed" /\ seen'[k] = None
          /\ Source(k)'[i].kind = "call"
          /\ a = CopyAt(k, i)' + 6 /\ b = BehindJumps(Origin(k, i + 1))'
        BY <1>3, <2>1
    <2> QED BY <2>2 DEF BehindCall, OnPath
<1>8. CASE Taken(a, b)
    <2>0. PICK k \in Hook : \E i \in 1 .. Stolen(Source(k)) :
              /\ pc[k] = "committed" /\ seen[k] = None /\ Source(k)[i].kind = "cond"
              /\ a = CopyAt(k, i) + 2 /\ b = BehindJumps(Source(k)[i].to)
        BY <1>8 DEF Taken
    <2>1. PICK i \in 1 .. Stolen(Source(k)) :
              /\ pc[k] = "committed" /\ seen[k] = None /\ Source(k)[i].kind = "cond"
              /\ a = CopyAt(k, i) + 2 /\ b = BehindJumps(Source(k)[i].to)
        BY <2>0
    <2>2. /\ i \in 1 .. Stolen(Source(k)') /\ pc'[k] = "committed" /\ seen'[k] = None
          /\ Source(k)'[i].kind = "cond"
          /\ a = CopyAt(k, i)' + 2 /\ b = BehindJumps(Source(k)[i].to)'
        BY <1>3, <2>1
    <2> QED BY <2>2 DEF Taken, OnPath
<1> QED BY <1>4, <1>5, <1>6, <1>7, <1>8 DEF OnPath

-----------------------------------------------------------------------------
(* The thread, from each place on its path: there is a step it can take,    *)
(* and every step it can take leads to a place on its path.                 *)
Steady == ArenaInv /\ InstallInv /\ Intact /\ Marked /\ Sound

Proceeds(a, b) ==
    \/ a = b /\ AtHome(b) = {}
    \/ \E ins \in Fetch(a) :
          \/ ins.kind = "jump"
          \/ ins.kind = "indirect" /\ Loaded(ins.to) # {}
          \/ \E own \in AtHome(b) : Same(ins, own)
JumpsOn(a, b) ==
    \A ins \in Fetch(a) :
        /\ ins.kind = "jump" => OnPath(ins.to, b)
        /\ ins.kind = "indirect" => \A h \in Loaded(ins.to) : OnPath(h, b)
ExecutesOn(a, b) ==
    \A ins \in Fetch(a) : \A own \in AtHome(b) : Same(ins, own) =>
        /\ ins.kind \in {"plain", "rip", "call"} => OnPath(a + ins.len, BehindJumps(b + own.len))
        /\ ins.kind \in {"cond", "relative"} =>
              \A holds \in BOOLEAN :
                  OnPath(IF holds # ins.neg THEN ins.to ELSE a + ins.len,
                         BehindJumps(IF holds THEN own.to ELSE b + own.len))
Leads(a, b) == a \in Int /\ Proceeds(a, b) /\ JumpsOn(a, b) /\ ExecutesOn(a, b)

(* Where there are but jumps to one place.                                  *)
LEMMA OnlyJumps ==
    ASSUME NEW a \in Int, NEW b, NEW x, Fetch(a) # {}, OnPath(x, b),
           \A ins \in Fetch(a) : ins.kind = "jump" /\ ins.to = x
    PROVE  Leads(a, b)
<1>1. Proceeds(a, b)
    BY DEF Proceeds
<1>2. JumpsOn(a, b)
    BY DEF JumpsOn
<1>3. ExecutesOn(a, b)
    BY DEF ExecutesOn, Same
<1> QED BY <1>1, <1>2, <1>3 DEF Leads

LEMMA PatchedIs ==
    ASSUME Steady, NEW t \in Targets, head[t] # None
    PROVE  /\ t % 16 = 0 /\ CodeSize(code[t]) >= HOOK_LENGTH
           /\ head[t] \in Hook /\ IsOn(head[t], t)
<1>1. head[t] \in Hook /\ IsOn(head[t], t)
    BY DEF Steady, InstallInv, InstallTypeOK, Chained
<1>2. t % 16 = 0
    BY <1>1 DEF Steady, InstallInv, InstallTypeOK, IsOn, HasSlot
<1>3. code \in Programs
    BY DEF Steady, InstallInv, InstallTypeOK
<1> QED BY <1>1, <1>2, <1>3, CodeAssumption

(* An instruction that no patch covers, or the end of a function.           *)
LEMMA PlaceIs ==
    ASSUME Steady, NEW t \in Targets, NEW i \in 1 .. Len(code[t]) + 1,
           NEW a, a = t + SourceOffset(code[t], i),
           head[t] = None \/ i = 1 \/ SourceOffset(code[t], i) >= HOOK_LENGTH
    PROVE  InPlace(a, BehindJumps(a))
<1>1. code \in Programs
    BY DEF Steady, InstallInv, InstallTypeOK
<1>2. PICK o, n : o = SourceOffset(code[t], i) /\ n = CodeSize(code[t])
    OBVIOUS
<1>3. t \in Nat /\ o \in Nat /\ n \in Nat /\ o <= n /\ (i = 1 => o = 0)
    BY <1>1, <1>2, FunctionFacts
<1>4. a \in Int /\ a \in t .. t + n
    BY <1>2, <1>3
<1>5. Elsewhere(a)
    BY <1>1, <1>2, <1>4, MemoryAssumption
<1>6. ASSUME NEW u \in Targets, head[u] # None PROVE a \notin (u + 1) .. (u + HOOK_LENGTH - 1)
    <2>1. u \in Nat /\ CodeSize(code[u]) \in Nat /\ CodeSize(code[u]) >= 14
        BY <1>1, <1>6, FunctionFacts, PatchedIs, CodeAssumption
    <2>4. a = t + o /\ HOOK_LENGTH = 14
        BY <1>2, CodeAssumption
    <2>2. CASE u = t
        <3>1. o = 0 \/ o >= 14
            BY <1>2, <1>3, <1>6, <2>2, <2>4
        <3> QED BY <1>3, <2>2, <2>4, <3>1
    <2>3. CASE u # t
        <3>1. t < u \/ u < t
            BY <1>3, <2>1, <2>3
        <3>2. (t < u => t + n <= u) /\ (u < t => u + CodeSize(code[u]) <= t)
            BY <1>1, <1>2, FunctionAssumption
        <3>3. PICK m : m = CodeSize(code[u])
            OBVIOUS
        <3>4. m \in Nat /\ m >= 14 /\ (t < u => t + n <= u) /\ (u < t => u + m <= t)
            BY <2>1, <3>2, <3>3
        <3> QED BY <1>3, <2>1, <2>4, <3>1, <3>4
    <2> QED BY <2>2, <2>3
<1> QED BY <1>4, <1>5, <1>6 DEF InPlace

(* Where a function branches to.                                            *)
LEMMA BranchPlace ==
    ASSUME Steady, NEW t \in Targets, NEW i \in 1 .. Len(code[t]), code[t][i].kind \in Branch,
           NEW to, to = code[t][i].to,
           head[t] # None => to \notin (t + 1) .. (t + HOOK_LENGTH - 1)
    PROVE  InPlace(to, BehindJumps(to))
<1>1. code \in Programs
    BY DEF Steady, InstallInv, InstallTypeOK
<1>2. to \in Int /\ i \in DOMAIN code[t]
    BY <1>1, FunctionFacts
<1>3. Elsewhere(to)
    BY <1>1, <1>2, MemoryAssumption
<1>4. ASSUME NEW u \in Targets, head[u] # None PROVE to \notin (u + 1) .. (u + HOOK_LENGTH - 1)
    <2>1. CASE u = t
        BY <1>4, <2>1
    <2>2. CASE u # t
        BY <1>1, <1>2, <1>4, <2>2, PatchedIs, FunctionAssumption
    <2> QED BY <2>1, <2>2
<1> QED BY <1>2, <1>3, <1>4 DEF InPlace

LEMMA PlaceLeads ==
    ASSUME Steady, NEW a, NEW b, InPlace(a, b) PROVE Leads(a, b)
<1> USE DEF Steady, InstallInv
<1>1. code \in Programs /\ bytes \in PointerBytes
    BY DEF InstallTypeOK
<1>2. a \in Int /\ Elsewhere(a) /\ b = BehindJumps(a)
    BY DEF InPlace
<1>3. CASE a \in Targets /\ head[a] # None
    <2>1. PICK g \in Hook : g = head[a] /\ IsOn(g, a)
        BY <1>3, PatchedIs
    <2>2. OnPath(g, b)
        BY <1>2, <2>1 DEF OnPath, InHook, IsOn
    <2>3. /\ \A ins \in Fetch(a) : ins.kind = "indirect" /\ ins.to = a + 6
          /\ Loaded(a + 6) \subseteq {g} /\ Fetch(a) # {}
        BY <1>3, <2>1, AtPatch
    <2>4. g \in Loaded(a + 6)
        BY <1>3, <2>1 DEF Loaded
    <2>5. Proceeds(a, b)
        BY <2>3, <2>4 DEF Proceeds
    <2>6. JumpsOn(a, b)
        BY <2>2, <2>3 DEF JumpsOn
    <2>7. ExecutesOn(a, b)
        BY <2>3 DEF ExecutesOn, Same
    <2> QED BY <1>2, <2>5, <2>6, <2>7 DEF Leads
<1>4. CASE AtHome(a) = {} /\ ~(a \in Targets /\ head[a] # None)
    <2>1. b = a
        BY <1>2, <1>4, BehindNothing
    <2>2. Fetch(a) = {}
        BY <1>2, <1>4, FetchOutside
    <2> QED BY <1>2, <1>4, <2>1, <2>2 DEF Leads, Proceeds, JumpsOn, ExecutesOn
<1>5. CASE AtHome(a) # {} /\ ~(a \in Targets /\ head[a] # None)
    <2>1. PICK t \in Targets : \E i \in 1 .. Len(code[t]) : a = t + SourceOffset(code[t], i)
        BY <1>1, <1>5, AtHomeFrom
    <2>2. PICK i \in 1 .. Len(code[t]) : a = t + SourceOffset(code[t], i)
        BY <2>1
    <2>3. PICK own : own = code[t][i]
        OBVIOUS
    <2>4. PICK o, p, n : o = SourceOffset(code[t], i) /\ p = SourceOffset(code[t], i + 1) /\ n = Len(code[t])
        OBVIOUS
    <2>5. /\ t \in Nat /\ o \in Nat /\ n \in Nat /\ p = o + own.len /\ own.len \in Nat \ {0}
          /\ own.to \in Int
          /\ i \in 1 .. n + 1 /\ i + 1 \in 1 .. n + 1
        <3>1. t \in Nat /\ n \in Nat
            BY <1>1, <2>4, FunctionFacts
        <3>2. i \in 1 .. n + 1 /\ i + 1 \in 1 .. n + 1
            BY <2>4, <3>1
        <3>3. o \in Nat /\ p = o + own.len /\ own.len \in Nat \ {0} /\ own.to \in Int
            BY <1>1, <2>3, <2>4, <3>2, FunctionFacts
        <3> QED BY <3>1, <3>2, <3>3
    <2>13. own.neg = FALSE /\ own.kind # "indirect"
        BY <1>1, <2>3, FunctionFacts
    <2>14. a = t + o
        BY <2>2, <2>4
    <2>6. head[t] = None \/ o >= HOOK_LENGTH
        <3> SUFFICES ASSUME head[t] # None PROVE o >= HOOK_LENGTH
            OBVIOUS
        <3>1. a # t
            BY <1>5
        <3>2. a \notin (t + 1) .. (t + HOOK_LENGTH - 1) /\ HOOK_LENGTH = 14
            BY CodeAssumption DEF InPlace
        <3> QED BY <2>5, <2>14, <3>1, <3>2
    <2>7. AtHome(a) = {own}
        BY <1>1, <2>2, <2>3, AtHomeIs
    <2>8. Fetch(a) = {own}
        <3>1. head[t] = None \/ a - t >= HOOK_LENGTH
            BY <2>5, <2>6, <2>14
        <3> QED BY <1>1, <1>2, <1>5, <2>2, <2>3, <3>1, FetchInFunction
    <2>9. InPlace(a + own.len, BehindJumps(a + own.len))
        <3>1. PICK x : x = a + own.len
            OBVIOUS
        <3>2. x = t + SourceOffset(code[t], i + 1)
            <4>1. PICK l : l = own.len
                OBVIOUS
            <4>2. x = a + l /\ p = o + l /\ l \in Nat /\ o \in Nat /\ t \in Nat
                BY <2>5, <3>1, <4>1, Zenon
            <4>3. x = t + p
                BY <2>14, <4>2
            <4> QED BY <2>4, <4>3, Zenon
        <3>3. head[t] = None \/ SourceOffset(code[t], i + 1) >= HOOK_LENGTH
            BY <2>4, <2>5, <2>6, CodeAssumption
        <3> QED BY <2>4, <2>5, <3>1, <3>2, <3>3, PlaceIs
    <2>10. own.kind \in Branch => InPlace(own.to, BehindJumps(own.to))
        <3> SUFFICES ASSUME own.kind \in Branch PROVE InPlace(own.to, BehindJumps(own.to))
            OBVIOUS
        <3>1. ASSUME head[t] # None PROVE own.to \notin (t + 1) .. (t + HOOK_LENGTH - 1)
            <4>1. ~JumpsBack(t)
                BY <3>1 DEF Marked, Sound
            <4>2. i \in DOMAIN code[t] /\ SourceOffset(code[t], i) >= HOOK_LENGTH
                BY <1>1, <2>4, <2>6, <3>1, FunctionFacts
            <4> QED BY <2>3, <4>1, <4>2 DEF JumpsBack, Behind
        <3> QED BY <2>3, <3>1, BranchPlace
    <2>11. CASE own.kind = "jump"
        <3>1. b = BehindJumps(own.to)
            BY <1>1, <1>2, <2>2, <2>3, <2>11, BehindOne
        <3>2. OnPath(own.to, b)
            BY <2>10, <2>11, <3>1 DEF Branch, OnPath
        <3> QED BY <1>2, <2>8, <2>11, <3>2, OnlyJumps
    <2>12. CASE own.kind # "jump"
        <3>1. b = a
            BY <1>2, <2>7, <2>12, BehindNothing
        <3>2. Proceeds(a, b)
            BY <2>7, <2>8, <2>12, <2>13, <3>1 DEF Proceeds, Same, Means
        <3>3. JumpsOn(a, b)
            BY <2>8, <2>12, <2>13 DEF JumpsOn
        <3>4. ASSUME own.kind \in {"plain", "rip", "call"}
              PROVE  OnPath(a + own.len, BehindJumps(b + own.len))
            BY <2>9, <3>1 DEF OnPath
        <3>5. ASSUME own.kind \in {"cond", "relative"}, NEW holds \in BOOLEAN
              PROVE  OnPath(IF holds # own.neg THEN own.to ELSE a + own.len,
                            BehindJumps(IF holds THEN own.to ELSE b + own.len))
            <4>1. OnPath(own.to, BehindJumps(own.to))
                BY <2>10, <3>5 DEF OnPath, Branch
            <4>2. OnPath(a + own.len, BehindJumps(b + own.len))
                BY <2>9, <3>1 DEF OnPath
            <4>3. (holds # own.neg) <=> holds
                BY <2>13, Zenon
            <4> QED BY <4>1, <4>2, <4>3, Zenon
        <3>6. ExecutesOn(a, b)
            BY <2>7, <2>8, <3>1, <3>4, <3>5 DEF ExecutesOn
        <3> QED BY <1>2, <3>2, <3>3, <3>6 DEF Leads
    <2> QED BY <2>11, <2>12
<1> QED BY <1>3, <1>4, <1>5

(* A stolen branch leads to where it led, or to the copy of that place.     *)
LEMMA Lands ==
    ASSUME Steady, NEW h \in Hook, pc[h] = "committed", seen[h] = None,
           NEW i \in 1 .. Stolen(Source(h)), NEW own, own = Source(h)[i],
           own.kind \in {"jump", "cond"},
           NEW to, to = map_internal_target(Source(h), target[h], slot[h], own.to)
    PROVE  OnPath(to, BehindJumps(own.to))
<1>1. PICK t, s, prog, there : t = target[h] /\ s = slot[h] /\ prog = code[t] /\ there = own.to
    OBVIOUS
<1>2. /\ t \in Targets /\ t \in Nat /\ s \in Nat /\ Source(h) = prog /\ code \in Programs
      /\ IsCode(prog) /\ CodeSize(prog) >= HOOK_LENGTH /\ ~Refused(prog, t, s)
    BY <1>1, SoundCopy DEF Steady
<1>3. PICK n : n = Stolen(prog) /\ n \in 1 .. Len(prog) /\ SourceOffset(prog, n + 1) >= HOOK_LENGTH
    BY <1>2, StolenFacts
<1>4. /\ Len(prog) \in Nat /\ i \in 1 .. Len(prog) /\ i \in 1 .. Stolen(prog)
      /\ own = code[t][i] /\ own = prog[i]
    BY <1>1, <1>2, <1>3, CodeIsSeq
<1>5. there \in Int /\ SourceOffset(prog, n + 1) \in Nat
    <2>1. n + 1 \in 1 .. Len(prog) + 1
        BY <1>3, <1>4
    <2> QED BY <1>1, <1>2, <1>4, <2>1, FunctionFacts
<1>6. CASE ~Inside(prog, t, there) /\ to = there
    <2>1. there \notin (t + 1) .. (t + HOOK_LENGTH - 1)
        <3>1. ~(there >= t /\ there < t + SourceOffset(prog, n + 1))
            BY <1>3, <1>6 DEF Inside, SourceSize
        <3>2. PICK e : e = SourceOffset(prog, n + 1)
            OBVIOUS
        <3>3. e \in Nat /\ HOOK_LENGTH <= e /\ ~(there >= t /\ there < t + e)
            <4>1. e \in Nat /\ e >= HOOK_LENGTH /\ ~(there >= t /\ there < t + e)
                BY <1>3, <1>5, <3>1, <3>2, Zenon
            <4> QED BY <4>1
        <3>4. HOOK_LENGTH = 14 /\ t \in Nat /\ there \in Int
            BY <1>2, <1>5, CodeAssumption
        <3> QED BY <3>3, <3>4
    <2>2. InPlace(there, BehindJumps(there))
        BY <1>1, <1>2, <1>4, <2>1, BranchPlace DEF Branch
    <2> QED BY <1>1, <1>6, <2>2 DEF OnPath
<1>7. CASE \E k \in 1 .. n : there = t + SourceOffset(prog, k) /\ to = s + DestinationOffset(prog, k)
    <2>1. PICK k \in 1 .. n : there = t + SourceOffset(prog, k) /\ to = s + DestinationOffset(prog, k)
        BY <1>7
    <2>2. there = Origin(h, k) /\ to = CopyAt(h, k) /\ k \in 1 .. Stolen(Source(h)) + 1
        <3>1. k \in 1 .. n + 1
            BY <1>3, <1>4
        <3> QED BY <1>1, <1>2, <1>3, <2>1, <3>1 DEF Origin, CopyAt
    <2> QED BY <1>1, <2>2 DEF OnPath, InCopy
<1> QED
    <2>1. to = map_internal_target(prog, t, s, there)
        BY <1>1, <1>2
    <2>2. there = prog[i].to /\ prog[i].kind \in {"rip", "call", "jump", "cond"}
        BY <1>1, <1>4
    <2>3. \/ ~Inside(prog, t, there) /\ map_internal_target(prog, t, s, there) = there
          \/ \E k \in 1 .. Stolen(prog) :
                 /\ there = t + SourceOffset(prog, k)
                 /\ map_internal_target(prog, t, s, there) = s + DestinationOffset(prog, k)
        BY <1>2, <1>4, <2>2, LandingIs
    <2> QED BY <1>3, <1>6, <1>7, <2>1, <2>3

(* What an operand of a copied instruction refers to is what it referred to.*)
LEMMA Refers ==
    ASSUME Steady, NEW h \in Hook, pc[h] = "committed", seen[h] = None,
           NEW i \in 1 .. Stolen(Source(h)), NEW own, own = Source(h)[i],
           own.kind \in {"rip", "call"},
           NEW to, to = map_internal_target(Source(h), target[h], slot[h], own.to)
    PROVE  Means(to, own.to)
<1>1. PICK t, s, prog, there : t = target[h] /\ s = slot[h] /\ prog = Source(h) /\ there = own.to
    OBVIOUS
<1>2. /\ t \in Nat /\ IsCode(prog) /\ ~Refused(prog, t, s) /\ trampoline[h] # {}
    BY <1>1, SoundCopy DEF Steady
<1>3. \/ to = there
      \/ \E k \in 1 .. Stolen(prog) :
             there = t + SourceOffset(prog, k) /\ to = s + DestinationOffset(prog, k)
    <2>1. i \in 1 .. Stolen(prog) /\ there = prog[i].to
          /\ prog[i].kind \in {"rip", "call", "jump", "cond"}
          /\ to = map_internal_target(prog, t, s, there)
        BY <1>1
    <2>2. \/ ~Inside(prog, t, there) /\ map_internal_target(prog, t, s, there) = there
          \/ \E k \in 1 .. Stolen(prog) :
                 /\ there = t + SourceOffset(prog, k)
                 /\ map_internal_target(prog, t, s, there) = s + DestinationOffset(prog, k)
        BY <1>2, <2>1, LandingIs
    <2> QED BY <2>1, <2>2
<1>4. CASE to = there
    BY <1>1, <1>4 DEF Means
<1>5. ASSUME NEW k \in 1 .. Stolen(prog), there = t + SourceOffset(prog, k),
             to = s + DestinationOffset(prog, k)
      PROVE  there \in Origins(to)
    <2>1. h \in {g \in Hook : trampoline[g] # {}}
        BY <1>2
    <2>2. there \in {target[h] + SourceOffset(Decoded(target[h], seen[h]), m) :
                        m \in {j \in 1 .. Stolen(Decoded(target[h], seen[h])) :
                            slot[h] + DestinationOffset(Decoded(target[h], seen[h]), j) = to}}
        BY <1>1, <1>5 DEF Source
    <2> QED BY <2>1, <2>2 DEF Origins
<1> QED BY <1>1, <1>3, <1>4, <1>5 DEF Means

(* A hook calls the copy of what it replaced.                               *)
LEMMA HookLeads ==
    ASSUME Steady, NEW a, NEW b, InHook(a, b)
    PROVE  a \in Hook /\ storage[a] # None /\ OnPath(storage[a], b)
<1>1. PICK h \in Hook : h = a /\ pc[h] = "committed" /\ b = BehindJumps(target[h])
    BY DEF InHook
<1>2. PICK t, s, prog : t = target[h] /\ s = slot[h] /\ prog = Source(h)
    OBVIOUS
<1>3. /\ t \in Nat /\ s \in Nat /\ storage[h] = s /\ IsCode(prog) /\ CodeSize(prog) >= HOOK_LENGTH
    BY <1>1, <1>2, SoundCopy DEF Steady
<1>4. /\ SourceOffset(prog, 1) = 0 /\ DestinationOffset(prog, 1) = 0
      /\ Stolen(prog) \in 1 .. Len(prog) /\ Len(prog) \in Nat
    BY <1>3, CodeIsSeq, CodeIsOrdered, StolenFacts DEF Ordered
<1>5. 1 \in 1 .. Stolen(prog) + 1 /\ s = s + DestinationOffset(prog, 1) /\ t = t + SourceOffset(prog, 1)
    BY <1>3, <1>4
<1>6. s = CopyAt(h, 1) /\ b = BehindJumps(Origin(h, 1)) /\ 1 \in 1 .. Stolen(Source(h)) + 1
    BY <1>1, <1>2, <1>5 DEF CopyAt, Origin
<1>7. OnPath(s, b)
    BY <1>1, <1>6 DEF OnPath, InCopy
<1>8. s # None
    BY <1>3, NamesAssumption
<1> QED BY <1>1, <1>3, <1>7, <1>8

(* The copy of a patch.                                                     *)
LEMMA PatchCopyLeads ==
    ASSUME Steady, NEW h \in Hook, pc[h] = "committed", seen[h] # None, NEW a, a = CopyAt(h, 1),
           NEW b, b = BehindJumps(Origin(h, 1))
    PROVE  Leads(a, b)
<1>1. PICK t, s, g, prog : t = target[h] /\ s = slot[h] /\ g = seen[h] /\ prog = Source(h)
    OBVIOUS
<1>2. /\ t \in Nat /\ s \in Nat /\ g \in Hook /\ IsOn(g, t) /\ expected[h] = g
      /\ prog = Patch(t, g) /\ bytes \in PointerBytes /\ \A i \in DOMAIN bytes : bytes[i].kind = "plain"
      /\ IsCode(prog) /\ trampoline[h] = onion_x64_relocate(prog, t, s)
    BY <1>1, SoundCopy DEF Steady
<1>3. SourceOffset(prog, 1) = 0 /\ DestinationOffset(prog, 1) = 0
    BY <1>2, CodeIsOrdered DEF Ordered
<1>4. a = s /\ Origin(h, 1) = t
    BY <1>1, <1>2, <1>3 DEF CopyAt, Origin
<1>5. OnPath(g, b)
    BY <1>2, <1>4 DEF OnPath, InHook, IsOn
<1>6. expected[h] # None
    BY <1>2, NamesAssumption
<1>7. /\ \A ins \in Fetch(a) : ins.kind = "indirect" /\ ins.to = a + 6
      /\ Loaded(a + 6) \subseteq {g}
    BY <1>1, <1>2, <1>4, <1>6, AtCopy DEF Steady
<1>8. PICK T : T = onion_x64_relocate(prog, t, s)
    OBVIOUS
<1>9. (\E w \in T : w.at = s) /\ \E w \in T : w.at = s + 6 /\ w.ins.kind = "plain" /\ w.ins.op = g
    <2>1. t \in Nat /\ s \in Nat /\ bytes \in PointerBytes
        BY <1>2
    <2>2. \A i \in DOMAIN bytes : bytes[i].kind = "plain"
        BY <1>2
    <2>3. PatchCopied(onion_x64_relocate(Patch(t, g), t, s), s, g)
        BY <2>1, <2>2, CopyOfPatch
    <2> QED BY <1>2, <1>8, <2>3 DEF PatchCopied
<1>10. Fetch(a) # {}
    <2>1. PICK w \in T : w.at = s
        BY <1>9
    <2>2. w \in onion_x64_relocate(Source(h), target[h], slot[h])
        BY <1>1, <1>8
    <2>3. w.ins \in Fetch(w.at)
        BY <2>2, CopyFetched DEF Steady
    <2> QED BY <1>4, <2>1, <2>3
<1>11. g \in Loaded(a + 6)
    <2>1. \E w \in trampoline[h] : w.at = a + 6 /\ w.ins.op = g /\ w.ins.kind = "plain"
        BY <1>2, <1>4, <1>8, <1>9
    <2> QED BY <1>2, <2>1 DEF Loaded
<1>12. Proceeds(a, b)
    BY <1>7, <1>10, <1>11 DEF Proceeds
<1>13. JumpsOn(a, b)
    BY <1>5, <1>7 DEF JumpsOn
<1>14. ExecutesOn(a, b)
    BY <1>7 DEF ExecutesOn, Same
<1>15. a \in Int
    BY <1>2, <1>4
<1> QED BY <1>12, <1>13, <1>14, <1>15 DEF Leads

(* The jump back, behind the last instruction.                              *)
LEMMA BackLeads ==
    ASSUME Steady, NEW h \in Hook, pc[h] = "committed", seen[h] = None,
           NEW i, i = Stolen(Source(h)) + 1, NEW a, a = CopyAt(h, i),
           NEW b, b = BehindJumps(Origin(h, i))
    PROVE  Leads(a, b)
<1>1. PICK t, s, prog : t = target[h] /\ s = slot[h] /\ prog = code[t]
    OBVIOUS
<1>2. /\ t \in Targets /\ t \in Nat /\ s \in Nat /\ Source(h) = prog /\ code \in Programs
      /\ IsCode(prog) /\ CodeSize(prog) >= HOOK_LENGTH
    BY <1>1, SoundCopy DEF Steady
<1>3. PICK n : /\ n = Stolen(prog) /\ n \in 1 .. Len(prog) /\ SourceOffset(prog, n + 1) >= HOOK_LENGTH
               /\ Len(prog) \in Nat
    BY <1>2, StolenFacts, CodeIsSeq
<1>4. PICK x : x = t + SourceOffset(prog, n + 1)
    OBVIOUS
<1>5. OnPath(x, b)
    <2>1. b = BehindJumps(x)
        BY <1>1, <1>2, <1>3, <1>4 DEF Origin
    <2>2. n + 1 \in 1 .. Len(code[t]) + 1
        BY <1>1, <1>3
    <2>3. InPlace(x, BehindJumps(x))
        BY <1>1, <1>2, <1>3, <1>4, <2>2, PlaceIs
    <2> QED BY <2>1, <2>3 DEF OnPath
<1>6. PICK T, w : T = onion_x64_relocate(prog, t, s) /\ w = Jump(a, 14, x)
    OBVIOUS
<1>7. a = s + DestinationOffset(prog, n + 1) /\ x = t + SourceSize(prog)
    BY <1>1, <1>2, <1>3, <1>4 DEF CopyAt, SourceSize
<1>8. w \in T
    BY <1>3, <1>6, <1>7, CopyIsPieces
<1>9. w.at = a /\ w.ins.kind = "jump" /\ w.ins.to = x
    BY <1>6 DEF Jump, At
<1>10. /\ a \in Int /\ w.ins \in Fetch(a)
       /\ \A ins \in Fetch(a) : \E v \in T : v.at = a /\ v.ins = ins
    <2>1. w \in onion_x64_relocate(Source(h), target[h], slot[h])
        BY <1>1, <1>2, <1>6, <1>8
    <2>2. /\ w.at \in Int /\ w.ins \in Fetch(w.at)
          /\ \A ins \in Fetch(w.at) :
                 \E v \in onion_x64_relocate(Source(h), target[h], slot[h]) :
                    v.at = w.at /\ v.ins = ins
        BY <2>1, CopyFetched DEF Steady
    <2> QED BY <1>1, <1>2, <1>6, <1>9, <2>2
<1>11. ASSUME NEW ins \in Fetch(a) PROVE ins.kind = "jump" /\ ins.to = x
    <2>1. PICK v \in T : v.at = a /\ v.ins = ins
        BY <1>10
    <2>2. v = w
        BY <1>2, <1>3, <1>6, <1>7, <2>1, CopyWords
    <2> QED BY <1>9, <2>1, <2>2
<1> QED BY <1>5, <1>10, <1>11, OnlyJumps

(* The copy of an instruction, and what is inside its long form.            *)
LEMMA NextCopy ==
    ASSUME Steady, NEW h \in Hook, pc[h] = "committed", seen[h] = None,
           NEW i \in 1 .. Stolen(Source(h)), NEW own, own = Source(h)[i]
    PROVE  /\ i \in 1 .. Stolen(Source(h)) + 1 /\ i + 1 \in 1 .. Stolen(Source(h)) + 1
           /\ CopyAt(h, i) \in Int /\ own.len \in Nat
           /\ CopyAt(h, i + 1) = CopyAt(h, i) + DestinationSize(own)
           /\ Origin(h, i + 1) = Origin(h, i) + own.len
           /\ AtHome(Origin(h, i)) = {own}
           /\ own.kind = "jump" => BehindJumps(Origin(h, i)) = BehindJumps(own.to)
           /\ own.kind # "jump" => BehindJumps(Origin(h, i)) = Origin(h, i)
<1>1. PICK t, s, prog : t = target[h] /\ s = slot[h] /\ prog = code[t]
    OBVIOUS
<1>2. /\ t \in Targets /\ t \in Nat /\ s \in Nat /\ Source(h) = prog /\ code \in Programs
      /\ IsCode(prog) /\ CodeSize(prog) >= HOOK_LENGTH
    BY <1>1, SoundCopy DEF Steady
<1>3. Stolen(prog) \in 1 .. Len(prog) /\ Len(prog) \in Nat /\ Ordered(prog)
    BY <1>2, StolenFacts, CodeIsSeq, CodeIsOrdered
<1>4. PICK n, l : n = Stolen(prog) /\ l = Len(prog)
    OBVIOUS
<1>5. /\ i \in 1 .. l /\ i \in 1 .. l + 1 /\ i + 1 \in 1 .. l + 1
      /\ i \in 1 .. n + 1 /\ i + 1 \in 1 .. n + 1
    BY <1>2, <1>3, <1>4
<1>6. PICK o, d : o = SourceOffset(prog, i) /\ d = DestinationOffset(prog, i)
    OBVIOUS
<1>7. /\ o \in Nat /\ d \in Nat /\ SourceOffset(prog, i + 1) = o + own.len
      /\ DestinationOffset(prog, i + 1) = d + DestinationSize(own)
    BY <1>2, <1>3, <1>4, <1>5, <1>6 DEF Ordered
<1>8. own.len \in Nat /\ DestinationSize(own) \in Nat
    BY <1>2, <1>4, <1>5, CodeIsSeq
<1>9. /\ CopyAt(h, i) = s + d /\ Origin(h, i) = t + o
      /\ CopyAt(h, i + 1) = s + (d + DestinationSize(own)) /\ Origin(h, i + 1) = t + (o + own.len)
    BY <1>1, <1>2, <1>6, <1>7 DEF CopyAt, Origin
<1>10. /\ CopyAt(h, i) \in Int
       /\ CopyAt(h, i + 1) = CopyAt(h, i) + DestinationSize(own)
       /\ Origin(h, i + 1) = Origin(h, i) + own.len
    BY <1>2, <1>7, <1>8, <1>9
<1>14. /\ i \in 1 .. Len(code[t]) /\ own = code[t][i]
       /\ Origin(h, i) = t + SourceOffset(code[t], i)
    BY <1>1, <1>2, <1>4, <1>5, <1>6, <1>9
<1>11. AtHome(Origin(h, i)) = {own}
    <2>1. AtHome(t + SourceOffset(code[t], i)) = {code[t][i]}
        BY <1>2, <1>14, AtHomeIs
    <2> QED BY <1>14, <2>1, Zenon
<1>12. own.kind = "jump" => BehindJumps(Origin(h, i)) = BehindJumps(own.to)
    BY <1>2, <1>14, BehindOne
<1>13. own.kind # "jump" => BehindJumps(Origin(h, i)) = Origin(h, i)
    BY <1>11, BehindNothing
<1> QED BY <1>2, <1>4, <1>5, <1>8, <1>10, <1>11, <1>12, <1>13

LEMMA InsideLeads ==
    ASSUME Steady, NEW h \in Hook, pc[h] = "committed", seen[h] = None,
           NEW i \in 1 .. Stolen(Source(h)), NEW own, own = Source(h)[i], NEW a, NEW b,
           \/ own.kind = "call" /\ a = CopyAt(h, i) + 6 /\ b = BehindJumps(Origin(h, i + 1))
           \/ own.kind = "cond" /\ a = CopyAt(h, i) + 2 /\ b = BehindJumps(own.to)
    PROVE  Leads(a, b)
<1>1. PICK t, s, prog : t = target[h] /\ s = slot[h] /\ prog = code[t]
    OBVIOUS
<1>2. Source(h) = prog
    BY <1>1, SoundCopy DEF Steady
<1>3. PICK c, to : /\ c = s + DestinationOffset(prog, i)
                   /\ to = map_internal_target(prog, t, s, own.to)
    OBVIOUS
<1>4. c = CopyAt(h, i)
    BY <1>1, <1>2, <1>3 DEF CopyAt
<1>5. /\ c \in Int
      /\ own.kind = "call" =>
             /\ Fetch(c + 6) # {}
             /\ \A ins \in Fetch(c + 6) : ins.kind = "jump" /\ ins.to = c + 16
      /\ own.kind = "cond" =>
             /\ Fetch(c + 2) # {}
             /\ \A ins \in Fetch(c + 2) : ins.kind = "jump" /\ ins.to = to
    <2>1. CopyRead(slot[h] + DestinationOffset(Source(h), i), Source(h)[i],
                   map_internal_target(Source(h), target[h], slot[h], Source(h)[i].to))
        BY CopyFetch DEF Steady
    <2>2. CopyRead(c, own, to)
        BY <1>1, <1>2, <1>3, <2>1
    <2> QED BY <2>2 DEF CopyRead
<1>6. CASE own.kind = "call" /\ a = c + 6 /\ b = BehindJumps(Origin(h, i + 1))
    <2>1. OnPath(c + 16, b)
        <3>1. i + 1 \in 1 .. Stolen(Source(h)) + 1 /\ CopyAt(h, i + 1) = c + 16
            BY <1>4, <1>6, NextCopy DEF DestinationSize, kAbsoluteCallSize
        <3> QED BY <1>6, <3>1 DEF OnPath, InCopy
    <2> QED BY <1>5, <1>6, <2>1, OnlyJumps
<1>7. CASE own.kind = "cond" /\ a = c + 2 /\ b = BehindJumps(own.to)
    <2>1. OnPath(to, b)
        BY <1>1, <1>2, <1>3, <1>7, Lands
    <2> QED BY <1>5, <1>7, <2>1, OnlyJumps
<1> QED BY <1>4, <1>6, <1>7

LEMMA CopyLeads ==
    ASSUME Steady, NEW h \in Hook, pc[h] = "committed", seen[h] = None,
           NEW i \in 1 .. Stolen(Source(h)), NEW a, a = CopyAt(h, i),
           NEW b, b = BehindJumps(Origin(h, i))
    PROVE  Leads(a, b)
<1>1. PICK t, s, prog : t = target[h] /\ s = slot[h] /\ prog = code[t]
    OBVIOUS
<1>2. Source(h) = prog
    BY <1>1, SoundCopy DEF Steady
<1>3. PICK own, at : own = prog[i] /\ at = Origin(h, i)
    OBVIOUS
<1>4. PICK to : to = map_internal_target(prog, t, s, own.to)
    OBVIOUS
<1>5. a = s + DestinationOffset(prog, i)
    BY <1>1, <1>2 DEF CopyAt
<1>6. /\ a \in Int /\ Fetch(a) # {}
      /\ own.kind \notin {"relative", "undecodable", "indirect"}
      /\ \A ins \in Fetch(a) :
                 /\ own.kind = "jump" => ins.kind = "jump" /\ ins.to = to
                 /\ own.kind # "jump" => ins.kind = own.kind /\ ins.op = own.op
                 /\ own.kind = "call" => ins.to = to /\ ins.len = 6
                 /\ own.kind = "cond" => ins.neg = TRUE /\ ins.to = a + 16 /\ ins.len = 2
                 /\ own.kind = "rip" => ins.to = to /\ ins.len = own.len
                 /\ own.kind \notin {"jump", "call", "cond", "rip"} => ins = own
    <2>1. CopyRead(slot[h] + DestinationOffset(Source(h), i), Source(h)[i],
                   map_internal_target(Source(h), target[h], slot[h], Source(h)[i].to))
        BY CopyFetch DEF Steady
    <2>2. CopyRead(a, own, to)
        BY <1>1, <1>2, <1>3, <1>4, <1>5, <2>1
    <2> QED BY <2>2 DEF CopyRead
<1>7. /\ i + 1 \in 1 .. Stolen(Source(h)) + 1
      /\ CopyAt(h, i + 1) = a + DestinationSize(own) /\ Origin(h, i + 1) = at + own.len
      /\ AtHome(at) = {own}
      /\ own.kind = "jump" => b = BehindJumps(own.to)
      /\ own.kind # "jump" => b = at
    BY <1>2, <1>3, NextCopy
<1>8. OnPath(a + DestinationSize(own), BehindJumps(at + own.len))
    BY <1>7 DEF OnPath, InCopy
<1>9. CASE own.kind = "jump"
    <2>1. OnPath(to, b)
        BY <1>1, <1>2, <1>3, <1>4, <1>7, <1>9, Lands
    <2> QED BY <1>6, <1>9, <2>1, OnlyJumps
<1>10. CASE own.kind # "jump"
    <2>1. Proceeds(a, b)
        <3>1. PICK ins \in Fetch(a) : TRUE
            BY <1>6
        <3>2. ins.kind \in {"rip", "call"} => Means(ins.to, own.to)
            BY <1>1, <1>2, <1>3, <1>4, <1>6, <1>10, Refers
        <3>3. Same(ins, own)
            BY <1>6, <1>10, <3>2 DEF Same
        <3>4. own \in AtHome(b)
            BY <1>7, <1>10
        <3> QED BY <3>3, <3>4 DEF Proceeds
    <2>2. JumpsOn(a, b)
        BY <1>6, <1>10 DEF JumpsOn
    <2>3. ASSUME NEW ins \in Fetch(a), ins.kind \in {"plain", "rip", "call"}
          PROVE  OnPath(a + ins.len, BehindJumps(b + own.len))
        <3>1. CASE own.kind = "call"
            <4>1. OnPath(a + 6, BehindJumps(at + own.len))
                BY <1>2, <1>3, <1>7, <3>1 DEF OnPath, BehindCall
            <4> QED BY <1>6, <1>7, <3>1, <4>1
        <3>2. CASE own.kind # "call"
            <4>1. ins.len = DestinationSize(own)
                BY <1>6, <1>10, <2>3, <3>2 DEF DestinationSize
            <4> QED BY <1>7, <1>8, <1>10, <4>1
        <3> QED BY <3>1, <3>2
    <2>4. ASSUME NEW ins \in Fetch(a), ins.kind \in {"cond", "relative"}, NEW holds \in BOOLEAN
          PROVE  OnPath(IF holds # ins.neg THEN ins.to ELSE a + ins.len,
                        BehindJumps(IF holds THEN own.to ELSE b + own.len))
        <3>1. own.kind = "cond" /\ ins.to = a + 16 /\ ins.len = 2
            BY <1>6, <1>10, <2>4
        <3>2. ins.neg = TRUE
            BY <1>6, <3>1
        <3>3. OnPath(a + 16, BehindJumps(b + own.len))
            BY <1>7, <1>8, <1>10, <3>1 DEF DestinationSize, kConditionalJumpSize
        <3>4. OnPath(a + 2, BehindJumps(own.to))
            BY <1>2, <1>3, <3>1 DEF OnPath, Taken
        <3>5. (holds # ins.neg) <=> ~holds
            BY <3>2, Zenon
        <3> QED BY <3>1, <3>3, <3>4, <3>5, Zenon
    <2>5. ExecutesOn(a, b)
        BY <1>7, <1>10, <2>3, <2>4 DEF ExecutesOn
    <2> QED BY <1>6, <2>1, <2>2, <2>5 DEF Leads
<1> QED BY <1>9, <1>10

(* Every place on the path leads on.                                        *)
LEMMA PathLeads ==
    ASSUME Steady, NEW a, NEW b, OnPath(a, b) PROVE InHook(a, b) \/ Leads(a, b)
<1>1. CASE InPlace(a, b)
    BY <1>1, PlaceLeads
<1>2. CASE InCopy(a, b)
    <2>1. PICK h \in Hook : \E i \in 1 .. Stolen(Source(h)) + 1 :
              /\ pc[h] = "committed" /\ (seen[h] # None => i = 1)
              /\ a = CopyAt(h, i) /\ b = BehindJumps(Origin(h, i))
        BY <1>2 DEF InCopy
    <2>2. PICK i \in 1 .. Stolen(Source(h)) + 1 :
              /\ pc[h] = "committed" /\ (seen[h] # None => i = 1)
              /\ a = CopyAt(h, i) /\ b = BehindJumps(Origin(h, i))
        BY <2>1
    <2>3. CASE seen[h] # None
        BY <2>2, <2>3, PatchCopyLeads
    <2>4. CASE seen[h] = None /\ i = Stolen(Source(h)) + 1
        BY <2>2, <2>4, BackLeads
    <2>5. CASE seen[h] = None /\ i # Stolen(Source(h)) + 1
        <3>1. IsCode(Source(h)) /\ CodeSize(Source(h)) >= HOOK_LENGTH
            BY <2>2, SoundCopy DEF Steady
        <3>2. Stolen(Source(h)) \in Int
            BY <3>1, StolenFacts
        <3>3. i \in 1 .. Stolen(Source(h))
            BY <2>5, <3>2
        <3> QED BY <2>2, <2>5, <3>3, CopyLeads
    <2> QED BY <2>3, <2>4, <2>5
<1>3. CASE BehindCall(a, b)
    <2>1. PICK h \in Hook : \E i \in 1 .. Stolen(Source(h)) :
              /\ pc[h] = "committed" /\ seen[h] = None /\ Source(h)[i].kind = "call"
              /\ a = CopyAt(h, i) + 6 /\ b = BehindJumps(Origin(h, i + 1))
        BY <1>3 DEF BehindCall
    <2> QED BY <2>1, InsideLeads
<1>4. CASE Taken(a, b)
    <2>1. PICK h \in Hook : \E i \in 1 .. Stolen(Source(h)) :
              /\ pc[h] = "committed" /\ seen[h] = None /\ Source(h)[i].kind = "cond"
              /\ a = CopyAt(h, i) + 2 /\ b = BehindJumps(Source(h)[i].to)
        BY <1>4 DEF Taken
    <2> QED BY <2>1, InsideLeads
<1> QED BY <1>1, <1>2, <1>3, <1>4 DEF OnPath

LEMMA NoHookIsAddress == \A a \in Int : a \notin Hook /\ a # None
BY NamesAssumption

LEMMA PathIsOnCourse ==
    ASSUME Steady, OnPath(cpu, home) PROVE OnCourse
<1>1. CASE InHook(cpu, home)
    BY <1>1, HookLeads DEF OnCourse
<1>2. CASE Leads(cpu, home)
    <2>1. cpu \notin Hook
        BY <1>2, NoHookIsAddress DEF Leads
    <2> QED BY <1>2, <2>1 DEF Leads, Proceeds, OnCourse, AtEnd
<1> QED BY <1>1, <1>2, PathLeads

(* The thread's step.                                                       *)
LEMMA ThreadPath ==
    ASSUME Steady, cpu = None \/ OnPath(cpu, home), back = None \/ OnPath(back, home), ThreadStep
    PROVE  (cpu' = None \/ OnPath(cpu', home')) /\ (back' = None \/ OnPath(back', home'))
<1>1. ASSUME NEW x, NEW y, Thread(x, y, None) PROVE cpu' = x /\ home' = y /\ back' = None
    BY <1>1 DEF Thread
<1>2. CASE \E t \in Called : Call(t)
    <2>1. PICK t \in Called : cpu' = t /\ home' = BehindJumps(t) /\ back' = None
        BY <1>2 DEF Call
    <2>2. t \in Targets /\ code \in Programs
        BY DetourAssumption DEF Steady, InstallInv, InstallTypeOK
    <2>3. t \in Nat /\ SourceOffset(code[t], 1) = 0 /\ 1 \in 1 .. Len(code[t]) + 1
        <3>1. t \in Nat /\ SourceOffset(code[t], 1) = 0 /\ Len(code[t]) \in Nat
            BY <2>2, FunctionFacts
        <3>2. 1 \in 1 .. Len(code[t]) + 1
            BY <3>1
        <3> QED BY <3>1, <3>2
    <2>4. t = t + SourceOffset(code[t], 1)
        BY <2>3
    <2>5. InPlace(t, BehindJumps(t))
        BY <2>2, <2>3, <2>4, PlaceIs
    <2> QED BY <2>1, <2>5 DEF OnPath
<1>3. CASE Hooked
    <2>1. PICK h \in Hook : h = cpu /\ Thread(storage[h], home, None)
        BY <1>3 DEF Hooked
    <2>2. OnPath(cpu, home)
        BY <2>1, NamesAssumption
    <2>3. InHook(cpu, home)
        <3>1. ~Leads(cpu, home)
            BY <2>1, NoHookIsAddress DEF Leads
        <3> QED BY <2>2, <3>1, PathLeads
    <2>4. OnPath(storage[cpu], home)
        BY <2>3, HookLeads
    <2> QED BY <1>1, <2>1, <2>4
<1>4. CASE cpu \notin Hook \cup {None} /\ (Jumps \/ Executes \/ Leaves)
    <2>1. Leads(cpu, home)
        BY <1>4, PathLeads DEF InHook
    <2>2. CASE Jumps
        <3>1. PICK ins \in Fetch(cpu) :
                  \/ ins.kind = "jump" /\ Thread(ins.to, home, None)
                  \/ ins.kind = "indirect" /\ \E h \in Loaded(ins.to) : Thread(h, home, None)
            BY <2>2 DEF Jumps
        <3>2. CASE ins.kind = "jump" /\ Thread(ins.to, home, None)
            BY <1>1, <2>1, <3>2 DEF Leads, JumpsOn
        <3>3. CASE ins.kind = "indirect" /\ \E h \in Loaded(ins.to) : Thread(h, home, None)
            <4>1. PICK h \in Loaded(ins.to) : Thread(h, home, None)
                BY <3>3
            <4> QED BY <1>1, <2>1, <3>3, <4>1 DEF Leads, JumpsOn
        <3> QED BY <3>1, <3>2, <3>3
    <2>3. CASE Executes
        <3>1. PICK ins \in Fetch(cpu), own \in AtHome(home) :
                  /\ Same(ins, own)
                  /\ \/ ins.kind \in {"plain", "rip"}
                        /\ Thread(cpu + ins.len, BehindJumps(home + own.len), None)
                     \/ ins.kind = "call"
                        /\ Thread(None, BehindJumps(home + own.len), cpu + ins.len)
                     \/ ins.kind = "return" /\ Thread(None, None, None)
                     \/ /\ ins.kind \in {"cond", "relative"}
                        /\ \E holds \in BOOLEAN :
                              Thread(IF holds # ins.neg THEN ins.to ELSE cpu + ins.len,
                                     BehindJumps(IF holds THEN own.to ELSE home + own.len), None)
            BY <2>3 DEF Executes
        <3>2. CASE ins.kind \in {"plain", "rip"}
                   /\ Thread(cpu + ins.len, BehindJumps(home + own.len), None)
            BY <1>1, <2>1, <3>1, <3>2 DEF Leads, ExecutesOn
        <3>5. CASE ins.kind = "call"
                   /\ Thread(None, BehindJumps(home + own.len), cpu + ins.len)
            <4>1. cpu' = None /\ home' = BehindJumps(home + own.len) /\ back' = cpu + ins.len
                BY <3>5 DEF Thread
            <4> QED BY <2>1, <3>1, <3>5, <4>1 DEF Leads, ExecutesOn
        <3>3. CASE ins.kind = "return" /\ Thread(None, None, None)
            BY <1>1, <3>3
        <3>4. CASE /\ ins.kind \in {"cond", "relative"}
                   /\ \E holds \in BOOLEAN :
                         Thread(IF holds # ins.neg THEN ins.to ELSE cpu + ins.len,
                                BehindJumps(IF holds THEN own.to ELSE home + own.len), None)
            <4>1. PICK holds \in BOOLEAN :
                      Thread(IF holds # ins.neg THEN ins.to ELSE cpu + ins.len,
                             BehindJumps(IF holds THEN own.to ELSE home + own.len), None)
                BY <3>4, Zenon
            <4>2. PICK x, y : /\ x = (IF holds # ins.neg THEN ins.to ELSE cpu + ins.len)
                              /\ y = BehindJumps(IF holds THEN own.to ELSE home + own.len)
                OBVIOUS
            <4>3. OnPath(x, y)
                BY <2>1, <3>1, <3>4, <4>2, Zenon DEF Leads, ExecutesOn
            <4>4. Thread(x, y, None)
                BY <4>1, <4>2, Zenon
            <4>5. cpu' = x /\ home' = y /\ back' = None
                BY <1>1, <4>4
            <4> QED BY <4>3, <4>5
        <3> QED BY <3>1, <3>2, <3>3, <3>4, <3>5
    <2>4. CASE Leaves
        BY <1>1, <2>4 DEF Leaves
    <2> QED BY <1>4, <2>2, <2>3, <2>4
<1>5. CASE Returns
    <2>1. Thread(back, home, None) /\ OnPath(back, home)
        BY <1>5 DEF Returns
    <2> QED BY <1>1, <2>1
<1> QED BY <1>2, <1>3, <1>4, <1>5 DEF ThreadStep

(* What a thread's step leaves as it is of what the path is made of.        *)
LEMMA PathKept ==
    ASSUME UNCHANGED Installed
    PROVE  /\ \A a, b : OnPath(a, b)' <=> OnPath(a, b)
           /\ Intact' <=> Intact
           /\ Marked' <=> Marked
           /\ Sound' <=> Sound
<1>1. UNCHANGED <<code, bytes, head, slot, trampoline, target, pc, seen, expected, spoilt>>
    BY DEF Installed, installVars
<1>2. \A t, x : Decoded(t, x)' = Decoded(t, x)
    BY <1>1 DEF Decoded, Patch
<1>3. \A k : Source(k)' = Source(k)
    BY <1>1, <1>2 DEF Source
<1>4. \A k, i : CopyAt(k, i)' = CopyAt(k, i) /\ Origin(k, i)' = Origin(k, i)
    BY <1>1, <1>3 DEF CopyAt, Origin
<1>5. \A a : BehindJumps(a)' = BehindJumps(a)
    BY <1>1 DEF BehindJumps, AtHome, InFunction
<1>6. ASSUME NEW a, NEW b PROVE OnPath(a, b)' <=> OnPath(a, b)
    <2>1. InPlace(a, b)' <=> InPlace(a, b)
        BY <1>1, <1>5 DEF InPlace
    <2>2. InHook(a, b)' <=> InHook(a, b)
        BY <1>1, <1>5 DEF InHook
    <2>3. InCopy(a, b)' <=> InCopy(a, b)
        BY <1>1, <1>3, <1>4, <1>5 DEF InCopy
    <2>4. BehindCall(a, b)' <=> BehindCall(a, b)
        BY <1>1, <1>3, <1>4, <1>5 DEF BehindCall
    <2>5. Taken(a, b)' <=> Taken(a, b)
        BY <1>1, <1>3, <1>4, <1>5 DEF Taken
    <2> QED BY <2>1, <2>2, <2>3, <2>4, <2>5 DEF OnPath
<1>7. Intact' <=> Intact
    BY <1>1, <1>3 DEF Intact
<1>8. Marked' <=> Marked
    BY <1>1 DEF Marked, JumpsBack
<1>9. Sound' <=> Sound
    BY <1>1 DEF Sound
<1> QED BY <1>6, <1>7, <1>8, <1>9

LEMMA CourseNextInv ==
    ArenaInv /\ HookInv /\ CourseInv /\ [DetourNext]_detourVars => CourseInv'
<1> SUFFICES ASSUME ArenaInv, HookInv, CourseInv, [DetourNext]_detourVars PROVE CourseInv'
    OBVIOUS
<1>1. InstallInv /\ Intact /\ Marked /\ Path
    BY DEF HookInv, InstallInv, CourseInv
<1>2. CASE \E h \in Hook : Installs(h)
    BY <1>1, <1>2, IntactStep, MarkedStep, PathStep DEF CourseInv
<1>3. CASE ThreadStep
    <2>1. UNCHANGED Installed
        BY <1>3 DEF ThreadStep, Call, Hooked, Returns, Jumps, Executes, Leaves, Thread, Installed
    <2>2. Path'
        <3> SUFFICES ASSUME Sound'
                     PROVE (cpu = None \/ OnPath(cpu, home))' /\ (back = None \/ OnPath(back, home))'
            BY DEF Path
        <3>1. Steady /\ (cpu = None \/ OnPath(cpu, home)) /\ (back = None \/ OnPath(back, home))
            BY <1>1, <2>1, PathKept DEF Steady, Path
        <3>2. (cpu' = None \/ OnPath(cpu', home')) /\ (back' = None \/ OnPath(back', home'))
            BY <1>3, <3>1, ThreadPath
        <3> QED BY <2>1, <3>2, PathKept
    <2> QED BY <1>1, <2>1, <2>2, PathKept DEF CourseInv
<1>4. CASE UNCHANGED detourVars
    <2>1. UNCHANGED Installed /\ UNCHANGED <<cpu, back, home>>
        BY <1>4 DEF detourVars, Installed, threadVars
    <2>2. Path'
        BY <1>1, <2>1, PathKept DEF Path
    <2> QED BY <1>1, <2>1, <2>2, PathKept DEF CourseInv
<1> QED BY <1>2, <1>3, <1>4 DEF DetourNext

(* A thread never strays, whatever the functions, the hooks and the order   *)
(* in which InstallDetour() puts them there: through patch, hooks and       *)
(* trampolines it does what the function without hooks would do, unless one *)
(* of the five things happened that the code does not watch for.            *)
THEOREM FramesAlwaysRunOriginal == DetourSpec => []FramesRunOriginal
<1>1. DetourInit => ArenaInv /\ HookInv /\ CourseInv
    <2>1. DetourInit => Intact /\ Marked /\ Path
        BY DEF DetourInit, Intact, Marked, Path
    <2> QED BY <2>1, HookInit, ArenaInitInv DEF DetourInit, CourseInv
<1>2. ArenaInv /\ HookInv /\ CourseInv /\ [DetourNext]_detourVars
          => ArenaInv' /\ HookInv' /\ CourseInv'
    BY CourseNextInv, HookNextInv, ArenaNextInv, DetourNextIsArenaNext
<1>3. ArenaInv /\ HookInv /\ CourseInv => FramesRunOriginal
    <2> SUFFICES ASSUME ArenaInv, HookInv, CourseInv, Sound, cpu # None PROVE OnCourse
        BY DEF FramesRunOriginal
    <2>1. Steady /\ OnPath(cpu, home)
        BY DEF HookInv, InstallInv, CourseInv, Path, Steady
    <2> QED BY <2>1, PathIsOnCourse
<1> QED BY <1>1, <1>2, <1>3, PTL DEF DetourSpec

=============================================================================
