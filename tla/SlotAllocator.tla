----------------------------- MODULE SlotAllocator -----------------------------
(***************************************************************************)
(* What payload/detour/trampoline_arena.hpp promises: "gives each          *)
(* trampoline a unique slot", "within signed-32-bit reach of target", and  *)
(* "never unmaps an individual slot".                                      *)
(***************************************************************************)
EXTENDS Integers

CONSTANTS Targets, Reach

VARIABLE slots      \* the slots handed out: half-open intervals, and the target of each

Near(a, b) == a - b <= Reach /\ b - a <= Reach
Disjoint(s, t) == s.end <= t.begin \/ t.end <= s.begin

Init == slots = {}

HandOut(s) ==
    /\ s \in [begin : Nat, end : Nat, target : Targets] /\ s.begin < s.end
    /\ \A t \in slots : Disjoint(s, t)
    /\ Near(s.begin, s.target) /\ Near(s.end - 1, s.target)
    /\ slots' = slots \cup {s}

Next == \E s \in slots' : HandOut(s)

Spec == Init /\ [][Next]_slots
=============================================================================
