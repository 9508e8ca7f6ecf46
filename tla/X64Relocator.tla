------------------------------ MODULE X64Relocator ------------------------------
(***************************************************************************)
(* onion_x64_relocate() of payload/detour/x64_relocator.cpp: the first     *)
(* instructions of a function, whole ones until they cover HOOK_LENGTH     *)
(* bytes, are copied to a trampoline so that they mean there what they     *)
(* meant at home, and a jump back follows.                                 *)
(*                                                                         *)
(* An instruction is [op, kind, neg, len, to]: op names it (a conditional  *)
(* jump's op names the condition, neg its negation), to is the absolute    *)
(* address it refers to or branches to.  Kinds: "plain"; "return"; "rip",  *)
(* an operand relative to the instruction pointer; "call", "jump", "cond", *)
(* relative branches with a longer form; "relative", one without (loop,    *)
(* jrcxz); "undecodable"; and "indirect", the jump through the eight bytes *)
(* behind it that an earlier hook put there.                               *)
(***************************************************************************)
EXTENDS Integers, Sequences

CONSTANTS
    HOOK_LENGTH,    \* 14
    ONION_X64_TRAMPOLINE_CAPACITY,
    Rel32           \* largest displacement of an operand

kAbsoluteJumpSize == 14
kAbsoluteCallSize == 16
kConditionalJumpSize == 16

(* Offset of the i-th instruction; of the first byte behind n of them.      *)
SourceOffset(code, i) ==
    LET Sum[k \in 0 .. i - 1] == IF k = 0 THEN 0 ELSE Sum[k - 1] + code[k].len
    IN  Sum[i - 1]

(* A faulty layout: the long form of a call is counted as the one of a jump.*)
DestinationSize_ShortCall(ins) ==
    CASE ins.kind \in {"call", "jump"} -> kAbsoluteJumpSize
      [] ins.kind = "cond" -> kConditionalJumpSize
      [] OTHER -> ins.len

DestinationSize(ins) ==
    CASE ins.kind = "call" -> kAbsoluteCallSize
      [] ins.kind = "jump" -> kAbsoluteJumpSize
      [] ins.kind = "cond" -> kConditionalJumpSize
      [] OTHER -> ins.len

DestinationOffset(code, i) ==
    LET Sum[k \in 0 .. i - 1] == IF k = 0 THEN 0 ELSE Sum[k - 1] + DestinationSize(code[k])
    IN  Sum[i - 1]

(* The instructions that are stolen.                                        *)
Stolen(code) ==
    CHOOSE n \in DOMAIN code :
        /\ SourceOffset(code, n + 1) >= HOOK_LENGTH
        /\ \A k \in 1 .. n : SourceOffset(code, k) < HOOK_LENGTH
SourceSize(code) == SourceOffset(code, Stolen(code) + 1)

Inside(code, src, to) == to >= src /\ to < src + SourceSize(code)
BoundaryAt(code, src, to) ==
    {i \in 1 .. Stolen(code) : src + SourceOffset(code, i) = to}

(* A faulty mapping: a branch into the stolen code keeps its target.        *)
map_internal_target_Kept(code, src, dst, to) == to

map_internal_target(code, src, dst, to) ==
    IF ~Inside(code, src, to) THEN to
    ELSE dst + DestinationOffset(code, CHOOSE i \in BoundaryAt(code, src, to) : TRUE)

(* Bytes of the trampoline, with the jump back.                             *)
TrampolineSize(code) == DestinationOffset(code, Stolen(code) + 1) + kAbsoluteJumpSize

(* The errors of the first pass (decoding, a relative branch without a long *)
(* form, too little room) and of the second (a target between two           *)
(* instructions, an operand out of reach).                                  *)
Refused(code, src, dst) ==
    \/ TrampolineSize(code) > ONION_X64_TRAMPOLINE_CAPACITY
    \/ \E i \in 1 .. Stolen(code) :
           LET ins == code[i]
               next == dst + DestinationOffset(code, i) + ins.len
           IN  \/ ins.kind \in {"undecodable", "relative"}
               \/ /\ ins.kind \in {"rip", "indirect", "call", "jump", "cond"}
                  /\ Inside(code, src, ins.to) /\ BoundaryAt(code, src, ins.to) = {}
               \/ /\ ins.kind \in {"rip", "indirect"}
                  /\ LET to == map_internal_target(code, src, dst, ins.to)
                     IN  to - next > Rel32 \/ next - to > Rel32

At(address, ins) == [at |-> address, ins |-> ins]
Jump(address, len, to) == At(address, [op |-> "jump", kind |-> "jump", neg |-> FALSE, len |-> len, to |-> to])

(* What is written for the i-th instruction: a call through the address     *)
(* behind it, and a jump over that address; a conditional jump with the     *)
(* opposite condition over an absolute one.                                 *)
Written(code, src, dst, i) ==
    LET ins == code[i]
        a == dst + DestinationOffset(code, i)
        to == map_internal_target(code, src, dst, ins.to)
    IN  CASE ins.kind = "call" ->
                {At(a, [ins EXCEPT !.to = to, !.len = 6]), Jump(a + 6, 2, a + 16)}
          [] ins.kind = "jump" -> {Jump(a, 14, to)}
          [] ins.kind = "cond" ->
                {At(a, [ins EXCEPT !.to = a + 2 + kAbsoluteJumpSize, !.len = 2, !.neg = ~@]),
                 Jump(a + 2, 14, to)}
          [] ins.kind \in {"rip", "indirect"} -> {At(a, [ins EXCEPT !.to = to])}
          [] OTHER -> {At(a, ins)}

onion_x64_relocate(code, src, dst) ==
    LET n == Stolen(code)
    IN  (UNION {Written(code, src, dst, i) : i \in 1 .. n})
        \cup {Jump(dst + DestinationOffset(code, n + 1), 14, src + SourceSize(code))}
=============================================================================
