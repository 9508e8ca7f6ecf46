-------------------------------- MODULE Detour --------------------------------
(***************************************************************************)
(* InstallDetour() of payload/detour/detour.cpp: a jump is put over the    *)
(* first bytes of a function another thread keeps calling, in one          *)
(* compare-and-exchange, after the instructions it covers were copied to a *)
(* trampoline through which the hook calls the original.  One process per  *)
(* hook installs it; the thread executes instruction by instruction what   *)
(* is in memory, beside the program as it was before any hook.             *)
(***************************************************************************)
EXTENDS X64Relocator, TrampolineArena

CONSTANTS
    Hook,           \* hooks, each installed by a call of its own
    Programs,       \* what the functions may be: [Targets -> instructions]
    Called,         \* the functions the thread calls
    PointerBytes,   \* what the decoder may make of the bytes of a hook's address
    None

ASSUME DetourAssumption == Called \subseteq Targets /\ ONION_X64_TRAMPOLINE_CAPACITY \in Lengths

(* A function is whole instructions, as long as the patch where one can be  *)
(* put; the address in a patch is eight bytes.                              *)
Instruction(ins) ==
    /\ ins = [op |-> ins.op, kind |-> ins.kind, neg |-> ins.neg, len |-> ins.len, to |-> ins.to]
    /\ ins.neg \in BOOLEAN /\ ins.len \in Nat \ {0} /\ ins.to \in Int
IsCode(c) ==
    c # << >> /\ c \in Seq({c[i] : i \in DOMAIN c}) /\ \A i \in DOMAIN c : Instruction(c[i])
CodeSize(c) == SourceOffset(c, Len(c) + 1)

ASSUME CodeAssumption ==
    /\ \A p \in Programs : \A t \in Targets :
          IsCode(p[t]) /\ (t % 16 = 0 => CodeSize(p[t]) >= HOOK_LENGTH)
    /\ \A b \in PointerBytes : IsCode(b) /\ CodeSize(b) >= 8
    /\ HOOK_LENGTH = 14 /\ ONION_X64_TRAMPOLINE_CAPACITY >= HOOK_LENGTH

(* Functions are apart.  A branch's op names its condition; the indirect    *)
(* jump is a patch's alone.  No function branches into the instructions     *)
(* another one begins with, and no more than three jumps follow each other, *)
(* which is what BehindJumps() looks through.                               *)
Branch == {"jump", "cond", "relative"}
JumpsOf(p) ==
    UNION {{[from |-> t + SourceOffset(p[t], i), to |-> p[t][i].to] :
               i \in {k \in DOMAIN p[t] : p[t][k].kind = "jump"}} : t \in Targets}

ASSUME FunctionAssumption ==
    \A p \in Programs :
        /\ \A t \in Targets : \A i \in DOMAIN p[t] :
              /\ p[t][i].neg = FALSE /\ p[t][i].kind # "indirect"
              /\ p[t][i].kind \in Branch =>
                    \A u \in Targets : u # t /\ u % 16 = 0 =>
                        p[t][i].to \notin (u + 1) .. (u + HOOK_LENGTH - 1)
        /\ \A t, u \in Targets : t < u => t + CodeSize(p[t]) <= u
        /\ ~\E j, k, m, n \in JumpsOf(p) : j.to = k.from /\ k.to = m.from /\ m.to = n.from

(* Memory that mmap() returns is free: it holds no function, no patch of    *)
(* one, and nothing a function branches to or ends at.                      *)
Elsewhere(a) == \A base \in MapBases : a < base \/ a >= base + MappingLength

ASSUME MemoryAssumption ==
    \A p \in Programs : \A t \in Targets :
        /\ \A a \in t .. t + HOOK_LENGTH - 1 : Elsewhere(a)
        /\ \A a \in t .. t + CodeSize(p[t]) : Elsewhere(a)
        /\ \A i \in DOMAIN p[t] : p[t][i].kind \in Branch => Elsewhere(p[t][i].to)

ASSUME NamesAssumption ==
    None \notin Hook \cup Int /\ \A h \in Hook : h \notin Int

VARIABLES
    code,       \* the functions as they were
    bytes,      \* what the address of a hook decodes to
    head,       \* the hook whose address the patched head of a function holds, or None
    slot,       \* executableAddress of each call
    trampoline, \* the code in each slot
    target,     \* address
    pc,         \* where each call of InstallDetour() is
    seen,       \* head when the relocator decoded the function
    expected,   \* head in patch.expected
    storage,    \* *original_storage of each hook, or None
    cpu,        \* the thread: the address it executes, a hook it is in, or None
    back,       \* where a call it has made returns to, or None
    home,       \* where the unhooked function would be
    due, ran,   \* hooks on the function when it was called; those that ran
    spoilt      \* for each function, what InstallDetour() does not watch for and happened

installVars == <<slot, trampoline, target, pc, seen, expected, storage>>
threadVars == <<cpu, back, home, due, ran>>
detourVars == <<arenaVars, code, bytes, head, installVars, threadVars, spoilt>>

DetourInit ==
    /\ ArenaInit
    /\ code \in Programs /\ bytes \in PointerBytes
    /\ head = [t \in Targets |-> None]
    /\ slot = [h \in Hook |-> 0]
    /\ trampoline = [h \in Hook |-> {}]
    /\ target = [h \in Hook |-> 0]
    /\ pc = [h \in Hook |-> "idle"]
    /\ seen = [h \in Hook |-> None] /\ expected = [h \in Hook |-> None]
    /\ storage = [h \in Hook |-> None]
    /\ cpu = None /\ back = None /\ home = None /\ due = {} /\ ran = {}
    /\ spoilt = [t \in Targets |-> {}]
-----------------------------------------------------------------------------
(* What the decoder reads at a function: its own instructions, or the patch *)
(* with a hook's address in it.                                             *)
Patch(t, h) ==
    <<[op |-> "hook", kind |-> "indirect", neg |-> FALSE, len |-> 6, to |-> t + 6]>>
    \o [i \in DOMAIN bytes |-> [bytes[i] EXCEPT !.op = h]]
Decoded(t, h) == IF h = None THEN code[t] ELSE Patch(t, h)

Goto(h, label) == pc' = [pc EXCEPT ![h] = label]
OnlyPc(h, label) ==
    /\ Goto(h, label)
    /\ UNCHANGED <<arenaVars, code, bytes, head, slot, trampoline, target, seen, expected,
                   storage, threadVars, spoilt>>

(* PrepareDetour(): an address off the 16-byte grid, no slot, a slot the    *)
(* arena does not own ...                                                   *)
Allocate(h, t) ==
    /\ pc[h] = "idle"
    /\ t % 16 = 0
    /\ \E address \in Candidates :
        /\ allocate_near(ONION_X64_TRAMPOLINE_CAPACITY, t, address)
        /\ slot' = [slot EXCEPT ![h] = address]
    /\ target' = [target EXCEPT ![h] = t]
    /\ Goto(h, "allocated")
    /\ UNCHANGED <<code, bytes, head, trampoline, seen, expected, storage, threadVars, spoilt>>

NoSlot(h, t) ==
    /\ pc[h] = "idle"
    /\ t % 16 # 0 \/ AllocateFails(ONION_X64_TRAMPOLINE_CAPACITY, t)
    /\ OnlyPc(h, "failed")

(* ... pages that cannot be made readable ...                               *)
Protect(h) ==
    /\ pc[h] = "allocated"
    /\ \/ owns(slot[h]) /\ OnlyPc(h, "readable")
       \/ OnlyPc(h, "failed")

(* ... the relocation: a pass that decodes, and one that copies.  It reads  *)
(* the function twice; code patched in between is cut at the boundaries of  *)
(* what was there before, and becomes no program at all.                    *)
Decode(h) ==
    /\ pc[h] = "readable"
    /\ seen' = [seen EXCEPT ![h] = head[target[h]]]
    /\ Goto(h, "decoded")
    /\ UNCHANGED <<arenaVars, code, bytes, head, slot, trampoline, target, expected, storage,
                   threadVars, spoilt>>

Relocate(h) ==
    LET source == Decoded(target[h], seen[h])
    IN  /\ pc[h] = "decoded"
        /\ IF Refused(source, target[h], slot[h])
           THEN OnlyPc(h, "failed")
           ELSE /\ trampoline' = [trampoline EXCEPT ![h] =
                        IF head[target[h]] = seen[h]
                        THEN onion_x64_relocate(source, target[h], slot[h]) ELSE {}]
                /\ Goto(h, "relocated")
                /\ UNCHANGED <<arenaVars, code, bytes, head, slot, target, seen, expected,
                               storage, threadVars, spoilt>>

(* onion_x64_build_atomic_patch() reads it once more.                       *)
BuildPatch(h) ==
    /\ pc[h] = "relocated"
    /\ expected' = [expected EXCEPT ![h] = head[target[h]]]
    /\ Goto(h, "prepared")
    /\ UNCHANGED <<arenaVars, code, bytes, head, slot, trampoline, target, seen, storage,
                   threadVars, spoilt>>
-----------------------------------------------------------------------------
(* InstallDetour(): the hook finds its original before anything calls it.   *)
Publish(h) ==
    /\ pc[h] = "prepared"
    /\ storage' = [storage EXCEPT ![h] = slot[h]]
    /\ Goto(h, "published")
    /\ UNCHANGED <<arenaVars, code, bytes, head, slot, trampoline, target, seen, expected,
                   threadVars, spoilt>>

(* A faulty exchange: nothing is compared.                                  *)
compare_exchange_patch_Blind(t, old, h) == head' = [head EXCEPT ![t] = h]

compare_exchange_patch(t, old, h) == head[t] = old /\ head' = [head EXCEPT ![t] = h]

(* What nothing in the code keeps from happening: the thread is amid the    *)
(* bytes that are replaced; it is in a call that returns there; another     *)
(* hook came after the decoder read them; the address in an earlier patch   *)
(* was taken for a branch and rewritten; the function jumps back into its   *)
(* first instructions.                                                      *)
Behind(t) == (t + 1) .. (t + HOOK_LENGTH - 1)
JumpsBack(t) ==
    \E i \in DOMAIN code[t] :
        /\ code[t][i].kind \in Branch
        /\ SourceOffset(code[t], i) >= HOOK_LENGTH
        /\ code[t][i].to \in Behind(t)
Hazards(h) ==
    LET t == target[h]
    IN  {r \in {"amid", "awaited", "raced", "rewritten", "jumps_back"} :
            \/ r = "amid" /\ cpu \in Behind(t)
            \/ r = "awaited" /\ back \in Behind(t)
            \/ r = "raced" /\ seen[h] # expected[h]
            \/ r = "rewritten" /\ seen[h] # None
                /\ \E i \in DOMAIN bytes : bytes[i].kind # "plain"
            \/ r = "jumps_back" /\ JumpsBack(t)}

Commit(h) ==
    /\ pc[h] = "published"
    /\ compare_exchange_patch(target[h], expected[h], h)
    /\ spoilt' = [spoilt EXCEPT ![target[h]] = @ \cup Hazards(h)]
    /\ Goto(h, "committed")
    /\ UNCHANGED <<arenaVars, code, bytes, slot, trampoline, target, seen, expected, storage,
                   threadVars>>

CommitFails(h) ==
    /\ pc[h] = "published"
    /\ head[target[h]] # expected[h]
    /\ storage' = [storage EXCEPT ![h] = None]
    /\ Goto(h, "failed")
    /\ UNCHANGED <<arenaVars, code, bytes, head, slot, trampoline, target, seen, expected,
                   threadVars, spoilt>>

(* AbortDetour() keeps the slot; the caller may try again.                  *)
Retry(h) == pc[h] = "failed" /\ OnlyPc(h, "idle")
-----------------------------------------------------------------------------
InFunction(a) ==
    {t \in Targets : a >= t /\ a < t + SourceOffset(code[t], Len(code[t]) + 1)}

(* The instruction at an address of the unhooked functions; what a fetch    *)
(* finds there now, of a patched function the patch and what is behind it;  *)
(* in a trampoline what was written.                                        *)
AtHome(a) ==
    UNION {{code[t][i] : i \in {k \in DOMAIN code[t] : t + SourceOffset(code[t], k) = a}} :
           t \in InFunction(a)}
Fetch(a) ==
    IF a \in Targets /\ head[a] # None THEN {Patch(a, head[a])[1]}
    ELSE {ins \in AtHome(a) : \A t \in InFunction(a) : head[t] = None \/ a - t >= HOOK_LENGTH}
         \cup {w.ins : w \in {v \in UNION {trampoline[h] : h \in Hook} : v.at = a}}

(* The hook whose address an indirect jump loads: from a patched function,  *)
(* or from an unaltered copy of the patch in a trampoline.                  *)
Loaded(a) ==
    {head[t] : t \in {u \in Targets : u + 6 = a /\ head[u] # None}}
    \cup {h \in Hook : \E k \in Hook : \E w \in trampoline[k] :
            w.at = a /\ w.ins.op = h /\ w.ins.kind = "plain"}

(* The address in the function a reference into a trampoline stands for.    *)
Origins(a) ==
    UNION {LET t == target[h]
               source == Decoded(t, seen[h])
           IN  {t + SourceOffset(source, i) : i \in {k \in 1 .. Stolen(source) :
                   slot[h] + DestinationOffset(source, k) = a}} :
           h \in {k \in Hook : trampoline[k] # {}}}
Means(a, b) == a = b \/ b \in Origins(a)

(* The unhooked function, behind any jumps.                                 *)
BehindJumps(a) ==
    LET Follow[n \in 0 .. 3] ==
            IF n = 0 THEN a
            ELSE LET b == Follow[n - 1]
                     jumps == {i \in AtHome(b) : i.kind = "jump"}
                 IN  IF jumps = {} THEN b ELSE (CHOOSE i \in jumps : TRUE).to
    IN  Follow[3]

Call(t) ==
    /\ cpu = None /\ back = None
    /\ cpu' = t /\ home' = BehindJumps(t)
    /\ due' = {h \in Hook : pc[h] = "committed" /\ target[h] = t}
    /\ ran' = {}
    /\ UNCHANGED <<arenaVars, code, bytes, head, installVars, back, spoilt>>

Thread(address, at, return) ==
    /\ cpu' = address /\ home' = at /\ back' = return
    /\ UNCHANGED <<arenaVars, code, bytes, head, installVars, due, spoilt>>

(* A jump, to an address or to a hook; the hook calls its original as the   *)
(* last thing it does.  A thread that departs from the unhooked function    *)
(* takes no further step here.                                              *)
Jumps ==
    \E ins \in Fetch(cpu) :
        /\ UNCHANGED ran
        /\ \/ ins.kind = "jump" /\ Thread(ins.to, home, None)
           \/ ins.kind = "indirect" /\ \E h \in Loaded(ins.to) : Thread(h, home, None)

Hooked ==
    \E h \in Hook \cap {cpu} :
        /\ storage[h] # None
        /\ ran' = ran \cup {h}
        /\ Thread(storage[h], home, None)

(* An instruction with an effect: the unhooked function is at the same one, *)
(* and both go on, a conditional jump by the condition it is written with.  *)
Same(ins, own) ==
    /\ ins.kind \notin {"jump", "indirect"}
    /\ ins.op = own.op
    /\ ins.kind \in {"rip", "call"} => Means(ins.to, own.to)

Executes ==
    \E ins \in Fetch(cpu), own \in AtHome(home) :
        /\ Same(ins, own)
        /\ UNCHANGED ran
        /\ \/ ins.kind \in {"plain", "rip"}
              /\ Thread(cpu + ins.len, BehindJumps(home + own.len), None)
           \/ ins.kind = "call"
              /\ Thread(None, BehindJumps(home + own.len), cpu + ins.len)
           \/ ins.kind = "return" /\ Thread(None, None, None)
           \/ /\ ins.kind \in {"cond", "relative"}
              /\ \E holds \in BOOLEAN :
                    Thread(IF holds # ins.neg THEN ins.to ELSE cpu + ins.len,
                           BehindJumps(IF holds THEN own.to ELSE home + own.len), None)

(* The function that was called returns, however much is installed before.  *)
(* What it does is left out; it does not come into this function again.     *)
Returns ==
    /\ cpu = None /\ back # None
    /\ UNCHANGED ran
    /\ Thread(back, home, None)

(* A jump out of everything modelled ends the function where the unhooked   *)
(* one ends too.                                                            *)
AtEnd == cpu = home /\ AtHome(home) = {}
Leaves == AtEnd /\ UNCHANGED ran /\ Thread(None, None, None)

ThreadStep ==
    \/ \E t \in Called : Call(t)
    \/ Hooked
    \/ Returns
    \/ cpu \notin Hook \cup {None} /\ (Jumps \/ Executes \/ Leaves)
Installs(h) ==
    \/ \E t \in Targets : Allocate(h, t) \/ NoSlot(h, t)
    \/ Protect(h) \/ Decode(h) \/ Relocate(h) \/ BuildPatch(h)
    \/ Publish(h) \/ Commit(h) \/ CommitFails(h) \/ Retry(h)

DetourNext == ThreadStep \/ \E h \in Hook : Installs(h)
DetourSpec == DetourInit /\ [][DetourNext]_detourVars
-----------------------------------------------------------------------------
Sound == \A t \in Targets : spoilt[t] = {}

(* Unless one of the five things happened, a thread in a function finds a   *)
(* next step that the function without hooks would take too, on every path  *)
(* through patch, hooks and trampolines, and wherever a call returns to.    *)
OnCourse ==
    IF cpu \in Hook THEN storage[cpu] # None
    ELSE \/ AtEnd
         \/ \E ins \in Fetch(cpu) :
                \/ ins.kind = "jump"
                \/ ins.kind = "indirect" /\ Loaded(ins.to) # {}
                \/ \E own \in AtHome(home) : Same(ins, own)

FramesRunOriginal == Sound /\ cpu # None => OnCourse

(* A hook that was committed is not lost: a call that returns ran every     *)
(* hook that was on the function when it began.                             *)
HooksKept ==
    Sound /\ home = None => due \subseteq ran
=============================================================================
