------------------------------- MODULE MCDetour -------------------------------
(* Two functions a hook can be put on, in reach of a common mapping, and one *)
(* off the grid; first instructions of every kind the relocator tells apart. *)
EXTENDS Detour, TLC

I(op, kind, len, to) == [op |-> op, kind |-> kind, neg |-> FALSE, len |-> len, to |-> to]
Plain(op, len) == I(op, "plain", len, 0)
Ret == I("ret", "return", 1, 0)
Outside == 9000

(* A loop within what is stolen, and an operand relative to it.              *)
Loop(t) == <<Plain("mov", 4), Plain("dec", 4), I("nz", "cond", 2, t + 4),
             I("lea", "rip", 7, t - 800), Ret>>
(* A call, and a jump from the stolen code into the rest.                    *)
Calls(t) == <<I("call", "call", 5, Outside), Plain("test", 3), I("z", "cond", 6, t + 20),
              Plain("mov", 6), Ret>>
(* A jump within the stolen code; the function ends with one to another.     *)
TailCall(t) == <<Plain("mov", 5), I("jump", "jump", 2, t + 11), Plain("nop", 4), Plain("add", 3),
             I("jump", "jump", 5, Outside)>>
(* A loop back to the first instruction; one into the stolen code.           *)
Again(t) == <<Plain("mov", 8), Plain("dec", 8), I("nz", "cond", 2, t), Ret>>
Back(t) == <<Plain("mov", 8), Plain("dec", 6), I("nz", "cond", 2, t + 8), Ret>>
(* What is refused: loop, a jump between two instructions.                   *)
Short(t) == <<Plain("mov", 8), I("loop", "relative", 2, t), Plain("mov", 8), Ret>>
Between(t) == <<Plain("mov", 8), I("z", "cond", 2, t + 3), Plain("mov", 8), Ret>>

First == 1024
Second == 2064
OffGrid == 3004
MCTargets == {First, Second, OffGrid}
Functions(a, b) == [t \in MCTargets |-> CASE t = First -> a [] t = Second -> b [] OTHER -> <<Ret>>]
MCPrograms ==
    {Functions(p, Short(Second)) :
        p \in {Loop(First), Calls(First), TailCall(First), Again(First), Back(First), Between(First)}}

MCPointerBytes == {<<Plain("pointer", 8)>>, <<I("pointer", "undecodable", 8, 0)>>,
                   <<I("pointer", "call", 5, Outside), Plain("pointer", 3)>>}
MCMapBases == {256, 1280, 1536}
MCCalled == {First}
HooksAlike == Permutations(Hook)
=============================================================================
