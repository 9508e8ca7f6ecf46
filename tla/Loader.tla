-------------------------------- MODULE Loader --------------------------------
(***************************************************************************)
(* The loader: main() (loader/main.c), inject_elf_into_pid()               *)
(* (loader/injector.c), elfldr_load() (loader/elfldr.c), the remote calls  *)
(* of loader/pt.c, and the credentials of loader/ucred.c.                  *)
(*                                                                         *)
(* It stops one thread of SceShellUI, makes it run system calls, and then  *)
(* a stager that creates the payload thread, by setting its registers; it  *)
(* must leave that thread where it was.  What matters of the registers is  *)
(* whose frame they are:                                                   *)
(*   "own"       the frame the thread was stopped in                       *)
(*   "call"      inside a system call made for the loader                  *)
(*   "returned"  after it, at a return address that is not one             *)
(*   "stager"    about to create the payload thread                        *)
(*   "trapped"   at the int3 after that                                    *)
(* Every request to the kernel may fail, and some failures nobody looks    *)
(* at.  Symbols and module handles that only fill the payload's arguments  *)
(* are left out, as are the parts of elfldr.c and pt.c nothing calls, and  *)
(* a stop of another thread that pt_step() takes for its own.              *)
(***************************************************************************)
EXTENDS Integers

CONSTANTS
    NumSegments,    \* PT_LOAD headers of the payload
    Executable      \* those with PF_X

ASSUME SegmentAssumption == NumSegments \in Nat /\ Executable \subseteq 1 .. NumSegments

Segment == 1 .. NumSegments
Frame == {"own", "call", "returned", "stager", "trapped"}

(* Where the loader makes the thread run something, and where it goes on    *)
(* from there when that succeeds and when it does not.                      *)
OnSuccess ==
    [mmap_image |-> "relocate", errno_mmap |-> "detach",
     protect |-> "protect", errno_protect |-> "msync",
     msync |-> "loaded", errno_msync |-> "loaded", munmap |-> "detach",
     mmap_args |-> "copy_args", mmap_bootstrap |-> "mprotect_bootstrap",
     mmap_sce |-> "copy_funcs", stager |-> "detach"]
OnError ==
    [OnSuccess EXCEPT !.mmap_image = "errno_mmap", !.protect = "errno_protect",
                      !.msync = "errno_msync",
                      !.mmap_args = "detach", !.mmap_bootstrap = "detach", !.mmap_sce = "detach"]
Remote == DOMAIN OnSuccess

(* The calls of pt_errno(), of a function it does not ask to have resolved. *)
Errno == {"errno_mmap", "errno_protect", "errno_msync"}

(* What a successful remote mmap provides. *)
Mapping == [mmap_image |-> "image", mmap_args |-> "args",
            mmap_bootstrap |-> "bootstrap", mmap_sce |-> "sce"]
Region == {Mapping[p] : p \in DOMAIN Mapping}

VARIABLES
    pc,
    authid,         \* of the loader: "own" or "ptrace"
    orig_authid,    \* main's saved value; "none" is 0
    original_authid,\* the injector's
    error,          \* elfldr_load's
    seg,            \* its segment
    ok,             \* inject_elf_into_pid() is going to return true
    rpc,            \* inside a remote call
    bak_reg,        \* the frame it saved
    result,         \* whether the call made in the target succeeded
    traced, frame,  \* the target: attached to, registers of its thread
    mapped,         \* regions of the loader in it
    whole,          \* what has been put there: relocated image, copied data
    unheeded,       \* what has not, and nobody looked
    protected,      \* segments that have their protection
    payload,        \* "none", "refused" by pthread_create, or "running"
    rax,            \* the thread's own rax is -1
    unsynced, unattached, undetached, unrestored,  \* history: what failed with no way back
    stray,          \* history: another SIGTRAP was taken for the stager's
    report

credVars == <<authid, orig_authid, original_authid>>
loadVars == <<error, seg, ok>>
callVars == <<rpc, bak_reg, result>>
memVars == <<mapped, whole, unheeded, protected>>
history == <<unsynced, unattached, undetached, unrestored, stray>>
vars == <<pc, credVars, loadVars, callVars, traced, frame, memVars, payload, rax, history, report>>

TypeOK ==
    /\ pc \in Remote \cup {"main", "find", "raise", "attach", "attachwait", "resolve", "load",
              "relocate", "copy_image", "loaded", "copy_args", "mprotect_bootstrap",
              "copy_stager", "copy_funcs", "detach", "restore", "main_restore", "done"}
    /\ authid \in {"own", "ptrace"}
    /\ {orig_authid, original_authid} \subseteq {"none", "own", "ptrace"}
    /\ error \in BOOLEAN /\ ok \in BOOLEAN
    /\ seg \in 1 .. NumSegments + 1
    /\ rpc \in {"idle", "setregs", "step", "astray", "continue", "waitpid", "restore"}
    /\ bak_reg \in Frame /\ frame \in Frame
    /\ result \in BOOLEAN
    /\ traced \in BOOLEAN /\ rax \in BOOLEAN
    /\ mapped \in SUBSET Region
    /\ whole \in SUBSET {"relocated", "image", "args", "bootstrap", "sce"}
    /\ unheeded \in SUBSET {"relocated", "args"}
    /\ protected \in SUBSET Segment
    /\ payload \in {"none", "refused", "running"}
    /\ {unsynced, unattached, undetached, unrestored, stray} \subseteq BOOLEAN
    /\ report \in {"none", "failed", "active"}

Init ==
    /\ pc = "main"
    /\ authid = "own" /\ orig_authid = "none" /\ original_authid = "none"
    /\ error = FALSE /\ seg = 1 /\ ok = FALSE
    /\ rpc = "idle" /\ bak_reg = "own" /\ result = FALSE
    /\ traced = FALSE /\ frame = "own"
    /\ mapped = {} /\ whole = {} /\ unheeded = {} /\ protected = {}
    /\ payload = "none"
    /\ rax \in BOOLEAN
    /\ unsynced = FALSE /\ unattached = FALSE /\ undetached = FALSE /\ unrestored = FALSE
    /\ stray = FALSE
    /\ report = "none"
-----------------------------------------------------------------------------
(* Credentials. *)

(* set_ucred_to_ptrace(): reading the old value and writing the new one can  *)
(* fail independently; both are skipped when there is no credential.         *)
SetUcred(saved) ==
    \E got, set \in BOOLEAN :
        /\ saved' = IF got THEN authid ELSE "none"
        /\ authid' = IF set THEN "ptrace" ELSE authid

RestoreAuthid(old, written) == authid' = IF written /\ old # "none" THEN old ELSE authid

MainRaises ==
    /\ pc = "main"
    /\ SetUcred(orig_authid)
    /\ pc' = "find"
    /\ UNCHANGED <<original_authid, loadVars, callVars, traced, frame, memVars, payload, rax,
                   history, report>>

FindProcess ==
    /\ pc = "find"
    /\ pc' \in {"raise", "main_restore"}
    /\ UNCHANGED <<credVars, loadVars, callVars, traced, frame, memVars, payload, rax, history,
                   report>>

InjectorRaises ==
    /\ pc = "raise"
    /\ SetUcred(original_authid)
    /\ pc' = "attach"
    /\ UNCHANGED <<orig_authid, loadVars, callVars, traced, frame, memVars, payload, rax, history,
                   report>>

InjectorRestores ==
    /\ pc = "restore"
    /\ \E written \in BOOLEAN : RestoreAuthid(original_authid, written)
    /\ pc' = "main_restore"
    /\ UNCHANGED <<orig_authid, original_authid, loadVars, callVars, traced, frame, memVars,
                   payload, rax, history, report>>

(* A faulty main: nothing is restored when the process was not found or the *)
(* injection failed.                                                        *)
MainRestores_OnSuccessOnly ==
    /\ pc = "main_restore"
    /\ \E written \in BOOLEAN :
          /\ IF ok THEN RestoreAuthid(orig_authid, written) ELSE UNCHANGED authid
          /\ unrestored' = ~written
    /\ report' = IF ok THEN "active" ELSE "failed"
    /\ pc' = "done"
    /\ UNCHANGED <<orig_authid, original_authid, loadVars, callVars, traced, frame, memVars,
                   payload, rax, unsynced, unattached, undetached, stray>>

MainRestores ==
    /\ pc = "main_restore"
    /\ \E written \in BOOLEAN : RestoreAuthid(orig_authid, written) /\ unrestored' = ~written
    /\ report' = IF ok THEN "active" ELSE "failed"
    /\ pc' = "done"
    /\ UNCHANGED <<orig_authid, original_authid, loadVars, callVars, traced, frame, memVars,
                   payload, rax, unsynced, unattached, undetached, stray>>
-----------------------------------------------------------------------------
(* Attach and detach. *)

(* The kernel refuses tracing to other credentials. *)
Attach ==
    /\ pc = "attach"
    /\ \/ /\ authid = "ptrace"
          /\ traced' = TRUE
          /\ pc' = "attachwait"
       \/ /\ pc' = "restore"
          /\ UNCHANGED traced
    /\ UNCHANGED <<credVars, loadVars, callVars, frame, memVars, payload, rax, history, report>>

(* waitpid() fails or reports no stop: the target stays attached to.        *)
AttachWait ==
    /\ pc = "attachwait"
    /\ \/ pc' = "resolve" /\ UNCHANGED unattached
       \/ pc' = "restore" /\ unattached' = TRUE
    /\ UNCHANGED <<credVars, loadVars, callVars, traced, frame, memVars, payload, rax, unsynced,
                   undetached, unrestored, stray, report>>

(* A faulty way out: the credentials are restored first. *)
Fails_NoDetach == pc' = "restore"

(* A failing step of the injector, or its last one. *)
Fails == pc' = "detach"

Detach ==
    /\ pc = "detach"
    /\ \E done \in BOOLEAN : traced' = ~done /\ undetached' = ~done
    /\ pc' = "restore"
    /\ UNCHANGED <<credVars, loadVars, callVars, frame, memVars, payload, rax, unsynced,
                   unattached, unrestored, stray, report>>
-----------------------------------------------------------------------------
(* Remote calls: pt_syscall(), pt_call() and pt_call2(). *)

Returns(success) ==
    /\ rpc' = "idle" /\ bak_reg' = "own" /\ result' = FALSE
    /\ pc' = IF success THEN OnSuccess[pc] ELSE OnError[pc]
    /\ error' = (error \/ (~success /\ pc \in {"protect", "msync"}))
    /\ seg' = IF pc = "protect" /\ success THEN seg + 1 ELSE seg
    /\ ok' = (success /\ pc = "stager")

(* A request fails while the registers are not the thread's own. *)
LosesSync == unsynced' = TRUE /\ Returns(FALSE)

(* A faulty segment loop: one header too many. *)
InRemoteCall_PastTheEnd == pc \in Remote /\ (pc = "protect" => ~error /\ seg \notin Executable)

InRemoteCall == pc \in Remote /\ (pc = "protect" => ~error /\ seg \in Segment \ Executable)

SaveRegs ==
    /\ InRemoteCall /\ rpc = "idle"
    /\ \/ /\ bak_reg' = frame
          /\ rpc' = "setregs"
          /\ UNCHANGED <<pc, loadVars, result>>
       \/ Returns(FALSE)
    /\ UNCHANGED <<credVars, traced, frame, memVars, payload, rax, history, report>>

(* pt_errno() does not look whether the function was resolved: the thread   *)
(* may go to address 0.                                                     *)
EnterFrame ==
    /\ rpc = "setregs"
    /\ \/ /\ frame' = IF pc = "stager" THEN "stager" ELSE "call"
          /\ \/ rpc' = IF pc = "stager" THEN "continue" ELSE "step"
             \/ pc \in Errno /\ rpc' = "astray"
          /\ UNCHANGED <<pc, loadVars, bak_reg, result>>
       \/ Returns(FALSE) /\ UNCHANGED frame
    /\ UNCHANGED <<credVars, traced, memVars, payload, rax, history, report>>

(* The steps up to the return; the system call has its effect or fails.     *)
StepCall ==
    /\ rpc = "step"
    /\ \E success \in BOOLEAN :
          /\ result' = success
          /\ mapped' = IF success /\ pc \in DOMAIN Mapping THEN mapped \cup {Mapping[pc]}
                       ELSE IF success /\ pc = "munmap" THEN mapped \ {"image"}
                       ELSE mapped
          /\ protected' = IF success /\ pc = "protect" THEN protected \cup {seg} ELSE protected
    /\ frame' = "returned"
    /\ rpc' = "restore"
    /\ UNCHANGED <<pc, credVars, loadVars, bak_reg, traced, whole, unheeded, payload, rax, history,
                   report>>

(* pt_step() or pt_getregs() fails.  At address 0 every step is one more    *)
(* fault and rsp stays where it is: there is no other way out of the loop.  *)
StepFails ==
    /\ rpc \in {"step", "astray"}
    /\ frame' \in {"call", "returned"}
    /\ LosesSync
    /\ UNCHANGED <<credVars, traced, memVars, payload, rax, unattached,
                   undetached, unrestored, stray, report>>

(* pt_call2() returns the rax it has saved, not the stager's. *)
RemoteResult == IF pc = "stager" THEN ~rax ELSE result

(* Faulty restores: not after a system call that failed; never.             *)
RestoreRegs_OnSuccessOnly ==
    /\ rpc = "restore"
    /\ frame' = IF RemoteResult THEN bak_reg ELSE frame
    /\ Returns(RemoteResult)
    /\ UNCHANGED <<credVars, traced, memVars, payload, rax, history, report>>

(* After another thread's stop the registers may be that thread's. *)
RestoreRegs ==
    /\ rpc = "restore"
    /\ frame' = bak_reg \/ (stray /\ UNCHANGED frame)
    /\ Returns(RemoteResult)
    /\ UNCHANGED <<credVars, traced, memVars, payload, rax, history, report>>

RestoreRegsFails ==
    /\ rpc = "restore"
    /\ LosesSync
    /\ UNCHANGED <<credVars, traced, frame, memVars, payload, rax, unattached,
                   undetached, unrestored, stray, report>>

Continue ==
    /\ rpc = "continue"
    /\ \/ /\ rpc' = "waitpid"
          /\ UNCHANGED <<pc, loadVars, bak_reg, result, unsynced>>
       \/ LosesSync
    /\ UNCHANGED <<credVars, traced, frame, memVars, payload, rax, unattached,
                   undetached, unrestored, stray, report>>

(* A faulty stager(): it returns without the int3. *)
StagerRuns_NoTrap ==
    /\ frame = "stager" /\ (rpc = "waitpid" \/ unsynced \/ (stray /\ rpc = "idle"))
    /\ payload' \in {"refused", "running"}
    /\ frame' = "returned"
    /\ UNCHANGED <<pc, credVars, loadVars, callVars, traced, memVars, rax, history, report>>

(* stager(): the result of pthread_create is not looked at.  When the loader *)
(* has lost track of it, it runs all the same, at the latest when the target *)
(* is let go.                                                                *)
StagerRuns ==
    /\ frame = "stager" /\ (rpc = "waitpid" \/ unsynced \/ (stray /\ rpc = "idle"))
    /\ payload' \in {"refused", "running"}
    /\ frame' = "trapped"
    /\ UNCHANGED <<pc, credVars, loadVars, callVars, traced, memVars, rax, history, report>>

(* A faulty pt_call2(): any stop is taken for the stager's.                  *)
WaitStager_AnyStop ==
    /\ rpc = "waitpid"
    /\ rpc' = "restore"
    /\ UNCHANGED <<pc, credVars, loadVars, bak_reg, result, traced, frame, memVars, payload, rax,
                   history, report>>

WaitStager ==
    /\ rpc = "waitpid" /\ frame = "trapped"
    /\ rpc' = "restore"
    /\ UNCHANGED <<pc, credVars, loadVars, bak_reg, result, traced, frame, memVars, payload, rax,
                   history, report>>

(* Any stop for a SIGTRAP is taken for the stager's: one of another thread,  *)
(* a breakpoint of its own.                                                  *)
StrayTrap ==
    /\ rpc = "waitpid" /\ frame = "stager"
    /\ rpc' = "restore"
    /\ stray' = TRUE
    /\ UNCHANGED <<pc, credVars, loadVars, bak_reg, result, traced, frame, memVars, payload, rax,
                   unsynced, unattached, undetached, unrestored, report>>

(* waitpid() fails, or the process ends or stops for some other reason: a    *)
(* signal of any of its threads.                                             *)
WaitFails ==
    /\ rpc = "waitpid"
    /\ LosesSync
    /\ UNCHANGED <<credVars, traced, frame, memVars, payload, rax, unattached,
                   undetached, unrestored, stray, report>>
-----------------------------------------------------------------------------
(* The injector between its remote calls. *)

Local(from, to) ==
    /\ pc = from
    /\ pc' = to \/ Fails
    /\ UNCHANGED <<credVars, loadVars, callVars, traced, frame, memVars, payload, rax, history,
                   report>>

(* pthread_create is resolved; elfldr_load() knows the type and has memory. *)
Resolve == Local("resolve", "load")
AllocateMirror == Local("load", "mmap_image")

(* data_load() and the relocations in the mirror; one of a type that is not *)
(* supported is logged and skipped.                                         *)
Relocate ==
    /\ pc = "relocate"
    /\ pc' = "copy_image"
    /\ \/ whole' = whole \cup {"relocated"} /\ UNCHANGED <<error, unheeded>>
       \/ unheeded' = unheeded \cup {"relocated"} /\ UNCHANGED <<error, whole>>
       \/ error' = TRUE /\ UNCHANGED <<whole, unheeded>>
    /\ UNCHANGED <<credVars, seg, ok, callVars, traced, frame, mapped, protected, payload, rax,
                   history, report>>

CopyImage ==
    /\ pc = "copy_image"
    /\ pc' = "protect"
    /\ \/ whole' = whole \cup {"image"} /\ UNCHANGED error
       \/ error' = TRUE /\ UNCHANGED whole
    /\ UNCHANGED <<credVars, seg, ok, callVars, traced, frame, mapped, unheeded, protected, payload,
                   rax, history, report>>

(* The kernel's own mprotect for an executable segment. *)
ProtectExecutable ==
    /\ pc = "protect" /\ ~error /\ seg \in Executable
    /\ \/ protected' = protected \cup {seg} /\ seg' = seg + 1 /\ UNCHANGED error
       \/ error' = TRUE /\ UNCHANGED <<protected, seg>>
    /\ UNCHANGED <<pc, credVars, ok, callVars, traced, frame, mapped, whole, unheeded, payload, rax,
                   history, report>>

ProtectDone ==
    /\ pc = "protect" /\ (error \/ seg = NumSegments + 1)
    /\ pc' = "msync"
    /\ UNCHANGED <<credVars, loadVars, callVars, traced, frame, memVars, payload, rax, history,
                   report>>

(* A faulty elfldr_load(): a failed load is returned as a loaded image.      *)
Loaded_IgnoresError ==
    /\ pc = "loaded"
    /\ pc' = "mmap_args"
    /\ UNCHANGED <<credVars, loadVars, callVars, traced, frame, memVars, payload, rax, history,
                   report>>

Loaded ==
    /\ pc = "loaded"
    /\ pc' = IF error THEN "munmap" ELSE "mmap_args"
    /\ UNCHANGED <<credVars, loadVars, callVars, traced, frame, memVars, payload, rax, history,
                   report>>

(* The bootstrap arguments: whether they arrived is not looked at.           *)
CopyArgs ==
    /\ pc = "copy_args"
    /\ pc' = "mmap_bootstrap"
    /\ \/ whole' = whole \cup {"args"} /\ UNCHANGED unheeded
       \/ unheeded' = unheeded \cup {"args"} /\ UNCHANGED whole
    /\ UNCHANGED <<credVars, loadVars, callVars, traced, frame, mapped, protected, payload, rax,
                   history, report>>

ProtectBootstrap == Local("mprotect_bootstrap", "copy_stager")

CopyTo(from, region, to) ==
    /\ pc = from
    /\ \/ pc' = to /\ whole' = whole \cup {region}
       \/ Fails /\ UNCHANGED whole
    /\ UNCHANGED <<credVars, loadVars, callVars, traced, frame, mapped, unheeded, protected, payload,
                   rax, history, report>>

CopyStager == CopyTo("copy_stager", "bootstrap", "mmap_sce")
CopyFuncs == CopyTo("copy_funcs", "sce", "stager")
-----------------------------------------------------------------------------
RemoteCall ==
    \/ SaveRegs \/ EnterFrame
    \/ StepCall
    \/ Continue \/ WaitStager
    \/ RestoreRegs \/ RestoreRegsFails

Injector ==
    \/ InjectorRaises
    \/ Attach \/ AttachWait
    \/ Resolve
    \/ AllocateMirror \/ Relocate \/ CopyImage \/ ProtectExecutable \/ ProtectDone \/ Loaded
    \/ CopyArgs \/ ProtectBootstrap \/ CopyStager \/ CopyFuncs
    \/ Detach
    \/ InjectorRestores

Main == MainRaises \/ FindProcess \/ MainRestores

Next == Main \/ Injector \/ RemoteCall \/ StepFails \/ StrayTrap \/ WaitFails \/ StagerRuns

Spec == Init /\ [][Next]_vars

(* The loader runs, a system call in the target returns, and a continued     *)
(* thread is scheduled.  Nothing has to fail.                                *)
FairSpec == Spec /\ WF_vars(Main \/ Injector \/ RemoteCall) /\ WF_vars(StagerRuns)
-----------------------------------------------------------------------------
(* pt.c: "bak_reg is always restored after the remote work completes".  On   *)
(* every way out of the injection, whatever failed, SceShellUI's thread goes *)
(* on where it was stopped, and a remote call made after a failed one (the   *)
(* errno of an error message) saves that frame and no other: unless a        *)
(* request failed in the middle of a remote call, for which there is no way  *)
(* back, or another thread's SIGTRAP was taken for the stager's.             *)
ResumesWhereItWas ==
    ~unsynced /\ ~stray =>
        /\ ~traced => frame = "own"
        /\ rpc # "idle" => bak_reg = "own"

(* The loader is done: it has let go of SceShellUI, unless the stop after    *)
(* PT_ATTACH or the PT_DETACH itself went wrong.  While it holds on to it,   *)
(* it has the credentials the kernel asks for.                               *)
LetsGo ==
    /\ pc = "done" /\ traced => unattached \/ undetached
    /\ traced /\ ~unattached /\ ~undetached => authid = "ptrace"

(* Two nested raises of the same credentials, each reading what the other    *)
(* wrote: main gets back what it had, even when a read or a write of the     *)
(* inner pair failed.  Only a saved value of 0, or a failure of main's own   *)
(* restore, can spoil it.                                                    *)
CredentialsRestored ==
    pc = "done" /\ orig_authid # "none" /\ ~unrestored => authid = "own"

(* The payload thread starts in an image that is mapped, relocated, copied   *)
(* and protected, through a stager and a function table that arrived, with   *)
(* its arguments.  Two failures get past elfldr_load() and the injector: a   *)
(* relocation of a type that is not supported, which is logged and skipped,  *)
(* and the copy of the arguments, which nobody looks at.  No other does.     *)
PayloadRunsWholeImage ==
    payload # "none" =>
        /\ mapped = Region
        /\ {"relocated", "image", "args", "bootstrap", "sce"} \subseteq whole \cup unheeded
        /\ protected = Segment

(* What main reports is what happened: a success only after the stager came  *)
(* to its trap, though pthread_create may have refused, or another SIGTRAP   *)
(* was taken for it; a failure only when the stager did not run, unless a    *)
(* remote call was lost or the rax that pt_call2() returns, the interrupted  *)
(* thread's, happened to be -1.                                              *)
ReportsTruth ==
    /\ report = "active" /\ ~stray => payload # "none" /\ frame = "own"
    /\ report = "failed" /\ ~unsynced /\ ~rax => payload = "none"

(* The loader comes to an end, and so does the stop of SceShellUI, whatever  *)
(* fails: unless pt_errno() calls a function that was not resolved.          *)
LoaderEnds == <>(pc = "done" \/ rpc = "astray")
=============================================================================
