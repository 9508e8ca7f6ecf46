---------------------------- MODULE LoaderTheorems ----------------------------
(***************************************************************************)
(* The invariants of Loader, for every number of segments and every choice *)
(* of executable ones.                                                     *)
(*                                                                         *)
(* What the loader promises at its end rests on what holds at each place   *)
(* before: which frame the target has inside a remote call (Frames), that  *)
(* a call that was lost leads to no stager (Synced), what is mapped and    *)
(* copied so far (Memory), and that tracing and credentials go together    *)
(* (Holding, Credentials).                                                 *)
(***************************************************************************)
EXTENDS Loader, TLAPS

(* Behind the stager there is only the way out. *)
Out == {"detach", "restore", "main_restore", "done"}
Late == Out \cup {"stager"}

(* Places at which SceShellUI is attached to. *)
Held == Remote \cup {"attachwait", "resolve", "load", "relocate", "copy_image", "loaded",
                     "copy_args", "mprotect_bootstrap", "copy_stager", "copy_funcs", "detach"}

(* What elfldr_load() goes through once the image is copied, and what the   *)
(* injector goes through once the image is loaded.                          *)
Protecting == {"protect", "errno_protect", "msync", "errno_msync", "loaded"}
WithSce == {"copy_funcs", "stager"}
WithStager == {"mmap_sce"} \cup WithSce
WithBootstrap == {"mprotect_bootstrap", "copy_stager"} \cup WithStager
WithArgs == {"copy_args", "mmap_bootstrap"} \cup WithBootstrap
WithImage == {"mmap_args"} \cup WithArgs

(* Which call is made where. *)
Places ==
    /\ rpc # "idle" => pc \in Remote
    /\ rpc \in {"continue", "waitpid"} => pc = "stager"
    /\ rpc \in {"step", "astray"} => pc # "stager"
    /\ pc = "protect" /\ rpc # "idle" => ~error /\ seg \in Segment \ Executable

(* A lost call is followed by nothing but error messages and the way out.   *)
Synced ==
    /\ pc \in {"errno_protect", "errno_msync"} => error
    /\ pc \in WithImage => ~error
    /\ unsynced => pc \in Out \cup {"errno_mmap", "munmap"} \/ (pc \in Protecting /\ error)

(* Whose frame the registers of the target hold. *)
Frames ==
    /\ bak_reg \notin {"stager", "trapped"}
    /\ frame \in {"stager", "trapped"} => pc \in Late
    /\ stray => pc \in Out \/ (pc = "stager" /\ rpc = "restore")
    /\ ~unsynced /\ ~stray =>
        /\ bak_reg = "own"
        /\ rpc \in {"idle", "setregs"} => frame = "own"
        /\ rpc \in {"step", "astray"} => frame = "call"
        /\ rpc = "continue" => frame = "stager"
        /\ rpc = "waitpid" => frame \in {"stager", "trapped"}
        /\ rpc = "restore" => frame = IF pc = "stager" THEN "trapped" ELSE "returned"

(* The target is held with the credentials that needs, and let go in the end*)
Holding ==
    /\ pc \in Held => traced /\ authid = "ptrace"
    /\ traced => pc \in Held \/ unattached \/ undetached

(* What main has saved is what it had. *)
Credentials ==
    /\ pc = "main" => authid = "own"
    /\ orig_authid \in {"none", "own"}
    /\ CredentialsRestored

Ready ==
    /\ mapped = Region
    /\ {"relocated", "image", "args", "bootstrap", "sce"} \subseteq whole \cup unheeded
    /\ protected = Segment

(* What has been mapped, copied and protected on the way to each place. *)
Memory ==
    /\ pc \in {"relocate", "copy_image"} \cup Protecting \cup WithImage => "image" \in mapped
    /\ pc \in WithArgs => "args" \in mapped
    /\ pc \in WithBootstrap => "bootstrap" \in mapped
    /\ pc \in WithSce => "sce" \in mapped
    /\ pc \in {"copy_image"} \cup Protecting \cup WithImage => error \/ "relocated" \in whole \cup unheeded
    /\ pc \in Protecting \cup WithImage => error \/ "image" \in whole
    /\ pc \in {"mmap_bootstrap"} \cup WithBootstrap => "args" \in whole \cup unheeded
    /\ pc \in WithStager => "bootstrap" \in whole
    /\ pc = "stager" => "sce" \in whole
    /\ \A s \in Segment : s < seg => s \in protected
    /\ pc \in {"msync", "errno_msync", "loaded"} => error \/ seg = NumSegments + 1
    /\ pc \in WithImage => protected = Segment
    /\ rpc = "restore" /\ result =>
        /\ pc \in DOMAIN Mapping => Mapping[pc] \in mapped
        /\ pc = "protect" => seg \in protected

(* The payload thread is created by the stager, and the stager is started   *)
(* when everything is there.                                                *)
Started ==
    /\ payload # "none" \/ frame = "stager" => Ready /\ pc \in Late
    /\ frame = "trapped" => payload # "none"

(* What the loader knows of the stager's end. *)
Outcome ==
    /\ ok => rpc = "idle" /\ pc \in Out /\ (stray \/ (frame = "own" /\ payload # "none"))
    /\ stray /\ ~unsynced /\ ~rax => ok \/ (pc = "stager" /\ rpc = "restore")
    /\ payload # "none" /\ ~unsynced /\ ~rax =>
           ok \/ (pc = "stager" /\ rpc \in {"waitpid", "restore"})
    /\ report # "none" => pc = "done"
    /\ report = "active" => ok
    /\ report = "failed" => ~ok

(* The inductive invariant. *)
IInv == Places /\ Synced /\ Frames /\ Holding /\ Credentials /\ Memory /\ Started /\ Outcome
-----------------------------------------------------------------------------
(* The places of the remote calls.                                          *)
LEMMA RemotePlaces ==
    Remote = {"mmap_image", "errno_mmap", "protect", "errno_protect", "msync", "errno_msync",
              "munmap", "mmap_args", "mmap_bootstrap", "mmap_sce", "stager"}
    BY DEF Remote, OnSuccess

(* Where they lead to.                                                      *)
LEMMA WhereNext ==
    /\ OnSuccess["mmap_image"] = "relocate" /\ OnError["mmap_image"] = "errno_mmap"
    /\ OnSuccess["errno_mmap"] = "detach" /\ OnError["errno_mmap"] = "detach"
    /\ OnSuccess["protect"] = "protect" /\ OnError["protect"] = "errno_protect"
    /\ OnSuccess["errno_protect"] = "msync" /\ OnError["errno_protect"] = "msync"
    /\ OnSuccess["msync"] = "loaded" /\ OnError["msync"] = "errno_msync"
    /\ OnSuccess["errno_msync"] = "loaded" /\ OnError["errno_msync"] = "loaded"
    /\ OnSuccess["munmap"] = "detach" /\ OnError["munmap"] = "detach"
    /\ OnSuccess["mmap_args"] = "copy_args" /\ OnError["mmap_args"] = "detach"
    /\ OnSuccess["mmap_bootstrap"] = "mprotect_bootstrap" /\ OnError["mmap_bootstrap"] = "detach"
    /\ OnSuccess["mmap_sce"] = "copy_funcs" /\ OnError["mmap_sce"] = "detach"
    /\ OnSuccess["stager"] = "detach" /\ OnError["stager"] = "detach"
    BY DEF OnSuccess, OnError

(* What they map.                                                           *)
LEMMA WhatMaps ==
    /\ DOMAIN Mapping = {"mmap_image", "mmap_args", "mmap_bootstrap", "mmap_sce"}
    /\ Mapping["mmap_image"] = "image" /\ Mapping["mmap_args"] = "args"
    /\ Mapping["mmap_bootstrap"] = "bootstrap" /\ Mapping["mmap_sce"] = "sce"
    /\ Region = {"image", "args", "bootstrap", "sce"}
    BY DEF Mapping, Region

(* Where a remote call returns to, and what is remembered of its failure.   *)
LEMMA Returned ==
    ASSUME NEW success \in BOOLEAN, pc \in Remote, error \in BOOLEAN, Returns(success)
    PROVE  /\ pc' = IF success THEN OnSuccess[pc] ELSE OnError[pc]
           /\ error' \in BOOLEAN
           /\ error' <=> error \/ (~success /\ pc \in {"protect", "msync"})
    BY DEF Returns

(* A remote call that failed, lost or not, leads on to a message, a second  *)
(* look at the error, or the way out.                                       *)
LEMMA FailedReturn ==
    ASSUME pc \in Remote, error \in BOOLEAN, Synced, Returns(FALSE)
    PROVE  Synced'
<1> USE DEF Synced, Out, Protecting, WithImage, WithArgs, WithBootstrap, WithStager, WithSce
<1>1. /\ pc' = OnError[pc]
      /\ error' \in BOOLEAN
      /\ error' <=> error \/ pc \in {"protect", "msync"}
    BY Returned
<1>2. pc' \in Out \cup {"errno_mmap"} \/ (pc' \in Protecting /\ error')
    BY <1>1, RemotePlaces, WhereNext
<1>3. pc' \notin WithImage BY <1>1, RemotePlaces, WhereNext
<1>4. pc' \in {"errno_protect", "errno_msync"} => error'
    BY <1>1, RemotePlaces, WhereNext
<1> QED BY <1>2, <1>3, <1>4

(* One that succeeded goes on where it was meant to.                        *)
LEMMA GoodReturn ==
    ASSUME pc \in Remote, error \in BOOLEAN, Synced, Returns(TRUE), unsynced' = unsynced
    PROVE  Synced'
<1> USE DEF Synced, Out, Protecting, WithImage, WithArgs, WithBootstrap, WithStager, WithSce
<1>1. /\ pc' = OnSuccess[pc]
      /\ error' \in BOOLEAN
      /\ error' <=> error
    BY Returned
<1>2. unsynced => pc' \in Out \/ (pc' \in Protecting /\ error')
    BY <1>1, RemotePlaces, WhereNext
<1>3. pc' \in WithImage => ~error' BY <1>1, RemotePlaces, WhereNext
<1>4. pc' \notin {"errno_protect", "errno_msync"}
    BY <1>1, RemotePlaces, WhereNext
<1>5. unsynced' => unsynced OBVIOUS
<1> QED BY <1>2, <1>3, <1>4, <1>5

(* Calls are made where they are made.                                      *)
LEMMA PlacesStep == TypeOK /\ IInv /\ [Next]_vars => Places'
<1> SUFFICES ASSUME TypeOK, IInv, [Next]_vars PROVE Places'
    OBVIOUS
<1>a. error \in BOOLEAN /\ ok \in BOOLEAN /\ result \in BOOLEAN /\ unsynced \in BOOLEAN
          /\ stray \in BOOLEAN /\ rax \in BOOLEAN /\ seg \in 1 .. NumSegments + 1
          /\ protected \subseteq Segment /\ mapped \subseteq Region
    BY DEF TypeOK
<1>b. Places BY DEF IInv
<1> USE <1>a, <1>b
<1> USE RemotePlaces, SegmentAssumption
<1> USE DEF Places, Segment, credVars, loadVars, callVars, memVars, history
<1>1. CASE MainRaises BY <1>1 DEF MainRaises, SetUcred
<1>2. CASE FindProcess BY <1>2 DEF FindProcess
<1>3. CASE MainRestores BY <1>3 DEF MainRestores, RestoreAuthid
<1>4. CASE InjectorRaises BY <1>4 DEF InjectorRaises, SetUcred
<1>5. CASE Attach BY <1>5 DEF Attach
<1>6. CASE AttachWait BY <1>6 DEF AttachWait
<1>7. CASE Resolve BY <1>7 DEF Resolve, Local, Fails
<1>8. CASE AllocateMirror BY <1>8 DEF AllocateMirror, Local, Fails
<1>9. CASE Relocate BY <1>9 DEF Relocate
<1>10. CASE CopyImage BY <1>10 DEF CopyImage
<1>11. CASE ProtectExecutable
    <2>1. rpc = "idle" BY <1>11 DEF ProtectExecutable
    <2>2. rpc' = "idle" BY <1>11, <2>1 DEF ProtectExecutable
    <2> QED BY <2>2
<1>12. CASE ProtectDone BY <1>12 DEF ProtectDone
<1>13. CASE Loaded BY <1>13 DEF Loaded
<1>14. CASE CopyArgs BY <1>14 DEF CopyArgs
<1>15. CASE ProtectBootstrap BY <1>15 DEF ProtectBootstrap, Local, Fails
<1>16. CASE CopyStager BY <1>16 DEF CopyStager, CopyTo, Fails
<1>17. CASE CopyFuncs BY <1>17 DEF CopyFuncs, CopyTo, Fails
<1>18. CASE Detach BY <1>18 DEF Detach
<1>19. CASE InjectorRestores BY <1>19 DEF InjectorRestores, RestoreAuthid
<1>20. CASE SaveRegs BY <1>20, WhereNext DEF SaveRegs, InRemoteCall, Returns
<1>21. CASE EnterFrame BY <1>21, WhereNext DEF EnterFrame, Errno, Returns
<1>22. CASE StepCall BY <1>22 DEF StepCall
<1>23. CASE StepFails BY <1>23, WhereNext DEF StepFails, LosesSync, Returns
<1>24. CASE Continue BY <1>24, WhereNext DEF Continue, LosesSync, Returns
<1>25. CASE WaitStager BY <1>25 DEF WaitStager
<1>26. CASE RestoreRegs BY <1>26, WhereNext DEF RestoreRegs, RemoteResult, Returns
<1>27. CASE RestoreRegsFails BY <1>27, WhereNext DEF RestoreRegsFails, LosesSync, Returns
<1>28. CASE WaitFails BY <1>28, WhereNext DEF WaitFails, LosesSync, Returns
<1>29. CASE StagerRuns BY <1>29 DEF StagerRuns
<1>30. CASE StrayTrap BY <1>30 DEF StrayTrap
<1>31. CASE UNCHANGED vars BY <1>31 DEF vars
<1> QED
    BY <1>1, <1>2, <1>3, <1>4, <1>5, <1>6, <1>7, <1>8, <1>9, <1>10, <1>11, <1>12,
       <1>13, <1>14, <1>15, <1>16, <1>17, <1>18, <1>19, <1>20, <1>21, <1>22, <1>23, <1>24,
       <1>25, <1>26, <1>27, <1>28, <1>29, <1>30, <1>31
    DEF Next, Main, Injector, RemoteCall

(* After a lost call nothing is started.                                    *)
LEMMA SyncedStep == TypeOK /\ IInv /\ [Next]_vars => Synced'
<1> SUFFICES ASSUME TypeOK, IInv, [Next]_vars PROVE Synced'
    OBVIOUS
<1>a. error \in BOOLEAN /\ ok \in BOOLEAN /\ result \in BOOLEAN /\ unsynced \in BOOLEAN
          /\ stray \in BOOLEAN /\ rax \in BOOLEAN /\ seg \in 1 .. NumSegments + 1
          /\ protected \subseteq Segment /\ mapped \subseteq Region
    BY DEF TypeOK
<1>b. Places /\ Synced BY DEF IInv
<1> USE <1>a, <1>b
<1> USE RemotePlaces, SegmentAssumption
<1> USE DEF Places, Synced, Out, Protecting, WithImage, WithArgs, WithBootstrap, WithStager,
          WithSce, credVars, loadVars, callVars, memVars, history
<1>1. CASE MainRaises BY <1>1 DEF MainRaises, SetUcred
<1>2. CASE FindProcess BY <1>2 DEF FindProcess
<1>3. CASE MainRestores BY <1>3 DEF MainRestores, RestoreAuthid
<1>4. CASE InjectorRaises BY <1>4 DEF InjectorRaises, SetUcred
<1>5. CASE Attach BY <1>5 DEF Attach
<1>6. CASE AttachWait BY <1>6 DEF AttachWait
<1>7. CASE Resolve BY <1>7 DEF Resolve, Local, Fails
<1>8. CASE AllocateMirror BY <1>8 DEF AllocateMirror, Local, Fails
<1>9. CASE Relocate BY <1>9 DEF Relocate
<1>10. CASE CopyImage BY <1>10 DEF CopyImage
<1>11. CASE ProtectExecutable BY <1>11 DEF ProtectExecutable
<1>12. CASE ProtectDone BY <1>12 DEF ProtectDone
<1>13. CASE Loaded BY <1>13 DEF Loaded
<1>14. CASE CopyArgs BY <1>14 DEF CopyArgs
<1>15. CASE ProtectBootstrap BY <1>15 DEF ProtectBootstrap, Local, Fails
<1>16. CASE CopyStager BY <1>16 DEF CopyStager, CopyTo, Fails
<1>17. CASE CopyFuncs BY <1>17 DEF CopyFuncs, CopyTo, Fails
<1>18. CASE Detach BY <1>18 DEF Detach
<1>19. CASE InjectorRestores BY <1>19 DEF InjectorRestores, RestoreAuthid
<1>20. CASE SaveRegs
    <2>1. CASE UNCHANGED <<pc, error, unsynced>> BY <2>1
    <2>2. CASE ~UNCHANGED <<pc, error, unsynced>>
        <3>1. pc \in Remote /\ Returns(FALSE) BY <1>20, <2>2 DEF SaveRegs, InRemoteCall
        <3> QED BY <3>1, FailedReturn
    <2> QED BY <2>1, <2>2
<1>21. CASE EnterFrame
    <2>1. CASE UNCHANGED <<pc, error, unsynced>> BY <2>1
    <2>2. CASE ~UNCHANGED <<pc, error, unsynced>>
        <3>1. pc \in Remote /\ Returns(FALSE) BY <1>21, <2>2 DEF EnterFrame
        <3> QED BY <3>1, FailedReturn
    <2> QED BY <2>1, <2>2
<1>22. CASE StepCall BY <1>22 DEF StepCall
<1>23. CASE StepFails
    <2>1. pc \in Remote /\ Returns(FALSE) BY <1>23 DEF StepFails, LosesSync
    <2> QED BY <2>1, FailedReturn
<1>24. CASE Continue BY <1>24, WhereNext DEF Continue, LosesSync, Returns
<1>25. CASE WaitStager BY <1>25 DEF WaitStager
<1>26. CASE RestoreRegs
    <2>1. pc \in Remote /\ unsynced' = unsynced BY <1>26 DEF RestoreRegs
    <2>2. CASE RemoteResult
        <3>1. Returns(TRUE) BY <1>26, <2>2 DEF RestoreRegs, Returns
        <3> QED BY <2>1, <3>1, GoodReturn
    <2>3. CASE ~RemoteResult
        <3>1. Returns(FALSE) BY <1>26, <2>3 DEF RestoreRegs, Returns
        <3> QED BY <2>1, <3>1, FailedReturn
    <2> QED BY <2>2, <2>3
<1>27. CASE RestoreRegsFails
    <2>1. pc \in Remote /\ Returns(FALSE) BY <1>27 DEF RestoreRegsFails, LosesSync
    <2> QED BY <2>1, FailedReturn
<1>28. CASE WaitFails
    <2>1. pc \in Remote /\ Returns(FALSE) BY <1>28 DEF WaitFails, LosesSync
    <2> QED BY <2>1, FailedReturn
<1>29. CASE StagerRuns BY <1>29 DEF StagerRuns
<1>30. CASE StrayTrap BY <1>30 DEF StrayTrap
<1>31. CASE UNCHANGED vars BY <1>31 DEF vars
<1> QED
    BY <1>1, <1>2, <1>3, <1>4, <1>5, <1>6, <1>7, <1>8, <1>9, <1>10, <1>11, <1>12,
       <1>13, <1>14, <1>15, <1>16, <1>17, <1>18, <1>19, <1>20, <1>21, <1>22, <1>23, <1>24,
       <1>25, <1>26, <1>27, <1>28, <1>29, <1>30, <1>31
    DEF Next, Main, Injector, RemoteCall

(* The loader knows whose frame the target has, unless a call was lost.     *)
LEMMA FramesStep == TypeOK /\ IInv /\ [Next]_vars => Frames'
<1> SUFFICES ASSUME TypeOK, IInv, [Next]_vars PROVE Frames'
    OBVIOUS
<1>a. error \in BOOLEAN /\ ok \in BOOLEAN /\ result \in BOOLEAN /\ unsynced \in BOOLEAN
          /\ stray \in BOOLEAN /\ rax \in BOOLEAN /\ seg \in 1 .. NumSegments + 1
          /\ protected \subseteq Segment /\ mapped \subseteq Region
    BY DEF TypeOK
<1>b. Places /\ Synced /\ Frames BY DEF IInv
<1> USE <1>a, <1>b
<1> USE RemotePlaces, SegmentAssumption
<1> USE DEF Places, Synced, Frames, Late, Out, Protecting, WithImage, WithArgs, WithBootstrap,
          WithStager, WithSce, credVars, loadVars, callVars, memVars, history
<1>1. CASE MainRaises BY <1>1 DEF MainRaises, SetUcred
<1>2. CASE FindProcess BY <1>2 DEF FindProcess
<1>3. CASE MainRestores BY <1>3 DEF MainRestores, RestoreAuthid
<1>4. CASE InjectorRaises BY <1>4 DEF InjectorRaises, SetUcred
<1>5. CASE Attach BY <1>5 DEF Attach
<1>6. CASE AttachWait BY <1>6 DEF AttachWait
<1>7. CASE Resolve BY <1>7 DEF Resolve, Local, Fails
<1>8. CASE AllocateMirror BY <1>8 DEF AllocateMirror, Local, Fails
<1>9. CASE Relocate BY <1>9 DEF Relocate
<1>10. CASE CopyImage BY <1>10 DEF CopyImage
<1>11. CASE ProtectExecutable BY <1>11 DEF ProtectExecutable
<1>12. CASE ProtectDone BY <1>12 DEF ProtectDone
<1>13. CASE Loaded BY <1>13 DEF Loaded
<1>14. CASE CopyArgs BY <1>14 DEF CopyArgs
<1>15. CASE ProtectBootstrap BY <1>15 DEF ProtectBootstrap, Local, Fails
<1>16. CASE CopyStager BY <1>16 DEF CopyStager, CopyTo, Fails
<1>17. CASE CopyFuncs BY <1>17 DEF CopyFuncs, CopyTo, Fails
<1>18. CASE Detach BY <1>18 DEF Detach
<1>19. CASE InjectorRestores BY <1>19 DEF InjectorRestores, RestoreAuthid
<1>20. CASE SaveRegs BY <1>20, WhereNext DEF SaveRegs, InRemoteCall, Returns
<1>21. CASE EnterFrame BY <1>21, WhereNext DEF EnterFrame, Errno, Returns
<1>22. CASE StepCall BY <1>22 DEF StepCall
<1>23. CASE StepFails BY <1>23, WhereNext DEF StepFails, LosesSync, Returns
<1>24. CASE Continue BY <1>24, WhereNext DEF Continue, LosesSync, Returns
<1>25. CASE WaitStager BY <1>25 DEF WaitStager
<1>26. CASE RestoreRegs BY <1>26, WhereNext DEF RestoreRegs, RemoteResult, Returns
<1>27. CASE RestoreRegsFails BY <1>27, WhereNext DEF RestoreRegsFails, LosesSync, Returns
<1>28. CASE WaitFails BY <1>28, WhereNext DEF WaitFails, LosesSync, Returns
<1>29. CASE StagerRuns BY <1>29 DEF StagerRuns
<1>30. CASE StrayTrap BY <1>30 DEF StrayTrap
<1>31. CASE UNCHANGED vars BY <1>31 DEF vars
<1> QED
    BY <1>1, <1>2, <1>3, <1>4, <1>5, <1>6, <1>7, <1>8, <1>9, <1>10, <1>11, <1>12,
       <1>13, <1>14, <1>15, <1>16, <1>17, <1>18, <1>19, <1>20, <1>21, <1>22, <1>23, <1>24,
       <1>25, <1>26, <1>27, <1>28, <1>29, <1>30, <1>31
    DEF Next, Main, Injector, RemoteCall

(* The target stays held until it is let go.                                *)
LEMMA HoldingStep == TypeOK /\ IInv /\ [Next]_vars => Holding'
<1> SUFFICES ASSUME TypeOK, IInv, [Next]_vars PROVE Holding'
    OBVIOUS
<1>a. error \in BOOLEAN /\ ok \in BOOLEAN /\ result \in BOOLEAN /\ unsynced \in BOOLEAN
          /\ stray \in BOOLEAN /\ rax \in BOOLEAN /\ seg \in 1 .. NumSegments + 1
          /\ protected \subseteq Segment /\ mapped \subseteq Region
    BY DEF TypeOK
<1>b. Places /\ Holding BY DEF IInv
<1> USE <1>a, <1>b
<1> USE RemotePlaces, SegmentAssumption
<1> USE DEF Places, Holding, Held, credVars, loadVars, callVars, memVars, history
<1>1. CASE MainRaises BY <1>1 DEF MainRaises, SetUcred
<1>2. CASE FindProcess BY <1>2 DEF FindProcess
<1>3. CASE MainRestores BY <1>3 DEF MainRestores, RestoreAuthid
<1>4. CASE InjectorRaises BY <1>4 DEF InjectorRaises, SetUcred
<1>5. CASE Attach BY <1>5 DEF Attach
<1>6. CASE AttachWait BY <1>6 DEF AttachWait
<1>7. CASE Resolve BY <1>7 DEF Resolve, Local, Fails
<1>8. CASE AllocateMirror BY <1>8 DEF AllocateMirror, Local, Fails
<1>9. CASE Relocate BY <1>9 DEF Relocate
<1>10. CASE CopyImage BY <1>10 DEF CopyImage
<1>11. CASE ProtectExecutable BY <1>11 DEF ProtectExecutable
<1>12. CASE ProtectDone BY <1>12 DEF ProtectDone
<1>13. CASE Loaded BY <1>13 DEF Loaded
<1>14. CASE CopyArgs BY <1>14 DEF CopyArgs
<1>15. CASE ProtectBootstrap BY <1>15 DEF ProtectBootstrap, Local, Fails
<1>16. CASE CopyStager BY <1>16 DEF CopyStager, CopyTo, Fails
<1>17. CASE CopyFuncs BY <1>17 DEF CopyFuncs, CopyTo, Fails
<1>18. CASE Detach BY <1>18 DEF Detach
<1>19. CASE InjectorRestores BY <1>19 DEF InjectorRestores, RestoreAuthid
<1>20. CASE SaveRegs BY <1>20, WhereNext DEF SaveRegs, InRemoteCall, Returns
<1>21. CASE EnterFrame BY <1>21, WhereNext DEF EnterFrame, Errno, Returns
<1>22. CASE StepCall BY <1>22 DEF StepCall
<1>23. CASE StepFails BY <1>23, WhereNext DEF StepFails, LosesSync, Returns
<1>24. CASE Continue BY <1>24, WhereNext DEF Continue, LosesSync, Returns
<1>25. CASE WaitStager BY <1>25 DEF WaitStager
<1>26. CASE RestoreRegs BY <1>26, WhereNext DEF RestoreRegs, RemoteResult, Returns
<1>27. CASE RestoreRegsFails BY <1>27, WhereNext DEF RestoreRegsFails, LosesSync, Returns
<1>28. CASE WaitFails BY <1>28, WhereNext DEF WaitFails, LosesSync, Returns
<1>29. CASE StagerRuns BY <1>29 DEF StagerRuns
<1>30. CASE StrayTrap BY <1>30 DEF StrayTrap
<1>31. CASE UNCHANGED vars BY <1>31 DEF vars
<1> QED
    BY <1>1, <1>2, <1>3, <1>4, <1>5, <1>6, <1>7, <1>8, <1>9, <1>10, <1>11, <1>12,
       <1>13, <1>14, <1>15, <1>16, <1>17, <1>18, <1>19, <1>20, <1>21, <1>22, <1>23, <1>24,
       <1>25, <1>26, <1>27, <1>28, <1>29, <1>30, <1>31
    DEF Next, Main, Injector, RemoteCall

(* What main has saved stays what it had.                                   *)
LEMMA CredentialsStep == TypeOK /\ IInv /\ [Next]_vars => Credentials'
<1> SUFFICES ASSUME TypeOK, IInv, [Next]_vars PROVE Credentials'
    OBVIOUS
<1>a. error \in BOOLEAN /\ ok \in BOOLEAN /\ result \in BOOLEAN /\ unsynced \in BOOLEAN
          /\ stray \in BOOLEAN /\ rax \in BOOLEAN /\ seg \in 1 .. NumSegments + 1
          /\ protected \subseteq Segment /\ mapped \subseteq Region
    BY DEF TypeOK
<1>b. Places /\ Credentials BY DEF IInv
<1> USE <1>a, <1>b
<1> USE RemotePlaces, SegmentAssumption
<1> USE DEF Places, Credentials, CredentialsRestored, credVars, loadVars, callVars, memVars, history
<1>1. CASE MainRaises BY <1>1 DEF MainRaises, SetUcred
<1>2. CASE FindProcess BY <1>2 DEF FindProcess
<1>3. CASE MainRestores BY <1>3 DEF MainRestores, RestoreAuthid
<1>4. CASE InjectorRaises BY <1>4 DEF InjectorRaises, SetUcred
<1>5. CASE Attach BY <1>5 DEF Attach
<1>6. CASE AttachWait BY <1>6 DEF AttachWait
<1>7. CASE Resolve BY <1>7 DEF Resolve, Local, Fails
<1>8. CASE AllocateMirror BY <1>8 DEF AllocateMirror, Local, Fails
<1>9. CASE Relocate BY <1>9 DEF Relocate
<1>10. CASE CopyImage BY <1>10 DEF CopyImage
<1>11. CASE ProtectExecutable BY <1>11 DEF ProtectExecutable
<1>12. CASE ProtectDone BY <1>12 DEF ProtectDone
<1>13. CASE Loaded BY <1>13 DEF Loaded
<1>14. CASE CopyArgs BY <1>14 DEF CopyArgs
<1>15. CASE ProtectBootstrap BY <1>15 DEF ProtectBootstrap, Local, Fails
<1>16. CASE CopyStager BY <1>16 DEF CopyStager, CopyTo, Fails
<1>17. CASE CopyFuncs BY <1>17 DEF CopyFuncs, CopyTo, Fails
<1>18. CASE Detach BY <1>18 DEF Detach
<1>19. CASE InjectorRestores BY <1>19 DEF InjectorRestores, RestoreAuthid
<1>20. CASE SaveRegs BY <1>20, WhereNext DEF SaveRegs, InRemoteCall, Returns
<1>21. CASE EnterFrame BY <1>21, WhereNext DEF EnterFrame, Errno, Returns
<1>22. CASE StepCall BY <1>22 DEF StepCall
<1>23. CASE StepFails BY <1>23, WhereNext DEF StepFails, LosesSync, Returns
<1>24. CASE Continue BY <1>24, WhereNext DEF Continue, LosesSync, Returns
<1>25. CASE WaitStager BY <1>25 DEF WaitStager
<1>26. CASE RestoreRegs BY <1>26, WhereNext DEF RestoreRegs, RemoteResult, Returns
<1>27. CASE RestoreRegsFails BY <1>27, WhereNext DEF RestoreRegsFails, LosesSync, Returns
<1>28. CASE WaitFails BY <1>28, WhereNext DEF WaitFails, LosesSync, Returns
<1>29. CASE StagerRuns BY <1>29 DEF StagerRuns
<1>30. CASE StrayTrap BY <1>30 DEF StrayTrap
<1>31. CASE UNCHANGED vars BY <1>31 DEF vars
<1> QED
    BY <1>1, <1>2, <1>3, <1>4, <1>5, <1>6, <1>7, <1>8, <1>9, <1>10, <1>11, <1>12,
       <1>13, <1>14, <1>15, <1>16, <1>17, <1>18, <1>19, <1>20, <1>21, <1>22, <1>23, <1>24,
       <1>25, <1>26, <1>27, <1>28, <1>29, <1>30, <1>31
    DEF Next, Main, Injector, RemoteCall

(* Each step adds what the next one relies on.                              *)
LEMMA MemoryStep == TypeOK /\ IInv /\ [Next]_vars => Memory'
<1> SUFFICES ASSUME TypeOK, IInv, [Next]_vars PROVE Memory'
    OBVIOUS
<1>a. error \in BOOLEAN /\ ok \in BOOLEAN /\ result \in BOOLEAN /\ unsynced \in BOOLEAN
          /\ stray \in BOOLEAN /\ rax \in BOOLEAN /\ seg \in 1 .. NumSegments + 1
          /\ protected \subseteq Segment /\ mapped \subseteq Region
    BY DEF TypeOK
<1>b. Places /\ Synced /\ Memory BY DEF IInv
<1> USE <1>a, <1>b
<1> USE RemotePlaces, SegmentAssumption
<1> USE DEF Places, Synced, Memory, Out, Segment, Protecting, WithImage, WithArgs, WithBootstrap,
          WithStager, WithSce, credVars, loadVars, callVars, memVars, history
<1>1. CASE MainRaises BY <1>1 DEF MainRaises, SetUcred
<1>2. CASE FindProcess BY <1>2 DEF FindProcess
<1>3. CASE MainRestores BY <1>3 DEF MainRestores, RestoreAuthid
<1>4. CASE InjectorRaises BY <1>4 DEF InjectorRaises, SetUcred
<1>5. CASE Attach BY <1>5 DEF Attach
<1>6. CASE AttachWait BY <1>6 DEF AttachWait
<1>7. CASE Resolve BY <1>7 DEF Resolve, Local, Fails
<1>8. CASE AllocateMirror BY <1>8 DEF AllocateMirror, Local, Fails
<1>9. CASE Relocate BY <1>9 DEF Relocate
<1>10. CASE CopyImage BY <1>10 DEF CopyImage
<1>11. CASE ProtectExecutable BY <1>11 DEF ProtectExecutable
<1>12. CASE ProtectDone BY <1>12 DEF ProtectDone
<1>13. CASE Loaded
    <2>1. CASE error BY <1>13, <2>1 DEF Loaded
    <2>2. CASE ~error
        <3>1. seg = NumSegments + 1 BY <1>13, <2>2 DEF Loaded
        <3>2. \A s \in Segment : s \in protected BY <3>1
        <3>3. protected = Segment BY <3>2
        <3> QED BY <1>13, <2>2, <3>3 DEF Loaded
    <2> QED BY <2>1, <2>2
<1>14. CASE CopyArgs BY <1>14 DEF CopyArgs
<1>15. CASE ProtectBootstrap BY <1>15 DEF ProtectBootstrap, Local, Fails
<1>16. CASE CopyStager BY <1>16 DEF CopyStager, CopyTo, Fails
<1>17. CASE CopyFuncs BY <1>17 DEF CopyFuncs, CopyTo, Fails
<1>18. CASE Detach BY <1>18 DEF Detach
<1>19. CASE InjectorRestores BY <1>19 DEF InjectorRestores, RestoreAuthid
<1>20. CASE SaveRegs BY <1>20, WhereNext, WhatMaps DEF SaveRegs, InRemoteCall, Returns
<1>21. CASE EnterFrame BY <1>21, WhereNext, WhatMaps DEF EnterFrame, Errno, Returns
<1>22. CASE StepCall BY <1>22, WhatMaps DEF StepCall
<1>23. CASE StepFails BY <1>23, WhereNext, WhatMaps DEF StepFails, LosesSync, Returns
<1>24. CASE Continue BY <1>24, WhereNext DEF Continue, LosesSync, Returns
<1>25. CASE WaitStager BY <1>25, WhatMaps DEF WaitStager
<1>26. CASE RestoreRegs BY <1>26, WhereNext, WhatMaps DEF RestoreRegs, RemoteResult, Returns
<1>27. CASE RestoreRegsFails BY <1>27, WhereNext DEF RestoreRegsFails, LosesSync, Returns
<1>28. CASE WaitFails BY <1>28, WhereNext DEF WaitFails, LosesSync, Returns
<1>29. CASE StagerRuns BY <1>29 DEF StagerRuns
<1>30. CASE StrayTrap BY <1>30, WhatMaps DEF StrayTrap
<1>31. CASE UNCHANGED vars BY <1>31 DEF vars
<1> QED
    BY <1>1, <1>2, <1>3, <1>4, <1>5, <1>6, <1>7, <1>8, <1>9, <1>10, <1>11, <1>12,
       <1>13, <1>14, <1>15, <1>16, <1>17, <1>18, <1>19, <1>20, <1>21, <1>22, <1>23, <1>24,
       <1>25, <1>26, <1>27, <1>28, <1>29, <1>30, <1>31
    DEF Next, Main, Injector, RemoteCall

(* The stager is started when everything is there.                          *)
LEMMA StartedStep == TypeOK /\ IInv /\ [Next]_vars => Started'
<1> SUFFICES ASSUME TypeOK, IInv, [Next]_vars PROVE Started'
    OBVIOUS
<1>a. error \in BOOLEAN /\ ok \in BOOLEAN /\ result \in BOOLEAN /\ unsynced \in BOOLEAN
          /\ stray \in BOOLEAN /\ rax \in BOOLEAN /\ seg \in 1 .. NumSegments + 1
          /\ protected \subseteq Segment /\ mapped \subseteq Region
    BY DEF TypeOK
<1>b. Places /\ Synced /\ Frames /\ Memory /\ Started BY DEF IInv
<1> USE <1>a, <1>b
<1> USE RemotePlaces, SegmentAssumption
<1> USE DEF Places, Synced, Frames, Memory, Started, Ready, Late, Out, Segment, Protecting,
          WithImage, WithArgs, WithBootstrap, WithStager, WithSce, credVars, loadVars, callVars,
          memVars, history
<1>1. CASE MainRaises BY <1>1 DEF MainRaises, SetUcred
<1>2. CASE FindProcess BY <1>2 DEF FindProcess
<1>3. CASE MainRestores BY <1>3 DEF MainRestores, RestoreAuthid
<1>4. CASE InjectorRaises BY <1>4 DEF InjectorRaises, SetUcred
<1>5. CASE Attach BY <1>5 DEF Attach
<1>6. CASE AttachWait BY <1>6 DEF AttachWait
<1>7. CASE Resolve BY <1>7 DEF Resolve, Local, Fails
<1>8. CASE AllocateMirror BY <1>8 DEF AllocateMirror, Local, Fails
<1>9. CASE Relocate BY <1>9 DEF Relocate
<1>10. CASE CopyImage BY <1>10 DEF CopyImage
<1>11. CASE ProtectExecutable BY <1>11 DEF ProtectExecutable
<1>12. CASE ProtectDone BY <1>12 DEF ProtectDone
<1>13. CASE Loaded BY <1>13 DEF Loaded
<1>14. CASE CopyArgs BY <1>14 DEF CopyArgs
<1>15. CASE ProtectBootstrap BY <1>15 DEF ProtectBootstrap, Local, Fails
<1>16. CASE CopyStager BY <1>16 DEF CopyStager, CopyTo, Fails
<1>17. CASE CopyFuncs BY <1>17, WhatMaps DEF CopyFuncs, CopyTo, Fails
<1>18. CASE Detach BY <1>18 DEF Detach
<1>19. CASE InjectorRestores BY <1>19 DEF InjectorRestores, RestoreAuthid
<1>20. CASE SaveRegs BY <1>20, WhereNext, WhatMaps DEF SaveRegs, InRemoteCall, Returns
<1>21. CASE EnterFrame
    <2>1. CASE pc = "stager"
        <3>1. mapped = Region BY <2>1, WhatMaps
        <3>2. {"relocated", "image", "args", "bootstrap", "sce"} \subseteq whole \cup unheeded
            BY <2>1
        <3>3. protected = Segment BY <2>1
        <3>4. frame' # "trapped" \/ payload # "none" BY <1>21, <2>1 DEF EnterFrame
        <3>5. pc' \in {"stager", "detach"} BY <1>21, <2>1, WhereNext DEF EnterFrame, Errno, Returns
        <3>6. UNCHANGED <<mapped, whole, unheeded, protected, payload>> BY <1>21 DEF EnterFrame
        <3> QED BY <3>1, <3>2, <3>3, <3>4, <3>5, <3>6
    <2>2. CASE pc # "stager" BY <1>21, <2>2, WhereNext DEF EnterFrame, Errno, Returns
    <2> QED BY <2>1, <2>2
<1>22. CASE StepCall BY <1>22, WhatMaps DEF StepCall
<1>23. CASE StepFails BY <1>23, WhereNext, WhatMaps DEF StepFails, LosesSync, Returns
<1>24. CASE Continue BY <1>24, WhereNext DEF Continue, LosesSync, Returns
<1>25. CASE WaitStager BY <1>25, WhatMaps DEF WaitStager
<1>26. CASE RestoreRegs BY <1>26, WhereNext, WhatMaps DEF RestoreRegs, RemoteResult, Returns
<1>27. CASE RestoreRegsFails BY <1>27, WhereNext DEF RestoreRegsFails, LosesSync, Returns
<1>28. CASE WaitFails BY <1>28, WhereNext DEF WaitFails, LosesSync, Returns
<1>29. CASE StagerRuns BY <1>29, WhatMaps DEF StagerRuns
<1>30. CASE StrayTrap BY <1>30 DEF StrayTrap
<1>31. CASE UNCHANGED vars BY <1>31 DEF vars
<1> QED
    BY <1>1, <1>2, <1>3, <1>4, <1>5, <1>6, <1>7, <1>8, <1>9, <1>10, <1>11, <1>12,
       <1>13, <1>14, <1>15, <1>16, <1>17, <1>18, <1>19, <1>20, <1>21, <1>22, <1>23, <1>24,
       <1>25, <1>26, <1>27, <1>28, <1>29, <1>30, <1>31
    DEF Next, Main, Injector, RemoteCall

(* What main reports is what the stager did.                                *)
LEMMA OutcomeStep == TypeOK /\ IInv /\ [Next]_vars => Outcome'
<1> SUFFICES ASSUME TypeOK, IInv, [Next]_vars PROVE Outcome'
    OBVIOUS
<1>a. error \in BOOLEAN /\ ok \in BOOLEAN /\ result \in BOOLEAN /\ unsynced \in BOOLEAN
          /\ stray \in BOOLEAN /\ rax \in BOOLEAN /\ seg \in 1 .. NumSegments + 1
          /\ protected \subseteq Segment /\ mapped \subseteq Region
    BY DEF TypeOK
<1>b. Places /\ Synced /\ Frames /\ Started /\ Outcome BY DEF IInv
<1> USE <1>a, <1>b
<1> USE RemotePlaces, SegmentAssumption
<1> USE DEF Places, Synced, Frames, Started, Outcome, Late, Out, Protecting, WithImage, WithArgs,
          WithBootstrap, WithStager, WithSce, credVars, loadVars, callVars, memVars, history
<1>1. CASE MainRaises BY <1>1 DEF MainRaises, SetUcred
<1>2. CASE FindProcess BY <1>2 DEF FindProcess
<1>3. CASE MainRestores BY <1>3 DEF MainRestores, RestoreAuthid
<1>4. CASE InjectorRaises BY <1>4 DEF InjectorRaises, SetUcred
<1>5. CASE Attach BY <1>5 DEF Attach
<1>6. CASE AttachWait BY <1>6 DEF AttachWait
<1>7. CASE Resolve BY <1>7 DEF Resolve, Local, Fails
<1>8. CASE AllocateMirror BY <1>8 DEF AllocateMirror, Local, Fails
<1>9. CASE Relocate BY <1>9 DEF Relocate
<1>10. CASE CopyImage BY <1>10 DEF CopyImage
<1>11. CASE ProtectExecutable BY <1>11 DEF ProtectExecutable
<1>12. CASE ProtectDone BY <1>12 DEF ProtectDone
<1>13. CASE Loaded BY <1>13 DEF Loaded
<1>14. CASE CopyArgs BY <1>14 DEF CopyArgs
<1>15. CASE ProtectBootstrap BY <1>15 DEF ProtectBootstrap, Local, Fails
<1>16. CASE CopyStager BY <1>16 DEF CopyStager, CopyTo, Fails
<1>17. CASE CopyFuncs BY <1>17 DEF CopyFuncs, CopyTo, Fails
<1>18. CASE Detach BY <1>18 DEF Detach
<1>19. CASE InjectorRestores BY <1>19 DEF InjectorRestores, RestoreAuthid
<1>20. CASE SaveRegs BY <1>20, WhereNext DEF SaveRegs, InRemoteCall, Returns
<1>21. CASE EnterFrame BY <1>21, WhereNext DEF EnterFrame, Errno, Returns
<1>22. CASE StepCall BY <1>22 DEF StepCall
<1>23. CASE StepFails BY <1>23, WhereNext DEF StepFails, LosesSync, Returns
<1>24. CASE Continue BY <1>24, WhereNext DEF Continue, LosesSync, Returns
<1>25. CASE WaitStager BY <1>25 DEF WaitStager
<1>26. CASE RestoreRegs BY <1>26, WhereNext DEF RestoreRegs, RemoteResult, Returns
<1>27. CASE RestoreRegsFails BY <1>27, WhereNext DEF RestoreRegsFails, LosesSync, Returns
<1>28. CASE WaitFails BY <1>28, WhereNext DEF WaitFails, LosesSync, Returns
<1>29. CASE StagerRuns BY <1>29 DEF StagerRuns
<1>30. CASE StrayTrap BY <1>30 DEF StrayTrap
<1>31. CASE UNCHANGED vars BY <1>31 DEF vars
<1> QED
    BY <1>1, <1>2, <1>3, <1>4, <1>5, <1>6, <1>7, <1>8, <1>9, <1>10, <1>11, <1>12,
       <1>13, <1>14, <1>15, <1>16, <1>17, <1>18, <1>19, <1>20, <1>21, <1>22, <1>23, <1>24,
       <1>25, <1>26, <1>27, <1>28, <1>29, <1>30, <1>31
    DEF Next, Main, Injector, RemoteCall
-----------------------------------------------------------------------------
(* The type invariant in parts of one kind of value each.                   *)
Elsewhere == {"main", "find", "raise", "attach", "attachwait", "resolve", "load",
                    "relocate", "copy_image", "loaded", "copy_args", "mprotect_bootstrap",
                    "copy_stager", "copy_funcs", "detach", "restore", "main_restore", "done"}
PlaceType == pc \in Remote \cup Elsewhere
CallType ==
    /\ rpc \in {"idle", "setregs", "step", "astray", "continue", "waitpid", "restore"}
    /\ bak_reg \in Frame /\ frame \in Frame
CredType ==
    /\ authid \in {"own", "ptrace"}
    /\ orig_authid \in {"none", "own", "ptrace"}
    /\ original_authid \in {"none", "own", "ptrace"}
ReportType ==
    /\ payload \in {"none", "refused", "running"}
    /\ report \in {"none", "failed", "active"}
FlagType ==
    /\ error \in BOOLEAN /\ ok \in BOOLEAN /\ result \in BOOLEAN
    /\ traced \in BOOLEAN /\ rax \in BOOLEAN
HistoryType ==
    /\ unsynced \in BOOLEAN /\ unattached \in BOOLEAN
    /\ undetached \in BOOLEAN /\ unrestored \in BOOLEAN /\ stray \in BOOLEAN
SegType == seg \in 1 .. NumSegments + 1
MemType ==
    /\ mapped \in SUBSET Region
    /\ whole \in SUBSET {"relocated", "image", "args", "bootstrap", "sce"}
    /\ unheeded \in SUBSET {"relocated", "args"}
    /\ protected \in SUBSET Segment

(* They are the type invariant.                                             *)
LEMMA TypeParts ==
    TypeOK <=> /\ PlaceType /\ CallType /\ CredType /\ ReportType
               /\ FlagType /\ HistoryType /\ SegType /\ MemType
    BY DEF TypeOK, PlaceType, Elsewhere, CallType, CredType, ReportType, FlagType, HistoryType,
              SegType,
           MemType

(* The loader stays at its places.                                          *)
LEMMA PlaceTypeStep == TypeOK /\ IInv /\ [Next]_vars => PlaceType'
<1> SUFFICES ASSUME TypeOK, IInv, [Next]_vars PROVE PlaceType'
    OBVIOUS
<1>b. Places /\ PlaceType BY TypeParts DEF IInv
<1> USE <1>b
<1> USE RemotePlaces, SegmentAssumption
<1> USE DEF PlaceType, Places, Elsewhere, credVars, loadVars, callVars, memVars, history
<1>1. CASE MainRaises BY <1>1 DEF MainRaises, SetUcred
<1>2. CASE FindProcess BY <1>2 DEF FindProcess
<1>3. CASE MainRestores BY <1>3 DEF MainRestores, RestoreAuthid
<1>4. CASE InjectorRaises BY <1>4 DEF InjectorRaises, SetUcred
<1>5. CASE Attach BY <1>5 DEF Attach
<1>6. CASE AttachWait BY <1>6 DEF AttachWait
<1>7. CASE Resolve BY <1>7 DEF Resolve, Local, Fails
<1>8. CASE AllocateMirror BY <1>8 DEF AllocateMirror, Local, Fails
<1>9. CASE Relocate BY <1>9 DEF Relocate
<1>10. CASE CopyImage BY <1>10 DEF CopyImage
<1>11. CASE ProtectExecutable BY <1>11 DEF ProtectExecutable
<1>12. CASE ProtectDone BY <1>12 DEF ProtectDone
<1>13. CASE Loaded BY <1>13 DEF Loaded
<1>14. CASE CopyArgs BY <1>14 DEF CopyArgs
<1>15. CASE ProtectBootstrap BY <1>15 DEF ProtectBootstrap, Local, Fails
<1>16. CASE CopyStager BY <1>16 DEF CopyStager, CopyTo, Fails
<1>17. CASE CopyFuncs BY <1>17 DEF CopyFuncs, CopyTo, Fails
<1>18. CASE Detach BY <1>18 DEF Detach
<1>19. CASE InjectorRestores BY <1>19 DEF InjectorRestores, RestoreAuthid
<1>20. CASE SaveRegs BY <1>20, WhereNext DEF SaveRegs, InRemoteCall, Returns
<1>21. CASE EnterFrame BY <1>21, WhereNext DEF EnterFrame, Errno, Returns
<1>22. CASE StepCall BY <1>22 DEF StepCall
<1>23. CASE StepFails BY <1>23, WhereNext DEF StepFails, LosesSync, Returns
<1>24. CASE Continue BY <1>24, WhereNext DEF Continue, LosesSync, Returns
<1>25. CASE WaitStager BY <1>25 DEF WaitStager
<1>26. CASE RestoreRegs BY <1>26, WhereNext DEF RestoreRegs, RemoteResult, Returns
<1>27. CASE RestoreRegsFails BY <1>27, WhereNext DEF RestoreRegsFails, LosesSync, Returns
<1>28. CASE WaitFails BY <1>28, WhereNext DEF WaitFails, LosesSync, Returns
<1>29. CASE StagerRuns BY <1>29 DEF StagerRuns
<1>30. CASE StrayTrap BY <1>30 DEF StrayTrap
<1>31. CASE UNCHANGED vars BY <1>31 DEF vars
<1> QED
    BY <1>1, <1>2, <1>3, <1>4, <1>5, <1>6, <1>7, <1>8, <1>9, <1>10, <1>11, <1>12,
       <1>13, <1>14, <1>15, <1>16, <1>17, <1>18, <1>19, <1>20, <1>21, <1>22, <1>23, <1>24,
       <1>25, <1>26, <1>27, <1>28, <1>29, <1>30, <1>31
    DEF Next, Main, Injector, RemoteCall

(* Remote calls have their steps and frames.                                *)
LEMMA CallTypeStep == TypeOK /\ IInv /\ [Next]_vars => CallType'
<1> SUFFICES ASSUME TypeOK, IInv, [Next]_vars PROVE CallType'
    OBVIOUS
<1>b. Places /\ CallType BY TypeParts DEF IInv
<1> USE <1>b
<1> USE RemotePlaces, SegmentAssumption
<1> USE DEF CallType, Places, Frame, credVars, loadVars, callVars, memVars, history
<1>1. CASE MainRaises BY <1>1 DEF MainRaises, SetUcred
<1>2. CASE FindProcess BY <1>2 DEF FindProcess
<1>3. CASE MainRestores BY <1>3 DEF MainRestores, RestoreAuthid
<1>4. CASE InjectorRaises BY <1>4 DEF InjectorRaises, SetUcred
<1>5. CASE Attach BY <1>5 DEF Attach
<1>6. CASE AttachWait BY <1>6 DEF AttachWait
<1>7. CASE Resolve BY <1>7 DEF Resolve, Local, Fails
<1>8. CASE AllocateMirror BY <1>8 DEF AllocateMirror, Local, Fails
<1>9. CASE Relocate BY <1>9 DEF Relocate
<1>10. CASE CopyImage BY <1>10 DEF CopyImage
<1>11. CASE ProtectExecutable BY <1>11 DEF ProtectExecutable
<1>12. CASE ProtectDone BY <1>12 DEF ProtectDone
<1>13. CASE Loaded BY <1>13 DEF Loaded
<1>14. CASE CopyArgs BY <1>14 DEF CopyArgs
<1>15. CASE ProtectBootstrap BY <1>15 DEF ProtectBootstrap, Local, Fails
<1>16. CASE CopyStager BY <1>16 DEF CopyStager, CopyTo, Fails
<1>17. CASE CopyFuncs BY <1>17 DEF CopyFuncs, CopyTo, Fails
<1>18. CASE Detach BY <1>18 DEF Detach
<1>19. CASE InjectorRestores BY <1>19 DEF InjectorRestores, RestoreAuthid
<1>20. CASE SaveRegs BY <1>20, WhereNext DEF SaveRegs, InRemoteCall, Returns
<1>21. CASE EnterFrame BY <1>21, WhereNext DEF EnterFrame, Errno, Returns
<1>22. CASE StepCall BY <1>22 DEF StepCall
<1>23. CASE StepFails BY <1>23, WhereNext DEF StepFails, LosesSync, Returns
<1>24. CASE Continue BY <1>24, WhereNext DEF Continue, LosesSync, Returns
<1>25. CASE WaitStager BY <1>25 DEF WaitStager
<1>26. CASE RestoreRegs BY <1>26, WhereNext DEF RestoreRegs, RemoteResult, Returns
<1>27. CASE RestoreRegsFails BY <1>27, WhereNext DEF RestoreRegsFails, LosesSync, Returns
<1>28. CASE WaitFails BY <1>28, WhereNext DEF WaitFails, LosesSync, Returns
<1>29. CASE StagerRuns BY <1>29 DEF StagerRuns
<1>30. CASE StrayTrap BY <1>30 DEF StrayTrap
<1>31. CASE UNCHANGED vars BY <1>31 DEF vars
<1> QED
    BY <1>1, <1>2, <1>3, <1>4, <1>5, <1>6, <1>7, <1>8, <1>9, <1>10, <1>11, <1>12,
       <1>13, <1>14, <1>15, <1>16, <1>17, <1>18, <1>19, <1>20, <1>21, <1>22, <1>23, <1>24,
       <1>25, <1>26, <1>27, <1>28, <1>29, <1>30, <1>31
    DEF Next, Main, Injector, RemoteCall

(* Authority ids are known ones.                                            *)
LEMMA CredTypeStep == TypeOK /\ IInv /\ [Next]_vars => CredType'
<1> SUFFICES ASSUME TypeOK, IInv, [Next]_vars PROVE CredType'
    OBVIOUS
<1>b. Places /\ CredType BY TypeParts DEF IInv
<1> USE <1>b
<1> USE RemotePlaces, SegmentAssumption
<1> USE DEF CredType, credVars, loadVars, callVars, memVars, history
<1>1. CASE MainRaises BY <1>1 DEF MainRaises, SetUcred
<1>2. CASE FindProcess BY <1>2 DEF FindProcess
<1>3. CASE MainRestores BY <1>3 DEF MainRestores, RestoreAuthid
<1>4. CASE InjectorRaises BY <1>4 DEF InjectorRaises, SetUcred
<1>5. CASE Attach BY <1>5 DEF Attach
<1>6. CASE AttachWait BY <1>6 DEF AttachWait
<1>7. CASE Resolve BY <1>7 DEF Resolve, Local, Fails
<1>8. CASE AllocateMirror BY <1>8 DEF AllocateMirror, Local, Fails
<1>9. CASE Relocate BY <1>9 DEF Relocate
<1>10. CASE CopyImage BY <1>10 DEF CopyImage
<1>11. CASE ProtectExecutable BY <1>11 DEF ProtectExecutable
<1>12. CASE ProtectDone BY <1>12 DEF ProtectDone
<1>13. CASE Loaded BY <1>13 DEF Loaded
<1>14. CASE CopyArgs BY <1>14 DEF CopyArgs
<1>15. CASE ProtectBootstrap BY <1>15 DEF ProtectBootstrap, Local, Fails
<1>16. CASE CopyStager BY <1>16 DEF CopyStager, CopyTo, Fails
<1>17. CASE CopyFuncs BY <1>17 DEF CopyFuncs, CopyTo, Fails
<1>18. CASE Detach BY <1>18 DEF Detach
<1>19. CASE InjectorRestores BY <1>19 DEF InjectorRestores, RestoreAuthid
<1>20. CASE SaveRegs BY <1>20, WhereNext DEF SaveRegs, InRemoteCall, Returns
<1>21. CASE EnterFrame BY <1>21, WhereNext DEF EnterFrame, Errno, Returns
<1>22. CASE StepCall BY <1>22 DEF StepCall
<1>23. CASE StepFails BY <1>23, WhereNext DEF StepFails, LosesSync, Returns
<1>24. CASE Continue BY <1>24, WhereNext DEF Continue, LosesSync, Returns
<1>25. CASE WaitStager BY <1>25 DEF WaitStager
<1>26. CASE RestoreRegs BY <1>26, WhereNext DEF RestoreRegs, RemoteResult, Returns
<1>27. CASE RestoreRegsFails BY <1>27, WhereNext DEF RestoreRegsFails, LosesSync, Returns
<1>28. CASE WaitFails BY <1>28, WhereNext DEF WaitFails, LosesSync, Returns
<1>29. CASE StagerRuns BY <1>29 DEF StagerRuns
<1>30. CASE StrayTrap BY <1>30 DEF StrayTrap
<1>31. CASE UNCHANGED vars BY <1>31 DEF vars
<1> QED
    BY <1>1, <1>2, <1>3, <1>4, <1>5, <1>6, <1>7, <1>8, <1>9, <1>10, <1>11, <1>12,
       <1>13, <1>14, <1>15, <1>16, <1>17, <1>18, <1>19, <1>20, <1>21, <1>22, <1>23, <1>24,
       <1>25, <1>26, <1>27, <1>28, <1>29, <1>30, <1>31
    DEF Next, Main, Injector, RemoteCall

(* Payload and report.                                                      *)
LEMMA ReportTypeStep == TypeOK /\ IInv /\ [Next]_vars => ReportType'
<1> SUFFICES ASSUME TypeOK, IInv, [Next]_vars PROVE ReportType'
    OBVIOUS
<1>b. Places /\ ReportType BY TypeParts DEF IInv
<1> USE <1>b
<1> USE RemotePlaces, SegmentAssumption
<1> USE DEF ReportType, credVars, loadVars, callVars, memVars, history
<1>1. CASE MainRaises BY <1>1 DEF MainRaises, SetUcred
<1>2. CASE FindProcess BY <1>2 DEF FindProcess
<1>3. CASE MainRestores BY <1>3 DEF MainRestores, RestoreAuthid
<1>4. CASE InjectorRaises BY <1>4 DEF InjectorRaises, SetUcred
<1>5. CASE Attach BY <1>5 DEF Attach
<1>6. CASE AttachWait BY <1>6 DEF AttachWait
<1>7. CASE Resolve BY <1>7 DEF Resolve, Local, Fails
<1>8. CASE AllocateMirror BY <1>8 DEF AllocateMirror, Local, Fails
<1>9. CASE Relocate BY <1>9 DEF Relocate
<1>10. CASE CopyImage BY <1>10 DEF CopyImage
<1>11. CASE ProtectExecutable BY <1>11 DEF ProtectExecutable
<1>12. CASE ProtectDone BY <1>12 DEF ProtectDone
<1>13. CASE Loaded BY <1>13 DEF Loaded
<1>14. CASE CopyArgs BY <1>14 DEF CopyArgs
<1>15. CASE ProtectBootstrap BY <1>15 DEF ProtectBootstrap, Local, Fails
<1>16. CASE CopyStager BY <1>16 DEF CopyStager, CopyTo, Fails
<1>17. CASE CopyFuncs BY <1>17 DEF CopyFuncs, CopyTo, Fails
<1>18. CASE Detach BY <1>18 DEF Detach
<1>19. CASE InjectorRestores BY <1>19 DEF InjectorRestores, RestoreAuthid
<1>20. CASE SaveRegs BY <1>20, WhereNext DEF SaveRegs, InRemoteCall, Returns
<1>21. CASE EnterFrame BY <1>21, WhereNext DEF EnterFrame, Errno, Returns
<1>22. CASE StepCall BY <1>22 DEF StepCall
<1>23. CASE StepFails BY <1>23, WhereNext DEF StepFails, LosesSync, Returns
<1>24. CASE Continue BY <1>24, WhereNext DEF Continue, LosesSync, Returns
<1>25. CASE WaitStager BY <1>25 DEF WaitStager
<1>26. CASE RestoreRegs BY <1>26, WhereNext DEF RestoreRegs, RemoteResult, Returns
<1>27. CASE RestoreRegsFails BY <1>27, WhereNext DEF RestoreRegsFails, LosesSync, Returns
<1>28. CASE WaitFails BY <1>28, WhereNext DEF WaitFails, LosesSync, Returns
<1>29. CASE StagerRuns BY <1>29 DEF StagerRuns
<1>30. CASE StrayTrap BY <1>30 DEF StrayTrap
<1>31. CASE UNCHANGED vars BY <1>31 DEF vars
<1> QED
    BY <1>1, <1>2, <1>3, <1>4, <1>5, <1>6, <1>7, <1>8, <1>9, <1>10, <1>11, <1>12,
       <1>13, <1>14, <1>15, <1>16, <1>17, <1>18, <1>19, <1>20, <1>21, <1>22, <1>23, <1>24,
       <1>25, <1>26, <1>27, <1>28, <1>29, <1>30, <1>31
    DEF Next, Main, Injector, RemoteCall

(* The flags of the loader.                                                 *)
LEMMA FlagTypeStep == TypeOK /\ IInv /\ [Next]_vars => FlagType'
<1> SUFFICES ASSUME TypeOK, IInv, [Next]_vars PROVE FlagType'
    OBVIOUS
<1>b. Places /\ FlagType BY TypeParts DEF IInv
<1> USE <1>b
<1> USE RemotePlaces, SegmentAssumption
<1> USE DEF FlagType, Places, credVars, loadVars, callVars, memVars, history
<1>1. CASE MainRaises BY <1>1 DEF MainRaises, SetUcred
<1>2. CASE FindProcess BY <1>2 DEF FindProcess
<1>3. CASE MainRestores BY <1>3 DEF MainRestores, RestoreAuthid
<1>4. CASE InjectorRaises BY <1>4 DEF InjectorRaises, SetUcred
<1>5. CASE Attach BY <1>5 DEF Attach
<1>6. CASE AttachWait BY <1>6 DEF AttachWait
<1>7. CASE Resolve BY <1>7 DEF Resolve, Local, Fails
<1>8. CASE AllocateMirror BY <1>8 DEF AllocateMirror, Local, Fails
<1>9. CASE Relocate BY <1>9 DEF Relocate
<1>10. CASE CopyImage BY <1>10 DEF CopyImage
<1>11. CASE ProtectExecutable BY <1>11 DEF ProtectExecutable
<1>12. CASE ProtectDone BY <1>12 DEF ProtectDone
<1>13. CASE Loaded BY <1>13 DEF Loaded
<1>14. CASE CopyArgs BY <1>14 DEF CopyArgs
<1>15. CASE ProtectBootstrap BY <1>15 DEF ProtectBootstrap, Local, Fails
<1>16. CASE CopyStager BY <1>16 DEF CopyStager, CopyTo, Fails
<1>17. CASE CopyFuncs BY <1>17 DEF CopyFuncs, CopyTo, Fails
<1>18. CASE Detach BY <1>18 DEF Detach
<1>19. CASE InjectorRestores BY <1>19 DEF InjectorRestores, RestoreAuthid
<1>20. CASE SaveRegs BY <1>20, WhereNext DEF SaveRegs, InRemoteCall, Returns
<1>21. CASE EnterFrame BY <1>21, WhereNext DEF EnterFrame, Errno, Returns
<1>22. CASE StepCall BY <1>22 DEF StepCall
<1>23. CASE StepFails BY <1>23, WhereNext DEF StepFails, LosesSync, Returns
<1>24. CASE Continue BY <1>24, WhereNext DEF Continue, LosesSync, Returns
<1>25. CASE WaitStager BY <1>25 DEF WaitStager
<1>26. CASE RestoreRegs BY <1>26, WhereNext DEF RestoreRegs, RemoteResult, Returns
<1>27. CASE RestoreRegsFails BY <1>27, WhereNext DEF RestoreRegsFails, LosesSync, Returns
<1>28. CASE WaitFails BY <1>28, WhereNext DEF WaitFails, LosesSync, Returns
<1>29. CASE StagerRuns BY <1>29 DEF StagerRuns
<1>30. CASE StrayTrap BY <1>30 DEF StrayTrap
<1>31. CASE UNCHANGED vars BY <1>31 DEF vars
<1> QED
    BY <1>1, <1>2, <1>3, <1>4, <1>5, <1>6, <1>7, <1>8, <1>9, <1>10, <1>11, <1>12,
       <1>13, <1>14, <1>15, <1>16, <1>17, <1>18, <1>19, <1>20, <1>21, <1>22, <1>23, <1>24,
       <1>25, <1>26, <1>27, <1>28, <1>29, <1>30, <1>31
    DEF Next, Main, Injector, RemoteCall

(* The flags of what failed.                                                *)
LEMMA HistoryTypeStep == TypeOK /\ IInv /\ [Next]_vars => HistoryType'
<1> SUFFICES ASSUME TypeOK, IInv, [Next]_vars PROVE HistoryType'
    OBVIOUS
<1>b. Places /\ HistoryType BY TypeParts DEF IInv
<1> USE <1>b
<1> USE RemotePlaces, SegmentAssumption
<1> USE DEF HistoryType, Places, credVars, loadVars, callVars, memVars, history
<1>1. CASE MainRaises BY <1>1 DEF MainRaises, SetUcred
<1>2. CASE FindProcess BY <1>2 DEF FindProcess
<1>3. CASE MainRestores BY <1>3 DEF MainRestores, RestoreAuthid
<1>4. CASE InjectorRaises BY <1>4 DEF InjectorRaises, SetUcred
<1>5. CASE Attach BY <1>5 DEF Attach
<1>6. CASE AttachWait BY <1>6 DEF AttachWait
<1>7. CASE Resolve BY <1>7 DEF Resolve, Local, Fails
<1>8. CASE AllocateMirror BY <1>8 DEF AllocateMirror, Local, Fails
<1>9. CASE Relocate BY <1>9 DEF Relocate
<1>10. CASE CopyImage BY <1>10 DEF CopyImage
<1>11. CASE ProtectExecutable BY <1>11 DEF ProtectExecutable
<1>12. CASE ProtectDone BY <1>12 DEF ProtectDone
<1>13. CASE Loaded BY <1>13 DEF Loaded
<1>14. CASE CopyArgs BY <1>14 DEF CopyArgs
<1>15. CASE ProtectBootstrap BY <1>15 DEF ProtectBootstrap, Local, Fails
<1>16. CASE CopyStager BY <1>16 DEF CopyStager, CopyTo, Fails
<1>17. CASE CopyFuncs BY <1>17 DEF CopyFuncs, CopyTo, Fails
<1>18. CASE Detach BY <1>18 DEF Detach
<1>19. CASE InjectorRestores BY <1>19 DEF InjectorRestores, RestoreAuthid
<1>20. CASE SaveRegs BY <1>20, WhereNext DEF SaveRegs, InRemoteCall, Returns
<1>21. CASE EnterFrame BY <1>21, WhereNext DEF EnterFrame, Errno, Returns
<1>22. CASE StepCall BY <1>22 DEF StepCall
<1>23. CASE StepFails BY <1>23, WhereNext DEF StepFails, LosesSync, Returns
<1>24. CASE Continue BY <1>24, WhereNext DEF Continue, LosesSync, Returns
<1>25. CASE WaitStager BY <1>25 DEF WaitStager
<1>26. CASE RestoreRegs BY <1>26, WhereNext DEF RestoreRegs, RemoteResult, Returns
<1>27. CASE RestoreRegsFails BY <1>27, WhereNext DEF RestoreRegsFails, LosesSync, Returns
<1>28. CASE WaitFails BY <1>28, WhereNext DEF WaitFails, LosesSync, Returns
<1>29. CASE StagerRuns BY <1>29 DEF StagerRuns
<1>30. CASE StrayTrap BY <1>30 DEF StrayTrap
<1>31. CASE UNCHANGED vars BY <1>31 DEF vars
<1> QED
    BY <1>1, <1>2, <1>3, <1>4, <1>5, <1>6, <1>7, <1>8, <1>9, <1>10, <1>11, <1>12,
       <1>13, <1>14, <1>15, <1>16, <1>17, <1>18, <1>19, <1>20, <1>21, <1>22, <1>23, <1>24,
       <1>25, <1>26, <1>27, <1>28, <1>29, <1>30, <1>31
    DEF Next, Main, Injector, RemoteCall

(* The segment loop stays within the headers.                               *)
LEMMA SegTypeStep == TypeOK /\ IInv /\ [Next]_vars => SegType'
<1> SUFFICES ASSUME TypeOK, IInv, [Next]_vars PROVE SegType'
    OBVIOUS
<1>b. Places /\ SegType BY TypeParts DEF IInv
<1> USE <1>b
<1> USE RemotePlaces, SegmentAssumption
<1> USE DEF SegType, Places, Segment, credVars, loadVars, callVars, memVars, history
<1>1. CASE MainRaises BY <1>1 DEF MainRaises, SetUcred
<1>2. CASE FindProcess BY <1>2 DEF FindProcess
<1>3. CASE MainRestores BY <1>3 DEF MainRestores, RestoreAuthid
<1>4. CASE InjectorRaises BY <1>4 DEF InjectorRaises, SetUcred
<1>5. CASE Attach BY <1>5 DEF Attach
<1>6. CASE AttachWait BY <1>6 DEF AttachWait
<1>7. CASE Resolve BY <1>7 DEF Resolve, Local, Fails
<1>8. CASE AllocateMirror BY <1>8 DEF AllocateMirror, Local, Fails
<1>9. CASE Relocate BY <1>9 DEF Relocate
<1>10. CASE CopyImage BY <1>10 DEF CopyImage
<1>11. CASE ProtectExecutable BY <1>11 DEF ProtectExecutable
<1>12. CASE ProtectDone BY <1>12 DEF ProtectDone
<1>13. CASE Loaded BY <1>13 DEF Loaded
<1>14. CASE CopyArgs BY <1>14 DEF CopyArgs
<1>15. CASE ProtectBootstrap BY <1>15 DEF ProtectBootstrap, Local, Fails
<1>16. CASE CopyStager BY <1>16 DEF CopyStager, CopyTo, Fails
<1>17. CASE CopyFuncs BY <1>17 DEF CopyFuncs, CopyTo, Fails
<1>18. CASE Detach BY <1>18 DEF Detach
<1>19. CASE InjectorRestores BY <1>19 DEF InjectorRestores, RestoreAuthid
<1>20. CASE SaveRegs BY <1>20, WhereNext DEF SaveRegs, InRemoteCall, Returns
<1>21. CASE EnterFrame BY <1>21, WhereNext DEF EnterFrame, Errno, Returns
<1>22. CASE StepCall BY <1>22 DEF StepCall
<1>23. CASE StepFails BY <1>23, WhereNext DEF StepFails, LosesSync, Returns
<1>24. CASE Continue BY <1>24, WhereNext DEF Continue, LosesSync, Returns
<1>25. CASE WaitStager BY <1>25 DEF WaitStager
<1>26. CASE RestoreRegs BY <1>26, WhereNext DEF RestoreRegs, RemoteResult, Returns
<1>27. CASE RestoreRegsFails BY <1>27, WhereNext DEF RestoreRegsFails, LosesSync, Returns
<1>28. CASE WaitFails BY <1>28, WhereNext DEF WaitFails, LosesSync, Returns
<1>29. CASE StagerRuns BY <1>29 DEF StagerRuns
<1>30. CASE StrayTrap BY <1>30 DEF StrayTrap
<1>31. CASE UNCHANGED vars BY <1>31 DEF vars
<1> QED
    BY <1>1, <1>2, <1>3, <1>4, <1>5, <1>6, <1>7, <1>8, <1>9, <1>10, <1>11, <1>12,
       <1>13, <1>14, <1>15, <1>16, <1>17, <1>18, <1>19, <1>20, <1>21, <1>22, <1>23, <1>24,
       <1>25, <1>26, <1>27, <1>28, <1>29, <1>30, <1>31
    DEF Next, Main, Injector, RemoteCall

(* What is mapped and protected.                                            *)
LEMMA MemTypeStep == TypeOK /\ IInv /\ [Next]_vars => MemType'
<1> SUFFICES ASSUME TypeOK, IInv, [Next]_vars PROVE MemType'
    OBVIOUS
<1>b. Places /\ MemType BY TypeParts DEF IInv
<1> USE <1>b
<1> USE RemotePlaces, SegmentAssumption
<1> USE DEF MemType, Places, Segment, credVars, loadVars, callVars, memVars, history
<1>1. CASE MainRaises BY <1>1 DEF MainRaises, SetUcred
<1>2. CASE FindProcess BY <1>2 DEF FindProcess
<1>3. CASE MainRestores BY <1>3 DEF MainRestores, RestoreAuthid
<1>4. CASE InjectorRaises BY <1>4 DEF InjectorRaises, SetUcred
<1>5. CASE Attach BY <1>5 DEF Attach
<1>6. CASE AttachWait BY <1>6 DEF AttachWait
<1>7. CASE Resolve BY <1>7 DEF Resolve, Local, Fails
<1>8. CASE AllocateMirror BY <1>8 DEF AllocateMirror, Local, Fails
<1>9. CASE Relocate BY <1>9 DEF Relocate
<1>10. CASE CopyImage BY <1>10 DEF CopyImage
<1>11. CASE ProtectExecutable BY <1>11 DEF ProtectExecutable
<1>12. CASE ProtectDone BY <1>12 DEF ProtectDone
<1>13. CASE Loaded BY <1>13 DEF Loaded
<1>14. CASE CopyArgs BY <1>14 DEF CopyArgs
<1>15. CASE ProtectBootstrap BY <1>15 DEF ProtectBootstrap, Local, Fails
<1>16. CASE CopyStager BY <1>16 DEF CopyStager, CopyTo, Fails
<1>17. CASE CopyFuncs BY <1>17 DEF CopyFuncs, CopyTo, Fails
<1>18. CASE Detach BY <1>18 DEF Detach
<1>19. CASE InjectorRestores BY <1>19 DEF InjectorRestores, RestoreAuthid
<1>20. CASE SaveRegs BY <1>20, WhereNext DEF SaveRegs, InRemoteCall, Returns
<1>21. CASE EnterFrame BY <1>21, WhereNext DEF EnterFrame, Errno, Returns
<1>22. CASE StepCall
    <2>1. mapped' \in SUBSET Region
        <3>1. pc \in DOMAIN Mapping => Mapping[pc] \in Region BY DEF Region
        <3> QED BY <1>22, <3>1 DEF StepCall
    <2>2. protected' \in SUBSET Segment BY <1>22 DEF StepCall
    <2>3. whole' = whole /\ unheeded' = unheeded BY <1>22 DEF StepCall
    <2> QED BY <2>1, <2>2, <2>3
<1>23. CASE StepFails BY <1>23, WhereNext DEF StepFails, LosesSync, Returns
<1>24. CASE Continue BY <1>24, WhereNext DEF Continue, LosesSync, Returns
<1>25. CASE WaitStager BY <1>25 DEF WaitStager
<1>26. CASE RestoreRegs BY <1>26, WhereNext DEF RestoreRegs, RemoteResult, Returns
<1>27. CASE RestoreRegsFails BY <1>27, WhereNext DEF RestoreRegsFails, LosesSync, Returns
<1>28. CASE WaitFails BY <1>28, WhereNext DEF WaitFails, LosesSync, Returns
<1>29. CASE StagerRuns BY <1>29 DEF StagerRuns
<1>30. CASE StrayTrap BY <1>30 DEF StrayTrap
<1>31. CASE UNCHANGED vars BY <1>31 DEF vars
<1> QED
    BY <1>1, <1>2, <1>3, <1>4, <1>5, <1>6, <1>7, <1>8, <1>9, <1>10, <1>11, <1>12,
       <1>13, <1>14, <1>15, <1>16, <1>17, <1>18, <1>19, <1>20, <1>21, <1>22, <1>23, <1>24,
       <1>25, <1>26, <1>27, <1>28, <1>29, <1>30, <1>31
    DEF Next, Main, Injector, RemoteCall

-----------------------------------------------------------------------------
(* Nothing is held, mapped or started at the beginning.                     *)
LEMMA InitInvariant == Init => TypeOK /\ IInv
<1> SUFFICES ASSUME Init PROVE TypeOK /\ IInv
    OBVIOUS
<1> USE SegmentAssumption, RemotePlaces DEF Init
<1>1. TypeOK
    <2>1. PlaceType /\ CallType BY DEF PlaceType, Elsewhere, CallType, Frame
    <2>2. CredType /\ ReportType BY DEF CredType, ReportType
    <2>3. FlagType /\ HistoryType BY DEF FlagType, HistoryType
    <2>4. SegType /\ MemType BY DEF SegType, MemType, Segment
    <2> QED BY <2>1, <2>2, <2>3, <2>4, TypeParts
<1>2. Places BY DEF Places
<1>3. Synced BY DEF Synced, Protecting, WithImage, WithArgs, WithBootstrap, WithStager, WithSce
<1>4. Frames BY DEF Frames
<1>5. Holding BY DEF Holding, Held
<1>6. Credentials BY DEF Credentials, CredentialsRestored
<1>7. Memory
    BY DEF Memory, Segment, Protecting, WithImage, WithArgs, WithBootstrap, WithStager, WithSce
<1>8. Started BY DEF Started
<1>9. Outcome BY DEF Outcome
<1> QED BY <1>1, <1>2, <1>3, <1>4, <1>5, <1>6, <1>7, <1>8, <1>9 DEF IInv

(* The invariant holds in every reachable state.                            *)
LEMMA Invariant == Spec => [](TypeOK /\ IInv)
<1>1. TypeOK /\ IInv /\ [Next]_vars => TypeOK'
    BY PlaceTypeStep, CallTypeStep, CredTypeStep, ReportTypeStep, FlagTypeStep, HistoryTypeStep,
       SegTypeStep, MemTypeStep, TypeParts, PTL
<1>2. TypeOK /\ IInv /\ [Next]_vars => IInv'
    BY PlacesStep, SyncedStep, FramesStep, HoldingStep, CredentialsStep, MemoryStep, StartedStep,
       OutcomeStep DEF IInv
<1> QED BY <1>1, <1>2, InitInvariant, PTL DEF Spec

(* Every variable of the loader keeps its type, for every number of         *)
(* segments: the segment loop ends behind the last header.                  *)
THEOREM LoaderTypeCorrect == Spec => []TypeOK
<1> QED BY Invariant, PTL

(* Unless a request was lost in the middle of a remote call, or another     *)
(* thread's SIGTRAP was taken for the stager's, the target's thread is in   *)
(* its own frame whenever it is not traced, and every call saves that frame.*)
THEOREM AlwaysResumes == Spec => []ResumesWhereItWas
<1>1. IInv => ResumesWhereItWas
    BY DEF IInv, Places, Frames, Holding, Held, ResumesWhereItWas
<1> QED BY <1>1, Invariant, PTL

(* The loader lets go of SceShellUI on each of its failure paths, and holds *)
(* it with the credentials for that only.                                   *)
THEOREM AlwaysLetsGo == Spec => []LetsGo
<1>1. IInv => LetsGo BY RemotePlaces DEF IInv, Holding, Held, LetsGo
<1> QED BY <1>1, Invariant, PTL

(* Main gets its credentials back, whatever happened to the inner pair of   *)
(* raise and restore.                                                       *)
THEOREM CredentialsComeBack == Spec => []CredentialsRestored
<1>1. IInv => CredentialsRestored BY DEF IInv, Credentials
<1> QED BY <1>1, Invariant, PTL

(* The payload thread starts in a whole image, for every number of segments *)
(* and whatever fails on the way, but for the two failures that nobody looks*)
(* at: a skipped relocation and the copy of the arguments.                  *)
THEOREM ImageAlwaysWhole == Spec => []PayloadRunsWholeImage
<1>1. IInv => PayloadRunsWholeImage BY DEF IInv, Started, Ready, PayloadRunsWholeImage
<1> QED BY <1>1, Invariant, PTL

(* The report of main is true, but for a lost call, another thread's        *)
(* SIGTRAP and a rax of -1.                                                 *)
THEOREM ReportAlwaysTrue == Spec => []ReportsTruth
<1>1. IInv => ReportsTruth BY DEF IInv, Outcome, ReportsTruth
<1> QED BY <1>1, Invariant, PTL
=============================================================================
