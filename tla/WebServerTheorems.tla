--------------------------- MODULE WebServerTheorems ---------------------------
(***************************************************************************)
(* The invariants of WebServer, for every size of the descriptor table, of *)
(* the buffer and of the requests, and every number of candidate ports.    *)
(*                                                                         *)
(* None of them is inductive.  That the payload touches its own            *)
(* descriptors only rests on what it owns at each place (Owns); that       *)
(* nothing leaks on where a listening socket and a connection can be       *)
(* (Listening, Connected), through an unload in which two threads close    *)
(* and forget the same number (Stopping).                                  *)
(***************************************************************************)
EXTENDS WebServer, TLAPS

Binding == {"socket", "listen", "listening"}
Serving == {"loop", "accept", "read", "dispatch", "reply", "unload", "close"}

(* Before an unload is asked for, the HUD thread is in its loop, the server *)
(* runs, and the payload owns what it is about to use.                      *)
Owns ==
    ~g_should_unload =>
        /\ ~foreign
        /\ hpc = "loop"
        /\ wpc \in Serving => g_web_running
        /\ wpc \in Binding \cup Serving \cup {"gone"}
        /\ wpc = "listen" => wfd \in Fd /\ owner[wfd] = "server"
        /\ g_server_fd # Invalid => owner[g_server_fd] = "server"
        /\ wpc = "accept" => wfd = g_server_fd
        /\ wpc \in {"read", "dispatch", "reply", "close"} => cfd \in Fd /\ owner[cfd] = "client"

(* A listening socket is the one being bound or the one known to both       *)
(* threads.                                                                 *)
Listening ==
    /\ \A fd \in Fd : owner[fd] = "server" =>
           (wpc = "listen" /\ fd = wfd) \/ (wpc \notin {"socket", "listen"} /\ fd = g_server_fd)
    /\ wpc \in {"socket", "listen"} => g_server_fd = Invalid
    /\ wpc \in Binding => ~g_should_unload

(* A connection is the one of the request at hand.                          *)
Connected ==
    \A fd \in Fd : owner[fd] = "client" => fd = cfd /\ wpc \in {"read", "dispatch", "reply", "close"}

NoServer == \A fd \in Fd : owner[fd] # "server"

(* Whatever number a thread has read before it closes, it is the one still  *)
(* known, or the socket is closed already; and it is before it is forgotten.*)
Stopping ==
    /\ hpc # "loop" => g_should_unload
    /\ hpc = "close" => hfd = g_server_fd \/ g_server_fd = Invalid
    /\ wpc = "endclose" => wfd = g_server_fd \/ g_server_fd = Invalid
    /\ hpc \in {"clear", "exited"} => NoServer
    /\ wpc \in {"endclear", "gone"} => NoServer

DescriptorInv == Owns /\ Listening /\ Connected /\ Stopping
-----------------------------------------------------------------------------
(* The port that is tried last is the last candidate.                       *)
TypeInv == TypeOK /\ (wpc = "listen" => tries < NumCandidates)

(* Every variable keeps its type.                                           *)
LEMMA TypeStep == TypeInv /\ [Next]_vars => TypeInv'
<1> SUFFICES ASSUME TypeInv, [Next]_vars PROVE TypeInv'
    OBVIOUS
<1> USE FdAssumption, LoopAssumption, BufferAssumption
<1> USE DEF TypeInv, TypeOK, Fd, Invalid, Owner, globals, workerLocals, hudVars, historyVars,
            Opens, Closes
<1>0. NoRequest \in Request BY DEF NoRequest, Request
<1>1. CASE CreateSocket BY <1>1 DEF CreateSocket
<1>2. CASE Listen BY <1>2 DEF Listen
<1>3. CASE PortBusy
    <2>1. owner' \in [Fd -> Owner] /\ foreign' \in BOOLEAN BY <1>3 DEF PortBusy
    <2>2. tries' \in 0 .. NumCandidates BY <1>3 DEF PortBusy
    <2>3. wpc' = "socket" BY <1>3 DEF PortBusy
    <2>4. UNCHANGED <<globals, wfd, cfd, req, got, hudVars, cut, partial>> BY <1>3 DEF PortBusy
    <2> QED BY <2>1, <2>2, <2>3, <2>4
<1>4. CASE NoPortLeft BY <1>4 DEF NoPortLeft
<1>5. CASE Running BY <1>5 DEF Running
<1>6. CASE CallAccept BY <1>6 DEF CallAccept
<1>7. CASE Accept
    <2>1. owner' \in [Fd -> Owner] /\ cfd' \in Fd BY <1>7 DEF Accept
    <2>2. req' \in Request /\ got' = 0 /\ cut' \in BOOLEAN /\ foreign' \in BOOLEAN BY <1>7 DEF Accept
    <2>3. wpc' = "read" BY <1>7 DEF Accept
    <2>4. UNCHANGED <<globals, tries, wfd, hudVars, partial>> BY <1>7 DEF Accept
    <2> QED BY <2>1, <2>2, <2>3, <2>4
<1>8. CASE AcceptFails BY <1>8 DEF AcceptFails
<1>9. CASE Read
    <2>1. req.header \in Nat /\ req.body \in Nat BY DEF Request
    <2> QED BY <1>9, <2>1 DEF Read, Complete, Room
<1>10. CASE ReadEnds BY <1>10 DEF ReadEnds
<1>11. CASE Handle BY <1>11 DEF Handle
<1>12. CASE HandleUnload BY <1>12 DEF HandleUnload
<1>26. CASE Replied BY <1>26 DEF Replied
<1>13. CASE SetUnload BY <1>13 DEF SetUnload
<1>14. CASE CloseClient
    <2>1. owner' \in [Fd -> Owner] /\ foreign' \in BOOLEAN BY <1>14 DEF CloseClient
    <2>2. cfd' = Invalid /\ req' \in Request /\ got' = 0 /\ cut' \in BOOLEAN
        BY <1>0, <1>14 DEF CloseClient
    <2>3. wpc' = "loop" BY <1>14 DEF CloseClient
    <2>4. UNCHANGED <<globals, tries, wfd, hudVars, partial>> BY <1>14 DEF CloseClient
    <2> QED BY <2>1, <2>2, <2>3, <2>4
<1>15. CASE LoopEnds BY <1>15 DEF LoopEnds
<1>16. CASE EndClose BY <1>16 DEF EndClose
<1>17. CASE EndClear BY <1>17 DEF EndClear
<1>18. CASE UnloadSeen BY <1>18 DEF UnloadSeen
<1>19. CASE StopRunning
    <2>1. g_web_running' \in BOOLEAN /\ hpc' = "check" BY <1>19 DEF StopRunning
    <2>2. UNCHANGED <<owner, g_server_fd, g_should_unload, wpc, workerLocals, hfd, historyVars>>
        BY <1>19 DEF StopRunning
    <2> QED BY <2>1, <2>2
<1>20. CASE StopCheck BY <1>20 DEF StopCheck
<1>21. CASE StopClose BY <1>21 DEF StopClose
<1>22. CASE StopClear BY <1>22 DEF StopClear
<1>23. CASE ShellOpens BY <1>23 DEF ShellOpens
<1>24. CASE ShellCloses BY <1>24 DEF ShellCloses
<1>25. CASE UNCHANGED vars BY <1>25 DEF vars
<1> QED
    BY <1>1, <1>2, <1>3, <1>4, <1>5, <1>6, <1>7, <1>8, <1>9, <1>10, <1>11, <1>12, <1>13, <1>14,
       <1>15, <1>16, <1>17, <1>18, <1>19, <1>20, <1>21, <1>22, <1>23, <1>24, <1>25, <1>26
    DEF Next, WorkerRuns, HudThread

(* Until an unload is asked for, no thread uses a number it does not own.   *)
LEMMA OwnsStep == DescriptorInv /\ TypeInv /\ [Next]_vars => Owns'
<1> SUFFICES ASSUME DescriptorInv, TypeInv, [Next]_vars PROVE Owns'
    OBVIOUS
<1> USE DEF DescriptorInv, TypeInv, TypeOK, Owns, Listening, Connected, Stopping, NoServer,
            Binding, Serving, Fd, Invalid, Owner, globals, workerLocals, hudVars, historyVars,
            Opens, Closes
<1>1. CASE CreateSocket BY <1>1 DEF CreateSocket
<1>2. CASE Listen BY <1>2 DEF Listen
<1>3. CASE PortBusy BY <1>3 DEF PortBusy
<1>4. CASE NoPortLeft BY <1>4 DEF NoPortLeft
<1>5. CASE Running BY <1>5 DEF Running
<1>6. CASE CallAccept BY <1>6 DEF CallAccept
<1>7. CASE Accept BY <1>7 DEF Accept
<1>8. CASE AcceptFails BY <1>8 DEF AcceptFails
<1>9. CASE Read BY <1>9 DEF Read
<1>10. CASE ReadEnds BY <1>10 DEF ReadEnds
<1>11. CASE Handle BY <1>11 DEF Handle
<1>12. CASE HandleUnload BY <1>12 DEF HandleUnload
<1>26. CASE Replied BY <1>26 DEF Replied
<1>13. CASE SetUnload BY <1>13 DEF SetUnload
<1>14. CASE CloseClient BY <1>14 DEF CloseClient
<1>15. CASE LoopEnds BY <1>15 DEF LoopEnds
<1>16. CASE EndClose BY <1>16 DEF EndClose
<1>17. CASE EndClear BY <1>17 DEF EndClear
<1>18. CASE UnloadSeen BY <1>18 DEF UnloadSeen
<1>19. CASE StopRunning BY <1>19 DEF StopRunning
<1>20. CASE StopCheck BY <1>20 DEF StopCheck
<1>21. CASE StopClose BY <1>21 DEF StopClose
<1>22. CASE StopClear BY <1>22 DEF StopClear
<1>23. CASE ShellOpens BY <1>23 DEF ShellOpens
<1>24. CASE ShellCloses BY <1>24 DEF ShellCloses
<1>25. CASE UNCHANGED vars BY <1>25 DEF vars
<1> QED
    BY <1>1, <1>2, <1>3, <1>4, <1>5, <1>6, <1>7, <1>8, <1>9, <1>10, <1>11, <1>12, <1>13, <1>14, <1>15, <1>16, <1>17, <1>18, <1>19, <1>20, <1>21, <1>22, <1>23, <1>24, <1>25, <1>26
    DEF Next, WorkerRuns, HudThread

(* Only the socket being bound, or g_server_fd, is ever a listening socket. *)
LEMMA ListeningStep == DescriptorInv /\ TypeInv /\ [Next]_vars => Listening'
<1> SUFFICES ASSUME DescriptorInv, TypeInv, [Next]_vars PROVE Listening'
    OBVIOUS
<1> USE DEF DescriptorInv, TypeInv, TypeOK, Owns, Listening, Connected, Stopping, NoServer,
            Binding, Serving, Fd, Invalid, Owner, globals, workerLocals, hudVars, historyVars,
            Opens, Closes
<1>1. CASE CreateSocket BY <1>1 DEF CreateSocket
<1>2. CASE Listen BY <1>2 DEF Listen
<1>3. CASE PortBusy BY <1>3 DEF PortBusy
<1>4. CASE NoPortLeft BY <1>4 DEF NoPortLeft
<1>5. CASE Running BY <1>5 DEF Running
<1>6. CASE CallAccept BY <1>6 DEF CallAccept
<1>7. CASE Accept BY <1>7 DEF Accept
<1>8. CASE AcceptFails BY <1>8 DEF AcceptFails
<1>9. CASE Read BY <1>9 DEF Read
<1>10. CASE ReadEnds BY <1>10 DEF ReadEnds
<1>11. CASE Handle BY <1>11 DEF Handle
<1>12. CASE HandleUnload BY <1>12 DEF HandleUnload
<1>26. CASE Replied BY <1>26 DEF Replied
<1>13. CASE SetUnload BY <1>13 DEF SetUnload
<1>14. CASE CloseClient BY <1>14 DEF CloseClient
<1>15. CASE LoopEnds BY <1>15 DEF LoopEnds
<1>16. CASE EndClose BY <1>16 DEF EndClose
<1>17. CASE EndClear BY <1>17 DEF EndClear
<1>18. CASE UnloadSeen BY <1>18 DEF UnloadSeen
<1>19. CASE StopRunning BY <1>19 DEF StopRunning
<1>20. CASE StopCheck BY <1>20 DEF StopCheck
<1>21. CASE StopClose BY <1>21 DEF StopClose
<1>22. CASE StopClear BY <1>22 DEF StopClear
<1>23. CASE ShellOpens BY <1>23 DEF ShellOpens
<1>24. CASE ShellCloses BY <1>24 DEF ShellCloses
<1>25. CASE UNCHANGED vars BY <1>25 DEF vars
<1> QED
    BY <1>1, <1>2, <1>3, <1>4, <1>5, <1>6, <1>7, <1>8, <1>9, <1>10, <1>11, <1>12, <1>13, <1>14, <1>15, <1>16, <1>17, <1>18, <1>19, <1>20, <1>21, <1>22, <1>23, <1>24, <1>25, <1>26
    DEF Next, WorkerRuns, HudThread

(* A connection outlives no request.                                        *)
LEMMA ConnectedStep == DescriptorInv /\ TypeInv /\ [Next]_vars => Connected'
<1> SUFFICES ASSUME DescriptorInv, TypeInv, [Next]_vars PROVE Connected'
    OBVIOUS
<1> USE DEF DescriptorInv, TypeInv, TypeOK, Owns, Listening, Connected, Stopping, NoServer,
            Binding, Serving, Fd, Invalid, Owner, globals, workerLocals, hudVars, historyVars,
            Opens, Closes
<1>1. CASE CreateSocket BY <1>1 DEF CreateSocket
<1>2. CASE Listen BY <1>2 DEF Listen
<1>3. CASE PortBusy BY <1>3 DEF PortBusy
<1>4. CASE NoPortLeft BY <1>4 DEF NoPortLeft
<1>5. CASE Running BY <1>5 DEF Running
<1>6. CASE CallAccept BY <1>6 DEF CallAccept
<1>7. CASE Accept BY <1>7 DEF Accept
<1>8. CASE AcceptFails BY <1>8 DEF AcceptFails
<1>9. CASE Read BY <1>9 DEF Read
<1>10. CASE ReadEnds BY <1>10 DEF ReadEnds
<1>11. CASE Handle BY <1>11 DEF Handle
<1>12. CASE HandleUnload BY <1>12 DEF HandleUnload
<1>26. CASE Replied BY <1>26 DEF Replied
<1>13. CASE SetUnload BY <1>13 DEF SetUnload
<1>14. CASE CloseClient BY <1>14 DEF CloseClient
<1>15. CASE LoopEnds BY <1>15 DEF LoopEnds
<1>16. CASE EndClose BY <1>16 DEF EndClose
<1>17. CASE EndClear BY <1>17 DEF EndClear
<1>18. CASE UnloadSeen BY <1>18 DEF UnloadSeen
<1>19. CASE StopRunning BY <1>19 DEF StopRunning
<1>20. CASE StopCheck BY <1>20 DEF StopCheck
<1>21. CASE StopClose BY <1>21 DEF StopClose
<1>22. CASE StopClear BY <1>22 DEF StopClear
<1>23. CASE ShellOpens BY <1>23 DEF ShellOpens
<1>24. CASE ShellCloses BY <1>24 DEF ShellCloses
<1>25. CASE UNCHANGED vars BY <1>25 DEF vars
<1> QED
    BY <1>1, <1>2, <1>3, <1>4, <1>5, <1>6, <1>7, <1>8, <1>9, <1>10, <1>11, <1>12, <1>13, <1>14, <1>15, <1>16, <1>17, <1>18, <1>19, <1>20, <1>21, <1>22, <1>23, <1>24, <1>25, <1>26
    DEF Next, WorkerRuns, HudThread

(* Two threads that close and forget g_server_fd leave no listening socket. *)
LEMMA StoppingStep == DescriptorInv /\ TypeInv /\ [Next]_vars => Stopping'
<1> SUFFICES ASSUME DescriptorInv, TypeInv, [Next]_vars PROVE Stopping'
    OBVIOUS
<1> USE DEF DescriptorInv, TypeInv, TypeOK, Owns, Listening, Connected, Stopping, NoServer,
            Binding, Serving, Fd, Invalid, Owner, globals, workerLocals, hudVars, historyVars,
            Opens, Closes
<1>1. CASE CreateSocket BY <1>1 DEF CreateSocket
<1>2. CASE Listen BY <1>2 DEF Listen
<1>3. CASE PortBusy BY <1>3 DEF PortBusy
<1>4. CASE NoPortLeft BY <1>4 DEF NoPortLeft
<1>5. CASE Running BY <1>5 DEF Running
<1>6. CASE CallAccept BY <1>6 DEF CallAccept
<1>7. CASE Accept BY <1>7 DEF Accept
<1>8. CASE AcceptFails BY <1>8 DEF AcceptFails
<1>9. CASE Read BY <1>9 DEF Read
<1>10. CASE ReadEnds BY <1>10 DEF ReadEnds
<1>11. CASE Handle BY <1>11 DEF Handle
<1>12. CASE HandleUnload BY <1>12 DEF HandleUnload
<1>26. CASE Replied BY <1>26 DEF Replied
<1>13. CASE SetUnload BY <1>13 DEF SetUnload
<1>14. CASE CloseClient BY <1>14 DEF CloseClient
<1>15. CASE LoopEnds BY <1>15 DEF LoopEnds
<1>16. CASE EndClose BY <1>16 DEF EndClose
<1>17. CASE EndClear BY <1>17 DEF EndClear
<1>18. CASE UnloadSeen BY <1>18 DEF UnloadSeen
<1>19. CASE StopRunning BY <1>19 DEF StopRunning
<1>20. CASE StopCheck BY <1>20 DEF StopCheck
<1>21. CASE StopClose BY <1>21 DEF StopClose
<1>22. CASE StopClear BY <1>22 DEF StopClear
<1>23. CASE ShellOpens BY <1>23 DEF ShellOpens
<1>24. CASE ShellCloses BY <1>24 DEF ShellCloses
<1>25. CASE UNCHANGED vars BY <1>25 DEF vars
<1> QED
    BY <1>1, <1>2, <1>3, <1>4, <1>5, <1>6, <1>7, <1>8, <1>9, <1>10, <1>11, <1>12, <1>13, <1>14, <1>15, <1>16, <1>17, <1>18, <1>19, <1>20, <1>21, <1>22, <1>23, <1>24, <1>25, <1>26
    DEF Next, WorkerRuns, HudThread
-----------------------------------------------------------------------------
(* What is dispatched is a whole request, or one that was cut.              *)
BodyInv == ~partial /\ (wpc = "dispatch" => cut \/ Complete(got))

(* A body that is applied was cut or is complete.                           *)
LEMMA BodyStep == BodyInv /\ TypeInv /\ [Next]_vars => BodyInv'
<1> SUFFICES ASSUME BodyInv, TypeInv, [Next]_vars PROVE BodyInv'
    OBVIOUS
<1>0. req \in Request /\ got \in Nat
    BY BufferAssumption DEF TypeInv, TypeOK
<1> USE DEF BodyInv, Complete, globals, workerLocals, hudVars, historyVars
<1>1. CASE CreateSocket BY <1>1 DEF CreateSocket
<1>2. CASE Listen BY <1>2 DEF Listen
<1>3. CASE PortBusy BY <1>3 DEF PortBusy
<1>4. CASE NoPortLeft BY <1>4 DEF NoPortLeft
<1>5. CASE Running BY <1>5 DEF Running
<1>6. CASE CallAccept BY <1>6 DEF CallAccept
<1>7. CASE Accept BY <1>7 DEF Accept
<1>8. CASE AcceptFails BY <1>8 DEF AcceptFails
<1>9. CASE Read BY <1>9 DEF Read
<1>10. CASE ReadEnds BY <1>10 DEF ReadEnds
<1>11. CASE Handle
    <2>1. req.header \in Nat /\ req.body \in Nat BY <1>0 DEF Request
    <2>2. cut \/ got >= req.header + req.body BY <1>0, <1>11, <2>1 DEF Handle
    <2>3. wpc' # "dispatch" BY <1>11 DEF Handle
    <2>4. CASE ~cut
        <3>1. ~(req.kind = "config" /\ ~cut /\ got < req.header + req.body)
            BY <1>0, <2>1, <2>2, <2>4
        <3>2. ~partial' BY <1>11, <3>1, Zenon DEF Handle
        <3> QED BY <2>3, <3>2
    <2>5. CASE cut
        <3>1. ~partial' BY <1>11, <2>5, Zenon DEF Handle
        <3> QED BY <2>3, <3>1
    <2> QED BY <2>4, <2>5
<1>12. CASE HandleUnload BY <1>12 DEF HandleUnload
<1>26. CASE Replied BY <1>26 DEF Replied
<1>13. CASE SetUnload BY <1>13 DEF SetUnload
<1>14. CASE CloseClient BY <1>14 DEF CloseClient
<1>15. CASE LoopEnds BY <1>15 DEF LoopEnds
<1>16. CASE EndClose BY <1>16 DEF EndClose
<1>17. CASE EndClear BY <1>17 DEF EndClear
<1>18. CASE UnloadSeen BY <1>18 DEF UnloadSeen
<1>19. CASE StopRunning BY <1>19 DEF StopRunning
<1>20. CASE StopCheck BY <1>20 DEF StopCheck
<1>21. CASE StopClose BY <1>21 DEF StopClose
<1>22. CASE StopClear BY <1>22 DEF StopClear
<1>23. CASE ShellOpens BY <1>23 DEF ShellOpens
<1>24. CASE ShellCloses BY <1>24 DEF ShellCloses
<1>25. CASE UNCHANGED vars BY <1>25 DEF vars
<1> QED
    BY <1>1, <1>2, <1>3, <1>4, <1>5, <1>6, <1>7, <1>8, <1>9, <1>10, <1>11, <1>12, <1>13, <1>14, <1>15, <1>16, <1>17, <1>18, <1>19, <1>20, <1>21, <1>22, <1>23, <1>24, <1>25, <1>26
    DEF Next, WorkerRuns, HudThread
-----------------------------------------------------------------------------
(* The server starts with an empty table.                                   *)
LEMMA InitInvariants == Init => TypeInv /\ DescriptorInv /\ BodyInv
<1> SUFFICES ASSUME Init PROVE TypeInv /\ DescriptorInv /\ BodyInv
    OBVIOUS
<1> USE FdAssumption, LoopAssumption, BufferAssumption DEF Init
<1>1. NoRequest \in Request BY DEF NoRequest, Request
<1>2. TypeInv
    <2>1. owner \in [Fd -> Owner] BY DEF Owner
    <2>2. got \in 0 .. BufSize /\ tries \in 0 .. NumCandidates OBVIOUS
    <2>3. g_server_fd \in Fd \cup {Invalid} /\ wfd \in Fd \cup {Invalid}
              /\ cfd \in Fd \cup {Invalid} /\ hfd \in Fd \cup {Invalid}
        BY DEF Invalid
    <2>4. req \in Request BY <1>1
    <2>5. g_web_running \in BOOLEAN /\ g_should_unload \in BOOLEAN
              /\ foreign \in BOOLEAN /\ cut \in BOOLEAN /\ partial \in BOOLEAN
        OBVIOUS
    <2>6. wpc = "socket" /\ hpc = "loop" OBVIOUS
    <2> QED BY <2>1, <2>2, <2>3, <2>4, <2>5, <2>6 DEF TypeInv, TypeOK
<1>3. DescriptorInv
    BY DEF DescriptorInv, Owns, Listening, Connected, Stopping, Binding, Serving, NoServer, Invalid
<1>4. BodyInv BY DEF BodyInv
<1> QED BY <1>2, <1>3, <1>4

(* The three invariants hold together in every reachable state.             *)
LEMMA Invariants == Spec => [](TypeInv /\ DescriptorInv /\ BodyInv)
<1>1. TypeInv /\ DescriptorInv /\ BodyInv /\ [Next]_vars
          => (TypeInv /\ DescriptorInv /\ BodyInv)'
    BY TypeStep, OwnsStep, ListeningStep, ConnectedStep, StoppingStep, BodyStep DEF DescriptorInv
<1> QED BY <1>1, InitInvariants, PTL DEF Spec

(* Every variable of the server keeps its type: no read overruns the        *)
(* buffer, no candidate port is tried twice.                                *)
THEOREM ServerTypeCorrect == Spec => []TypeOK
<1>1. TypeInv => TypeOK BY DEF TypeInv
<1> QED BY <1>1, Invariants, PTL

(* Until somebody asks for an unload the payload closes and uses its own    *)
(* descriptors only, whatever SceShellUI does with the table.               *)
THEOREM OwnDescriptorsOnly == Spec => []ForeignOnlyInUnload
<1>1. DescriptorInv => ForeignOnlyInUnload BY DEF DescriptorInv, Owns, ForeignOnlyInUnload
<1> QED BY <1>1, Invariants, PTL

(* No listening socket survives the end of either thread, no connection     *)
(* the end of the worker, and there is one connection at a time: bind loop, *)
(* accept loop and web_server_stop() leak nothing.                          *)
THEOREM NothingEverLeaks == Spec => []NothingLeaks
<1>1. DescriptorInv => NothingLeaks
    BY DEF DescriptorInv, Connected, Stopping, NoServer, NothingLeaks
<1> QED BY <1>1, Invariants, PTL

(* However the network cuts a request, a configuration that was not cut     *)
(* short is applied whole.                                                  *)
THEOREM BodiesAreWhole == Spec => []SplitBodiesAreWhole
<1>1. BodyInv => SplitBodiesAreWhole BY DEF BodyInv, SplitBodiesAreWhole
<1> QED BY <1>1, Invariants, PTL
=============================================================================
