------------------------------ MODULE WebServer ------------------------------
(***************************************************************************)
(* The descriptors of the embedded HTTP server (payload/web_server.cpp):   *)
(*                                                                         *)
(*   - the worker thread: web_server_worker() with handle_client_http();   *)
(*   - the HUD thread, which calls web_server_stop() on an unload;         *)
(*   - SceShellUI, the process the payload lives in: its own threads open  *)
(*     and close descriptors of the same table at any time;                *)
(*   - clients, whose requests come in pieces, late or not at all.         *)
(*                                                                         *)
(* Descriptors are numbers, the lowest free one is handed out, and a       *)
(* number says nothing of who owns it: that is what owner[] is for.  A     *)
(* request is its kind and the size of its header and body, in pieces; the *)
(* first piece holds the request line, and the body is what the header     *)
(* announces.                                                              *)
(* What a configuration request does to the HUD is in OverlayRuntime.      *)
(***************************************************************************)
EXTENDS Integers

CONSTANTS
    MaxFd,          \* bound: size of the descriptor table
    NumCandidates,  \* ports the bind loop tries
    BufSize,        \* pieces that fit in req_buf
    MaxPieces       \* bound: pieces of a header, and of a body

ASSUME FdAssumption == MaxFd \in Nat \ {0}
ASSUME LoopAssumption == NumCandidates \in Nat \ {0}
ASSUME BufferAssumption == BufSize \in Nat \ {0} /\ MaxPieces \in Nat \ {0}

Fd == 0 .. MaxFd - 1
Invalid == -1
Owner == {"free", "server", "client", "shell"}

(* "other" stands for the requests that change nothing. *)
Request == [kind : {"config", "reset", "unload", "other"},
            header : 1 .. MaxPieces, body : 0 .. MaxPieces]
NoRequest == [kind |-> "other", header |-> 1, body |-> 0]

VARIABLES
    owner,
    g_server_fd, g_web_running, g_should_unload,
    wpc,        \* web worker
    tries,      \* its i, the candidate port
    wfd,        \* the listening descriptor it has at hand: s, or g_server_fd as read
    cfd,
    req,        \* what the client of cfd sends
    got,        \* total_read
    hpc,        \* HUD thread
    hfd,        \* g_server_fd as web_server_stop() has read it
    foreign,    \* history: the payload used a descriptor of the shell
    cut,        \* history: this request ended early or did not fit
    partial     \* history: some body was applied in part though nothing was cut

globals == <<g_server_fd, g_web_running, g_should_unload>>
workerLocals == <<tries, wfd, cfd, req, got>>
hudVars == <<hpc, hfd>>
historyVars == <<foreign, cut, partial>>
vars == <<owner, globals, wpc, workerLocals, hudVars, historyVars>>

TypeOK ==
    /\ owner \in [Fd -> Owner]
    /\ g_server_fd \in Fd \cup {Invalid}
    /\ g_web_running \in BOOLEAN /\ g_should_unload \in BOOLEAN
    /\ wpc \in {"socket", "listen", "listening", "loop", "accept", "read", "dispatch",
                "reply", "unload", "close", "end", "endclose", "endclear", "gone"}
    /\ tries \in 0 .. NumCandidates
    /\ wfd \in Fd \cup {Invalid} /\ cfd \in Fd \cup {Invalid}
    /\ req \in Request
    /\ got \in 0 .. BufSize
    /\ hpc \in {"loop", "stop", "check", "close", "clear", "exited"}
    /\ hfd \in Fd \cup {Invalid}
    /\ foreign \in BOOLEAN /\ cut \in BOOLEAN /\ partial \in BOOLEAN

Init ==
    /\ owner = [fd \in Fd |-> "free"]
    /\ g_server_fd = Invalid /\ g_web_running = FALSE /\ g_should_unload = FALSE
    /\ wpc = "socket" /\ tries = 0 /\ wfd = Invalid /\ cfd = Invalid
    /\ req = NoRequest /\ got = 0
    /\ hpc = "loop" /\ hfd = Invalid
    /\ foreign = FALSE /\ cut = FALSE /\ partial = FALSE
-----------------------------------------------------------------------------
(* The descriptor table. *)

Opens(fd, who) ==
    /\ owner[fd] = "free" /\ \A lower \in 0 .. fd - 1 : owner[lower] # "free"
    /\ owner' = [owner EXCEPT ![fd] = who]

TableFull == \A fd \in Fd : owner[fd] # "free"

(* close(fd) by the payload: an unused number is an error nobody looks at.  *)
Closes(fd) ==
    /\ owner' = IF fd \in Fd THEN [owner EXCEPT ![fd] = "free"] ELSE owner
    /\ foreign' = (foreign \/ (fd \in Fd /\ owner[fd] = "shell"))
-----------------------------------------------------------------------------
(* The worker: bind loop. *)

CreateSocket ==
    /\ wpc = "socket" /\ tries < NumCandidates
    /\ \/ \E fd \in Fd : Opens(fd, "server") /\ wfd' = fd /\ wpc' = "listen"
       \/ TableFull /\ wpc' = "gone" /\ UNCHANGED <<owner, wfd>>
    /\ UNCHANGED <<globals, tries, cfd, req, got, hudVars, historyVars>>

(* bind() and listen() succeed: the server is known to the other thread      *)
(* before it counts as running.                                              *)
Listen ==
    /\ wpc = "listen"
    /\ g_server_fd' = wfd
    /\ wpc' = "listening"
    /\ UNCHANGED <<owner, g_web_running, g_should_unload, workerLocals, hudVars, historyVars>>

(* A faulty bind loop: the socket of a busy port is not closed. *)
PortBusy_Leaks ==
    /\ wpc = "listen"
    /\ tries' = tries + 1
    /\ wpc' = "socket"
    /\ UNCHANGED <<owner, globals, wfd, cfd, req, got, hudVars, historyVars>>

PortBusy ==
    /\ wpc = "listen"
    /\ Closes(wfd)
    /\ tries' = tries + 1
    /\ wpc' = "socket"
    /\ UNCHANGED <<globals, wfd, cfd, req, got, hudVars, cut, partial>>

NoPortLeft ==
    /\ wpc = "socket" /\ tries = NumCandidates
    /\ wpc' = "gone"
    /\ UNCHANGED <<owner, globals, workerLocals, hudVars, historyVars>>

Running ==
    /\ wpc = "listening"
    /\ g_web_running' = TRUE
    /\ wpc' = "loop"
    /\ UNCHANGED <<owner, g_server_fd, g_should_unload, workerLocals, hudVars, historyVars>>
-----------------------------------------------------------------------------
(* The worker: accept loop. *)

CallAccept ==
    /\ wpc = "loop" /\ g_web_running
    /\ wfd' = g_server_fd
    /\ wpc' = "accept"
    /\ UNCHANGED <<owner, globals, tries, cfd, req, got, hudVars, historyVars>>

(* A client connects.  An accept() that was waiting when the other thread    *)
(* closed the descriptor may still return it: the call holds the socket.     *)
Accept ==
    /\ wpc = "accept" /\ wfd # Invalid
    /\ \E fd \in Fd : Opens(fd, "client") /\ cfd' = fd
    /\ req' \in Request
    /\ got' = 0 /\ cut' = FALSE
    /\ foreign' = (foreign \/ owner[wfd] = "shell")
    /\ wpc' = "read"
    /\ UNCHANGED <<globals, tries, wfd, hudVars, partial>>

(* A closed or foreign descriptor, a full table, an aborted connection. *)
AcceptFails ==
    /\ wpc = "accept"
    /\ wpc' = "loop"
    /\ foreign' = (foreign \/ (wfd # Invalid /\ owner[wfd] = "shell"))
    /\ UNCHANGED <<owner, globals, workerLocals, hudVars, cut, partial>>

(* A faulty completeness test: the end of the header ends the request. *)
Complete_HeaderOnly(n) == n >= req.header

(* body_start && body_received >= content_len *)
Complete(n) == n >= req.header /\ n - req.header >= req.body

(* Room in req_buf; the last byte is kept for the terminator.  The faulty    *)
(* variant forgets it.                                                       *)
Room_NoTerminator == BufSize + 1 - got
Room == BufSize - got

Read ==
    /\ wpc = "read"
    /\ \E n \in 1 .. Room :
          /\ got + n <= req.header + req.body
          /\ got' = got + n
    /\ wpc' = IF Complete(got') \/ got' >= BufSize THEN "dispatch" ELSE "read"
    /\ cut' = (~Complete(got') /\ got' >= BufSize)
    /\ UNCHANGED <<owner, globals, tries, wfd, cfd, req, hudVars, foreign, partial>>

(* A faulty loop: a read of nothing is not the end. *)
ReadEnds_Continues ==
    /\ wpc = "read"
    /\ cut' = TRUE
    /\ UNCHANGED <<owner, globals, wpc, workerLocals, hudVars, foreign, partial>>

(* read() returns nothing: the client is done, gone, or silent for three     *)
(* seconds.  Whatever came so far is dispatched.                             *)
ReadEnds ==
    /\ wpc = "read"
    /\ wpc' = IF got > 0 THEN "dispatch" ELSE "close"
    /\ cut' = TRUE
    /\ UNCHANGED <<owner, globals, workerLocals, hudVars, foreign, partial>>

(* A faulty handler: it closes the descriptor its caller closes. *)
Handle_Closes ==
    /\ wpc = "dispatch"
    /\ Closes(cfd)
    /\ wpc' = "reply"
    /\ UNCHANGED <<globals, workerLocals, hudVars, cut, partial>>

(* The handlers up to their reply, the descriptor still open.  A body is     *)
(* applied as far as it came, once there is a header before it.              *)
Handle ==
    /\ wpc = "dispatch"
    /\ partial' = (partial \/ ( /\ req.kind = "config" /\ ~cut
                               /\ got >= req.header /\ got < req.header + req.body))
    /\ wpc' = "reply"
    /\ UNCHANGED <<owner, globals, workerLocals, hudVars, foreign, cut>>

(* socket_send_all() returns: the reply is out, or the client is gone.  The  *)
(* socket has no send timeout, so this may never happen.                     *)
Replied ==
    /\ wpc = "reply" /\ req.kind # "unload"
    /\ wpc' = "close"
    /\ UNCHANGED <<owner, globals, workerLocals, hudVars, historyVars>>

(* POST /api/unload: when the reply has returned, close, and then the flag. *)
HandleUnload ==
    /\ wpc = "reply" /\ req.kind = "unload"
    /\ Closes(cfd)
    /\ wpc' = "unload"
    /\ UNCHANGED <<globals, workerLocals, hudVars, cut, partial>>

(* A faulty handler: the connection is closed but nothing asks for the stop. *)
SetUnload_Lost ==
    /\ wpc = "unload"
    /\ wpc' = "close"
    /\ UNCHANGED <<owner, globals, workerLocals, hudVars, historyVars>>

SetUnload ==
    /\ wpc = "unload"
    /\ g_should_unload' = TRUE
    /\ wpc' = "close"
    /\ UNCHANGED <<owner, g_server_fd, g_web_running, workerLocals, hudVars, historyVars>>

(* close(cfd) after every request, the unload included. *)
CloseClient ==
    /\ wpc = "close"
    /\ Closes(cfd)
    /\ wpc' = "loop"
    /\ cfd' = Invalid /\ req' = NoRequest /\ got' = 0 /\ cut' = FALSE
    /\ UNCHANGED <<globals, tries, wfd, hudVars, partial>>

(* The loop has ended: close the listening socket unless the other thread    *)
(* did.  Test, use and reset of g_server_fd are separate accesses, and what  *)
(* the second one sees is the value tested or the one now there.             *)
LoopEnds ==
    /\ wpc = "loop" /\ ~g_web_running
    /\ wfd' = g_server_fd
    /\ wpc' = IF g_server_fd = Invalid THEN "gone" ELSE "endclose"
    /\ UNCHANGED <<owner, globals, tries, cfd, req, got, hudVars, historyVars>>

EndClose ==
    /\ wpc = "endclose"
    /\ \E fd \in {wfd, g_server_fd} : Closes(fd)
    /\ wpc' = "endclear"
    /\ UNCHANGED <<globals, workerLocals, hudVars, cut, partial>>

EndClear ==
    /\ wpc = "endclear"
    /\ g_server_fd' = Invalid
    /\ wpc' = "gone"
    /\ UNCHANGED <<owner, g_web_running, g_should_unload, workerLocals, hudVars, historyVars>>
-----------------------------------------------------------------------------
(* The HUD thread: web_server_stop(). *)

UnloadSeen ==
    /\ hpc = "loop" /\ g_should_unload
    /\ hpc' = "stop"
    /\ UNCHANGED <<owner, globals, wpc, workerLocals, hfd, historyVars>>

StopRunning ==
    /\ hpc = "stop"
    /\ g_web_running' = FALSE
    /\ hpc' = "check"
    /\ UNCHANGED <<owner, g_server_fd, g_should_unload, wpc, workerLocals, hfd, historyVars>>

StopCheck ==
    /\ hpc = "check"
    /\ hfd' = g_server_fd
    /\ hpc' = IF g_server_fd = Invalid THEN "exited" ELSE "close"
    /\ UNCHANGED <<owner, globals, wpc, workerLocals, historyVars>>

StopClose ==
    /\ hpc = "close"
    /\ \E fd \in {hfd, g_server_fd} : Closes(fd)
    /\ hpc' = "clear"
    /\ UNCHANGED <<globals, wpc, workerLocals, hfd, cut, partial>>

StopClear ==
    /\ hpc = "clear"
    /\ g_server_fd' = Invalid
    /\ hpc' = "exited"
    /\ UNCHANGED <<owner, g_web_running, g_should_unload, wpc, workerLocals, hfd, historyVars>>
-----------------------------------------------------------------------------
(* The threads of SceShellUI. *)
ShellOpens ==
    /\ \E fd \in Fd : Opens(fd, "shell")
    /\ UNCHANGED <<globals, wpc, workerLocals, hudVars, historyVars>>

ShellCloses ==
    /\ \E fd \in Fd : owner[fd] = "shell" /\ owner' = [owner EXCEPT ![fd] = "free"]
    /\ UNCHANGED <<globals, wpc, workerLocals, hudVars, historyVars>>
-----------------------------------------------------------------------------
(* The worker on its own: no connection has to come, no data, and nobody    *)
(* has to take a reply.                                                      *)
WorkerRuns ==
    \/ CreateSocket \/ Listen \/ PortBusy \/ NoPortLeft \/ Running
    \/ CallAccept
    \/ ReadEnds \/ Handle \/ SetUnload \/ CloseClient
    \/ LoopEnds \/ EndClose \/ EndClear

HudThread == UnloadSeen \/ StopRunning \/ StopCheck \/ StopClose \/ StopClear

Next ==
    \/ WorkerRuns \/ HudThread
    \/ Accept \/ AcceptFails \/ Read \/ Replied \/ HandleUnload
    \/ ShellOpens \/ ShellCloses

Spec == Init /\ [][Next]_vars

(* Both threads are scheduled, and read() waits three seconds at most.  A    *)
(* write() returns when the client reads or goes away: nothing is assumed of *)
(* the clients, so a reply may take for ever.                                *)
FairSpec == Spec /\ WF_vars(WorkerRuns) /\ WF_vars(HudThread)
-----------------------------------------------------------------------------
(* Outside an unload the payload closes and uses its own descriptors only,   *)
(* whatever the shell opens and closes around it.                            *)
ForeignOnlyInUnload == foreign => g_should_unload

(* The unload button promises a safe shutdown: no descriptor of the shell is *)
(* closed.  The unload handler closes cfd and its caller closes it again, so *)
(* this is NOT so when another thread was handed the number in between; the  *)
(* two closes of g_server_fd are a second way.                               *)
SafeShutdown == ~foreign

(* Every descriptor the payload opened is closed: the listening socket when  *)
(* the HUD thread is gone, everything when both threads are, and no more     *)
(* than one connection is ever open before.                                  *)
NothingLeaks ==
    /\ hpc = "exited" \/ wpc = "gone" => \A fd \in Fd : owner[fd] # "server"
    /\ wpc = "gone" => \A fd \in Fd : owner[fd] # "client"
    /\ \A fd \in Fd : owner[fd] = "client" => fd = cfd

(* A configuration that fits the buffer and keeps coming is applied whole,   *)
(* into however many pieces the network cuts it.                             *)
SplitBodiesAreWhole == ~partial

(* No client holds the worker by what it sends or does not send: silence    *)
(* ends in a timeout, a trickle in a full buffer, and the worker gets to its *)
(* reply or to the close.  What a client that does not read its reply can do *)
(* is another matter: nothing ends that.                                     *)
EveryRequestEnds == wpc = "read" ~> wpc \in {"reply", "close"}

(* A request to unload whose reply is out is followed by the end of the HUD  *)
(* thread, with the listening socket closed.                                 *)
UnloadStopsServer == wpc = "unload" ~> hpc = "exited"
=============================================================================
