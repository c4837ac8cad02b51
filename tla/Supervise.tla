------------------------------ MODULE Supervise ------------------------------
(***************************************************************************)
(* achost-supervise --server: one supervisor process that listens on a     *)
(* unix socket, forks a daemon for every well-formed client request,       *)
(* records the daemon's pid in the pid file the request names, answers OK  *)
(* or ERR, reaps its children between two requests and leaves on SIGTERM.  *)
(*                                                                         *)
(* Modelled around it: the one-shot clients (--client), the kernel's       *)
(* process table with pids that are recycled once they are reaped, the     *)
(* forked children up to their exec, SIGTERM and SIGKILL of the server and *)
(* its next start over whatever files the previous one left.               *)
(*                                                                         *)
(* The bytes of a request are abstracted to whether the server can read a  *)
(* whole, well-formed request from the connection.                         *)
(***************************************************************************)
EXTENDS Naturals, Sequences, FiniteSets

CONSTANTS
  Clients,    \* one-shot --client processes, each sends one request
  PidFiles,   \* paths a request may name as its pid file
  Pids,       \* the kernel's pid numbers
  MaxStarts   \* bound: how often the server is started

CONSTANTS NoClient, NoPid

ASSUME ConstantsAssumption ==
  /\ NoClient \notin Clients
  /\ NoPid \notin Pids
  /\ MaxStarts \in Nat

VARIABLES
  pc,       \* where run_server and the handle_client it calls stand
  conn,     \* the client whose connection was accepted
  child,    \* the pid fork_exec returned for it
  reply,    \* what handle_client is about to write to it
  stop,     \* STOP_SERVER
  starts,   \* how many servers were started so far
  sock,     \* the socket path: absent, bound by the live server, or left over
  srvFile,  \* TRUE while the server's own pid file exists
  backlog,  \* connections the kernel queued for accept
  req,      \* the clients: phase, how much was sent, the pid file they name
  proc,     \* the process table
  pidFile,  \* content of each requested pid file, NoPid if absent or empty
  forked    \* history: the clients a child was ever forked for

server == <<pc, conn, child, reply, stop, starts>>
files  == <<sock, srvFile, pidFile>>
vars   == <<server, files, backlog, req, proc, forked>>

-----------------------------------------------------------------------------
ServerPc == {"off", "bind", "writepid", "loop", "accept", "read", "fork",
             "record", "reply", "drop", "rmpid"}
Phase    == {"idle", "waiting", "ok", "failed", "dead"}
Sent     == {"partial", "whole", "bad", "cut"}
Request  == [phase : Phase, sent : Sent, file : PidFiles]
ProcSt   == {"free", "forked", "live", "zombie"}
Process  == [st : ProcSt, owner : Clients \union {NoClient},
             parent : {"server", "init"}, term : {"no", "lost", "sent"}]
FreeProc == [st |-> "free", owner |-> NoClient, parent |-> "init", term |-> "no"]

Running == pc # "off"
Queued  == {backlog[i] : i \in 1..Len(backlog)}

\* A client whose connection the kernel or the server closes unanswered
\* reads no "OK " and exits 1.
Disconnect(cs) ==
  [c \in Clients |-> IF c \in cs /\ req[c].phase = "waiting"
                     THEN [req[c] EXCEPT !.phase = "failed"] ELSE req[c]]

Init ==
  /\ pc = "off" /\ conn = NoClient /\ child = NoPid /\ reply = "none"
  /\ stop = FALSE /\ starts = 0
  /\ sock = "absent" /\ srvFile = FALSE
  /\ pidFile = [f \in PidFiles |-> NoPid]
  /\ backlog = <<>>
  /\ \E f \in [Clients -> PidFiles] :
       req = [c \in Clients |-> [phase |-> "idle", sent |-> "partial", file |-> f[c]]]
  /\ proc = [p \in Pids |-> FreeProc]
  /\ forked = {}

-----------------------------------------------------------------------------
(* The server: run_server.                                                 *)

\* A new server process; handlers, subreaper and root setup touch no file
\* that is modelled, and when one of them fails the process is gone again.
Start ==
  /\ pc = "off" /\ starts < MaxStarts
  /\ starts' = starts + 1
  /\ \/ pc' = "bind"
     \/ pc' = "off"
  /\ UNCHANGED <<conn, child, reply, stop, files, backlog, req, proc, forked>>

\* create_server_socket removes whatever is at the path before it binds.
Bind ==
  /\ pc = "bind"
  /\ \/ pc' = "writepid" /\ sock' = "live" /\ UNCHANGED stop
     \/ pc' = "off" /\ sock' = "absent" /\ stop' = FALSE
  /\ UNCHANGED <<conn, child, reply, starts, srvFile, pidFile, backlog, req, proc, forked>>

\* The server's own pid file; on failure the socket is removed and it exits.
WriteServerPid ==
  /\ pc = "writepid"
  /\ \/ pc' = "loop" /\ srvFile' = TRUE
        /\ UNCHANGED <<stop, sock, backlog, req>>
     \/ pc' = "off" /\ stop' = FALSE /\ sock' = "absent"
        /\ backlog' = <<>> /\ req' = Disconnect(Queued)
        /\ UNCHANGED srvFile
  /\ UNCHANGED <<conn, child, reply, starts, pidFile, proc, forked>>

\* Mutants of LoopHead: the signal goes unnoticed; nothing is reaped.
LoopHeadDeaf ==
  /\ pc = "loop" /\ pc' = "accept"
  /\ proc' = [p \in Pids |-> IF proc[p].st = "zombie" /\ proc[p].parent = "server"
                              THEN FreeProc ELSE proc[p]]
  /\ UNCHANGED <<conn, child, reply, stop, starts, files, backlog, req, forked>>
LoopHeadLazy ==
  /\ pc = "loop" /\ pc' = IF stop THEN "drop" ELSE "accept"
  /\ UNCHANGED <<conn, child, reply, stop, starts, files, backlog, req, proc, forked>>

\* The head of the loop: leave when STOP_SERVER is set, otherwise
\* reap_children collects every zombie there is.
LoopHead ==
  /\ pc = "loop"
  /\ IF stop
     THEN pc' = "drop" /\ UNCHANGED proc
     ELSE /\ pc' = "accept"
          /\ proc' = [p \in Pids |-> IF proc[p].st = "zombie" /\ proc[p].parent = "server"
                                     THEN FreeProc ELSE proc[p]]
  /\ UNCHANGED <<conn, child, reply, stop, starts, files, backlog, req, forked>>

\* accept on the nonblocking listener: a connection, or a 250 ms sleep.
Accept ==
  /\ pc = "accept"
  /\ IF backlog = <<>>
     THEN pc' = "loop" /\ UNCHANGED <<conn, backlog>>
     ELSE pc' = "read" /\ conn' = Head(backlog) /\ backlog' = Tail(backlog)
  /\ UNCHANGED <<child, reply, stop, starts, files, req, proc, forked>>

\* Mutant of ReadRequest: end of file is not noticed.
ReadRequestNoEof ==
  /\ pc = "read" /\ req[conn].sent \in {"whole", "bad"}
  /\ IF req[conn].sent = "whole"
     THEN pc' = "fork" /\ UNCHANGED reply
     ELSE pc' = "reply" /\ reply' = "ERR"
  /\ UNCHANGED <<conn, child, stop, starts, files, backlog, req, proc, forked>>

\* Blocking reads of name, pid file, argc and argv: the server waits while
\* the client has sent a part only; SIGTERM does not interrupt read_exact.
ReadRequest ==
  /\ pc = "read" /\ req[conn].sent # "partial"
  /\ IF req[conn].sent = "whole"
     THEN pc' = "fork" /\ UNCHANGED reply
     ELSE pc' = "reply" /\ reply' = "ERR"
  /\ UNCHANGED <<conn, child, stop, starts, files, backlog, req, proc, forked>>

\* fork_exec: a child under a pid no process holds, or an error.
ForkExec ==
  /\ pc = "fork"
  /\ \/ \E p \in Pids :
          /\ proc[p].st = "free"
          /\ proc' = [proc EXCEPT ![p] = [st |-> "forked", owner |-> conn,
                                          parent |-> "server", term |-> "no"]]
          /\ child' = p /\ forked' = forked \union {conn}
          /\ pc' = "record" /\ UNCHANGED reply
     \/ pc' = "reply" /\ reply' = "ERR" /\ UNCHANGED <<proc, child, forked>>
  /\ UNCHANGED <<conn, stop, starts, files, backlog, req>>

\* SIGTERM to pid p: a child that has not reset its handlers yet swallows
\* it in the handler it inherited; a zombie ignores it.
Terminate(p) ==
  [proc EXCEPT ![p].term = CASE proc[p].st = "live"   -> "sent"
                             [] proc[p].st = "forked" -> "lost"
                             [] OTHER                 -> proc[p].term]

\* Mutants of RecordPid: the children are reaped before the pid is written;
\* a failed write is answered OK; the child of a failed launch is left alone.
RecordPidReaped ==
  /\ pc = "record" /\ pc' = "reply" /\ reply' = "OK"
  /\ pidFile' = [pidFile EXCEPT ![req[conn].file] = child]
  /\ proc' = [p \in Pids |-> IF proc[p].st = "zombie" THEN FreeProc ELSE proc[p]]
  /\ UNCHANGED <<conn, child, stop, starts, sock, srvFile, backlog, req, forked>>
RecordPidUnchecked ==
  /\ pc = "record" /\ pc' = "reply" /\ reply' = "OK"
  /\ pidFile' \in {[pidFile EXCEPT ![req[conn].file] = p] : p \in {child, NoPid}}
  /\ UNCHANGED <<conn, child, stop, starts, sock, srvFile, backlog, req, proc, forked>>
RecordPidUntold ==
  /\ pc = "record" /\ pc' = "reply"
  /\ \/ pidFile' = [pidFile EXCEPT ![req[conn].file] = child] /\ reply' = "OK"
     \/ UNCHANGED pidFile /\ reply' = "ERR"
  /\ UNCHANGED <<conn, child, stop, starts, sock, srvFile, backlog, req, proc, forked>>

\* write_pid_file of the child. It may fail before the file is touched or
\* after it was truncated; either way the child is sent SIGTERM.
RecordPid ==
  /\ pc = "record"
  /\ \/ /\ pidFile' = [pidFile EXCEPT ![req[conn].file] = child]
        /\ reply' = "OK" /\ UNCHANGED proc
     \/ /\ pidFile' \in {pidFile, [pidFile EXCEPT ![req[conn].file] = NoPid]}
        /\ reply' = "ERR" /\ proc' = Terminate(child)
  /\ pc' = "reply"
  /\ UNCHANGED <<conn, child, stop, starts, sock, srvFile, backlog, req, forked>>

\* Mutant of Reply: the answer's text where the client's result belongs.
ReplyRaw ==
  /\ pc = "reply"
  /\ req' = [req EXCEPT ![conn].phase = IF @ # "waiting" THEN @ ELSE reply]
  /\ pc' = "loop" /\ conn' = NoClient /\ child' = NoPid /\ reply' = "none"
  /\ UNCHANGED <<stop, starts, files, backlog, proc, forked>>

\* The answer; SIGPIPE is ignored, so a client that died changes nothing.
Reply ==
  /\ pc = "reply"
  /\ req' = [req EXCEPT ![conn].phase =
               IF @ # "waiting" THEN @ ELSE IF reply = "OK" THEN "ok" ELSE "failed"]
  /\ pc' = "loop" /\ conn' = NoClient /\ child' = NoPid /\ reply' = "none"
  /\ UNCHANGED <<stop, starts, files, backlog, proc, forked>>

\* Leaving: drop(listener) resets the queued connections, then the socket
\* path is removed ...
DropListener ==
  /\ pc = "drop"
  /\ pc' = "rmpid" /\ sock' = "absent"
  /\ backlog' = <<>> /\ req' = Disconnect(Queued)
  /\ UNCHANGED <<conn, child, reply, stop, starts, srvFile, pidFile, proc, forked>>

\* The children left behind when a server ends are adopted by init.
Orphans == [p \in Pids |-> [proc[p] EXCEPT !.parent = "init"]]

\* ... then the pid file; the children are not signalled.
RemoveServerPid ==
  /\ pc = "rmpid"
  /\ pc' = "off" /\ srvFile' = FALSE /\ stop' = FALSE
  /\ proc' = Orphans
  /\ UNCHANGED <<conn, child, reply, starts, sock, pidFile, backlog, req, forked>>

-----------------------------------------------------------------------------
(* What happens to the server.                                             *)

\* SIGTERM, SIGINT, SIGHUP or SIGQUIT: handle_signal.
Signal ==
  /\ Running /\ ~stop /\ stop' = TRUE
  /\ UNCHANGED <<pc, conn, child, reply, starts, files, backlog, req, proc, forked>>

\* SIGKILL (docker-runtime's stop sends it after 10 s) or a crash: the
\* files stay, the connections are reset, the children go to init.
Kill ==
  /\ Running
  /\ pc' = "off" /\ stop' = FALSE
  /\ conn' = NoClient /\ child' = NoPid /\ reply' = "none"
  /\ sock' = IF sock = "live" THEN "stale" ELSE sock
  /\ backlog' = <<>> /\ req' = Disconnect(Queued \union {conn})
  /\ proc' = Orphans
  /\ UNCHANGED <<starts, srvFile, pidFile, forked>>

-----------------------------------------------------------------------------
(* The clients: send_client_request.                                       *)

\* Mutant of Connect: a client that was refused tries again.
ConnectAgain(c) ==
  /\ req[c].phase \in {"idle", "failed"}
  /\ IF sock = "live"
     THEN /\ req' = [req EXCEPT ![c].phase = "waiting"]
          /\ backlog' = Append(backlog, c)
     ELSE /\ req' = [req EXCEPT ![c].phase = "failed"]
          /\ UNCHANGED backlog
  /\ UNCHANGED <<server, files, proc, forked>>

\* connect; without a listener behind the path the client fails at once.
Connect(c) ==
  /\ req[c].phase = "idle"
  /\ IF sock = "live"
     THEN /\ req' = [req EXCEPT ![c].phase = "waiting"]
          /\ backlog' = Append(backlog, c)
     ELSE /\ req' = [req EXCEPT ![c].phase = "failed"]
          /\ UNCHANGED backlog
  /\ UNCHANGED <<server, files, proc, forked>>

\* The rest of the request: well-formed, or one the server rejects (argc 0
\* or above MAX_ARGS, a string that is too long or not UTF-8).
Send(c) ==
  /\ req[c].phase = "waiting" /\ req[c].sent = "partial"
  /\ \E s \in {"whole", "bad"} : req' = [req EXCEPT ![c].sent = s]
  /\ UNCHANGED <<server, files, backlog, proc, forked>>

\* The client is killed while it waits; the server reads EOF where the
\* rest of the request is missing.
ClientDies(c) ==
  /\ req[c].phase = "waiting"
  /\ req' = [req EXCEPT ![c].phase = "dead",
                        ![c].sent = IF @ = "partial" THEN "cut" ELSE @]
  /\ UNCHANGED <<server, files, backlog, proc, forked>>

-----------------------------------------------------------------------------
(* The processes.                                                          *)

\* The child resets its handlers, takes its own process group and execs.
ChildExec(p) ==
  /\ proc[p].st = "forked"
  /\ proc' = [proc EXCEPT ![p].st = "live"]
  /\ UNCHANGED <<server, files, backlog, req, forked>>

\* A child ends: exec failed (126, 127), it was signalled, or it is done.
ChildExit(p) ==
  /\ proc[p].st \in {"forked", "live"} /\ proc[p].owner # NoClient
  /\ proc' = [proc EXCEPT ![p].st = "zombie"]
  /\ UNCHANGED <<server, files, backlog, req, forked>>

\* init reaps what it adopted.
InitReap(p) ==
  /\ proc[p].st = "zombie" /\ proc[p].parent = "init"
  /\ proc' = [proc EXCEPT ![p] = FreeProc]
  /\ UNCHANGED <<server, files, backlog, req, forked>>

\* Any other process of the phone takes a free pid, and ends.
ForeignStart(p) ==
  /\ proc[p].st = "free"
  /\ proc' = [proc EXCEPT ![p].st = "live"]
  /\ UNCHANGED <<server, files, backlog, req, forked>>
ForeignEnd(p) ==
  /\ proc[p].st = "live" /\ proc[p].owner = NoClient
  /\ proc' = [proc EXCEPT ![p] = FreeProc]
  /\ UNCHANGED <<server, files, backlog, req, forked>>

-----------------------------------------------------------------------------
ServerStep == \/ Bind \/ WriteServerPid \/ LoopHead \/ Accept \/ ReadRequest
              \/ ForkExec \/ RecordPid \/ Reply \/ DropListener \/ RemoveServerPid

Next ==
  \/ Start \/ ServerStep \/ Signal \/ Kill
  \/ \E c \in Clients : Connect(c) \/ Send(c) \/ ClientDies(c)
  \/ \E p \in Pids : \/ ChildExec(p) \/ ChildExit(p) \/ InitReap(p)
                     \/ ForeignStart(p) \/ ForeignEnd(p)

Spec == Init /\ [][Next]_vars

\* The server runs, clients write their whole request in one go, a child
\* that was sent SIGTERM ends, and init reaps. Nobody has to start or kill
\* a server, and a daemon need not end on its own.
Fairness ==
  /\ WF_vars(ServerStep)
  /\ \A c \in Clients : WF_vars(Send(c))
  /\ \A p \in Pids : WF_vars(ChildExec(p)) /\ WF_vars(InitReap(p))

FairSpec == Spec /\ Fairness

-----------------------------------------------------------------------------
TypeOK ==
  /\ pc \in ServerPc
  /\ conn \in Clients \union {NoClient}
  /\ child \in Pids \union {NoPid}
  /\ reply \in {"none", "OK", "ERR"}
  /\ stop \in BOOLEAN
  /\ starts \in 0..MaxStarts
  /\ sock \in {"absent", "live", "stale"}
  /\ srvFile \in BOOLEAN
  /\ backlog \in Seq(Clients)
  /\ req \in [Clients -> Request]
  /\ proc \in [Pids -> Process]
  /\ pidFile \in [PidFiles -> Pids \union {NoPid}]
  /\ forked \subseteq Clients

\* From fork_exec to the answer the pid in the server's hand is its own,
\* unreaped child, forked for this very request: it cannot have been
\* recycled when it is written to the pid file or signalled, because the
\* server reaps only at the head of its loop (run_server, handle_client).
ChildIsOurs ==
  pc \in {"record", "reply"} /\ child # NoPid =>
    /\ proc[child].owner = conn
    /\ proc[child].parent = "server"
    /\ proc[child].st # "free"

\* An OK is only ever on its way to a client while the pid file it named
\* holds the pid of its own child (handle_client answers OK after the
\* write).
OkIsRecorded ==
  pc = "reply" /\ reply = "OK" =>
    /\ child # NoPid /\ pidFile[req[conn].file] = child
    /\ proc[child].owner = conn

\* A client that was told its launch failed has no child of the present
\* server running that was never sent SIGTERM (the kill in handle_client's
\* error path). The SIGTERM may be lost on a child before its exec.
RefusedChildTold ==
  \A p \in Pids :
    /\ proc[p].owner # NoClient /\ proc[p].parent = "server"
    /\ proc[p].st \in {"forked", "live"}
    /\ req[proc[p].owner].phase = "failed"
    => proc[p].term # "no"

\* Every client that connected is answered or disconnected, whatever the
\* server does, including its exit and its death.
EveryClientReturns == \A c \in Clients : req[c].phase = "waiting" ~> req[c].phase # "waiting"

\* A signalled server leaves: the request at hand is finished first.
SignalStopsServer == stop ~> pc = "off"

\* A dead child's pid is given back: by the server's loop while it runs, by
\* init afterwards.
ZombiesAreReaped == \A p \in Pids : proc[p].st = "zombie" ~> proc[p].st # "zombie"
-----------------------------------------------------------------------------
(* What the server implements.                                             *)

\* The history variable gives the abstract set of launches; a client's
\* phase is renamed.
AbsPhase == [idle |-> "idle", waiting |-> "pending", ok |-> "granted",
             failed |-> "refused", dead |-> "gone"]

Service == INSTANCE LaunchService
             WITH phase <- [c \in Clients |-> AbsPhase[req[c].phase]],
                  launched <- forked

\* The server implements the launch service: at most one child per request,
\* OK only after a fork, no fork after a refusal (run_server, handle_client
\* and send_client_request together).
ImplementsLaunchService == Service!Spec
=============================================================================
