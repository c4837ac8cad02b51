---------------------------- MODULE DockerRuntime ----------------------------
(***************************************************************************)
(* achost-docker-runtime start and stop, the supervisors, containerd and   *)
(* dockerd they bring up and take down, and the pid files and sockets in   *)
(* the run directory that tie them together.                               *)
(*                                                                         *)
(* A command is a process that may interleave with every other process.   *)
(* The pid files outlive the processes they name, and the run directory    *)
(* outlives a reboot. A client request to a supervisor is one step here    *)
(* (module Supervise has its inside). The 30, 15 and 10 second waits are   *)
(* abstracted to: a wait ends when its condition holds, or gives up when   *)
(* nothing is under way that would make it hold; with the fault "slow" it  *)
(* may give up on something that is still coming.                          *)
(***************************************************************************)
EXTENDS Naturals, FiniteSets, Sequences

CONSTANTS
  Starters, Stoppers,   \* invocations of start and of stop, each runs once
  Pids, NoPid, Stale,   \* pids; no pid or no socket; a socket nobody listens on
  Faults,               \* what the environment may do, see FaultKinds
  Guarded               \* achost-runtime-core is there: starts run a watchdog

\* overlap   commands may run at the same time (WebUI, shell and boot script)
\* interrupt a start may be killed at any step (the WebUI's command timeout)
\* slow      a process may take longer than a command waits for it
\* crash     a daemon may die on its own, leaving its files
\* reboot    the phone may restart once
\* refuse    a supervisor may fail to fork a child or to write its pid file
FaultKinds == {"overlap", "interrupt", "slow", "crash", "reboot", "refuse"}

Commands == Starters \union Stoppers
Daemons  == {"ctd", "dkd"}
Kinds    == {"server"} \union Daemons
Owned    == {"server", "dog"} \union Daemons
PidNames == {"sup", "ctd", "dkd", "launch", "dog"}
Sockets  == {"sup", "ctd", "dkd"}

ASSUME DockerAssumption ==
  /\ Faults \subseteq FaultKinds
  /\ Starters \intersect Stoppers = {}
  /\ Guarded \in BOOLEAN
  /\ NoPid \notin Pids /\ Stale \notin Pids /\ NoPid # Stale

VARIABLES
  proc,      \* the process table
  pidf,      \* content of each pid file, NoPid when it does not exist
  sock,      \* who listens behind each socket path, Stale, or NoPid
  pc,        \* where each command stands
  stage,     \* what a start works on: the supervisor first, then each daemon
  step,      \* how far each stop is in StopPlan
  hold,      \* the pids a stop sent SIGTERM and still waits for
  struck,    \* history: the kinds of process a stop ever signalled
  last,      \* history: the kind of command that ended last
  stray,     \* history: a launch was refused after its fork, since the last
             \* stop that ended or the last boot
  rebooted,
  watched    \* the base service started its watchdog in this boot

vars == <<proc, pidf, sock, pc, stage, step, hold, struck, last, stray, rebooted, watched>>
run  == <<pidf, sock>>
cmd  == <<pc, stage, step, last, stray>>

\* stub: forked by a supervisor, still achost-supervise --launch;
\* boot, bound, up: on its way to serving; leaving: on its way out. A
\* network watchdog ("dog") is bound once it found no other one running.
Stages  == {"free", "stub", "boot", "bound", "up", "leaving", "zombie"}
Process == [kind : Owned \union {"none", "foreign"}, st : Stages,
            term : BOOLEAN, parent : Pids \union {NoPid}]
Free    == [kind |-> "none", st |-> "free", term |-> FALSE, parent |-> NoPid]
Fresh(k, s, par) == [kind |-> k, st |-> s, term |-> FALSE, parent |-> par]

\* Mutant of StopPlan: the watchdog's pid file alone is looked at.
StopPlanNoScan == << <<"dog", "dog">>, <<"dkd", "dkd">>, <<"launch", "dkd">>, <<"ctd", "ctd">>,
                     <<"scan", "dkd">>, <<"scan", "ctd">>, <<"sup", "server">> >>

\* Mutant of StopPlan: the supervisor before its daemons.
StopPlanServerFirst == << <<"dog", "dog">>, <<"scan", "dog">>, <<"sup", "server">>,
                          <<"dkd", "dkd">>, <<"launch", "dkd">>, <<"ctd", "ctd">>,
                          <<"scan", "dkd">>, <<"scan", "ctd">> >>

\* run_stop, in order: which pid file or which scan, for which executable.
StopPlan == << <<"dog", "dog">>, <<"scan", "dog">>,
               <<"dkd", "dkd">>, <<"launch", "dkd">>, <<"ctd", "ctd">>,
               <<"scan", "dkd">>, <<"scan", "ctd">>, <<"sup", "server">> >>

StartPc == {"ensure", "spawn", "probe", "guard", "check", "request", "socket", "api"}
EndPc   == {"idle", "ok", "failed", "killed"}
StopPc  == {"enter", "wait"}

Active(c)  == pc[c] \notin EndPc
Quiet      == \A c \in Commands : ~Active(c)
Begin(c)   == pc[c] = "idle" /\ ("overlap" \in Faults \/ Quiet)

-----------------------------------------------------------------------------
(* What the commands can see of processes and files.                       *)

\* pid_alive: kill(pid, 0) or /proc/pid; true of zombies and of strangers.
Alive(p) == p \in Pids /\ proc[p].st # "free"
\* process_uses_executable: /proc/pid/exe or argv[0] is the module's file.
\* A zombie shows neither, a stub still shows achost-supervise.
Uses(p, k) == proc[p].kind = k /\ proc[p].st \notin {"free", "stub", "zombie"}
\* a connection to the socket is answered
Answers(s) == sock[s] \in Pids
ServerReady == Alive(pidf["sup"]) /\ sock["sup"] # NoPid
\* the client probe succeeds, or would with this server up
ProbeOk == Answers("sup") /\ proc[sock["sup"]].st = "up"

\* A process of the kind that will serve, if it is given the time.
Coming(k) ==
  \E p \in Pids : /\ proc[p].kind = k /\ ~proc[p].term
                  /\ proc[p].st \in {"stub", "boot", "bound"}
                  /\ k = "ctd" => \A q \in Pids : proc[q].kind = "ctd" => proc[q].st # "up"
GivesUp(k) == "slow" \in Faults \/ ~Coming(k)

-----------------------------------------------------------------------------
(* The end of processes, as functions of the process table.                *)

\* A daemon whose parent still runs becomes a zombie, any other pid is
\* reaped at once; what a server leaves behind is adopted and reaped.
Adopt(tbl, gone) ==
  [p \in Pids |-> IF tbl[p].parent \in gone
                  THEN IF tbl[p].st = "zombie" THEN Free ELSE [tbl[p] EXCEPT !.parent = NoPid]
                  ELSE tbl[p]]
Ended(ps) ==
  LET dead == [p \in Pids |-> IF p \notin ps THEN proc[p]
                              ELSE IF proc[p].parent \in Pids \ ps
                                   THEN [proc[p] EXCEPT !.st = "zombie"] ELSE Free]
  IN  Adopt(dead, {p \in ps : proc[p].kind = "server"})
\* SIGKILL and crashes leave the socket path behind.
Abandoned(ps) == [s \in Sockets |-> IF sock[s] \in ps THEN Stale ELSE sock[s]]

-----------------------------------------------------------------------------
Init ==
  /\ proc = [p \in Pids |-> Free]
  /\ pidf = [f \in PidNames |-> NoPid]
  /\ sock = [s \in Sockets |-> NoPid]
  /\ pc = [c \in Commands |-> "idle"]
  /\ stage = [c \in Starters |-> "first"]
  /\ step = [c \in Stoppers |-> 1]
  /\ hold = [t \in Stoppers |-> {}]
  /\ struck = {} /\ last = "none" /\ stray = FALSE /\ rebooted = FALSE /\ watched = FALSE

Goto(c, l) == pc' = [pc EXCEPT ![c] = l]
Finish(c, l) ==
  /\ Goto(c, l)
  /\ last' = IF c \in Starters THEN "start" ELSE "stop"
Keep == UNCHANGED <<step, hold, struck, stray, rebooted, watched>>

-----------------------------------------------------------------------------
(* start_runtime.                                                          *)

\* It begins with ensure_supervisor_server.
StartBegin(s) ==
  /\ Begin(s) /\ Goto(s, "ensure")
  /\ UNCHANGED <<proc, run, stage, last>> /\ Keep

\* ensure_supervisor_server returns: on to the watchdog and containerd, or
\* to the client request it was called for.
Ensured(s) ==
  /\ Goto(s, IF stage[s] = "first" THEN "guard" ELSE "request")
  /\ UNCHANGED <<stage, last>>
Fail(s) == Finish(s, "failed") /\ UNCHANGED stage

\* Mutant of Ensure: a new server whatever there is.
EnsureAnew(s) ==
  /\ pc[s] = "ensure"
  /\ pidf' = [pidf EXCEPT !["sup"] = NoPid]
  /\ sock' = [sock EXCEPT !["sup"] = NoPid]
  /\ Goto(s, "spawn") /\ UNCHANGED <<proc, stage, last>> /\ Keep

\* A server whose pid file and socket exist must answer the probe, it is
\* never replaced; otherwise both files are removed.
Ensure(s) ==
  /\ pc[s] = "ensure"
  /\ IF ServerReady
     THEN /\ IF ProbeOk THEN Ensured(s) ELSE Fail(s)
          /\ UNCHANGED run
     ELSE /\ pidf' = [pidf EXCEPT !["sup"] = NoPid]
          /\ sock' = [sock EXCEPT !["sup"] = NoPid]
          /\ Goto(s, "spawn") /\ UNCHANGED <<stage, last>>
  /\ UNCHANGED proc /\ Keep

SpawnServer(s) ==
  /\ pc[s] = "spawn"
  /\ \E p \in Pids : /\ proc[p].st = "free"
                     /\ proc' = [proc EXCEPT ![p] = Fresh("server", "boot", NoPid)]
  /\ Goto(s, "probe") /\ UNCHANGED <<run, stage, last>> /\ Keep

\* The ten tries: ready and probed, or given up.
Probe(s) ==
  /\ pc[s] = "probe"
  /\ \/ ServerReady /\ ProbeOk /\ Ensured(s)
     \/ ~(ServerReady /\ ProbeOk) /\ GivesUp("server") /\ Fail(s)
  /\ UNCHANGED <<proc, run>> /\ Keep

\* A watchdog under some free pid.
SpawnDog == \E p \in Pids : /\ proc[p].st = "free"
                           /\ proc' = [proc EXCEPT ![p] = Fresh("dog", "boot", NoPid)]

\* spawn_network_watchdog: never waited for, and then on to containerd.
SpawnWatchdog(s) ==
  /\ pc[s] = "guard" /\ Goto(s, "check") /\ stage' = [stage EXCEPT ![s] = "ctd"]
  /\ IF Guarded THEN SpawnDog ELSE UNCHANGED proc
  /\ UNCHANGED <<run, last>> /\ Keep

\* The branch for one daemon: taken as running when its pid file names any
\* live process, otherwise its files are removed and a supervisor is asked
\* to launch it.
CheckDaemon(s) ==
  LET k == stage[s] IN
  /\ pc[s] = "check"
  /\ IF Alive(pidf[k])
     THEN Goto(s, "socket") /\ UNCHANGED run
     ELSE /\ pidf' = IF k = "ctd" THEN [pidf EXCEPT !["ctd"] = NoPid]
                                  ELSE [pidf EXCEPT !["dkd"] = NoPid, !["launch"] = NoPid]
          /\ sock' = [sock EXCEPT ![k] = NoPid]
          /\ Goto(s, "ensure")
  /\ UNCHANGED <<proc, stage, last>> /\ Keep

\* start_daemon_command's client request, served by whichever server
\* listens: a stub under a free pid, recorded in the requested pid file.
\* Without an OK the start fails.
LaunchFile(k) == IF k = "ctd" THEN "ctd" ELSE "launch"
LaunchDaemon(s) ==
  LET k == stage[s] IN
  /\ pc[s] = "request"
  /\ IF ProbeOk
     THEN /\ \E p \in Pids :
               /\ proc[p].st = "free"
               /\ proc' = [proc EXCEPT ![p] = Fresh(k, "stub", sock["sup"])]
               /\ pidf' = [pidf EXCEPT ![LaunchFile(k)] = p]
          /\ Goto(s, "socket") /\ UNCHANGED <<stage, last>>
     ELSE Fail(s) /\ UNCHANGED <<proc, pidf>>
  /\ UNCHANGED sock /\ Keep

\* Mutant of LaunchRefused: OK although the pid file could not be written.
LaunchUnrecorded(s) ==
  /\ "refuse" \in Faults
  /\ pc[s] = "request" /\ ProbeOk
  /\ \E p \in Pids : /\ proc[p].st = "free"
                     /\ proc' = [proc EXCEPT ![p] = Fresh(stage[s], "stub", sock["sup"])]
  /\ Goto(s, "socket") /\ UNCHANGED <<run, stage, last>> /\ Keep

\* The server answers ERR, and the start fails: no child was forked, or
\* one was and its pid file could not be written. That child is sent
\* SIGTERM, which is lost as long as the handlers of the server are in
\* place in it: told is false then, and it goes on.
LaunchRefused(s) ==
  LET k == stage[s] IN
  /\ "refuse" \in Faults
  /\ pc[s] = "request" /\ ProbeOk /\ Fail(s)
  /\ \/ UNCHANGED <<proc, pidf, stray>>
     \/ /\ \E p \in Pids, told \in BOOLEAN :
             /\ proc[p].st = "free"
             /\ proc' = [proc EXCEPT ![p] = [Fresh(k, "stub", sock["sup"]) EXCEPT !.term = told]]
        /\ pidf' \in {pidf, [pidf EXCEPT ![LaunchFile(k)] = NoPid]}
        /\ stray' = TRUE
  /\ UNCHANGED <<sock, step, hold, struck, rebooted, watched>>

\* Mutant of WaitSocket: dockerd counts as started once it is launched.
WaitSocketHasty(s) ==
  /\ pc[s] = "socket"
  /\ \/ stage[s] = "dkd" /\ Finish(s, "ok")
     \/ stage[s] = "ctd" /\ sock["ctd"] # NoPid /\ Goto(s, "api") /\ UNCHANGED last
  /\ UNCHANGED <<proc, run, stage>> /\ Keep

\* wait_for_socket: the path is a socket, served or not.
WaitSocket(s) ==
  /\ pc[s] = "socket"
  /\ \/ sock[stage[s]] # NoPid /\ Goto(s, "api") /\ UNCHANGED <<stage, last>>
     \/ sock[stage[s]] = NoPid /\ GivesUp(stage[s]) /\ Fail(s)
  /\ UNCHANGED <<proc, run>> /\ Keep

\* wait_for_containerd_api, wait_for_docker_api. After the second one
\* start_runtime returns Ok; the network reconcile only warns.
WaitApi(s) ==
  /\ pc[s] = "api"
  /\ \/ /\ Answers(stage[s])
        /\ IF stage[s] = "ctd"
           THEN Goto(s, "check") /\ stage' = [stage EXCEPT ![s] = "dkd"] /\ UNCHANGED last
           ELSE Finish(s, "ok") /\ UNCHANGED stage
     \/ ~Answers(stage[s]) /\ GivesUp(stage[s]) /\ Fail(s)
  /\ UNCHANGED <<proc, run>> /\ Keep

StartStep(s) == \/ Ensure(s) \/ SpawnServer(s) \/ Probe(s) \/ SpawnWatchdog(s) \/ CheckDaemon(s)
                \/ LaunchDaemon(s) \/ LaunchRefused(s) \/ WaitSocket(s) \/ WaitApi(s)

\* The WebUI's timeout kills the start process, not what it started.
Interrupt(s) ==
  /\ "interrupt" \in Faults /\ Active(s) /\ Finish(s, "killed")
  /\ UNCHANGED <<proc, run, stage>> /\ Keep

-----------------------------------------------------------------------------
(* run_stop.                                                               *)

Target(t) == StopPlan[step[t]]

\* Mutant of Advance: one part too many.
AdvanceTooFar(t, left) ==
  IF step[t] <= Len(StopPlan)
  THEN /\ Goto(t, "enter") /\ step' = [step EXCEPT ![t] = @ + 1]
       /\ sock' = left /\ UNCHANGED <<last, stray>>
  ELSE /\ Finish(t, "ok") /\ sock' = [s \in Sockets |-> NoPid]
       /\ stray' = FALSE /\ UNCHANGED step

\* On to the next part of the plan; after the last one the sockets are
\* removed and the stop is done. left: the sockets as this part leaves them.
Advance(t, left) ==
  IF step[t] < Len(StopPlan)
  THEN /\ Goto(t, "enter") /\ step' = [step EXCEPT ![t] = @ + 1]
       /\ sock' = left /\ UNCHANGED <<last, stray>>
  ELSE /\ Finish(t, "ok") /\ sock' = [s \in Sockets |-> NoPid]
       /\ stray' = FALSE /\ UNCHANGED step

\* Nobody issues a stop within the moment a watchdog needs to its pid file,
\* or within the seconds the child of a refused launch needs to come up.
NothingUnderWay ==
  /\ \A p \in Pids : proc[p].kind = "dog" => proc[p].st = "up"
  /\ stray => \A k \in Daemons :
                ~Coming(k) /\ \A p \in Pids : ~(proc[p].kind = k /\ proc[p].st = "stub")
StopBegin(t) ==
  /\ Begin(t) /\ Goto(t, "enter")
  /\ "slow" \in Faults \/ NothingUnderWay
  /\ UNCHANGED <<proc, run, stage, last>> /\ Keep

\* Mutant of StopPidFile: whatever runs under the pid is signalled.
StopPidFileBlind(t) ==
  LET f == Target(t)[1]  p == pidf[f] IN
  /\ pc[t] = "enter" /\ f # "scan"
  /\ IF Alive(p)
     THEN /\ proc' = [proc EXCEPT ![p].term = TRUE]
          /\ hold' = [hold EXCEPT ![t] = {p}]
          /\ struck' = struck \union {proc[p].kind}
          /\ Goto(t, "wait") /\ UNCHANGED <<run, step, last, stray>>
     ELSE /\ pidf' = [pidf EXCEPT ![f] = NoPid]
          /\ Advance(t, sock) /\ UNCHANGED <<proc, hold, struck>>
  /\ UNCHANGED <<stage, rebooted, watched>>

\* stop_pid_file_any up to the SIGTERM: a file that names no live process,
\* or one that does not run the expected executable, is only removed.
StopPidFile(t) ==
  LET f == Target(t)[1]  p == pidf[f] IN
  /\ pc[t] = "enter" /\ f # "scan"
  /\ IF Alive(p) /\ Uses(p, Target(t)[2])
     THEN /\ proc' = [proc EXCEPT ![p].term = TRUE]
          /\ hold' = [hold EXCEPT ![t] = {p}]
          /\ struck' = struck \union {proc[p].kind}
          /\ Goto(t, "wait") /\ UNCHANGED <<run, step, last, stray>>
     ELSE /\ pidf' = [pidf EXCEPT ![f] = NoPid]
          /\ Advance(t, sock) /\ UNCHANGED <<proc, hold, struck>>
  /\ UNCHANGED <<stage, rebooted, watched>>

\* Mutant of StopWait: the pid file stays.
StopWaitKeepsFile(t) ==
  LET kill == {p \in hold[t] : Alive(p)} IN
  /\ pc[t] = "wait" /\ Target(t)[1] # "scan"
  /\ "slow" \in Faults \/ \A p \in kill : ~proc[p].term
  /\ proc' = Ended(kill)
  /\ struck' = struck \union {proc[p].kind : p \in kill}
  /\ hold' = [hold EXCEPT ![t] = {}]
  /\ Advance(t, Abandoned(kill))
  /\ UNCHANGED <<pidf, stage, rebooted, watched>>

\* The ten seconds: until the pid is gone, or SIGKILL to it.
StopWait(t) ==
  LET f == Target(t)[1]
      kill == {p \in hold[t] : Alive(p)}
  IN
  /\ pc[t] = "wait" /\ f # "scan"
  /\ "slow" \in Faults \/ \A p \in kill : ~proc[p].term
  /\ proc' = Ended(kill)
  /\ struck' = struck \union {proc[p].kind : p \in kill}
  /\ pidf' = [pidf EXCEPT ![f] = NoPid]
  /\ hold' = [hold EXCEPT ![t] = {}]
  /\ Advance(t, Abandoned(kill))
  /\ UNCHANGED <<stage, rebooted, watched>>

\* stop_owned_processes: SIGTERM to every process of the kind that shows
\* the module's executable, pid file or not.
StopScan(t) ==
  LET k == Target(t)[2]  found == {p \in Pids : Uses(p, k)} IN
  /\ pc[t] = "enter" /\ Target(t)[1] = "scan"
  /\ IF found = {}
     THEN Advance(t, sock) /\ UNCHANGED <<proc, hold, struck>>
     ELSE /\ proc' = [p \in Pids |-> IF p \in found THEN [proc[p] EXCEPT !.term = TRUE] ELSE proc[p]]
          /\ hold' = [hold EXCEPT ![t] = found]
          /\ struck' = struck \union {k}
          /\ Goto(t, "wait") /\ UNCHANGED <<sock, step, last, stray>>
  /\ UNCHANGED <<pidf, stage, rebooted, watched>>

\* stop_pid_list one second later: SIGKILL to the pids that still exist.
StopScanKill(t) ==
  LET kill == {p \in hold[t] : Alive(p)} IN
  /\ pc[t] = "wait" /\ Target(t)[1] = "scan"
  /\ proc' = Ended(kill)
  /\ struck' = struck \union {proc[p].kind : p \in kill}
  /\ hold' = [hold EXCEPT ![t] = {}]
  /\ Advance(t, Abandoned(kill))
  /\ UNCHANGED <<pidf, stage, rebooted, watched>>

StopStep(t) == StopPidFile(t) \/ StopWait(t) \/ StopScan(t) \/ StopScanKill(t)

-----------------------------------------------------------------------------
(* The supervisors (run_server, see module Supervise).                     *)

ServerBind(p) ==
  /\ proc[p].kind = "server" /\ proc[p].st = "boot"
  /\ proc' = [proc EXCEPT ![p].st = "bound"]
  /\ sock' = [sock EXCEPT !["sup"] = p]
  /\ UNCHANGED <<pidf, cmd>> /\ UNCHANGED <<hold, struck, rebooted, watched>>

ServerWritePid(p) ==
  /\ proc[p].kind = "server" /\ proc[p].st = "bound"
  /\ proc' = [proc EXCEPT ![p].st = "up"]
  /\ pidf' = [pidf EXCEPT !["sup"] = p]
  /\ UNCHANGED <<sock, cmd>> /\ UNCHANGED <<hold, struck, rebooted, watched>>

\* The loop: reap the children, leave when SIGTERM was caught. The socket
\* and the pid file are removed by path, whoever they belong to by now.
ServerReap(p) ==
  /\ proc[p].kind = "server" /\ proc[p].st = "up"
  /\ \E q \in Pids : proc[q].parent = p /\ proc[q].st = "zombie"
  /\ proc' = [q \in Pids |-> IF proc[q].parent = p /\ proc[q].st = "zombie" THEN Free ELSE proc[q]]
  /\ UNCHANGED <<run, cmd>> /\ UNCHANGED <<hold, struck, rebooted, watched>>

ServerLeave(p) ==
  /\ proc[p].kind = "server" /\ proc[p].st = "up" /\ proc[p].term
  /\ proc' = [proc EXCEPT ![p].st = "leaving"]
  /\ sock' = [sock EXCEPT !["sup"] = NoPid]
  /\ UNCHANGED <<pidf, cmd>> /\ UNCHANGED <<hold, struck, rebooted, watched>>

ServerGone(p) ==
  /\ proc[p].kind = "server" /\ proc[p].st = "leaving"
  /\ pidf' = [pidf EXCEPT !["sup"] = NoPid]
  /\ proc' = Ended({p})
  /\ UNCHANGED <<sock, cmd>> /\ UNCHANGED <<hold, struck, rebooted, watched>>

-----------------------------------------------------------------------------
(* The network watchdog (net_watchdog; module NetPolicy has its loop).     *)

\* Mutant of DogJudge: the file is written first, and names itself.
DogJudgeLate(p) ==
  /\ proc[p].kind = "dog" /\ proc[p].st = "boot" /\ ~proc[p].term
  /\ pidf' = [pidf EXCEPT !["dog"] = p] /\ proc' = Ended({p})
  /\ UNCHANGED <<sock, cmd>> /\ UNCHANGED <<hold, struck, rebooted, watched>>

\* It leaves when its pid file names any live process.
DogJudge(p) ==
  /\ proc[p].kind = "dog" /\ proc[p].st = "boot" /\ ~proc[p].term
  /\ proc' = IF Alive(pidf["dog"]) THEN Ended({p}) ELSE [proc EXCEPT ![p].st = "bound"]
  /\ UNCHANGED <<run, cmd>> /\ UNCHANGED <<hold, struck, rebooted, watched>>

\* The pid file is written, whatever it says by now, and SIGTERM is caught
\* from here on.
DogWrite(p) ==
  /\ proc[p].kind = "dog" /\ proc[p].st = "bound" /\ ~proc[p].term
  /\ proc' = [proc EXCEPT ![p].st = "up"]
  /\ pidf' = [pidf EXCEPT !["dog"] = p]
  /\ UNCHANGED <<sock, cmd>> /\ UNCHANGED <<hold, struck, rebooted, watched>>

\* The end of the loop: the pid file is removed by path. Before the loop
\* SIGTERM just ends it.
DogTerm(p) ==
  /\ proc[p].kind = "dog" /\ proc[p].term
  /\ proc' = Ended({p})
  /\ pidf' = IF proc[p].st = "up" THEN [pidf EXCEPT !["dog"] = NoPid] ELSE pidf
  /\ UNCHANGED <<sock, cmd>> /\ UNCHANGED <<hold, struck, rebooted, watched>>

-----------------------------------------------------------------------------
(* containerd and dockerd: external, modelled from how the runtime uses    *)
(* them.                                                                   *)

\* achost-supervise --launch execs the daemon, unless a SIGTERM ended it.
DaemonExec(p) ==
  /\ proc[p].kind \in Daemons /\ proc[p].st = "stub" /\ ~proc[p].term
  /\ proc' = [proc EXCEPT ![p].st = "boot"]
  /\ UNCHANGED <<run, cmd>> /\ UNCHANGED <<hold, struck, rebooted, watched>>

\* containerd serves once it holds its database lock; dockerd refuses to
\* run beside the live process its pid file names, and needs containerd.
CtdServe(p) ==
  /\ proc[p].kind = "ctd" /\ proc[p].st = "boot" /\ ~proc[p].term
  /\ \A q \in Pids : proc[q].kind = "ctd" => proc[q].st # "up"
  /\ proc' = [proc EXCEPT ![p].st = "up"]
  /\ sock' = [sock EXCEPT !["ctd"] = p]
  /\ UNCHANGED <<pidf, cmd>> /\ UNCHANGED <<hold, struck, rebooted, watched>>

DkdWritePid(p) ==
  /\ proc[p].kind = "dkd" /\ proc[p].st = "boot" /\ ~proc[p].term
  /\ IF Alive(pidf["dkd"]) /\ pidf["dkd"] # p
     THEN proc' = Ended({p}) /\ UNCHANGED pidf
     ELSE /\ proc' = [proc EXCEPT ![p].st = "bound"]
          /\ pidf' = [pidf EXCEPT !["dkd"] = p]
  /\ UNCHANGED <<sock, cmd>> /\ UNCHANGED <<hold, struck, rebooted, watched>>

\* A daemon that ends in order removes its pid file and its socket.
Cleanup(p) ==
  /\ proc' = Ended({p})
  /\ pidf' = IF proc[p].kind = "dkd" /\ pidf["dkd"] = p
             THEN [pidf EXCEPT !["dkd"] = NoPid] ELSE pidf
  /\ sock' = [s \in Sockets |-> IF sock[s] = p THEN NoPid ELSE sock[s]]

DkdServe(p) ==
  /\ proc[p].kind = "dkd" /\ proc[p].st = "bound" /\ ~proc[p].term
  /\ IF Answers("ctd")
     THEN /\ proc' = [proc EXCEPT ![p].st = "up"]
          /\ sock' = [sock EXCEPT !["dkd"] = p]
          /\ UNCHANGED pidf
     ELSE Cleanup(p)
  /\ UNCHANGED <<cmd>> /\ UNCHANGED <<hold, struck, rebooted, watched>>

DaemonTerm(p) ==
  /\ proc[p].kind \in Daemons /\ proc[p].term /\ proc[p].st \in {"stub", "boot", "bound", "up"}
  /\ Cleanup(p)
  /\ UNCHANGED <<cmd>> /\ UNCHANGED <<hold, struck, rebooted, watched>>

DaemonCrash(p) ==
  /\ "crash" \in Faults
  /\ proc[p].kind \in Daemons \union {"dog"} /\ proc[p].st \in {"stub", "boot", "bound", "up"}
  /\ proc' = Ended({p}) /\ sock' = Abandoned({p})
  /\ UNCHANGED <<pidf, cmd>> /\ UNCHANGED <<hold, struck, rebooted, watched>>

ProcessStep(p) ==
  \/ ServerBind(p) \/ ServerWritePid(p) \/ ServerReap(p) \/ ServerLeave(p) \/ ServerGone(p)
  \/ DogJudge(p) \/ DogWrite(p) \/ DogTerm(p)
  \/ DaemonExec(p) \/ CtdServe(p) \/ DkdWritePid(p) \/ DkdServe(p) \/ DaemonTerm(p)

-----------------------------------------------------------------------------
(* The rest of the phone.                                                  *)

\* The base service starts a watchdog once in every boot, not after a stop.
BootWatchdog ==
  /\ Guarded /\ ~watched /\ watched' = TRUE
  /\ last # "stop" /\ \A t \in Stoppers : ~Active(t)
  /\ SpawnDog
  /\ UNCHANGED <<run, cmd>> /\ UNCHANGED <<hold, struck, rebooted>>

\* After a reboot another program gets a free pid, perhaps one that an old
\* pid file names. Pids are handed out in turn: one that a stop still waits
\* on is assumed not to come back within its ten seconds.
ForeignStart(p) ==
  /\ rebooted /\ \A t \in Stoppers : p \notin hold[t]
  /\ proc[p].st = "free"
  /\ \A q \in Pids : proc[q].kind # "foreign"
  /\ proc' = [proc EXCEPT ![p] = Fresh("foreign", "up", NoPid)]
  /\ UNCHANGED <<run, cmd>> /\ UNCHANGED <<hold, struck, rebooted, watched>>

\* A reboot ends every process; the run directory is on /data.
Reboot ==
  /\ "reboot" \in Faults /\ ~rebooted /\ rebooted' = TRUE
  /\ proc' = [p \in Pids |-> Free]
  /\ sock' = [s \in Sockets |-> IF sock[s] = NoPid THEN NoPid ELSE Stale]
  /\ pc' = [c \in Commands |-> IF Active(c) THEN "killed" ELSE pc[c]]
  /\ hold' = [t \in Stoppers |-> {}]
  /\ last' = "none" /\ stray' = FALSE /\ watched' = FALSE
  /\ UNCHANGED <<pidf, stage, step, struck>>

Next ==
  \/ \E s \in Starters : StartBegin(s) \/ StartStep(s) \/ Interrupt(s)
  \/ \E t \in Stoppers : StopBegin(t) \/ StopStep(t)
  \/ \E p \in Pids : ProcessStep(p) \/ DaemonCrash(p) \/ ForeignStart(p)
  \/ Reboot \/ BootWatchdog

Spec == Init /\ [][Next]_vars

\* A command that runs keeps running, and so do the processes; nobody has
\* to issue a command.
FairSpec ==
  /\ Spec
  /\ \A s \in Starters : WF_vars(StartStep(s))
  /\ \A t \in Stoppers : WF_vars(StopStep(t))
  /\ \A p \in Pids : WF_vars(ProcessStep(p))

-----------------------------------------------------------------------------
TypeOK ==
  /\ proc \in [Pids -> Process]
  /\ pidf \in [PidNames -> Pids \union {NoPid}]
  /\ sock \in [Sockets -> Pids \union {NoPid, Stale}]
  /\ pc \in [Commands -> StartPc \union StopPc \union EndPc]
  /\ \A c \in Starters : pc[c] \in StartPc \union EndPc
  /\ \A c \in Stoppers : pc[c] \in StopPc \union EndPc
  /\ stage \in [Starters -> {"first"} \union Daemons]
  /\ step \in [Stoppers -> 1..Len(StopPlan)]
  /\ hold \in [Stoppers -> SUBSET Pids]
  /\ struck \subseteq Owned \union {"foreign"}
  /\ last \in {"none", "start", "stop"}
  /\ stray \in BOOLEAN /\ rebooted \in BOOLEAN /\ watched \in BOOLEAN

\* A stop signals only processes of ACHost (README.md: it stops only the
\* daemons ACHost manages, and no process of anybody else), whatever a pid
\* file left by an earlier boot says.
StopSparesForeign == "foreign" \notin struck

\* Once a stop was the last command to end and no other runs, no daemon of
\* ACHost runs, in whatever stage (docs/device-compatibility.md: no
\* ACHost-owned dockerd or containerd is left after a stop).
StopLeavesNoDaemon ==
  Quiet /\ last = "stop" =>
    \A p \in Pids : proc[p].kind \in Daemons => proc[p].st \in {"free", "zombie"}

\* ... nor any supervisor, nor any file that says so.
StopLeavesNothing ==
  Quiet /\ last = "stop" =>
    /\ \A p \in Pids : proc[p].kind \notin Owned
    /\ \A f \in PidNames : pidf[f] = NoPid
    /\ \A s \in Sockets : sock[s] = NoPid

\* Between commands no supervisor serves unseen: the one the pid file names
\* is the only one, so that a later stop finds it.
NoOrphanServer ==
  Quiet => \A p \in Pids : proc[p].kind = "server" => pidf["sup"] = p

\* There is never a second supervisor beside a live one, and no second
\* containerd or dockerd unless a launch was refused after its fork: a
\* start that finds one running, by whatever files, does not put another
\* next to it (ensure_supervisor_server, the pid file checks of
\* start_runtime), and a start that fails for any other reason leaves what
\* the next one finds.
OneOfEach ==
  \A k \in Kinds : \A p, q \in Pids :
    /\ proc[p].kind = k /\ proc[p].st # "zombie"
    /\ proc[q].kind = k /\ proc[q].st # "zombie"
    => p = q \/ (k # "server" /\ stray)

\* start reports success only while both daemons really serve, behind the
\* sockets docker and ctr use.
OkMeansServing ==
  [][\A s \in Starters : pc[s] # "ok" /\ pc'[s] = "ok" =>
       Answers("ctd")' /\ Answers("dkd")']_vars

\* A start issued when the last thing was a finished stop succeeds: a stop
\* leaves nothing behind that a start stumbles over.
StartAfterStopWorks ==
  \A s \in Starters : (pc[s] = "ensure" /\ last = "stop") ~> pc[s] = "ok"

\* After a start that succeeded a network watchdog is there for as long as
\* no other command comes (SPEC.md 9.4.1), whoever's pid file it found.
StartMeansGuarded ==
  \A s \in Starters : Guarded /\ pc[s] = "ok" /\ Quiet /\ last = "start"
     ~> \/ \E p \in Pids : proc[p].kind = "dog" /\ proc[p].st = "up"
        \/ ~Quiet \/ last # "start"

\* A start issued after a reboot succeeds.
StartAfterRebootWorks ==
  \A s \in Starters : (pc[s] = "ensure" /\ rebooted) ~> pc[s] = "ok"
-----------------------------------------------------------------------------
(* The refinement of RuntimeLife.                                          *)

\* A supervisor that leaves its loop is up until it is gone.
AbsLife ==
  [k \in Kinds |->
     IF \E p \in Pids : proc[p].kind = k /\ proc[p].st \in {"up", "leaving"} THEN "up"
     ELSE IF \E p \in Pids : proc[p].kind = k /\ proc[p].st # "zombie" THEN "coming" ELSE "down"]
AbsPhase ==
  [c \in Commands |-> IF Active(c) THEN "busy"
                      ELSE IF pc[c] \in {"failed", "killed"} THEN "over" ELSE pc[c]]
\* A start comes to dockerd once containerd has answered it.
AbsTorn ==
  \E s \in Starters : Active(s) /\ stage[s] = "dkd" /\ ~Answers("ctd")

Runtime == INSTANCE RuntimeLife WITH life <- AbsLife, phase <- AbsPhase, torn <- AbsTorn,
                                     Crashes <- "crash" \in Faults

\* Starts and stops that follow each other keep RuntimeLife's promises,
\* over crashes and a reboot: the order in which start_runtime brings up
\* supervisor, containerd and dockerd and run_stop takes them down, nothing
\* that comes to life outside a start, and nothing on its way after one,
\* save what a launch refused after its fork leaves, until the next stop.
ImplementsRuntimeLife == Runtime!Spec
=============================================================================
