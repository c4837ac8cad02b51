------------------------ MODULE DockerSerial_proofs ------------------------
(***************************************************************************)
(* Theorems about DockerRuntime when commands come one at a time, none is  *)
(* killed and waits are long enough, for any number of commands and pids:  *)
(* a stop is complete, no supervisor is left unseen, nobody runs twice, a  *)
(* start that reports success serves (if nothing crashes), and the runtime *)
(* implements RuntimeLife. Daemons may crash and the phone may reboot at   *)
(* any moment, and a supervisor may refuse a launch, before its fork or    *)
(* after it. What follows holds of a launch refused after its fork too, up *)
(* to the stop that clears it away, save where stray is named.             *)
(***************************************************************************)
EXTENDS DockerRuntime_proofs

Serial == Faults \subseteq {"crash", "reboot", "refuse"}

\* p runs as a k; a start waits for the k it asked for.
Is(p, k)    == proc[p].kind = k /\ proc[p].st # "zombie"
Starting(k) == \E s \in Starters : pc[s] \in {"socket", "api"} /\ stage[s] = k

\* What the process table can hold.
TableSound ==
  \A p \in Pids :
    /\ proc[p].st = "free" <=> proc[p].kind = "none"
    /\ proc[p].kind = "none" => ~proc[p].term /\ proc[p].parent = NoPid
    /\ proc[p].parent \in Pids => proc[p].kind \in Daemons /\ proc[proc[p].parent].kind = "server"
    /\ proc[p].st = "zombie" => proc[p].parent \in Pids
    /\ proc[p].kind = "server" => proc[p].st \in {"boot", "bound", "up", "leaving"}
    /\ proc[p].kind = "dog" => proc[p].st \in {"boot", "bound", "up"}
    /\ proc[p].kind = "ctd" => proc[p].st \in {"stub", "boot", "up", "zombie"}
    /\ proc[p].kind = "dkd" => proc[p].st \in {"stub", "boot", "bound", "up", "zombie"}
    /\ proc[p].kind = "foreign" => proc[p].st = "up"
    /\ \A q \in Pids : /\ proc[p].kind = "ctd" /\ proc[p].st = "up"
                      /\ proc[q].kind = "ctd" /\ proc[q].st = "up" => p = q

\* Commands follow each other.
OneCommand == \A c, d \in Commands : Active(c) /\ Active(d) => c = d

\* A command that has not begun has done nothing.
FreshCommands ==
  /\ \A s \in Starters : pc[s] = "idle" => stage[s] = "first"
  /\ \A t \in Stoppers : pc[t] = "idle" => step[t] = 1

\* Who listens behind a socket is of the kind the path is for, and serves.
SocketsSound ==
  /\ sock["sup"] \in Pids => proc[sock["sup"]].kind = "server" /\ proc[sock["sup"]].st \in {"bound", "up"}
  /\ \A k \in Daemons : sock[k] \in Pids => proc[sock[k]].kind = k /\ proc[sock[k]].st = "up"

\* The one supervisor there is, is one a start waits for, or has its socket
\* and its pid file; only one told to leave has no socket.
ServersKnown ==
  /\ \A p, q \in Pids : Is(p, "server") /\ Is(q, "server") => p = q
  /\ \A p \in Pids : Is(p, "server") =>
       /\ proc[p].st \in {"boot", "bound"} => \E s \in Starters : pc[s] = "probe"
       /\ proc[p].st \in {"bound", "up"} => sock["sup"] = p
       /\ proc[p].st \in {"up", "leaving"} => pidf["sup"] = p
       /\ proc[p].st = "leaving" => proc[p].term
  /\ \A s \in Starters : pc[s] = "spawn" => \A p \in Pids : ~Is(p, "server")

\* The one containerd and the one dockerd there are, serve or are ones a
\* start waits for, and are named by their pid files until a stop removes
\* those; none is there while a start is about to launch it.
DaemonsKnown ==
  /\ \A k \in Daemons : \A p, q \in Pids : Is(p, k) /\ Is(q, k) => p = q
  /\ \A k \in Daemons : \A p \in Pids : Is(p, k) /\ proc[p].st # "up" => Starting(k)
  /\ (\A t \in Stoppers : ~Active(t)) =>
       /\ \A p \in Pids : Is(p, "ctd") => pidf["ctd"] = p
       /\ \A p \in Pids : Is(p, "dkd") /\ proc[p].st \in {"bound", "up"} => pidf["dkd"] = p
  /\ \A s \in Starters : pc[s] \in {"ensure", "spawn", "probe", "request"} /\ stage[s] \in Daemons
       => \A p \in Pids : ~Is(p, stage[s])

\* This much is known unless a launch was refused after its fork.
Tidy == stray \/ DaemonsKnown

\* Who was told to go is one that a stop now waits for, or the child of a
\* refused launch. A stop that scans, or waits for the supervisor, waits for
\* every process of the kind.
Signalled ==
  /\ \A p \in Pids : proc[p].term /\ proc[p].st # "zombie" =>
       \/ \E t \in Stoppers : pc[t] = "wait" /\ p \in hold[t]
       \/ stray /\ proc[p].kind \in Daemons /\ proc[p].st = "stub"
  /\ \A t \in Stoppers : pc[t] = "wait" =>
       /\ \A p \in hold[t] : /\ proc[p].kind \in {"none", Target(t)[2]}
                             /\ proc[p].kind # "none" => proc[p].term
       /\ step[t] \in {2, 6, 7, 8} => \A p \in Pids : Is(p, Target(t)[2]) => p \in hold[t]

\* How far a stop has come: what is down stays down, and files stay removed,
\* for nothing that could write one or hide from a scan is on its way.
Down(k) == \A p \in Pids : ~Is(p, k)
NoneComing ==
  \A p \in Pids :
    /\ Is(p, "dog") => proc[p].st = "up"
    /\ Is(p, "ctd") => proc[p].st # "stub"
    /\ Is(p, "dkd") => proc[p].st # "stub" /\ (proc[p].st = "up" \/ proc[p].term)
Progress(i) ==
  /\ i > 1 => pidf["dog"] = NoPid
  /\ i > 2 => Down("dog")
  /\ i > 3 => pidf["dkd"] = NoPid
  /\ i > 4 => pidf["launch"] = NoPid
  /\ i > 5 => pidf["ctd"] = NoPid
  /\ i > 6 => Down("dkd")
  /\ i > 7 => Down("ctd")
StopProgress == \A t \in Stoppers : Active(t) => NoneComing /\ Progress(step[t])

CmdInv == OneCommand /\ FreshCommands /\ Signalled /\ StopProgress /\ StopLeavesNothing
SInv   == IInv /\ TableSound /\ SocketsSound /\ ServersKnown /\ Tidy /\ CmdInv

USE DockerAssumption

-----------------------------------------------------------------------------
(* What each kind of step does to the process table, row by row.           *)

\* The types the steps below work with.
LEMMA Shapes ==
  ASSUME IInv
  PROVE  /\ proc \in [Pids -> Process]
         /\ \A p \in Pids : /\ proc[p] \in Process
                            /\ proc[p].kind \in Owned \union {"none", "foreign"}
                            /\ proc[p].st \in Stages /\ proc[p].term \in BOOLEAN
                            /\ proc[p].parent \in Pids \union {NoPid}
         /\ pidf \in [PidNames -> Pids \union {NoPid}]
         /\ sock \in [Sockets -> Pids \union {NoPid, Stale}]
         /\ Free \in Process
         /\ Free.kind = "none" /\ Free.st = "free" /\ ~Free.term /\ Free.parent = NoPid
BY DEF IInv, TypeOK, Process, Free, Stages

\* The rest of the table stays.
OnlyRow(p) == \A q \in Pids : q # p => proc'[q] = proc[q]

\* A process is put under a pid.
LEMMA SpawnRow ==
  ASSUME IInv, NEW p \in Pids, NEW k, NEW st, NEW par, proc' = [proc EXCEPT ![p] = Fresh(k, st, par)]
  PROVE  /\ OnlyRow(p)
         /\ proc'[p].kind = k /\ proc'[p].st = st /\ ~proc'[p].term /\ proc'[p].parent = par
BY Shapes DEF OnlyRow, Fresh

\* The same for the child of a refused launch.
LEMMA RefusedRow ==
  ASSUME IInv, NEW p \in Pids, NEW k, NEW st, NEW par, NEW told \in BOOLEAN,
         proc' = [proc EXCEPT ![p] = [Fresh(k, st, par) EXCEPT !.term = told]]
  PROVE  /\ OnlyRow(p)
         /\ proc'[p].kind = k /\ proc'[p].st = st /\ proc'[p].term = told /\ proc'[p].parent = par
BY Shapes DEF OnlyRow, Fresh

\* A process changes its stage.
LEMMA MoveRow ==
  ASSUME IInv, NEW p \in Pids, NEW st, proc' = [proc EXCEPT ![p].st = st]
  PROVE  /\ OnlyRow(p)
         /\ proc'[p].kind = proc[p].kind /\ proc'[p].st = st
         /\ proc'[p].term = proc[p].term /\ proc'[p].parent = proc[p].parent
<1>1. proc[p] \in Process /\ proc \in [Pids -> Process]
  BY Shapes
<1>2. proc'[p] = [proc[p] EXCEPT !.st = st]
  BY <1>1
<1>3. OnlyRow(p)
  BY <1>1 DEF OnlyRow
<1>. QED BY <1>1, <1>2, <1>3 DEF Process

\* What ended is gone, or a zombie that its parent has yet to reap.
GoneRow(p) ==
  \/ proc'[p] = Free
  \/ /\ proc'[p].kind = proc[p].kind /\ proc'[p].term = proc[p].term
     /\ proc'[p].parent = proc[p].parent /\ proc[p].parent \in Pids /\ proc'[p].st = "zombie"

\* Processes end that are no supervisors.
LEMMA EndRows ==
  ASSUME IInv, NEW ps \in SUBSET Pids, \A p \in ps : proc[p].kind # "server", proc' = Ended(ps)
  PROVE  /\ \A q \in Pids \ ps : proc'[q] = proc[q]
         /\ \A q \in ps : GoneRow(q)
<1> DEFINE dead == [p \in Pids |-> IF p \notin ps THEN proc[p]
                                   ELSE IF proc[p].parent \in Pids \ ps
                                        THEN [proc[p] EXCEPT !.st = "zombie"] ELSE Free]
<1>1. {p \in ps : proc[p].kind = "server"} = {}
  OBVIOUS
<1>2. proc' = Adopt(dead, {})
  BY <1>1 DEF Ended
<1>3. \A q \in Pids : proc'[q] = dead[q]
  BY <1>2 DEF Adopt
<1>4. ASSUME NEW q \in ps PROVE GoneRow(q)
  <2>1. proc[q] \in Process
    BY Shapes
  <2>2. CASE proc[q].parent \in Pids \ ps
    <3>1. proc'[q] = [proc[q] EXCEPT !.st = "zombie"]
      BY <1>3, <2>2
    <3>. QED BY <2>1, <2>2, <3>1 DEF GoneRow, Process
  <2>3. CASE proc[q].parent \notin Pids \ ps
    <3>1. proc'[q] = Free
      BY <1>3, <2>3
    <3>. QED BY <3>1 DEF GoneRow
  <2>. QED BY <2>2, <2>3
<1>. QED BY <1>3, <1>4

LEMMA EndRow ==
  ASSUME IInv, NEW p \in Pids, proc[p].kind # "server", proc' = Ended({p})
  PROVE  OnlyRow(p) /\ GoneRow(p)
<1>1. /\ \A q \in Pids \ {p} : proc'[q] = proc[q]
      /\ \A q \in {p} : GoneRow(q)
  BY EndRows
<1>. QED BY <1>1 DEF OnlyRow

\* Nobody ends.
LEMMA EndNone ==
  ASSUME IInv, proc' = Ended({})
  PROVE  proc' = proc
<1>1. \A q \in Pids \ {} : proc'[q] = proc[q]
  BY EndRows
<1>2. proc' = [q \in Pids |-> proc'[q]]
  BY DEF Ended, Adopt
<1>. QED BY <1>1, <1>2, Shapes

\* What a supervisor leaves behind: its zombies are reaped, its children
\* have no parent.
Orphaned(p) ==
  \A q \in Pids : q # p =>
    IF proc[q].parent = p
    THEN IF proc[q].st = "zombie" THEN proc'[q] = Free
         ELSE /\ proc'[q].kind = proc[q].kind /\ proc'[q].st = proc[q].st
              /\ proc'[q].term = proc[q].term /\ proc'[q].parent = NoPid
    ELSE proc'[q] = proc[q]

LEMMA EndServer ==
  ASSUME IInv, TableSound, NEW p \in Pids, proc[p].kind = "server", proc' = Ended({p})
  PROVE  proc'[p] = Free /\ Orphaned(p)
<1> DEFINE dead == [q \in Pids |-> IF q \notin {p} THEN proc[q]
                                   ELSE IF proc[q].parent \in Pids \ {p}
                                        THEN [proc[q] EXCEPT !.st = "zombie"] ELSE Free]
<1>1. {q \in {p} : proc[q].kind = "server"} = {p}
  OBVIOUS
<1>2. proc' = Adopt(dead, {p})
  BY <1>1 DEF Ended
<1>3. proc[p].parent \notin Pids
  BY DEF TableSound, Daemons
<1>4. dead[p] = Free /\ \A q \in Pids : q # p => dead[q] = proc[q]
  BY <1>3
<1>5. \A q \in Pids : proc'[q] = IF dead[q].parent \in {p}
                                 THEN IF dead[q].st = "zombie" THEN Free
                                      ELSE [dead[q] EXCEPT !.parent = NoPid]
                                 ELSE dead[q]
  BY <1>2 DEF Adopt
<1>. HIDE DEF dead
<1>6. proc'[p] = Free
  BY <1>4, <1>5, Shapes
<1>7. ASSUME NEW q \in Pids, q # p, proc[q].parent = p, proc[q].st # "zombie"
      PROVE  /\ proc'[q].kind = proc[q].kind /\ proc'[q].st = proc[q].st
             /\ proc'[q].term = proc[q].term /\ proc'[q].parent = NoPid
  <2>1. proc'[q] = [proc[q] EXCEPT !.parent = NoPid] /\ proc[q] \in Process
    BY <1>4, <1>5, <1>7, Shapes
  <2>. QED BY <2>1 DEF Process
<1>. QED BY <1>4, <1>5, <1>6, <1>7 DEF Orphaned

\* SIGTERM: the mark and nothing else.
TermRows(ps) ==
  \A q \in Pids : /\ proc'[q].kind = proc[q].kind /\ proc'[q].st = proc[q].st
                  /\ proc'[q].parent = proc[q].parent
                  /\ proc'[q].term = (proc[q].term \/ q \in ps)

LEMMA MarkRows ==
  ASSUME IInv, NEW ps \in SUBSET Pids,
         proc' = [p \in Pids |-> IF p \in ps THEN [proc[p] EXCEPT !.term = TRUE] ELSE proc[p]]
  PROVE  TermRows(ps)
<1>1. ASSUME NEW q \in Pids, q \in ps
      PROVE  /\ proc'[q].kind = proc[q].kind /\ proc'[q].st = proc[q].st
             /\ proc'[q].parent = proc[q].parent /\ proc'[q].term = TRUE
  <2>1. proc'[q] = [proc[q] EXCEPT !.term = TRUE] /\ proc[q] \in Process
    BY <1>1, Shapes
  <2>. QED BY <2>1 DEF Process
<1>2. ASSUME NEW q \in Pids, q \notin ps PROVE proc'[q] = proc[q]
  BY <1>2
<1>3. \A q \in Pids : proc[q].term \in BOOLEAN
  BY Shapes
<1>. QED BY <1>1, <1>2, <1>3 DEF TermRows

LEMMA MarkRow ==
  ASSUME IInv, NEW p \in Pids, proc' = [proc EXCEPT ![p].term = TRUE]
  PROVE  TermRows({p})
<1>1. proc' = [q \in Pids |-> IF q \in {p} THEN [proc[q] EXCEPT !.term = TRUE] ELSE proc[q]]
  BY Shapes
<1>. QED BY <1>1, MarkRows

-----------------------------------------------------------------------------
(* The process table stays sound.                                          *)

LEMMA TableSpawn ==
  ASSUME IInv, TableSound, NEW p \in Pids, proc[p].st = "free", OnlyRow(p),
         \/ proc'[p].kind \in {"server", "dog"} /\ proc'[p].st = "boot" /\ proc'[p].parent = NoPid
         \/ proc'[p].kind = "foreign" /\ proc'[p].st = "up" /\ proc'[p].parent = NoPid
         \/ /\ proc'[p].kind \in Daemons /\ proc'[p].st = "stub"
            /\ proc'[p].parent \in Pids /\ proc[proc'[p].parent].kind = "server"
  PROVE  TableSound'
BY DEF TableSound, OnlyRow, Daemons

LEMMA TableMove ==
  ASSUME IInv, TableSound, NEW p \in Pids, OnlyRow(p),
         proc'[p].kind = proc[p].kind, proc'[p].term = proc[p].term, proc'[p].parent = proc[p].parent,
         \/ proc[p].kind = "server" /\ proc'[p].st \in {"bound", "up", "leaving"}
         \/ proc[p].kind = "dog" /\ proc'[p].st \in {"bound", "up"}
         \/ /\ proc[p].kind = "ctd" /\ proc'[p].st \in {"boot", "up"}
            /\ proc'[p].st = "up" => \A q \in Pids : proc[q].kind = "ctd" => proc[q].st # "up"
         \/ proc[p].kind = "dkd" /\ proc'[p].st \in {"boot", "bound", "up"}
  PROVE  TableSound'
BY DEF TableSound, OnlyRow, Daemons

LEMMA TableEnd ==
  ASSUME IInv, TableSound, NEW ps \in SUBSET Pids, \A p \in ps : proc[p].kind # "server",
         \A q \in Pids \ ps : proc'[q] = proc[q], \A q \in ps : GoneRow(q)
  PROVE  TableSound'
BY Shapes DEF TableSound, GoneRow, Daemons

LEMMA TableServerEnd ==
  ASSUME IInv, TableSound, NEW p \in Pids, proc[p].kind = "server", proc'[p] = Free, Orphaned(p)
  PROVE  TableSound'
BY Shapes DEF TableSound, Orphaned, Daemons

LEMMA TableReap ==
  ASSUME IInv, TableSound, NEW p \in Pids,
         proc' = [q \in Pids |-> IF proc[q].parent = p /\ proc[q].st = "zombie" THEN Free ELSE proc[q]]
  PROVE  TableSound'
<1>1. \A q \in Pids : IF proc[q].parent = p /\ proc[q].st = "zombie"
                      THEN proc'[q] = Free ELSE proc'[q] = proc[q]
  OBVIOUS
<1>. QED BY <1>1, Shapes DEF TableSound, Daemons

LEMMA TableMark ==
  ASSUME IInv, TableSound, NEW ps \in SUBSET Pids, TermRows(ps),
         \A p \in ps : proc[p].kind # "none"
  PROVE  TableSound'
BY Shapes DEF TableSound, TermRows, Daemons

-----------------------------------------------------------------------------
(* What the steps of a start and of the processes do to the commands.      *)

\* Nobody was told to go but children of refused launches.
NobodyTold ==
  \A p \in Pids : proc[p].term =>
    proc[p].st = "zombie" \/ (stray /\ proc[p].kind \in Daemons /\ proc[p].st = "stub")

\* While a start runs, no stop does, and nobody was told to go.
LEMMA StartAlone ==
  ASSUME IInv, CmdInv, NEW s \in Starters, Active(s) \/ Quiet
  PROVE  /\ \A c \in Commands : c # s => ~Active(c)
         /\ \A t \in Stoppers : ~Active(t)
         /\ NobodyTold
<1>1. \A c \in Commands : c # s => ~Active(c)
  BY DEF CmdInv, OneCommand, Quiet, Commands
<1>2. \A t \in Stoppers : ~Active(t) /\ pc[t] # "wait"
  BY <1>1 DEF Commands, Active, EndPc
<1>. QED BY <1>1, <1>2 DEF CmdInv, Signalled, NobodyTold

LEMMA StartCmd ==
  ASSUME IInv, CmdInv, NEW s \in Starters, Active(s) \/ Quiet,
         NEW l \in StartPc \union {"ok", "failed"}, Goto(s, l),
         UNCHANGED step, \A u \in Starters : u # s => stage'[u] = stage[u],
         l \in {"ok", "failed"} => last' = "start",
         NobodyTold'
  PROVE  CmdInv'
<1>1. /\ pc'[s] = l /\ l # "idle" /\ l # "wait"
      /\ \A c \in Commands : c # s => pc'[c] = pc[c]
  BY DEF Goto, IInv, TypeOK, Commands, StartPc
<1>2. \A c \in Commands : c # s => ~Active(c) /\ ~Active(c)'
  BY <1>1, StartAlone DEF Active
<1>3. \A t \in Stoppers : ~Active(t)' /\ pc'[t] # "wait" /\ pc'[t] = pc[t]
  BY <1>1, <1>2 DEF Commands, Active, EndPc
<1>4. OneCommand'
  BY <1>2 DEF OneCommand
<1>5. FreshCommands'
  BY <1>1, <1>3 DEF CmdInv, FreshCommands, Commands
<1>6. Signalled'
  BY <1>3 DEF Signalled, NobodyTold
<1>7. StopProgress'
  BY <1>3 DEF StopProgress
<1>8. StopLeavesNothing'
  BY <1>1 DEF StopLeavesNothing, Quiet, Active, Commands, StartPc, EndPc
<1>. QED BY <1>4, <1>5, <1>6, <1>7, <1>8 DEF CmdInv

\* A row as the steps of processes leave it: nobody new, nobody marked.
LessRow(q) ==
  \/ proc'[q] = Free
  \/ /\ proc'[q].kind = proc[q].kind /\ proc'[q].term = proc[q].term
     /\ proc'[q].st # "zombie" => proc[q].st # "zombie"
     /\ proc[q].kind \in {"dog", "dkd"} /\ proc[q].st = "up" => proc'[q].st \in {"up", "zombie"}
     /\ proc[q].st # "stub" => proc'[q].st # "stub"
     /\ proc[q].term /\ proc[q].st = "stub" => proc'[q].st \in {"stub", "zombie"}

\* The pid files as they leave them: only a watchdog and a dockerd on their
\* way write one, next to the supervisor.
LessFiles ==
  \A f \in PidNames : \/ f = "sup" \/ pidf'[f] \in {pidf[f], NoPid}
                      \/ f = "dog" /\ \E q \in Pids : Is(q, "dog") /\ proc[q].st # "up"
                      \/ f = "dkd" /\ \E q \in Pids : /\ Is(q, "dkd") /\ proc[q].st # "up"
                                                     /\ ~proc[q].term

LEMMA ProcessCmd ==
  ASSUME IInv, TableSound, CmdInv, UNCHANGED <<cmd, hold>>,
         NEW p \in Pids, proc[p].kind \in Owned,
         \A q \in Pids : LessRow(q), LessFiles
  PROVE  CmdInv'
<1>1. UNCHANGED <<pc, stage, step, last, stray>> /\ \A c : Active(c)' <=> Active(c)
  BY DEF cmd, Active
<1>2. OneCommand' /\ FreshCommands'
  BY <1>1 DEF CmdInv, OneCommand, FreshCommands
<1>3. \A k \in Owned : \A q \in Pids : Is(q, k)' => Is(q, k)
  BY Shapes DEF LessRow, Is, Owned, Daemons
<1>4. Signalled'
  <2>1. ASSUME NEW q \in Pids, proc'[q].term, proc'[q].st # "zombie"
        PROVE  \/ \E t \in Stoppers : pc'[t] = "wait" /\ q \in hold'[t]
               \/ stray' /\ proc'[q].kind \in Daemons /\ proc'[q].st = "stub"
    <3>1. /\ proc[q].term /\ proc[q].st # "zombie" /\ proc'[q].kind = proc[q].kind
          /\ proc[q].st = "stub" => proc'[q].st = "stub"
      BY <2>1, Shapes DEF LessRow
    <3>. QED BY <1>1, <3>1 DEF CmdInv, Signalled
  <2>2. ASSUME NEW t \in Stoppers, pc'[t] = "wait"
        PROVE  /\ \A q \in hold'[t] : /\ proc'[q].kind \in {"none", Target(t)'[2]}
                                      /\ proc'[q].kind # "none" => proc'[q].term
               /\ step'[t] \in {2, 6, 7, 8} => \A q \in Pids : Is(q, Target(t)[2])' => q \in hold'[t]
    <3>1. /\ \A q \in hold[t] : /\ proc[q].kind \in {"none", Target(t)[2]}
                                /\ proc[q].kind # "none" => proc[q].term
          /\ step[t] \in {2, 6, 7, 8} => \A q \in Pids : Is(q, Target(t)[2]) => q \in hold[t]
      BY <1>1, <2>2 DEF CmdInv, Signalled
    <3>2. Target(t)' = Target(t) /\ Target(t)[2] \in Owned /\ hold[t] \subseteq Pids
      BY <1>1, TargetOwned DEF Target, IInv, TypeOK
    <3>3. \A q \in hold[t] : /\ proc'[q].kind \in {"none", proc[q].kind}
                             /\ proc'[q].kind # "none" => proc'[q].term = proc[q].term
      BY <3>2, Shapes DEF LessRow
    <3>4. step'[t] \in {2, 6, 7, 8} => \A q \in Pids : Is(q, Target(t)[2])' => q \in hold'[t]
      <4>1. \A q \in Pids : (Is(q, Target(t)[2]))' => Is(q, Target(t)[2])
        BY <3>2, <1>3 DEF Is
      <4>. QED BY <1>1, <3>1, <4>1
    <3>. QED BY <1>1, <3>1, <3>2, <3>3, <3>4
  <2>. QED BY <2>1, <2>2 DEF Signalled
<1>5. StopProgress'
  <2>1. ASSUME NEW t \in Stoppers, Active(t)
        PROVE  NoneComing' /\ Progress(step[t])'
    <3>1. NoneComing /\ Progress(step[t])
      BY <2>1 DEF CmdInv, StopProgress
    <3>2. \A k \in Owned : Down(k) => Down(k)'
      BY <1>3 DEF Down
    <3>3. {"dog", "dkd", "ctd"} \subseteq Owned /\ {"dog", "dkd", "launch", "ctd"} \subseteq PidNames
      BY DEF Owned, Daemons, PidNames
    <3>4. NoneComing'
      BY <3>1, Shapes DEF LessRow, Is, NoneComing
    <3>5. \A f \in {"dog", "dkd", "launch", "ctd"} : pidf'[f] \in {pidf[f], NoPid}
      BY <3>1, <3>3 DEF LessFiles, NoneComing
    <3>. QED BY <1>1, <3>1, <3>2, <3>3, <3>4, <3>5 DEF Progress
  <2>. QED BY <1>1, <2>1 DEF StopProgress
<1>6. StopLeavesNothing'
  BY <1>1 DEF CmdInv, StopLeavesNothing, Quiet
<1>. QED BY <1>2, <1>4, <1>5, <1>6 DEF CmdInv

-----------------------------------------------------------------------------
(* What the steps of a stop do to the commands.                            *)

LEMMA PlanParts ==
  /\ StopPlan[1][1] = "dog" /\ StopPlan[1][2] = "dog"
  /\ StopPlan[2][1] = "scan" /\ StopPlan[2][2] = "dog"
  /\ StopPlan[3][1] = "dkd" /\ StopPlan[3][2] = "dkd"
  /\ StopPlan[4][1] = "launch" /\ StopPlan[4][2] = "dkd"
  /\ StopPlan[5][1] = "ctd" /\ StopPlan[5][2] = "ctd"
  /\ StopPlan[6][1] = "scan" /\ StopPlan[6][2] = "dkd"
  /\ StopPlan[7][1] = "scan" /\ StopPlan[7][2] = "ctd"
  /\ StopPlan[8][1] = "sup" /\ StopPlan[8][2] = "server"
BY DEF StopPlan

\* The part a stop is at.
LEMMA TargetParts ==
  ASSUME IInv, NEW t \in Stoppers
  PROVE  /\ step[t] \in 1..8
         /\ \/ step[t] = 1 /\ Target(t)[1] = "dog" /\ Target(t)[2] = "dog"
            \/ step[t] = 2 /\ Target(t)[1] = "scan" /\ Target(t)[2] = "dog"
            \/ step[t] = 3 /\ Target(t)[1] = "dkd" /\ Target(t)[2] = "dkd"
            \/ step[t] = 4 /\ Target(t)[1] = "launch" /\ Target(t)[2] = "dkd"
            \/ step[t] = 5 /\ Target(t)[1] = "ctd" /\ Target(t)[2] = "ctd"
            \/ step[t] = 6 /\ Target(t)[1] = "scan" /\ Target(t)[2] = "dkd"
            \/ step[t] = 7 /\ Target(t)[1] = "scan" /\ Target(t)[2] = "ctd"
            \/ step[t] = 8 /\ Target(t)[1] = "sup" /\ Target(t)[2] = "server"
<1>1. step[t] \in 1..8
  BY PlanTypes DEF IInv, TypeOK
<1>2. \/ step[t] = 1 \/ step[t] = 2 \/ step[t] = 3 \/ step[t] = 4
      \/ step[t] = 5 \/ step[t] = 6 \/ step[t] = 7 \/ step[t] = 8
  BY <1>1
<1>. HIDE DEF StopPlan
<1>. QED BY <1>1, <1>2, PlanParts DEF Target

\* While a stop runs, no other command does, and who was told to go is one
\* it waits for.
LEMMA StopAlone ==
  ASSUME IInv, CmdInv, NEW t \in Stoppers, Active(t) \/ Quiet
  PROVE  /\ \A c \in Commands : c # t => ~Active(c)
         /\ \A s \in Starters : pc[s] \in EndPc
         /\ \A u \in Stoppers : u # t => pc[u] # "wait"
         /\ Active(t) => \A p \in Pids : proc[p].term /\ proc[p].st # "zombie" =>
                                           pc[t] = "wait" /\ p \in hold[t]
<1>1. \A c \in Commands : c # t => ~Active(c)
  BY DEF CmdInv, OneCommand, Quiet, Commands
<1>2. \A s \in Starters : pc[s] \in EndPc
  BY <1>1 DEF Commands, Active
<1>3. \A u \in Stoppers : u # t => pc[u] # "wait"
  BY <1>1 DEF Commands, Active, EndPc
<1>4. ASSUME Active(t), NEW p \in Pids, proc[p].term, proc[p].st # "zombie"
      PROVE  pc[t] = "wait" /\ p \in hold[t]
  <2>1. ~(proc[p].kind \in Daemons /\ proc[p].st = "stub")
    BY <1>4 DEF CmdInv, StopProgress, NoneComing, Is, Daemons
  <2>2. PICK u \in Stoppers : pc[u] = "wait" /\ p \in hold[u]
    BY <1>4, <2>1 DEF CmdInv, Signalled
  <2>. QED BY <1>3, <2>2
<1>. QED BY <1>1, <1>2, <1>3, <1>4

LEMMA StopCmd ==
  ASSUME IInv, CmdInv, NEW t \in Stoppers, Active(t) \/ Quiet,
         NEW l \in {"enter", "wait", "ok"}, Goto(t, l), UNCHANGED stage,
         \A u \in Stoppers : u # t => step'[u] = step[u]
  PROVE  /\ OneCommand' /\ FreshCommands'
         /\ \A u \in Stoppers : u # t => ~Active(u)' /\ pc'[u] # "wait"
         /\ pc'[t] = l
<1>1. pc'[t] = l /\ l # "idle" /\ \A c \in Commands : c # t => pc'[c] = pc[c]
  BY DEF Goto, IInv, TypeOK, Commands
<1>2. \A c \in Commands : c # t => ~Active(c)'
  BY <1>1, StopAlone DEF Active
<1>3. FreshCommands'
  BY <1>1 DEF CmdInv, FreshCommands, Commands
<1>4. OneCommand'
  BY <1>2 DEF OneCommand
<1>. QED BY <1>1, <1>2, <1>3, <1>4, StopAlone DEF Commands, Active, EndPc

LEMMA StopBeginCmd ==
  ASSUME Serial, IInv, TableSound, Tidy, CmdInv, NEW t \in Stoppers, StopBegin(t)
  PROVE  CmdInv'
<1>1. /\ pc[t] = "idle" /\ Quiet /\ Goto(t, "enter") /\ NothingUnderWay
      /\ UNCHANGED <<proc, pidf, sock, stage, last, step, hold, stray>>
  BY DEF StopBegin, Begin, Keep, run, Serial
<1>2. /\ OneCommand' /\ FreshCommands' /\ pc'[t] = "enter"
      /\ \A u \in Stoppers : u # t => ~Active(u)' /\ pc'[u] # "wait"
  BY <1>1, StopCmd
<1>3. Signalled'
  <2>1. \A u \in Stoppers : pc[u] # "wait" /\ pc'[u] # "wait"
    BY <1>1, <1>2, StopAlone
  <2>. QED BY <1>1, <2>1 DEF CmdInv, Signalled
<1>4. step[t] = 1
  BY <1>1 DEF CmdInv, FreshCommands
<1>5. NoneComing
  <2>1. CASE stray
    BY <1>1, <2>1 DEF NothingUnderWay, Coming, NoneComing, Is, TableSound, Daemons
  <2>2. CASE ~stray
    <3>1. \A k \in Daemons : ~Starting(k)
      BY <1>1, StopAlone DEF Starting, EndPc
    <3>2. \A k \in Daemons : \A p \in Pids : Is(p, k) => proc[p].st = "up"
      BY <2>2, <3>1 DEF Tidy, DaemonsKnown
    <3>. QED BY <1>1, <3>2 DEF NothingUnderWay, NoneComing, Is, Daemons
  <2>. QED BY <2>1, <2>2
<1>6. StopProgress'
  <2>1. NoneComing'
    BY <1>1, <1>5 DEF NoneComing, Is
  <2>2. \A u \in Stoppers : Active(u)' => u = t
    BY <1>2
  <2>. QED BY <1>1, <1>4, <2>1, <2>2 DEF StopProgress, Progress
<1>7. StopLeavesNothing'
  BY <1>2 DEF StopLeavesNothing, Quiet, Active, Commands, EndPc
<1>. QED BY <1>2, <1>3, <1>6, <1>7 DEF CmdInv

\* A stop sends SIGTERM to ps and waits for them.
LEMMA StopMarks ==
  ASSUME IInv, CmdInv, NEW t \in Stoppers, pc[t] = "enter", Goto(t, "wait"),
         UNCHANGED <<pidf, stage, step, last, stray>>,
         NEW ps \in SUBSET Pids, TermRows(ps), hold' = [hold EXCEPT ![t] = ps],
         \A p \in ps : proc[p].kind = Target(t)[2],
         step[t] \in {2, 6, 7, 8} => \A p \in Pids : Is(p, Target(t)[2]) => p \in ps
  PROVE  CmdInv'
<1>1. Active(t)
  BY DEF Active, EndPc
<1>2. /\ OneCommand' /\ FreshCommands' /\ pc'[t] = "wait"
      /\ \A u \in Stoppers : u # t => ~Active(u)' /\ pc'[u] # "wait"
  BY <1>1, StopCmd
<1>3. hold'[t] = ps /\ Target(t)' = Target(t)
  BY DEF IInv, TypeOK, Target
<1>4. \A k, q : q \in Pids => (Is(q, k)' <=> Is(q, k))
  BY DEF TermRows, Is
<1>5. Signalled'
  <2>1. \A p \in Pids : proc'[p].term /\ proc'[p].st # "zombie" => p \in ps
    BY <1>1, StopAlone DEF TermRows
  <2>2. \A p \in ps : proc'[p].kind = Target(t)[2] /\ proc'[p].term
    BY DEF TermRows
  <2>3. step[t] \in {2, 6, 7, 8} => \A p \in Pids : Is(p, Target(t)[2])' => p \in ps
    BY <1>3, <1>4
  <2>4. \A p \in Pids : proc'[p].term /\ proc'[p].st # "zombie" =>
          \E u \in Stoppers : pc'[u] = "wait" /\ p \in hold'[u]
    BY <1>2, <1>3, <2>1
  <2>5. ASSUME NEW u \in Stoppers, pc'[u] = "wait"
        PROVE  /\ \A p \in hold'[u] : /\ proc'[p].kind \in {"none", Target(u)'[2]}
                                      /\ proc'[p].kind # "none" => proc'[p].term
               /\ step'[u] \in {2, 6, 7, 8} =>
                    \A p \in Pids : Is(p, Target(u)[2])' => p \in hold'[u]
    <3>1. u = t
      BY <1>2, <2>5
    <3>. QED BY <1>3, <2>2, <2>3, <3>1
  <2>. QED BY <2>4, <2>5 DEF Signalled
<1>6. StopProgress'
  <2>1. NoneComing /\ Progress(step[t])
    BY <1>1 DEF CmdInv, StopProgress
  <2>2. NoneComing'
    BY <2>1, Shapes DEF NoneComing, Is, TermRows
  <2>3. \A k : Down(k)' <=> Down(k)
    BY <1>4 DEF Down
  <2>4. Progress(step[t])'
    BY <2>1, <2>3 DEF Progress
  <2>5. \A u \in Stoppers : Active(u)' => u = t
    BY <1>2
  <2>. QED BY <2>2, <2>4, <2>5 DEF StopProgress
<1>7. StopLeavesNothing'
  BY <1>2 DEF StopLeavesNothing, Quiet, Active, Commands, EndPc
<1>. QED BY <1>2, <1>5, <1>6, <1>7 DEF CmdInv

\* What a part of the plan has done when the stop goes on.
PartDone(i) ==
  /\ i = 1 => pidf["dog"] = NoPid
  /\ i = 2 => Down("dog")
  /\ i = 3 => pidf["dkd"] = NoPid
  /\ i = 4 => pidf["launch"] = NoPid
  /\ i = 5 => pidf["ctd"] = NoPid
  /\ i = 6 => Down("dkd")
  /\ i = 7 => Down("ctd")
  /\ i = 8 => pidf["sup"] = NoPid /\ Down("server")

LEMMA StopGoesOn ==
  ASSUME IInv, CmdInv, TableSound', NEW t \in Stoppers, Active(t),
         NEW left, Advance(t, left), UNCHANGED stage,
         \A f \in PidNames : pidf'[f] \in {pidf[f], NoPid},
         \A q \in Pids : proc'[q] = proc[q] \/ GoneRow(q),
         \A q \in Pids : proc'[q].term => proc'[q].st = "zombie",
         NEW i \in 1..8, step[t] = i, PartDone(i)'
  PROVE  CmdInv'
<1>1. step[t] \in 1..8 /\ Len(StopPlan) = 8 /\ step \in [Stoppers -> 1..8]
  BY TargetParts, PlanTypes DEF IInv, TypeOK
<1>2. PICK l \in {"enter", "ok"} :
        /\ Goto(t, l)
        /\ l = "enter" => step' = [step EXCEPT ![t] = @ + 1] /\ step[t] < 8
        /\ l = "ok" => UNCHANGED step /\ step[t] = 8 /\ sock' = [k \in Sockets |-> NoPid]
  BY <1>1 DEF Advance, Finish
<1>3. \A u \in Stoppers : u # t => step'[u] = step[u]
  BY <1>1, <1>2
<1>4. /\ OneCommand' /\ FreshCommands' /\ pc'[t] = l
      /\ \A u \in Stoppers : u # t => ~Active(u)' /\ pc'[u] # "wait"
  BY <1>2, <1>3, StopCmd
<1>5. Signalled'
  BY <1>2, <1>4 DEF Signalled
<1>6. \A k : Down(k) /\ k # "none" => Down(k)'
  BY Shapes DEF Down, Is, GoneRow
<1>7. NoneComing /\ Progress(i)
  BY DEF CmdInv, StopProgress
<1>8. NoneComing'
  BY <1>7, Shapes DEF NoneComing, Is, GoneRow
<1>9. Progress(i + 1)'
  <2>1. {"dog", "dkd", "launch", "ctd"} \subseteq PidNames
    BY DEF PidNames
  <2>2. i + 1 > 1 => pidf'["dog"] = NoPid
    BY <1>7, <2>1 DEF PartDone, Progress
  <2>3. i + 1 > 2 => Down("dog")'
    BY <1>6, <1>7 DEF PartDone, Progress
  <2>4. i + 1 > 3 => pidf'["dkd"] = NoPid
    BY <1>7, <2>1 DEF PartDone, Progress
  <2>5. i + 1 > 4 => pidf'["launch"] = NoPid
    BY <1>7, <2>1 DEF PartDone, Progress
  <2>6. i + 1 > 5 => pidf'["ctd"] = NoPid
    BY <1>7, <2>1 DEF PartDone, Progress
  <2>7. i + 1 > 6 => Down("dkd")'
    BY <1>6, <1>7 DEF PartDone, Progress
  <2>8. i + 1 > 7 => Down("ctd")'
    BY <1>6, <1>7 DEF PartDone, Progress
  <2>. QED BY <2>2, <2>3, <2>4, <2>5, <2>6, <2>7, <2>8 DEF Progress
<1>10. CASE l = "enter"
  <2>1. step'[t] = i + 1
    BY <1>1, <1>2, <1>10
  <2>2. StopProgress'
    BY <1>4, <1>8, <1>9, <2>1 DEF StopProgress
  <2>3. StopLeavesNothing'
    BY <1>4, <1>10 DEF StopLeavesNothing, Quiet, Active, Commands, EndPc
  <2>. QED BY <1>4, <1>5, <2>2, <2>3 DEF CmdInv
<1>11. CASE l = "ok"
  <2>1. ~Active(t)'
    BY <1>4, <1>11 DEF Active, EndPc
  <2>2. StopProgress'
    BY <1>4, <2>1 DEF StopProgress
  <2>3. i = 8
    BY <1>2, <1>11
  <2>4. pidf'["sup"] = NoPid /\ Down("server")'
    BY <2>3 DEF PartDone
  <2>5. \A f \in PidNames : pidf'[f] = NoPid
    BY <1>9, <2>3, <2>4 DEF Progress, PidNames
  <2>6. Down("dog")' /\ Down("dkd")' /\ Down("ctd")'
    BY <1>9, <2>3 DEF Progress
  <2>7. \A p \in Pids : proc'[p].kind # "server"
    BY <2>4 DEF Down, Is, TableSound
  <2>8. \A p \in Pids : proc'[p].st # "zombie"
    BY <2>7 DEF TableSound
  <2>9. \A p \in Pids : proc'[p].kind \notin Owned
    BY <2>4, <2>6, <2>8 DEF Down, Is, Owned, Daemons
  <2>10. StopLeavesNothing'
    BY <1>2, <1>11, <2>5, <2>9 DEF StopLeavesNothing
  <2>. QED BY <1>4, <1>5, <2>2, <2>10 DEF CmdInv
<1>. QED BY <1>10, <1>11

-----------------------------------------------------------------------------
(* What stays known of the sockets, the supervisor and the daemons.        *)

LEMMA SocketsFrame ==
  ASSUME IInv, SocketsSound, \A k \in Sockets : sock'[k] \in {sock[k], NoPid, Stale},
         \A k \in Sockets : sock'[k] \in Pids =>
            proc'[sock[k]].kind = proc[sock[k]].kind /\ proc'[sock[k]].st = proc[sock[k]].st
  PROVE  SocketsSound'
BY DEF SocketsSound, Sockets, Daemons

\* Supervisors stay as they are, or are gone.
SameServers ==
  \A q \in Pids : Is(q, "server")' => /\ Is(q, "server") /\ proc'[q].st = proc[q].st
                                      /\ proc[q].term => proc'[q].term

LEMMA ServersFrame ==
  ASSUME ServersKnown, SameServers,
         sock'["sup"] = sock["sup"], pidf'["sup"] = pidf["sup"],
         \/ \A q \in Pids : Is(q, "server") => proc[q].st \notin {"boot", "bound"}
         \/ \A s \in Starters : pc[s] = "probe" => pc'[s] = "probe",
         \A s \in Starters : pc'[s] = "spawn" => pc[s] = "spawn"
  PROVE  ServersKnown'
BY DEF ServersKnown, SameServers, Is

\* The daemons stay as they are, or are gone.
SameDaemons ==
  \A k \in Daemons : \A q \in Pids : Is(q, k)' => Is(q, k) /\ proc'[q].st = proc[q].st

LEMMA DaemonsFrame ==
  ASSUME Tidy, stray => stray',
         stray \/ SameDaemons,
         \/ stray \/ \E t \in Stoppers : Active(t)'
         \/ (\A t \in Stoppers : ~Active(t)) /\ \A k \in Daemons : Down(k)' \/ pidf'[k] = pidf[k],
         \/ stray \/ \A k \in Daemons : \A q \in Pids : Is(q, k) => proc[q].st = "up"
         \/ \A k \in Daemons : Starting(k) => Starting(k)',
         stray \/ \A s \in Starters :
            pc'[s] \in {"ensure", "spawn", "probe", "request"} /\ stage'[s] \in Daemons =>
              \/ pc[s] \in {"ensure", "spawn", "probe", "request"} /\ stage'[s] = stage[s]
              \/ Down(stage'[s])
  PROVE  Tidy'
<1>. SUFFICES ASSUME ~stray PROVE DaemonsKnown'
  BY DEF Tidy
<1>1. "ctd" \in Daemons /\ "dkd" \in Daemons /\ DaemonsKnown /\ SameDaemons
  BY DEF Daemons, Tidy
<1>2. \A k \in Daemons : \A p, q \in Pids : Is(p, k)' /\ Is(q, k)' => p = q
  BY <1>1 DEF DaemonsKnown, SameDaemons
<1>3. ASSUME NEW k \in Daemons, NEW p \in Pids, Is(p, k)', proc'[p].st # "up"
      PROVE  Starting(k)'
  BY <1>1, <1>3 DEF DaemonsKnown, SameDaemons
<1>4. (\A t \in Stoppers : ~Active(t)') =>
        /\ \A p \in Pids : Is(p, "ctd")' => pidf'["ctd"] = p
        /\ \A p \in Pids : Is(p, "dkd")' /\ proc'[p].st \in {"bound", "up"} => pidf'["dkd"] = p
  BY <1>1 DEF DaemonsKnown, SameDaemons, Down
<1>6. ASSUME NEW s \in Starters, pc'[s] \in {"ensure", "spawn", "probe", "request"}, stage'[s] \in Daemons,
             NEW p \in Pids
      PROVE  ~Is(p, stage[s])'
  <2>1. ~Is(p, stage'[s])
    BY <1>1, <1>6 DEF DaemonsKnown, Down
  <2>. QED BY <1>1, <1>6, <2>1 DEF SameDaemons, Is
<1>. QED BY <1>2, <1>3, <1>4, <1>6 DEF DaemonsKnown

\* While no start waits for anything, what runs has come up.
LEMMA AllServe ==
  ASSUME ServersKnown, Tidy, \A s \in Starters : pc[s] \notin {"probe", "socket", "api"}
  PROVE  /\ \A q \in Pids : Is(q, "server") => proc[q].st \notin {"boot", "bound"}
         /\ stray \/ \A k \in Daemons : \A q \in Pids : Is(q, k) => proc[q].st = "up"
BY DEF ServersKnown, Tidy, DaemonsKnown, Starting

-----------------------------------------------------------------------------
(* The steps of a stop keep the invariant.                                 *)

LEMMA StopRows ==
  ASSUME IInv, CmdInv, ServersKnown, Tidy, NEW t \in Stoppers, Active(t) \/ Quiet,
         NEW l, Goto(t, l), UNCHANGED stage
  PROVE  /\ SameServers /\ sock'["sup"] = sock["sup"] /\ pidf'["sup"] = pidf["sup"] => ServersKnown'
         /\ Down("server")' => ServersKnown'
         /\ l \in {"enter", "wait"} /\ UNCHANGED stray /\ (stray \/ SameDaemons) => Tidy'
         /\ (\A k \in Daemons : Down(k)') => Tidy'
<1>1. pc'[t] = l /\ \A s \in Starters : pc'[s] = pc[s] /\ pc[s] \in EndPc
  BY StopAlone DEF Goto, IInv, TypeOK, Commands
<1>2. \A s \in Starters : pc'[s] \notin StartPc /\ pc[s] \notin StartPc
  BY <1>1 DEF EndPc, StartPc
<1>3. \A s \in Starters : pc[s] \notin {"probe", "socket", "api"} /\ pc'[s] # "spawn"
  BY <1>2 DEF StartPc
<1>4. /\ \A q \in Pids : Is(q, "server") => proc[q].st \notin {"boot", "bound"}
      /\ stray \/ \A k \in Daemons : \A q \in Pids : Is(q, k) => proc[q].st = "up"
  BY <1>3, AllServe
<1>5. Down("server")' => ServersKnown'
  BY DEF Down, ServersKnown
<1>6. \A s \in Starters : pc'[s] \notin {"ensure", "spawn", "probe", "request"}
  BY <1>2 DEF StartPc
<1>7. SameServers /\ sock'["sup"] = sock["sup"] /\ pidf'["sup"] = pidf["sup"] => ServersKnown'
  BY <1>3, <1>4, ServersFrame
<1>8. ASSUME l \in {"enter", "wait"}, UNCHANGED stray, stray \/ SameDaemons PROVE Tidy'
  <2>1. Active(t)'
    BY <1>1, <1>8 DEF Active, EndPc
  <2>. QED BY <1>4, <1>6, <1>8, <2>1, DaemonsFrame
<1>9. ASSUME \A k \in Daemons : Down(k)' PROVE Tidy'
  <2>1. DaemonsKnown'
    BY <1>6, <1>9 DEF DaemonsKnown, Down, Daemons
  <2>. QED BY <2>1 DEF Tidy
<1>. QED BY <1>5, <1>7, <1>8, <1>9

\* The sockets as a part of the plan leaves them.
LEMMA AdvanceSockets ==
  ASSUME NEW t \in Stoppers, NEW left, Advance(t, left)
  PROVE  sock' = left \/ sock' = [k \in Sockets |-> NoPid]
BY DEF Advance

LEMMA StopKeepsSerial ==
  ASSUME Serial, SInv, NEW t \in Stoppers, StopBegin(t) \/ StopStep(t)
  PROVE  SInv'
<1>1. /\ IInv /\ TableSound /\ SocketsSound /\ ServersKnown /\ Tidy /\ CmdInv /\ IInv'
      /\ proc \in [Pids -> Process] /\ hold \in [Stoppers -> SUBSET Pids]
      /\ pidf \in [PidNames -> Pids \union {NoPid}]
      /\ sock \in [Sockets -> Pids \union {NoPid, Stale}]
  BY StopKeeps DEF SInv, IInv, TypeOK
<1>2. "slow" \notin Faults
  BY DEF Serial
<1>3. {"dog", "dkd", "ctd", "sup", "launch"} \subseteq PidNames /\ Daemons = {"ctd", "dkd"}
  BY DEF PidNames, Daemons
<1>4. CASE StopBegin(t)
  <2>1. Quiet /\ Goto(t, "enter") /\ UNCHANGED <<proc, pidf, sock, stage, last, step, hold, stray>>
    BY <1>4, <1>2 DEF StopBegin, Begin, Keep, run, Serial
  <2>2. CmdInv'
    BY <1>1, <1>4, StopBeginCmd
  <2>3. TableSound' /\ SocketsSound'
    BY <1>1, <2>1 DEF TableSound, SocketsSound
  <2>4. SameServers /\ SameDaemons
    BY <2>1 DEF SameServers, SameDaemons, Is
  <2>5. ServersKnown' /\ Tidy'
    BY <1>1, <2>1, <2>4, StopRows
  <2>. QED BY <1>1, <2>2, <2>3, <2>5 DEF SInv
\* Nobody changes, the file goes or was no file to mind, and the stop goes on.
<1>5. ASSUME Active(t), UNCHANGED <<proc, stage>>, NEW left, Advance(t, left), left = sock,
             \A f \in PidNames : pidf'[f] \in {pidf[f], NoPid},
             Down("server") \/ pidf'["sup"] = pidf["sup"],
             \A p \in Pids : proc[p].term => proc[p].st = "zombie",
             NEW i \in 1..8, step[t] = i, PartDone(i)'
      PROVE  SInv'
  <2>1. TableSound'
    BY <1>1, <1>5 DEF TableSound
  <2>2. CmdInv'
    BY <1>1, <1>5, <2>1, StopGoesOn
  <2>3. SocketsSound'
    <3>1. sock' = sock \/ sock' = [k \in Sockets |-> NoPid]
      BY <1>5, AdvanceSockets
    <3>. QED BY <1>1, <1>5, <3>1, SocketsFrame
  <2>4. PICK l : /\ Goto(t, l)
                 /\ (l = "enter" /\ sock' = sock /\ UNCHANGED stray) \/ i = 8
    BY <1>1, <1>5, PlanTypes DEF Advance, Finish
  <2>5. SameServers /\ SameDaemons /\ \A k : Down(k)' <=> Down(k)
    BY <1>5 DEF SameServers, SameDaemons, Is, Down
  <2>6. i = 8 => Down("dkd") /\ Down("ctd")
    BY <1>1, <1>5 DEF CmdInv, StopProgress, Progress
  <2>7. Tidy'
    BY <1>1, <1>3, <1>5, <2>4, <2>5, <2>6, StopRows
  <2>8. ServersKnown'
    BY <1>1, <1>5, <2>4, <2>5, StopRows DEF PartDone
  <2>. QED BY <1>1, <2>1, <2>2, <2>3, <2>7, <2>8 DEF SInv
\* Some are told to go.
<1>6. ASSUME pc[t] = "enter", Goto(t, "wait"), UNCHANGED <<pidf, sock, stage, step, last, stray>>,
             NEW ps \in SUBSET Pids, TermRows(ps), hold' = [hold EXCEPT ![t] = ps],
             \A p \in ps : proc[p].kind = Target(t)[2] /\ proc[p].kind # "none",
             step[t] \in {2, 6, 7, 8} => \A p \in Pids : Is(p, Target(t)[2]) => p \in ps
      PROVE  SInv'
  <2>1. CmdInv'
    BY <1>1, <1>6, StopMarks
  <2>2. TableSound'
    BY <1>1, <1>6, TableMark
  <2>3. \A q \in Pids : proc'[q].kind = proc[q].kind /\ proc'[q].st = proc[q].st
    BY <1>6 DEF TermRows
  <2>4. SocketsSound'
    BY <1>1, <1>6, <2>3, SocketsFrame
  <2>5. SameServers /\ SameDaemons
    BY <1>6, <2>3 DEF SameServers, SameDaemons, Is, TermRows
  <2>6. ServersKnown' /\ Tidy'
    BY <1>1, <1>6, <2>5, StopRows DEF Active, EndPc
  <2>. QED BY <1>1, <2>1, <2>2, <2>4, <2>6 DEF SInv
<1>7. step[t] \in 1..8
  BY <1>1, TargetParts
<1>8. ASSUME pc[t] \in {"enter", "wait"}
      PROVE  /\ Active(t)
             /\ \A s \in Starters : pc[s] \notin {"probe", "socket", "api"}
             /\ \A q \in Pids : Is(q, "server") => proc[q].st \notin {"boot", "bound"}
             /\ NoneComing
  <2>1. Active(t)
    BY <1>8 DEF Active, EndPc
  <2>2. \A s \in Starters : pc[s] \notin {"probe", "socket", "api"}
    BY <1>1, <2>1, StopAlone DEF EndPc
  <2>. QED BY <1>1, <2>1, <2>2, AllServe DEF CmdInv, StopProgress
<1>9. CASE StopPidFile(t)
  <2> DEFINE f == Target(t)[1]
             p == pidf[f]
             k == Target(t)[2]
  <2>1. pc[t] = "enter" /\ f # "scan" /\ Active(t)
    BY <1>8, <1>9 DEF StopPidFile
  <2>2. CASE Alive(p) /\ Uses(p, k)
    <3>1. /\ proc' = [proc EXCEPT ![p].term = TRUE] /\ hold' = [hold EXCEPT ![t] = {p}]
          /\ Goto(t, "wait") /\ UNCHANGED <<pidf, sock, step, last, stage, stray>>
      BY <1>9, <2>2 DEF StopPidFile, run
    <3>2. p \in Pids /\ proc[p].kind = k /\ proc[p].kind # "none" /\ Is(p, k)
      BY <1>1, <2>2 DEF Alive, Uses, IInv, KnownKind, Is
    <3>3. TermRows({p})
      BY <1>1, <3>1, <3>2, MarkRow
    <3>4. step[t] \in {2, 6, 7, 8} => \A q \in Pids : Is(q, k) => q \in {p}
      <4>1. step[t] \in {2, 6, 7, 8} => k = "server"
        BY <1>1, <2>1, TargetParts
      <4>. QED BY <1>1, <3>2, <4>1 DEF ServersKnown
    <3>. HIDE DEF p
    <3>. QED BY <1>6, <2>1, <3>1, <3>2, <3>3, <3>4
  <2>3. CASE ~(Alive(p) /\ Uses(p, k))
    <3>1. /\ pidf' = [pidf EXCEPT ![f] = NoPid] /\ Advance(t, sock)
          /\ UNCHANGED <<proc, stage>>
      BY <1>9, <2>3 DEF StopPidFile
    <3>2. f \in PidNames /\ pidf'[f] = NoPid /\ \A g \in PidNames : g # f => pidf'[g] = pidf[g]
      <4>1. f \in PidNames
        BY <1>1, <1>3, <2>1, TargetParts
      <4>. QED BY <1>1, <3>1, <4>1
    <3>5. \A q \in Pids : Is(q, k) /\ f = "sup" => FALSE
      <4>1. SUFFICES ASSUME NEW q \in Pids, Is(q, k), f = "sup" PROVE FALSE
        OBVIOUS
      <4>2. k = "server"
        BY <1>1, <4>1, TargetParts
      <4>3. proc[q].st \in {"up", "leaving"}
        BY <1>1, <1>8, <2>1, <4>1, <4>2 DEF TableSound, Is
      <4>4. pidf["sup"] = q
        BY <1>1, <4>1, <4>2, <4>3 DEF ServersKnown
      <4>. QED BY <2>3, <4>1, <4>3, <4>4 DEF Alive, Uses, Is
    <3>6. f = "sup" => k = "server" /\ Down("server")
      BY <1>1, <3>5, TargetParts DEF Down
    <3>7. \A q \in Pids : proc[q].term => proc[q].st = "zombie"
      BY <1>1, <2>1, StopAlone
    <3>8. PICK i \in 1..8 : step[t] = i
      BY <1>7
    <3>9. \A d : Down(d)' <=> Down(d)
      BY <3>1 DEF Down, Is
    <3>10. PartDone(i)'
      BY <1>1, <2>1, <3>2, <3>6, <3>8, <3>9, TargetParts DEF PartDone
    <3>12. Down("server") \/ pidf'["sup"] = pidf["sup"]
      BY <1>3, <3>2, <3>6
    <3>13. \A g \in PidNames : pidf'[g] \in {pidf[g], NoPid}
      BY <3>2
    <3>. HIDE DEF f, p, k
    <3>. QED BY <1>5, <2>1, <3>1, <3>7, <3>8, <3>10, <3>12, <3>13
  <2>. QED BY <2>2, <2>3
<1>10. CASE StopWait(t)
  <2> DEFINE f == Target(t)[1]
             k == Target(t)[2]
             kill == {p \in hold[t] : Alive(p)}
  <2>1. /\ pc[t] = "wait" /\ f # "scan" /\ Active(t)
        /\ \A p \in kill : ~proc[p].term
        /\ proc' = Ended(kill) /\ pidf' = [pidf EXCEPT ![f] = NoPid]
        /\ Advance(t, Abandoned(kill)) /\ UNCHANGED stage
    BY <1>2, <1>8, <1>10 DEF StopWait
  <2>2. \A p \in hold[t] : p \in Pids /\ (proc[p].kind # "none" => proc[p].term)
    BY <1>1, <2>1 DEF CmdInv, Signalled
  <2>3. kill = {}
    BY <1>1, <2>1, <2>2 DEF TableSound, Alive
  <2>4. proc' = proc /\ Abandoned(kill) = sock
    BY <1>1, <2>1, <2>3, EndNone DEF Abandoned
  <2>5. \A p \in hold[t] : proc[p].kind = "none"
    BY <1>1, <2>2, <2>3 DEF TableSound, Alive
  <2>6. step[t] = 8 => Down("server")
    BY <1>1, <2>1, <2>5, TargetParts DEF CmdInv, Signalled, Down, Is
  <2>7. \A q \in Pids : proc[q].term => proc[q].st = "zombie"
    <3>1. ASSUME NEW q \in Pids, proc[q].term, proc[q].st # "zombie" PROVE FALSE
      <4>1. q \in hold[t]
        BY <1>1, <2>1, <3>1, StopAlone
      <4>. QED BY <1>1, <2>5, <3>1, <4>1 DEF TableSound
    <3>. QED BY <3>1
  <2>8. PICK i \in 1..8 : step[t] = i
    BY <1>7
  <2>9. f \in PidNames /\ pidf'[f] = NoPid /\ \A g \in PidNames : g # f => pidf'[g] = pidf[g]
    <3>1. f \in PidNames
      BY <1>1, <1>3, <2>1, TargetParts
    <3>. QED BY <1>1, <2>1, <3>1
  <2>10. \A d : Down(d)' <=> Down(d)
    BY <2>4 DEF Down, Is
  <2>11. PartDone(i)'
    BY <1>1, <2>1, <2>6, <2>8, <2>9, <2>10, TargetParts DEF PartDone
  <2>13. Down("server") \/ pidf'["sup"] = pidf["sup"]
    BY <1>1, <1>3, <2>1, <2>6, <2>9, TargetParts
  <2>14. \A g \in PidNames : pidf'[g] \in {pidf[g], NoPid}
    BY <2>9
  <2>. HIDE DEF f, k, kill
  <2>. QED BY <1>5, <2>1, <2>4, <2>7, <2>8, <2>11, <2>13, <2>14
<1>11. CASE StopScan(t)
  <2> DEFINE k == Target(t)[2]
             found == {p \in Pids : Uses(p, k)}
  <2>1. pc[t] = "enter" /\ Target(t)[1] = "scan" /\ Active(t)
    BY <1>8, <1>11 DEF StopScan
  <2>2. \A p \in Pids : Is(p, k) => p \in found
    <3>1. k \in {"dog", "dkd", "ctd"} /\ NoneComing
      BY <1>1, <1>8, <2>1, TargetParts
    <3>. QED BY <1>1, <3>1 DEF NoneComing, TableSound, Uses, Is
  <2>3. CASE found = {}
    <3>1. Advance(t, sock) /\ UNCHANGED <<proc, stage, pidf>>
      BY <1>11, <2>3 DEF StopScan
    <3>2. Down(k)
      BY <2>2, <2>3 DEF Down
    <3>3. \A q \in Pids : proc[q].term => proc[q].st = "zombie"
      BY <1>1, <2>1, StopAlone
    <3>4. PICK i \in 1..8 : step[t] = i
      BY <1>7
    <3>5. \A d : Down(d)' <=> Down(d)
      BY <3>1 DEF Down, Is
    <3>6. PartDone(i)'
      BY <1>1, <2>1, <3>2, <3>4, <3>5, TargetParts DEF PartDone
    <3>. HIDE DEF k, found
    <3>. QED BY <1>5, <2>1, <3>1, <3>3, <3>4, <3>6
  <2>4. CASE found # {}
    <3>1. /\ proc' = [p \in Pids |-> IF p \in found THEN [proc[p] EXCEPT !.term = TRUE] ELSE proc[p]]
          /\ hold' = [hold EXCEPT ![t] = found]
          /\ Goto(t, "wait") /\ UNCHANGED <<pidf, sock, step, last, stage, stray>>
      BY <1>11, <2>4 DEF StopScan
    <3>2. found \in SUBSET Pids /\ \A p \in found : proc[p].kind = k /\ proc[p].kind # "none"
      BY <1>1 DEF Uses, IInv, KnownKind
    <3>. HIDE DEF found
    <3>3. TermRows(found)
      BY <1>1, <3>1, <3>2, MarkRows
    <3>. QED BY <1>6, <2>1, <2>2, <3>1, <3>2, <3>3
  <2>. QED BY <2>3, <2>4
<1>12. CASE StopScanKill(t)
  <2> DEFINE k == Target(t)[2]
             kill == {p \in hold[t] : Alive(p)}
  <2>1. /\ pc[t] = "wait" /\ Target(t)[1] = "scan" /\ Active(t)
        /\ proc' = Ended(kill) /\ UNCHANGED <<pidf, stage>>
        /\ Advance(t, Abandoned(kill))
    BY <1>8, <1>12 DEF StopScanKill
  <2>2. kill \in SUBSET Pids /\ step[t] \in {2, 6, 7} /\ k \in {"dog", "dkd", "ctd"}
    BY <1>1, <2>1, TargetParts
  <2>3. \A p \in hold[t] : proc[p].kind \in {"none", k}
    BY <1>1, <2>1 DEF CmdInv, Signalled
  <2>4. \A p \in kill : proc[p].kind # "server"
    BY <2>2, <2>3
  <2>5. \A p \in Pids : Is(p, k) => p \in kill
    BY <1>1, <2>1, <2>2 DEF CmdInv, Signalled, TableSound, Alive, Is
  <2>6. \A q \in Pids : proc[q].term /\ proc[q].st # "zombie" => q \in kill
    <3>1. ASSUME NEW q \in Pids, proc[q].term, proc[q].st # "zombie" PROVE q \in kill
      <4>1. q \in hold[t]
        BY <1>1, <2>1, <3>1, StopAlone
      <4>. QED BY <1>1, <3>1, <4>1 DEF TableSound, Alive
    <3>. QED BY <3>1
  <2>7. \A s \in Sockets : Abandoned(kill)[s] = IF sock[s] \in kill THEN Stale ELSE sock[s]
    BY DEF Abandoned
  <2>. HIDE DEF kill
  <2>8. /\ \A q \in Pids \ kill : proc'[q] = proc[q]
        /\ \A q \in kill : GoneRow(q)
    BY <1>1, <2>1, <2>2, <2>4, EndRows
  <2>9. TableSound'
    BY <1>1, <2>2, <2>4, <2>8, TableEnd
  <2>10. \A q \in Pids : proc'[q].term => proc'[q].st = "zombie"
    BY <1>1, <2>6, <2>8, Shapes DEF GoneRow
  <2>11. ASSUME NEW d, d = k PROVE Down(d)'
    <3>1. ASSUME NEW q \in Pids, proc'[q].kind = d, proc'[q].st # "zombie" PROVE FALSE
      BY <1>1, <2>2, <2>5, <2>8, <2>11, <3>1, Shapes DEF GoneRow, Is
    <3>. QED BY <3>1 DEF Down, Is
  <2>12. PICK i \in 1..8 : step[t] = i
    BY <1>7
  <2>13. PartDone(i)'
    BY <1>1, <2>2, <2>11, <2>12, TargetParts DEF PartDone
  <2>14. CmdInv'
    BY <1>1, <2>1, <2>8, <2>9, <2>10, <2>12, <2>13, StopGoesOn
  <2>15. sock' = Abandoned(kill) /\ Goto(t, "enter") /\ UNCHANGED stray
    BY <1>1, <2>1, <2>2, PlanTypes DEF Advance
  <2>16. \A q \in Pids : proc'[q].kind # "none" /\ proc'[q].st # "zombie" => proc'[q] = proc[q]
    BY <1>1, <2>8, Shapes DEF GoneRow
  <2>17. SocketsSound'
    BY <1>1, <2>7, <2>8, <2>15, SocketsFrame
  <2>18. SameServers /\ SameDaemons
    BY <2>16 DEF SameServers, SameDaemons, Is, Daemons
  <2>19. sock["sup"] \notin kill /\ "sup" \in Sockets
    BY <1>1, <2>2, <2>4 DEF SocketsSound, Sockets
  <2>20. sock'["sup"] = sock["sup"] /\ pidf' = pidf
    BY <2>1, <2>7, <2>15, <2>19
  <2>21. ServersKnown' /\ Tidy'
    BY <1>1, <2>1, <2>15, <2>18, <2>20, StopRows
  <2>. QED BY <1>1, <2>9, <2>14, <2>17, <2>21 DEF SInv
<1>. QED BY <1>4, <1>9, <1>10, <1>11, <1>12 DEF StopStep

-----------------------------------------------------------------------------
(* The steps of the processes keep the invariant.                          *)

LEMMA ProcessRows ==
  ASSUME ServersKnown, Tidy, UNCHANGED cmd
  PROVE  /\ SameServers /\ sock'["sup"] = sock["sup"] /\ pidf'["sup"] = pidf["sup"] => ServersKnown'
         /\ /\ stray \/ SameDaemons
            /\ stray \/ (\E t \in Stoppers : Active(t)) \/ \A k \in Daemons : Down(k)' \/ pidf'[k] = pidf[k]
            => Tidy'
<1>1. UNCHANGED <<pc, stage, stray>> /\ \A k : Starting(k)' <=> Starting(k)
  BY DEF cmd, Starting
<1>2. SameServers /\ sock'["sup"] = sock["sup"] /\ pidf'["sup"] = pidf["sup"] => ServersKnown'
  BY <1>1, ServersFrame
<1>3. \A c : Active(c)' <=> Active(c)
  BY <1>1 DEF Active
<1>4. ASSUME stray \/ SameDaemons,
             stray \/ (\E t \in Stoppers : Active(t)) \/ \A k \in Daemons : Down(k)' \/ pidf'[k] = pidf[k]
      PROVE  Tidy'
  BY <1>1, <1>3, <1>4, DaemonsFrame
<1>. QED BY <1>2, <1>4

\* A watchdog or a daemon ends.
LEMMA OneEnds ==
  ASSUME SInv, UNCHANGED <<cmd, hold>>, NEW p \in Pids,
         proc[p].kind \in {"dog"} \union Daemons, proc[p].st # "zombie", proc' = Ended({p}),
         \A k \in Sockets : IF sock[k] = p THEN sock'[k] \in {NoPid, Stale} ELSE sock'[k] = sock[k],
         \A f \in PidNames : pidf'[f] \in {pidf[f], NoPid},
         pidf'["sup"] = pidf["sup"],
         \A k \in Daemons : pidf'[k] = pidf[k] \/ proc[p].kind = k
  PROVE  TableSound' /\ SocketsSound' /\ ServersKnown' /\ Tidy' /\ CmdInv'
<1>1. /\ IInv /\ TableSound /\ SocketsSound /\ ServersKnown /\ Tidy /\ CmdInv
      /\ proc[p].kind \in Owned /\ proc[p].kind # "server" /\ "sup" \in Sockets
  BY DEF SInv, Owned, Daemons, Sockets
<1>2. OnlyRow(p) /\ GoneRow(p)
  BY <1>1, EndRow
<1>3. TableSound'
  <2>1. {p} \in SUBSET Pids /\ (\A q \in {p} : proc[q].kind # "server")
        /\ (\A q \in Pids \ {p} : proc'[q] = proc[q]) /\ \A q \in {p} : GoneRow(q)
    BY <1>1, <1>2 DEF OnlyRow
  <2>. QED BY <1>1, <2>1, TableEnd
<1>4. SocketsSound'
  BY <1>1, <1>2, SocketsFrame DEF OnlyRow
<1>5. SameServers /\ SameDaemons
  BY <1>1, <1>2, Shapes DEF SameServers, SameDaemons, OnlyRow, GoneRow, Is, Daemons
<1>6. sock'["sup"] = sock["sup"]
  BY <1>1 DEF SocketsSound
<1>7. stray \/ \A k \in Daemons : Down(k)' \/ pidf'[k] = pidf[k]
  <2> SUFFICES ASSUME ~stray PROVE \A k \in Daemons : Down(k)' \/ pidf'[k] = pidf[k]
    OBVIOUS
  <2>1. ASSUME NEW k \in Daemons, proc[p].kind = k PROVE Down(k)'
    <3>1. ASSUME NEW q \in Pids, Is(q, k)' PROVE FALSE
      <4>1. q # p
        BY <1>1, <1>2, <2>1, <3>1, Shapes DEF GoneRow, Is, Daemons
      <4>2. Is(q, k) /\ Is(p, k)
        BY <1>2, <2>1, <3>1, <4>1 DEF OnlyRow, Is
      <4>. QED BY <1>1, <4>1, <4>2 DEF Tidy, DaemonsKnown
    <3>. QED BY <3>1 DEF Down
  <2>. QED BY <2>1
<1>8. ServersKnown' /\ Tidy'
  BY <1>1, <1>5, <1>6, <1>7, ProcessRows
<1>9. CmdInv'
  <2>1. \A q \in Pids : LessRow(q)
    BY <1>1, <1>2, Shapes DEF OnlyRow, GoneRow, LessRow, Daemons
  <2>2. LessFiles
    BY DEF LessFiles
  <2>. QED BY <1>1, <2>1, <2>2, ProcessCmd
<1>. QED BY <1>3, <1>4, <1>8, <1>9

LEMMA CleanupEnds ==
  ASSUME SInv, UNCHANGED <<cmd, hold>>, NEW p \in Pids,
         proc[p].kind \in Daemons, proc[p].st # "zombie", Cleanup(p)
  PROVE  TableSound' /\ SocketsSound' /\ ServersKnown' /\ Tidy' /\ CmdInv'
<1>1. /\ pidf \in [PidNames -> Pids \union {NoPid}]
      /\ {"sup", "dkd", "ctd"} \subseteq PidNames /\ Daemons = {"ctd", "dkd"}
  BY DEF SInv, IInv, TypeOK, PidNames, Daemons
<1>2. proc' = Ended({p}) /\ \A f \in PidNames : pidf'[f] = pidf[f] \/ (pidf'[f] = NoPid /\ f = "dkd" /\ proc[p].kind = "dkd")
  BY <1>1 DEF Cleanup
<1>3. \A k \in Sockets : IF sock[k] = p THEN sock'[k] \in {NoPid, Stale} ELSE sock'[k] = sock[k]
  BY DEF Cleanup
<1>4. /\ \A f \in PidNames : pidf'[f] \in {pidf[f], NoPid}
      /\ pidf'["sup"] = pidf["sup"]
      /\ \A k \in Daemons : pidf'[k] = pidf[k] \/ proc[p].kind = k
  BY <1>1, <1>2
<1>. QED BY <1>2, <1>3, <1>4, OneEnds

\* A process comes further.
LEMMA OneMoves ==
  ASSUME SInv, UNCHANGED <<cmd, hold>>, NEW p \in Pids, NEW st, proc' = [proc EXCEPT ![p].st = st],
         \/ proc[p].kind = "server" /\ st \in {"bound", "up", "leaving"}
         \/ proc[p].kind = "dog" /\ st \in {"bound", "up"}
         \/ /\ proc[p].kind = "ctd" /\ st \in {"boot", "up"}
            /\ st = "up" => \A q \in Pids : proc[q].kind = "ctd" => proc[q].st # "up"
         \/ proc[p].kind = "dkd" /\ st \in {"boot", "bound", "up"},
         proc[p].st # "zombie", proc[p].kind \in {"dog", "dkd"} => proc[p].st # "up",
         proc[p].kind \in Daemons => ~proc[p].term,
         \A f \in PidNames : pidf'[f] = pidf[f] \/ f = "sup"
                             \/ (f \in {"dog", "dkd"} /\ proc[p].kind = f)
  PROVE  TableSound' /\ CmdInv'
<1>1. IInv /\ TableSound /\ CmdInv /\ proc[p].kind \in Owned
  BY DEF SInv, Owned, Daemons
<1>2. /\ OnlyRow(p) /\ proc'[p].kind = proc[p].kind /\ proc'[p].st = st
      /\ proc'[p].term = proc[p].term /\ proc'[p].parent = proc[p].parent
  BY <1>1, MoveRow
<1>3. TableSound'
  BY <1>1, <1>2, TableMove
<1>4. \A q \in Pids : LessRow(q)
  <2>1. proc[p].st = "stub" => proc[p].kind \in Daemons
    BY <1>1 DEF TableSound, Owned, Daemons
  <2>2. LessRow(p)
    BY <1>2, <2>1 DEF LessRow
  <2>. QED BY <1>2, <2>2 DEF LessRow, OnlyRow
<1>5. LessFiles
  BY DEF LessFiles, Is, Daemons
<1>6. CmdInv'
  BY <1>1, <1>4, <1>5, ProcessCmd
<1>. QED BY <1>3, <1>6

LEMMA ProcessKeepsSerial ==
  ASSUME Serial, SInv, NEW p \in Pids, ProcessStep(p) \/ DaemonCrash(p)
  PROVE  SInv'
<1>1. /\ IInv /\ TableSound /\ SocketsSound /\ ServersKnown /\ Tidy /\ CmdInv /\ IInv'
      /\ pidf \in [PidNames -> Pids \union {NoPid}]
      /\ sock \in [Sockets -> Pids \union {NoPid, Stale}]
      /\ {"sup", "dog", "dkd", "ctd"} \subseteq PidNames
      /\ Daemons = {"ctd", "dkd"} /\ Sockets = {"sup", "ctd", "dkd"}
  BY DaemonsKeep DEF SInv, IInv, TypeOK, PidNames, Daemons, Sockets
<1>2. SUFFICES TableSound' /\ SocketsSound' /\ ServersKnown' /\ Tidy' /\ CmdInv'
  BY <1>1 DEF SInv
\* What a supervisor's step leaves of the daemons, and the other way round.
<1>3. ASSUME NEW st, proc' = [proc EXCEPT ![p].st = st]
      PROVE  /\ OnlyRow(p) /\ proc'[p].kind = proc[p].kind /\ proc'[p].st = st
             /\ proc'[p].term = proc[p].term
             /\ proc[p].kind # "server" => SameServers
             /\ proc[p].kind \notin Daemons => SameDaemons
  <2>1. /\ OnlyRow(p) /\ proc'[p].kind = proc[p].kind /\ proc'[p].st = st
        /\ proc'[p].term = proc[p].term
    BY <1>1, <1>3, MoveRow
  <2>. QED BY <2>1 DEF OnlyRow, SameServers, SameDaemons, Is
<1>4. CASE ServerBind(p)
  <2>1. /\ proc[p].kind = "server" /\ proc[p].st = "boot" /\ proc' = [proc EXCEPT ![p].st = "bound"]
        /\ sock' = [sock EXCEPT !["sup"] = p] /\ UNCHANGED <<pidf, cmd, hold>>
    BY <1>4 DEF ServerBind
  <2>2. TableSound' /\ CmdInv'
    BY <1>1, <2>1, OneMoves
  <2>3. /\ OnlyRow(p) /\ proc'[p].kind = "server" /\ proc'[p].st = "bound"
        /\ SameDaemons /\ proc'[p].term = proc[p].term
    BY <1>1, <1>3, <2>1
  <2>4. sock'["sup"] = p /\ \A k \in Daemons : sock'[k] = sock[k]
    BY <1>1, <2>1
  <2>5. SocketsSound'
    BY <1>1, <2>1, <2>3, <2>4 DEF SocketsSound, OnlyRow
  <2>6. ServersKnown'
    BY <1>1, <2>1, <2>3, <2>4 DEF ServersKnown, OnlyRow, Is, cmd
  <2>7. Tidy'
    BY <1>1, <2>1, <2>3, ProcessRows
  <2>. QED BY <2>2, <2>5, <2>6, <2>7
<1>5. CASE ServerWritePid(p)
  <2>1. /\ proc[p].kind = "server" /\ proc[p].st = "bound" /\ proc' = [proc EXCEPT ![p].st = "up"]
        /\ pidf' = [pidf EXCEPT !["sup"] = p] /\ UNCHANGED <<sock, cmd, hold>>
    BY <1>5 DEF ServerWritePid
  <2>2. pidf'["sup"] = p /\ \A f \in PidNames : f # "sup" => pidf'[f] = pidf[f]
    BY <1>1, <2>1
  <2>3. TableSound' /\ CmdInv'
    BY <1>1, <2>1, <2>2, OneMoves
  <2>4. /\ OnlyRow(p) /\ proc'[p].kind = "server" /\ proc'[p].st = "up"
        /\ SameDaemons /\ proc'[p].term = proc[p].term
    BY <1>1, <1>3, <2>1
  <2>5. SocketsSound'
    BY <1>1, <2>1, <2>4 DEF SocketsSound, OnlyRow
  <2>6. ServersKnown'
    BY <1>1, <2>1, <2>2, <2>4 DEF ServersKnown, OnlyRow, Is, cmd
  <2>7. Tidy'
    BY <1>1, <2>1, <2>2, <2>4, ProcessRows
  <2>. QED BY <2>3, <2>5, <2>6, <2>7
<1>6. CASE ServerReap(p)
  <2>1. /\ proc' = [q \in Pids |-> IF proc[q].parent = p /\ proc[q].st = "zombie" THEN Free ELSE proc[q]]
        /\ proc[p].kind = "server" /\ UNCHANGED <<pidf, sock, cmd, hold>>
    BY <1>6 DEF ServerReap, run
  <2>2. TableSound'
    BY <1>1, <2>1, TableReap
  <2>3. \A q \in Pids : proc'[q] = proc[q] \/ (proc'[q] = Free /\ proc[q].st = "zombie")
    BY <2>1
  <2>4. CmdInv'
    <3>1. (\A q \in Pids : LessRow(q)) /\ LessFiles /\ proc[p].kind \in Owned
      BY <2>1, <2>3 DEF LessRow, LessFiles, Owned
    <3>. QED BY <1>1, <2>1, <3>1, ProcessCmd
  <2>5. SocketsSound'
    <3>1. \A k \in Sockets : sock[k] \in Pids => proc'[sock[k]] = proc[sock[k]]
      BY <1>1, <2>3 DEF SocketsSound
    <3>. QED BY <1>1, <2>1, <3>1, SocketsFrame
  <2>6. SameServers /\ SameDaemons
    BY <1>1, <2>3, Shapes DEF SameServers, SameDaemons, Is
  <2>. QED BY <1>1, <2>1, <2>2, <2>4, <2>5, <2>6, ProcessRows
<1>7. CASE ServerLeave(p)
  <2>1. /\ proc[p].kind = "server" /\ proc[p].st = "up" /\ proc[p].term
        /\ proc' = [proc EXCEPT ![p].st = "leaving"]
        /\ sock' = [sock EXCEPT !["sup"] = NoPid] /\ UNCHANGED <<pidf, cmd, hold>>
    BY <1>7 DEF ServerLeave
  <2>2. TableSound' /\ CmdInv'
    BY <1>1, <2>1, OneMoves
  <2>3. /\ OnlyRow(p) /\ proc'[p].kind = "server" /\ proc'[p].st = "leaving"
        /\ SameDaemons /\ proc'[p].term = proc[p].term
    BY <1>1, <1>3, <2>1
  <2>4. sock'["sup"] = NoPid /\ \A k \in Daemons : sock'[k] = sock[k]
    BY <1>1, <2>1
  <2>5. SocketsSound'
    BY <1>1, <2>1, <2>3, <2>4 DEF SocketsSound, OnlyRow
  <2>6. ServersKnown'
    BY <1>1, <2>1, <2>3, <2>4 DEF ServersKnown, OnlyRow, Is, cmd
  <2>7. Tidy'
    BY <1>1, <2>1, <2>3, ProcessRows
  <2>. QED BY <2>2, <2>5, <2>6, <2>7
<1>8. CASE ServerGone(p)
  <2>1. /\ proc[p].kind = "server" /\ proc[p].st = "leaving" /\ proc' = Ended({p})
        /\ pidf' = [pidf EXCEPT !["sup"] = NoPid] /\ UNCHANGED <<sock, cmd, hold>>
    BY <1>8 DEF ServerGone
  <2>2. proc'[p] = Free /\ Orphaned(p)
    BY <1>1, <2>1, EndServer
  <2>3. TableSound'
    BY <1>1, <2>1, <2>2, TableServerEnd
  <2>4. \A f \in PidNames : f # "sup" => pidf'[f] = pidf[f]
    BY <1>1, <2>1
  <2>5. \A q \in Pids : \/ proc'[q] = Free /\ (proc[q].st = "zombie" \/ q = p)
                        \/ /\ q # p /\ proc'[q].kind = proc[q].kind /\ proc'[q].st = proc[q].st
                           /\ proc'[q].term = proc[q].term
    BY <2>2 DEF Orphaned
  <2>6. CmdInv'
    <3>1. (\A q \in Pids : LessRow(q)) /\ LessFiles /\ proc[p].kind \in Owned
      BY <2>1, <2>4, <2>5 DEF LessRow, LessFiles, Owned
    <3>. QED BY <1>1, <2>1, <3>1, ProcessCmd
  <2>7. SocketsSound'
    <3>1. \A k \in Sockets : sock[k] \in Pids =>
             proc'[sock[k]].kind = proc[sock[k]].kind /\ proc'[sock[k]].st = proc[sock[k]].st
      <4>1. \A k \in Sockets : sock[k] \in Pids => sock[k] # p /\ proc[sock[k]].st # "zombie"
        BY <1>1, <2>1 DEF SocketsSound
      <4>. QED BY <2>5, <4>1
    <3>. QED BY <1>1, <2>1, <3>1, SocketsFrame
  <2>8. \A q \in Pids : ~Is(q, "server")'
    <3>1. ASSUME NEW q \in Pids PROVE ~Is(q, "server")'
      <4>1. CASE q = p
        BY <2>2, <4>1, Shapes, <1>1 DEF Is
      <4>2. CASE proc'[q] = Free
        BY <4>2, Shapes, <1>1 DEF Is
      <4>3. CASE q # p /\ proc'[q].kind = proc[q].kind /\ proc'[q].st = proc[q].st
        <5>1. Is(p, "server")
          BY <2>1 DEF Is
        <5>2. ~Is(q, "server")
          BY <1>1, <4>3, <5>1 DEF ServersKnown
        <5>. QED BY <4>3, <5>2 DEF Is
      <4>. QED BY <2>5, <4>1, <4>2, <4>3
    <3>. QED BY <3>1
  <2>9. ServersKnown'
    BY <2>8 DEF ServersKnown
  <2>10. SameDaemons
    BY <1>1, <2>5, Shapes DEF SameDaemons, Is
  <2>. QED BY <1>1, <2>1, <2>3, <2>4, <2>6, <2>7, <2>9, <2>10, ProcessRows
<1>9. CASE DogJudge(p)
  <2>1. proc[p].kind = "dog" /\ proc[p].st = "boot" /\ UNCHANGED <<pidf, sock, cmd, hold>>
    BY <1>9 DEF DogJudge, run
  <2>2. CASE Alive(pidf["dog"])
    <3>1. proc' = Ended({p})
      BY <1>9, <2>2 DEF DogJudge
    <3>2. \A k \in Sockets : sock[k] # p
      BY <1>1, <2>1 DEF SocketsSound
    <3>. QED BY <2>1, <3>1, <3>2, OneEnds
  <2>3. CASE ~Alive(pidf["dog"])
    <3>1. proc' = [proc EXCEPT ![p].st = "bound"]
      BY <1>9, <2>3 DEF DogJudge
    <3>2. TableSound' /\ CmdInv'
      BY <1>1, <2>1, <3>1, OneMoves
    <3>3. OnlyRow(p) /\ SameServers /\ SameDaemons
      BY <1>1, <1>3, <2>1, <3>1
    <3>4. SocketsSound'
      BY <1>1, <2>1, <3>3 DEF SocketsSound, OnlyRow
    <3>. QED BY <1>1, <2>1, <3>2, <3>3, <3>4, ProcessRows
  <2>. QED BY <2>2, <2>3
<1>10. CASE DogWrite(p)
  <2>1. /\ proc[p].kind = "dog" /\ proc[p].st = "bound" /\ proc' = [proc EXCEPT ![p].st = "up"]
        /\ pidf' = [pidf EXCEPT !["dog"] = p] /\ UNCHANGED <<sock, cmd, hold>>
    BY <1>10 DEF DogWrite
  <2>2. \A f \in PidNames : f # "dog" => pidf'[f] = pidf[f]
    BY <1>1, <2>1
  <2>3. TableSound' /\ CmdInv'
    BY <1>1, <2>1, <2>2, OneMoves
  <2>4. OnlyRow(p) /\ SameServers /\ SameDaemons
    BY <1>1, <1>3, <2>1
  <2>5. SocketsSound'
    BY <1>1, <2>1, <2>4 DEF SocketsSound, OnlyRow
  <2>. QED BY <1>1, <2>1, <2>2, <2>3, <2>4, <2>5, ProcessRows
<1>11. CASE DogTerm(p)
  <2>1. /\ proc[p].kind = "dog" /\ proc' = Ended({p}) /\ UNCHANGED <<sock, cmd, hold>>
        /\ \A f \in PidNames : pidf'[f] = pidf[f] \/ (f = "dog" /\ pidf'[f] = NoPid)
    BY <1>1, <1>11 DEF DogTerm
  <2>2. proc[p].st # "zombie" /\ \A k \in Sockets : sock[k] # p
    BY <1>1, <2>1 DEF TableSound, SocketsSound
  <2>3. /\ \A f \in PidNames : pidf'[f] \in {pidf[f], NoPid}
        /\ pidf'["sup"] = pidf["sup"] /\ \A k \in Daemons : pidf'[k] = pidf[k]
    BY <1>1, <2>1
  <2>. QED BY <2>1, <2>2, <2>3, OneEnds
\* A daemon comes further: what is known of its kind is known of it alone.
<1> DEFINE Further(k, st) ==
             /\ proc[p].kind = k /\ proc[p].st # "zombie" /\ proc[p].st # "up"
             /\ proc' = [proc EXCEPT ![p].st = st]
             /\ ~proc[p].term
             /\ k = "ctd" => st # "bound"
             /\ k = "ctd" /\ st = "up" => \A q \in Pids : proc[q].kind = "ctd" => proc[q].st # "up"
             /\ k = "dkd" /\ st \in {"bound", "up"} /\ ~stray => pidf'["dkd"] = p
             /\ \A f \in PidNames \ {"dkd"} : pidf'[f] = pidf[f]
             /\ pidf'["dkd"] = pidf["dkd"] \/ (k = "dkd" /\ pidf'["dkd"] = p)
             /\ \A j \in Sockets \ {k} : sock'[j] = sock[j]
             /\ IF st = "up" THEN sock'[k] = p ELSE sock'[k] = sock[k]
             /\ UNCHANGED <<cmd, hold>>
<1>12. ASSUME NEW k \in Daemons, NEW st \in {"boot", "bound", "up"}, Further(k, st)
       PROVE  TableSound' /\ SocketsSound' /\ ServersKnown' /\ Tidy' /\ CmdInv'
  <2>1. TableSound' /\ CmdInv'
    BY <1>1, <1>12, OneMoves
  <2>2. OnlyRow(p) /\ proc'[p].kind = k /\ proc'[p].st = st /\ SameServers
    BY <1>1, <1>3, <1>12
  <2>3. SocketsSound'
    BY <1>1, <1>12, <2>2 DEF SocketsSound, OnlyRow
  <2>4. ServersKnown'
    BY <1>1, <1>12, <2>2, ProcessRows
  <2>5. \A j : \A q \in Pids : Is(q, j)' => Is(q, j) /\ (q = p \/ proc'[q].st = proc[q].st)
    BY <1>12, <2>2 DEF OnlyRow, Is
  <2>6. UNCHANGED <<pc, stage>> /\ \A j : Starting(j)' <=> Starting(j)
    BY <1>12 DEF cmd, Starting
  <2>7. ASSUME ~stray PROVE DaemonsKnown'
    <3>. DaemonsKnown
      BY <1>1, <2>7 DEF Tidy
    <3>1. \A j \in Daemons : \A q, r \in Pids : Is(q, j)' /\ Is(r, j)' => q = r
      BY <1>1, <2>5 DEF DaemonsKnown
    <3>2. \A j \in Daemons : \A q \in Pids : Is(q, j)' /\ proc'[q].st # "up" => Starting(j)'
      BY <1>1, <1>12, <2>2, <2>5, <2>6 DEF DaemonsKnown, Is
    <3>3. ASSUME \A t \in Stoppers : ~Active(t)'
          PROVE  /\ \A q \in Pids : Is(q, "ctd")' => pidf'["ctd"] = q
                 /\ \A q \in Pids : Is(q, "dkd")' /\ proc'[q].st \in {"bound", "up"} => pidf'["dkd"] = q
      <4>1. \A t \in Stoppers : ~Active(t)
        BY <2>6, <3>3 DEF Active
      <4>2. \A q \in Pids : Is(q, "ctd")' => pidf'["ctd"] = q
        BY <1>1, <1>12, <2>5, <4>1 DEF DaemonsKnown
      <4>3. \A q \in Pids : Is(q, "dkd")' /\ proc'[q].st \in {"bound", "up"} => pidf'["dkd"] = q
        BY <1>1, <1>12, <2>2, <2>5, <2>7, <4>1 DEF DaemonsKnown, Is
      <4>. QED BY <4>2, <4>3
    <3>5. ASSUME NEW s \in Starters, pc'[s] \in {"ensure", "spawn", "probe", "request"}, stage'[s] \in Daemons,
                 NEW q \in Pids, Is(q, stage'[s]), q = q
          PROVE  FALSE
      BY <1>1, <2>6, <3>5 DEF DaemonsKnown
    <3>6. \A s \in Starters : pc'[s] \in {"ensure", "spawn", "probe", "request"} /\ stage'[s] \in Daemons =>
            \A q \in Pids : ~(proc'[q].kind = stage'[s] /\ proc'[q].st # "zombie")
      BY <2>5, <3>5 DEF Is
    <3>. QED BY <3>1, <3>2, <3>3, <3>6 DEF DaemonsKnown, Is
  <2>8. Tidy'
    BY <1>1, <1>12, <2>7 DEF Tidy, cmd
  <2>. QED BY <2>1, <2>3, <2>4, <2>8
<1>13. CASE DaemonExec(p)
  <2>1. PICK k \in Daemons : proc[p].kind = k
    BY <1>13 DEF DaemonExec
  <2>2. Further(k, "boot")
    BY <1>13, <2>1 DEF DaemonExec, run
  <2>. HIDE DEF Further
  <2>. QED BY <1>12, <2>1, <2>2
<1>14. CASE CtdServe(p)
  <2>1. Further("ctd", "up")
    BY <1>1, <1>14 DEF CtdServe
  <2>. HIDE DEF Further
  <2>. QED BY <1>1, <1>12, <2>1
<1>15. CASE DkdWritePid(p)
  <2>1. proc[p].kind = "dkd" /\ proc[p].st = "boot" /\ UNCHANGED <<sock, cmd, hold>>
    BY <1>15 DEF DkdWritePid
  <2>2. CASE Alive(pidf["dkd"]) /\ pidf["dkd"] # p
    <3>1. proc' = Ended({p}) /\ UNCHANGED pidf
      BY <1>15, <2>2 DEF DkdWritePid
    <3>2. \A k \in Sockets : sock[k] # p
      BY <1>1, <2>1 DEF SocketsSound
    <3>. QED BY <1>1, <2>1, <3>1, <3>2, OneEnds
  <2>3. CASE ~(Alive(pidf["dkd"]) /\ pidf["dkd"] # p)
    <3>1. Further("dkd", "bound")
      BY <1>1, <1>15, <2>1, <2>3 DEF DkdWritePid
    <3>. HIDE DEF Further
    <3>. QED BY <1>1, <1>12, <3>1
  <2>. QED BY <2>2, <2>3
<1>16. CASE DkdServe(p)
  <2>1. proc[p].kind = "dkd" /\ proc[p].st = "bound" /\ UNCHANGED <<cmd, hold>>
    BY <1>16 DEF DkdServe
  <2>2. CASE Answers("ctd")
    <3>1. ASSUME ~stray PROVE pidf["dkd"] = p
      <4>1. DaemonsKnown /\ Starting("dkd")
        BY <1>1, <2>1, <3>1 DEF Tidy, DaemonsKnown, Is
      <4>2. \A t \in Stoppers : ~Active(t)
        BY <1>1, <4>1 DEF Starting, Active, EndPc, CmdInv, OneCommand, Commands, DockerAssumption
      <4>. QED BY <1>1, <2>1, <4>1, <4>2 DEF DaemonsKnown, Is
    <3>2. Further("dkd", "up")
      BY <1>1, <1>16, <2>1, <2>2, <3>1 DEF DkdServe
    <3>. HIDE DEF Further
    <3>. QED BY <1>1, <1>12, <3>2
  <2>3. CASE ~Answers("ctd")
    BY <1>1, <1>16, <2>1, <2>3, CleanupEnds DEF DkdServe
  <2>. QED BY <2>2, <2>3
<1>17. CASE DaemonTerm(p)
  BY <1>17, CleanupEnds DEF DaemonTerm
<1>18. CASE DaemonCrash(p)
  <2>1. /\ proc[p].kind \in {"dog"} \union Daemons /\ proc[p].st # "zombie" /\ proc' = Ended({p})
        /\ UNCHANGED <<pidf, cmd, hold>>
        /\ \A k \in Sockets : sock'[k] = IF sock[k] = p THEN Stale ELSE sock[k]
    BY <1>18 DEF DaemonCrash, Abandoned
  <2>. QED BY <2>1, OneEnds
<1>. QED BY <1>4, <1>5, <1>6, <1>7, <1>8, <1>9, <1>10, <1>11, <1>13, <1>14, <1>15, <1>16, <1>17, <1>18
         DEF ProcessStep

-----------------------------------------------------------------------------
(* The steps of a start keep the invariant.                                *)

\* A process of no kind that is known of appears under a free pid.
LEMMA NewRow ==
  ASSUME IInv, TableSound, SocketsSound, NEW p \in Pids, proc[p].st = "free", OnlyRow(p)
  PROVE  /\ \A k \in Sockets : sock[k] # p
         /\ \A k \in Owned : ~Is(p, k)
         /\ proc'[p].kind # "server" => SameServers
         /\ proc'[p].kind \notin Daemons => SameDaemons
<1>1. proc[p].kind = "none"
  BY DEF TableSound
<1>2. \A k \in Sockets : sock[k] # p
  BY <1>1 DEF SocketsSound, Sockets, Daemons
<1>. QED BY <1>1, <1>2 DEF SameServers, SameDaemons, OnlyRow, Is, Owned, Daemons

\* The supervisor over a step of a start.
LEMMA StartServers ==
  ASSUME IInv, CmdInv, ServersKnown, NEW s \in Starters, Active(s) \/ Quiet,
         NEW l, l # "spawn", Goto(s, l), SameServers,
         sock'["sup"] = sock["sup"], pidf'["sup"] = pidf["sup"],
         pc[s] = "probe" => \A q \in Pids : Is(q, "server") => proc[q].st \notin {"boot", "bound"}
  PROVE  ServersKnown'
<1>1. /\ pc'[s] = l
      /\ \A u \in Starters : u # s => pc'[u] = pc[u] /\ pc[u] \in EndPc
  BY StartAlone DEF Goto, IInv, TypeOK, Commands, Active
<1>2. \A u \in Starters : u # s => pc[u] \notin StartPc /\ pc'[u] \notin StartPc
  BY <1>1 DEF StartPc, EndPc
<1>3. \A q \in Pids : Is(q, "server") => proc[q].st \notin {"boot", "bound"}
  BY <1>2 DEF ServersKnown, StartPc
<1>4. \A u \in Starters : pc'[u] # "spawn"
  BY <1>1, <1>2 DEF StartPc
<1>. QED BY <1>3, <1>4, ServersFrame

\* The daemons over a step of a start.
LEMMA StartDaemons ==
  ASSUME IInv, CmdInv, Tidy, NEW s \in Starters, Active(s) \/ Quiet,
         NEW l, Goto(s, l), \A u \in Starters : u # s => stage'[u] = stage[u],
         stray => stray', SameDaemons,
         stray \/ \A k \in Daemons : Down(k)' \/ pidf'[k] = pidf[k],
         \/ stray \/ pc[s] \notin {"socket", "api"}
         \/ l \in {"socket", "api"} /\ UNCHANGED stage
         \/ \A q \in Pids : Is(q, stage[s]) => proc[q].st = "up",
         \/ stray \/ l \notin {"ensure", "spawn", "probe", "request"}
         \/ stage'[s] \notin Daemons
         \/ pc[s] \in {"ensure", "spawn", "probe", "request"} /\ UNCHANGED stage
         \/ Down(stage'[s])
  PROVE  Tidy'
<1>1. /\ pc'[s] = l
      /\ \A u \in Starters : u # s => pc'[u] = pc[u] /\ pc[u] \in EndPc
      /\ \A t \in Stoppers : ~Active(t)
  BY StartAlone DEF Goto, IInv, TypeOK, Commands, Active
<1>2. \A u \in Starters : u # s => pc[u] \notin StartPc /\ pc'[u] \notin StartPc
  BY <1>1 DEF StartPc, EndPc
<1>5. \/ stray \/ \A k \in Daemons : \A q \in Pids : Is(q, k) => proc[q].st = "up"
      \/ \A k \in Daemons : Starting(k) => Starting(k)'
  <2>1. \A k \in Daemons : Starting(k) => pc[s] \in {"socket", "api"} /\ stage[s] = k
    BY <1>2 DEF Starting, StartPc
  <2>2. CASE l \in {"socket", "api"} /\ UNCHANGED stage
    BY <1>1, <2>1, <2>2 DEF Starting
  <2>3. CASE stray \/ pc[s] \notin {"socket", "api"} \/ \A q \in Pids : Is(q, stage[s]) => proc[q].st = "up"
    BY <2>1, <2>3 DEF Tidy, DaemonsKnown
  <2>. QED BY <2>2, <2>3
<1>6. stray \/ \A u \in Starters :
        pc'[u] \in {"ensure", "spawn", "probe", "request"} /\ stage'[u] \in Daemons =>
          \/ pc[u] \in {"ensure", "spawn", "probe", "request"} /\ stage'[u] = stage[u]
          \/ Down(stage'[u])
  BY <1>1, <1>2 DEF StartPc
<1>. QED BY <1>1, <1>5, <1>6, DaemonsFrame

\* A start that gives up on something leaves nothing on its way: it waits
\* until what it waits for serves or is gone.
LEMMA NothingComing ==
  ASSUME Serial, SInv, NEW s \in Starters, Active(s), NEW k \in {"server"} \union Daemons, GivesUp(k),
         k \in Daemons => ~stray
  PROVE  \A q \in Pids : Is(q, k) => proc[q].st \in {"up", "leaving"}
<1>1. IInv /\ TableSound /\ ServersKnown /\ Tidy /\ CmdInv
  BY DEF SInv
<1>2. ~Coming(k)
  BY DEF GivesUp, Serial
<1>3. NobodyTold
  BY <1>1, StartAlone
<1>4. ASSUME NEW q \in Pids, Is(q, k), proc[q].st \in {"stub", "boot", "bound"} PROVE FALSE
  <2>1. ~proc[q].term
    BY <1>3, <1>4 DEF NobodyTold, Is
  <2>2. k = "ctd" /\ \E r \in Pids : proc[r].kind = "ctd" /\ proc[r].st = "up"
    BY <1>2, <1>4, <2>1 DEF Coming, Is
  <2>3. PICK r \in Pids : Is(r, "ctd") /\ proc[r].st = "up"
    BY <2>2 DEF Is
  <2>4. q = r
    BY <1>1, <1>4, <2>2, <2>3 DEF Tidy, DaemonsKnown, Daemons
  <2>. QED BY <1>4, <2>3, <2>4
<1>5. ASSUME NEW q \in Pids, Is(q, k)
      PROVE  proc[q].st \in {"stub", "boot", "bound", "up", "leaving"}
  BY <1>1, <1>5 DEF TableSound, Is, Daemons
<1>. QED BY <1>4, <1>5

LEMMA StartKeepsSerial ==
  ASSUME Serial, SInv, NEW s \in Starters, StartBegin(s) \/ StartStep(s) \/ Interrupt(s)
  PROVE  SInv'
<1>1. /\ IInv /\ TableSound /\ SocketsSound /\ ServersKnown /\ Tidy /\ CmdInv /\ IInv'
      /\ pidf \in [PidNames -> Pids \union {NoPid}]
      /\ sock \in [Sockets -> Pids \union {NoPid, Stale}]
      /\ stage \in [Starters -> {"first"} \union Daemons]
      /\ {"sup", "dog", "dkd", "ctd", "launch"} \subseteq PidNames
      /\ Daemons = {"ctd", "dkd"} /\ Sockets = {"sup", "ctd", "dkd"}
  BY StartKeeps DEF SInv, IInv, TypeOK, PidNames, Daemons, Sockets
<1>2. ~Interrupt(s)
  BY DEF Interrupt, Serial
<1>3. Active(s) \/ Quiet
  BY <1>2 DEF StartBegin, Begin, StartStep, Ensure, SpawnServer, Probe, SpawnWatchdog, CheckDaemon,
        LaunchDaemon, LaunchRefused, WaitSocket, WaitApi, Active, EndPc, Serial
<1>4. NobodyTold
  BY <1>1, <1>3, StartAlone
<1>5. UNCHANGED step /\ (stray => stray')
  BY <1>2 DEF StartBegin, StartStep, Ensure, SpawnServer, Probe, SpawnWatchdog, CheckDaemon,
        LaunchDaemon, LaunchRefused, WaitSocket, WaitApi, Keep
\* Nothing but the command moves.
<1>6. ASSUME NEW l \in StartPc \union {"ok", "failed"}, Goto(s, l), l # "spawn",
             l \in {"ok", "failed"} => last' = "start",
             UNCHANGED <<proc, pidf, sock>>, \A u \in Starters : u # s => stage'[u] = stage[u],
             \/ stray \/ pc[s] \notin {"socket", "api"}
             \/ l \in {"socket", "api"} /\ UNCHANGED stage
             \/ \A q \in Pids : Is(q, stage[s]) => proc[q].st = "up",
             \/ stray \/ l \notin {"ensure", "spawn", "probe", "request"}
             \/ stage'[s] \notin Daemons
             \/ pc[s] \in {"ensure", "spawn", "probe", "request"} /\ UNCHANGED stage
             \/ Down(stage'[s]),
             pc[s] = "probe" => \A q \in Pids : Is(q, "server") => proc[q].st \notin {"boot", "bound"}
      PROVE  SInv'
  <2>1. CmdInv'
    <3>1. NobodyTold'
      BY <1>4, <1>5, <1>6 DEF NobodyTold
    <3>. QED BY <1>1, <1>3, <1>5, <1>6, <3>1, StartCmd
  <2>2. TableSound' /\ SocketsSound'
    BY <1>1, <1>6 DEF TableSound, SocketsSound
  <2>3. SameServers /\ SameDaemons
    BY <1>6 DEF SameServers, SameDaemons, Is
  <2>4. \A k \in Daemons : pidf'[k] = pidf[k]
    BY <1>6
  <2>5. ServersKnown'
    BY <1>1, <1>3, <1>6, <2>3, StartServers
  <2>6. Tidy'
    BY <1>1, <1>3, <1>5, <1>6, <2>3, <2>4, StartDaemons
  <2>. QED BY <1>1, <2>1, <2>2, <2>5, <2>6 DEF SInv
\* A pid that was free is taken.
<1>7. ASSUME NEW p \in Pids, proc[p].st = "free", NEW k, NEW st, NEW par,
             \/ proc' = [proc EXCEPT ![p] = Fresh(k, st, par)]
             \/ /\ stray' /\ k \in Daemons
                /\ \E told \in BOOLEAN :
                     proc' = [proc EXCEPT ![p] = [Fresh(k, st, par) EXCEPT !.term = told]],
             \/ k \in {"server", "dog"} /\ st = "boot" /\ par = NoPid
             \/ k \in Daemons /\ st = "stub" /\ par \in Pids /\ proc[par].kind = "server",
             UNCHANGED sock,
             NEW l \in StartPc \union {"failed"}, Goto(s, l), l = "failed" => last' = "start",
             \A u \in Starters : u # s => stage'[u] = stage[u]
      PROVE  /\ TableSound' /\ SocketsSound' /\ CmdInv'
             /\ OnlyRow(p) /\ proc'[p].kind = k /\ proc'[p].st = st
             /\ k # "server" => SameServers
             /\ k \notin Daemons => SameDaemons
  <2>1. /\ OnlyRow(p) /\ proc'[p].kind = k /\ proc'[p].st = st /\ proc'[p].parent = par
        /\ ~proc'[p].term \/ (stray' /\ k \in Daemons)
    <3>1. CASE proc' = [proc EXCEPT ![p] = Fresh(k, st, par)]
      <4>1. IInv /\ proc' = [proc EXCEPT ![p] = Fresh(k, st, par)]
        BY <1>1, <3>1
      <4>. QED BY <4>1, SpawnRow
    <3>2. CASE /\ stray' /\ k \in Daemons
               /\ \E told \in BOOLEAN :
                    proc' = [proc EXCEPT ![p] = [Fresh(k, st, par) EXCEPT !.term = told]]
      <4>1. PICK told \in BOOLEAN : proc' = [proc EXCEPT ![p] = [Fresh(k, st, par) EXCEPT !.term = told]]
        BY <3>2
      <4>2. IInv
        BY <1>1
      <4>3. OnlyRow(p) /\ proc'[p].kind = k /\ proc'[p].st = st /\ proc'[p].parent = par
        BY <4>1, <4>2, RefusedRow
      <4>. QED BY <3>2, <4>3
    <3>. QED BY <1>7, <3>1, <3>2
  <2>2. TableSound'
    BY <1>1, <1>7, <2>1, TableSpawn
  <2>3. /\ \A j \in Sockets : sock[j] # p
        /\ k # "server" => SameServers
        /\ k \notin Daemons => SameDaemons
    BY <1>1, <1>7, <2>1, NewRow
  <2>4. SocketsSound'
    BY <1>1, <1>7, <2>1, <2>3, SocketsFrame DEF OnlyRow
  <2>5. NobodyTold'
    BY <1>1, <1>4, <1>5, <1>7, <2>1 DEF NobodyTold, OnlyRow
  <2>6. l # "ok"
    BY <1>7 DEF StartPc
  <2>7. CmdInv'
    BY <1>1, <1>3, <1>5, <1>7, <2>5, <2>6, StartCmd
  <2>. QED BY <2>1, <2>2, <2>3, <2>4, <2>7
<1>8. {"ensure", "spawn", "probe", "guard", "check", "request", "socket", "api"} = StartPc
  BY DEF StartPc
<1>9. ASSUME Ensured(s), pc[s] \in {"ensure", "probe"}, UNCHANGED <<proc, pidf, sock>>,
             pc[s] = "probe" => \A q \in Pids : Is(q, "server") => proc[q].st \notin {"boot", "bound"}
      PROVE  SInv'
  <2>1. PICK l \in {"guard", "request"} : Goto(s, l) /\ UNCHANGED stage
    BY <1>9 DEF Ensured
  <2>. QED BY <1>6, <1>8, <1>9, <2>1
<1>10. ASSUME Fail(s), UNCHANGED <<proc, pidf, sock>>,
              pc[s] = "probe" => \A q \in Pids : Is(q, "server") => proc[q].st \notin {"boot", "bound"},
              pc[s] \in {"socket", "api"} /\ ~stray => \A q \in Pids : Is(q, stage[s]) => proc[q].st = "up"
       PROVE  SInv'
  <2>1. Goto(s, "failed") /\ last' = "start" /\ UNCHANGED stage
    BY <1>10 DEF Fail, Finish
  <2>2. "failed" \notin StartPc
    BY <1>8
  <2>. QED BY <1>6, <1>8, <1>10, <2>1
<1>11. CASE StartBegin(s)
  <2>1. /\ pc[s] = "idle" /\ Goto(s, "ensure") /\ UNCHANGED <<proc, pidf, sock, stage>>
    BY <1>11 DEF StartBegin, Begin, run
  <2>2. stage[s] = "first"
    BY <1>1, <2>1 DEF CmdInv, FreshCommands
  <2>3. stage'[s] \notin Daemons
    BY <1>1, <2>1, <2>2
  <2>. QED BY <1>6, <1>8, <2>1, <2>3
<1>12. CASE Ensure(s)
  <2>1. pc[s] = "ensure" /\ UNCHANGED proc /\ Active(s)
    BY <1>12 DEF Ensure, Active, EndPc
  <2>2. CASE ServerReady
    <3>1. UNCHANGED <<pidf, sock>> /\ (Ensured(s) \/ Fail(s))
      BY <1>12, <2>2 DEF Ensure, run
    <3>. QED BY <1>9, <1>10, <2>1, <3>1
  <2>3. CASE ~ServerReady
    <3>1. /\ pidf' = [pidf EXCEPT !["sup"] = NoPid] /\ sock' = [sock EXCEPT !["sup"] = NoPid]
          /\ Goto(s, "spawn") /\ UNCHANGED <<stage, last>>
      BY <1>12, <2>3 DEF Ensure
    <3>2. Down("server")
      <4>1. ASSUME NEW p \in Pids, Is(p, "server") PROVE FALSE
        <5>1. \A u \in Starters : pc[u] # "probe"
          BY <1>1, <1>8, <2>1, StartAlone DEF Commands, Active, EndPc
        <5>2. proc[p].st \in {"up", "leaving"}
          BY <1>1, <4>1, <5>1 DEF TableSound, ServersKnown, Is
        <5>3. proc[p].st = "up"
          BY <1>1, <1>4, <4>1, <5>2 DEF ServersKnown, NobodyTold, Is
        <5>4. sock["sup"] = p /\ pidf["sup"] = p
          BY <1>1, <4>1, <5>3 DEF ServersKnown
        <5>. QED BY <2>3, <4>1, <5>3, <5>4 DEF ServerReady, Alive
      <4>. QED BY <4>1 DEF Down
    <3>3. CmdInv'
      <4>1. NobodyTold'
        BY <1>4, <1>5, <2>1 DEF NobodyTold
      <4>. QED BY <1>1, <1>3, <1>5, <1>8, <2>1, <3>1, <4>1, StartCmd
    <3>4. TableSound'
      BY <1>1, <2>1 DEF TableSound
    <3>5. \A k \in Sockets : sock'[k] \in {sock[k], NoPid}
      BY <1>1, <3>1
    <3>6. SocketsSound'
      BY <1>1, <2>1, <3>5, SocketsFrame
    <3>7. ServersKnown'
      BY <2>1, <3>2 DEF ServersKnown, Down, Is
    <3>8. SameDaemons /\ \A k \in Daemons : pidf'[k] = pidf[k]
      BY <1>1, <2>1, <3>1 DEF SameDaemons, Is
    <3>9. Tidy'
      BY <1>1, <1>3, <1>5, <2>1, <3>1, <3>8, StartDaemons
    <3>. QED BY <1>1, <3>3, <3>4, <3>6, <3>7, <3>9 DEF SInv
  <2>. QED BY <2>2, <2>3
<1>13. CASE SpawnServer(s)
  <2>1. /\ pc[s] = "spawn" /\ Goto(s, "probe") /\ UNCHANGED <<pidf, sock, stage>>
    BY <1>13 DEF SpawnServer, run
  <2>2. PICK p \in Pids : proc[p].st = "free" /\ proc' = [proc EXCEPT ![p] = Fresh("server", "boot", NoPid)]
    BY <1>13 DEF SpawnServer
  <2>3. /\ TableSound' /\ SocketsSound' /\ CmdInv' /\ SameDaemons
        /\ OnlyRow(p) /\ proc'[p].kind = "server" /\ proc'[p].st = "boot"
    <3>1. "server" \notin Daemons /\ "probe" \in StartPc /\ "probe" # "failed" /\ UNCHANGED sock
          /\ \A u \in Starters : u # s => stage'[u] = stage[u]
      BY <1>1, <1>8, <2>1
    <3>. QED BY <1>7, <2>1, <2>2, <3>1
  <2>4. \A q \in Pids : ~Is(q, "server")
    BY <1>1, <2>1 DEF ServersKnown
  <2>5. /\ \A q \in Pids : Is(q, "server")' => q = p
        /\ pc'[s] = "probe" /\ \A u \in Starters : pc'[u] # "spawn"
    <3>1. \A q \in Pids : Is(q, "server")' => q = p
      BY <2>3, <2>4 DEF OnlyRow, Is
    <3>2. pc'[s] = "probe" /\ \A u \in Starters : u # s => pc'[u] = pc[u]
      BY <1>1, <2>1 DEF Goto, IInv, TypeOK, Commands
    <3>3. \A u \in Starters : u # s => pc[u] # "spawn"
      BY <1>1, <1>3, StartAlone DEF Commands, Active, EndPc
    <3>. QED BY <3>1, <3>2, <3>3
  <2>6. ServersKnown'
    BY <2>3, <2>5 DEF ServersKnown
  <2>7. Tidy'
    BY <1>1, <1>3, <1>5, <2>1, <2>3, StartDaemons
  <2>. QED BY <1>1, <2>3, <2>6, <2>7 DEF SInv
<1>14. CASE Probe(s)
  <2>1. pc[s] = "probe" /\ UNCHANGED <<proc, pidf, sock>> /\ Active(s)
    BY <1>14 DEF Probe, run, Active, EndPc
  <2>2. CASE ServerReady /\ ProbeOk /\ Ensured(s)
    <3>1. sock["sup"] \in Pids /\ proc[sock["sup"]].st = "up" /\ Is(sock["sup"], "server")
      BY <1>1, <2>2 DEF ProbeOk, Answers, SocketsSound, Is
    <3>2. \A q \in Pids : Is(q, "server") => proc[q].st \notin {"boot", "bound"}
      BY <1>1, <3>1 DEF ServersKnown
    <3>. QED BY <1>9, <2>1, <2>2, <3>2
  <2>3. CASE GivesUp("server") /\ Fail(s)
    <3>1. \A q \in Pids : Is(q, "server") => proc[q].st \in {"up", "leaving"}
      BY <1>1, <2>1, <2>3, NothingComing
    <3>. QED BY <1>10, <2>1, <2>3, <3>1
  <2>. QED BY <1>14, <2>2, <2>3 DEF Probe
<1>15. CASE SpawnWatchdog(s)
  <2>1. /\ pc[s] = "guard" /\ Goto(s, "check") /\ stage' = [stage EXCEPT ![s] = "ctd"]
        /\ UNCHANGED <<pidf, sock>>
    BY <1>15 DEF SpawnWatchdog, run
  <2>2. \A u \in Starters : u # s => stage'[u] = stage[u]
    BY <1>1, <2>1
  <2>3. CASE UNCHANGED proc
    BY <1>6, <1>8, <2>1, <2>2, <2>3
  <2>4. CASE SpawnDog
    <3>1. PICK p \in Pids : proc[p].st = "free" /\ proc' = [proc EXCEPT ![p] = Fresh("dog", "boot", NoPid)]
      BY <2>4 DEF SpawnDog
    <3>2. TableSound' /\ SocketsSound' /\ CmdInv' /\ SameServers /\ SameDaemons
      BY <1>1, <1>7, <1>8, <2>1, <2>2, <3>1
    <3>3. ServersKnown' /\ Tidy'
      BY <1>1, <1>3, <1>5, <2>1, <2>2, <3>2, StartServers, StartDaemons
    <3>. QED BY <1>1, <3>2, <3>3 DEF SInv
  <2>. QED BY <1>15, <2>3, <2>4 DEF SpawnWatchdog
<1>16. CASE CheckDaemon(s)
  <2> DEFINE k == stage[s]
  <2>1. pc[s] = "check" /\ UNCHANGED <<proc, stage, last>> /\ k \in Daemons /\ Active(s)
    BY <1>1, <1>16 DEF CheckDaemon, IInv, StageIsDaemon, Active, EndPc
  <2>2. CASE Alive(pidf[k])
    <3>1. Goto(s, "socket") /\ UNCHANGED <<pidf, sock>>
      BY <1>16, <2>2 DEF CheckDaemon, run
    <3>. QED BY <1>6, <1>8, <2>1, <3>1
  <2>3. CASE ~Alive(pidf[k])
    <3>1. /\ pidf' = (IF k = "ctd" THEN [pidf EXCEPT !["ctd"] = NoPid]
                                   ELSE [pidf EXCEPT !["dkd"] = NoPid, !["launch"] = NoPid])
          /\ sock' = [sock EXCEPT ![k] = NoPid] /\ Goto(s, "ensure")
      BY <1>16, <2>3 DEF CheckDaemon
    <3>2. ASSUME ~stray, NEW q \in Pids, Is(q, k) PROVE FALSE
      <4>1. \A u \in Starters : pc[u] \notin {"probe", "socket", "api"}
        BY <1>1, <1>8, <2>1, StartAlone DEF Commands, Active, EndPc
      <4>2. proc[q].st = "up"
        BY <1>1, <2>1, <3>2, <4>1, AllServe
      <4>3. \A t \in Stoppers : ~Active(t)
        BY <1>1, <1>3, StartAlone
      <4>4. pidf[k] = q
        BY <1>1, <2>1, <3>2, <4>2, <4>3 DEF Tidy, DaemonsKnown
      <4>. QED BY <2>3, <4>2, <4>4 DEF Alive
    <3>3. stray \/ \A d \in Daemons : Down(d)' \/ pidf'[d] = pidf[d]
      BY <1>1, <2>1, <3>1, <3>2 DEF Down, Is
    <3>4. CmdInv'
      <4>1. NobodyTold'
        BY <1>4, <1>5, <2>1 DEF NobodyTold
      <4>. QED BY <1>1, <1>3, <1>5, <1>8, <2>1, <3>1, <4>1, StartCmd
    <3>5. TableSound'
      BY <1>1, <2>1 DEF TableSound
    <3>6. (\A j \in Sockets : sock'[j] \in {sock[j], NoPid}) /\ sock'["sup"] = sock["sup"]
          /\ pidf'["sup"] = pidf["sup"]
      BY <1>1, <2>1, <3>1
    <3>7. SocketsSound'
      BY <1>1, <2>1, <3>6, SocketsFrame
    <3>8. SameServers /\ SameDaemons /\ (stray \/ Down(stage'[s]))
      BY <2>1, <3>2 DEF SameServers, SameDaemons, Is, Down
    <3>9. ServersKnown'
      BY <1>1, <1>3, <2>1, <3>1, <3>6, <3>8, StartServers
    <3>10. Tidy'
      BY <1>1, <1>3, <1>5, <2>1, <3>1, <3>3, <3>8, StartDaemons
    <3>. QED BY <1>1, <3>4, <3>5, <3>7, <3>9, <3>10 DEF SInv
  <2>. QED BY <2>2, <2>3
<1>17. CASE LaunchDaemon(s)
  <2> DEFINE k == stage[s]
  <2>1. pc[s] = "request" /\ UNCHANGED sock /\ k \in Daemons /\ Active(s)
    BY <1>1, <1>17 DEF LaunchDaemon, IInv, StageIsDaemon, Active, EndPc
  <2>2. CASE ~ProbeOk
    <3>1. Fail(s) /\ UNCHANGED <<proc, pidf>>
      BY <1>17, <2>2 DEF LaunchDaemon
    <3>. QED BY <1>10, <2>1, <3>1
  <2>3. CASE ProbeOk
    <3>1. PICK p \in Pids : /\ proc[p].st = "free"
                            /\ proc' = [proc EXCEPT ![p] = Fresh(k, "stub", sock["sup"])]
                            /\ pidf' = [pidf EXCEPT ![LaunchFile(k)] = p]
      BY <1>17, <2>3 DEF LaunchDaemon
    <3>2. Goto(s, "socket") /\ UNCHANGED <<stage, last>>
      BY <1>17, <2>3 DEF LaunchDaemon
    <3>3. sock["sup"] \in Pids /\ proc[sock["sup"]].kind = "server"
      BY <1>1, <2>3 DEF ProbeOk, Answers, SocketsSound
    <3>4. /\ TableSound' /\ SocketsSound' /\ CmdInv' /\ SameServers
          /\ OnlyRow(p) /\ proc'[p].kind = k /\ proc'[p].st = "stub"
      <4>. DEFINE par == sock["sup"]
                  st  == "stub"
                  l   == "socket"
      <4>1. /\ k # "server" /\ k \in Daemons /\ st = "stub" /\ par \in Pids
            /\ proc[par].kind = "server" /\ UNCHANGED sock
        BY <1>1, <2>1, <3>3
      <4>2. proc[p].st = "free" /\ proc' = [proc EXCEPT ![p] = Fresh(k, st, par)]
        BY <3>1
      <4>3. l \in StartPc /\ l # "failed" /\ Goto(s, l) /\ \A u \in Starters : u # s => stage'[u] = stage[u]
        BY <1>8, <3>2
      <4>. HIDE DEF k, par, st, l
      <4>4. /\ TableSound' /\ SocketsSound' /\ CmdInv'
            /\ OnlyRow(p) /\ proc'[p].kind = k /\ proc'[p].st = st
            /\ k # "server" => SameServers
        BY <1>7, <4>1, <4>2, <4>3
      <4>. QED BY <4>1, <4>4
    <3>5. /\ k = "ctd" => pidf'["ctd"] = p
          /\ k # "ctd" => pidf'["ctd"] = pidf["ctd"]
          /\ pidf'["dkd"] = pidf["dkd"] /\ pidf'["sup"] = pidf["sup"]
      BY <1>1, <3>1 DEF LaunchFile
    <3>6. ~stray => DaemonsKnown /\ \A q \in Pids : ~Is(q, k)
      BY <1>1, <2>1 DEF Tidy, DaemonsKnown
    <3>7. /\ pc'[s] = "socket" /\ stage'[s] = k
          /\ \A u \in Starters : u # s => pc'[u] = pc[u] /\ pc[u] \in EndPc /\ stage'[u] = stage[u]
      BY <1>1, <2>1, <3>2, StartAlone DEF Goto, IInv, TypeOK, Commands, Active
    <3>8. ASSUME ~stray PROVE \A j \in Daemons, q \in Pids : Is(q, j) => proc[q].st = "up"
      <4>1. \A u \in Starters : pc[u] \notin {"probe", "socket", "api"}
        BY <2>1, <3>7 DEF EndPc
      <4>. QED BY <1>1, <3>8, <4>1, AllServe
    <3>9. ASSUME ~stray, NEW j \in Daemons, NEW q \in Pids
          PROVE  /\ Is(q, j)' => (q # p /\ Is(q, j) /\ proc'[q].st = "up") \/ (q = p /\ j = k)
      BY <3>4, <3>8, <3>9 DEF OnlyRow, Is
    <3>10. ASSUME ~stray PROVE DaemonsKnown'
      <4>1. \A j \in Daemons : \A q, r \in Pids : Is(q, j)' /\ Is(r, j)' => q = r
        BY <1>1, <3>6, <3>9, <3>10 DEF DaemonsKnown
      <4>2. \A j \in Daemons : \A q \in Pids : Is(q, j)' /\ proc'[q].st # "up" => Starting(j)'
        BY <3>7, <3>9, <3>10 DEF Starting
      <4>. \A t \in Stoppers : ~Active(t)
        BY <1>1, <1>3, StartAlone
      <4>3. \A q \in Pids : Is(q, "ctd")' => pidf'["ctd"] = q
        BY <1>1, <3>5, <3>6, <3>9, <3>10 DEF DaemonsKnown
      <4>4. \A q \in Pids : Is(q, "dkd")' /\ proc'[q].st \in {"bound", "up"} => pidf'["dkd"] = q
        BY <1>1, <3>4, <3>5, <3>6, <3>8, <3>9, <3>10 DEF DaemonsKnown
      <4>5. \A u \in Starters : pc'[u] \notin {"ensure", "spawn", "probe", "request"}
        BY <3>7 DEF EndPc
      <4>. QED BY <4>1, <4>2, <4>3, <4>4, <4>5 DEF DaemonsKnown
    <3>11. ServersKnown'
      <4>1. \A u \in Starters : pc'[u] # "spawn"
        BY <3>7 DEF EndPc
      <4>2. \A q \in Pids : Is(q, "server") => proc[q].st \notin {"boot", "bound"}
        BY <1>1, <2>1, <3>7 DEF ServersKnown, EndPc
      <4>. QED BY <1>1, <2>1, <3>4, <3>5, <4>1, <4>2, ServersFrame
    <3>12. Tidy'
      BY <1>5, <3>10 DEF Tidy
    <3>. QED BY <1>1, <3>4, <3>11, <3>12 DEF SInv
  <2>. QED BY <2>2, <2>3
<1>20. CASE LaunchRefused(s)
  <2> DEFINE k == stage[s]
  <2>1. pc[s] = "request" /\ UNCHANGED sock /\ k \in Daemons /\ Active(s) /\ ProbeOk /\ Fail(s)
    BY <1>1, <1>20 DEF LaunchRefused, IInv, StageIsDaemon, Active, EndPc
  <2>2. CASE UNCHANGED <<proc, pidf>>
    BY <1>10, <2>1, <2>2
  <2>3. CASE ~UNCHANGED <<proc, pidf>>
    <3>1. /\ stray' = TRUE /\ pidf' \in {pidf, [pidf EXCEPT ![LaunchFile(k)] = NoPid]}
          /\ \E p \in Pids, told \in BOOLEAN :
               /\ proc[p].st = "free"
               /\ proc' = [proc EXCEPT ![p] = [Fresh(k, "stub", sock["sup"]) EXCEPT !.term = told]]
      BY <1>20, <2>3 DEF LaunchRefused
    <3>2. PICK p \in Pids : /\ proc[p].st = "free"
                            /\ \E told \in BOOLEAN :
                                 proc' = [proc EXCEPT ![p] = [Fresh(k, "stub", sock["sup"]) EXCEPT !.term = told]]
      BY <3>1
    <3>3. sock["sup"] \in Pids /\ proc[sock["sup"]].kind = "server"
      BY <1>1, <2>1 DEF ProbeOk, Answers, SocketsSound
    <3>4. Goto(s, "failed") /\ last' = "start" /\ UNCHANGED stage
      BY <2>1 DEF Fail, Finish
    <3>5. TableSound' /\ SocketsSound' /\ CmdInv' /\ SameServers
      <4>. DEFINE par == sock["sup"]
                  st  == "stub"
                  l   == "failed"
      <4>1. /\ k # "server" /\ k \in Daemons /\ st = "stub" /\ par \in Pids
            /\ proc[par].kind = "server" /\ UNCHANGED sock
        BY <1>1, <2>1, <3>3
      <4>2. /\ proc[p].st = "free"
            /\ \/ proc' = [proc EXCEPT ![p] = Fresh(k, st, par)]
               \/ /\ stray' /\ k \in Daemons
                  /\ \E told \in BOOLEAN :
                       proc' = [proc EXCEPT ![p] = [Fresh(k, st, par) EXCEPT !.term = told]]
        BY <2>1, <3>1, <3>2
      <4>3. /\ l \in StartPc \union {"failed"} /\ Goto(s, l) /\ (l = "failed" => last' = "start")
            /\ \A u \in Starters : u # s => stage'[u] = stage[u]
        BY <3>4
      <4>. HIDE DEF k, par, st, l
      <4>4. /\ TableSound' /\ SocketsSound' /\ CmdInv'
            /\ k # "server" => SameServers
        BY <1>7, <4>1, <4>2, <4>3
      <4>. QED BY <4>1, <4>4
    <3>6. pidf'["sup"] = pidf["sup"]
      BY <1>1, <3>1 DEF LaunchFile
    <3>7. ServersKnown'
      BY <1>1, <1>3, <2>1, <3>4, <3>5, <3>6, StartServers
    <3>. QED BY <1>1, <3>1, <3>5, <3>7 DEF SInv, Tidy
  <2>. QED BY <2>2, <2>3
<1>18. CASE WaitSocket(s)
  <2>1. pc[s] = "socket" /\ UNCHANGED <<proc, pidf, sock>> /\ stage[s] \in Daemons /\ Active(s)
    BY <1>1, <1>18 DEF WaitSocket, run, IInv, StageIsDaemon, Active, EndPc
  <2>2. CASE Goto(s, "api") /\ UNCHANGED <<stage, last>>
    BY <1>6, <1>8, <2>1, <2>2
  <2>3. CASE GivesUp(stage[s]) /\ Fail(s)
    <3>1. ~stray => \A q \in Pids : Is(q, stage[s]) => proc[q].st = "up"
      BY <1>1, <2>1, <2>3, NothingComing DEF TableSound, Is
    <3>. QED BY <1>10, <2>1, <2>3, <3>1
  <2>. QED BY <1>18, <2>2, <2>3 DEF WaitSocket
<1>19. CASE WaitApi(s)
  <2>1. pc[s] = "api" /\ UNCHANGED <<proc, pidf, sock>> /\ stage[s] \in Daemons /\ Active(s)
    BY <1>1, <1>19 DEF WaitApi, run, IInv, StageIsDaemon, Active, EndPc
  <2>2. CASE Answers(stage[s])
    <3>1. stray \/ \A q \in Pids : Is(q, stage[s]) => proc[q].st = "up"
      BY <1>1, <2>1, <2>2 DEF Answers, SocketsSound, Tidy, DaemonsKnown, Is
    <3>2. CASE stage[s] = "ctd"
      <4>1. Goto(s, "check") /\ stage' = [stage EXCEPT ![s] = "dkd"]
        BY <1>19, <2>2, <3>2 DEF WaitApi
      <4>2. \A u \in Starters : u # s => stage'[u] = stage[u]
        BY <1>1, <4>1
      <4>. QED BY <1>6, <1>8, <2>1, <3>1, <4>1, <4>2
    <3>3. CASE stage[s] # "ctd"
      <4>1. Goto(s, "ok") /\ last' = "start" /\ UNCHANGED stage
        BY <1>19, <2>2, <3>3 DEF WaitApi, Finish
      <4>. QED BY <1>6, <1>8, <2>1, <3>1, <4>1
    <3>. QED BY <3>2, <3>3
  <2>3. CASE GivesUp(stage[s]) /\ Fail(s)
    <3>1. ~stray => \A q \in Pids : Is(q, stage[s]) => proc[q].st = "up"
      BY <1>1, <2>1, <2>3, NothingComing DEF TableSound, Is
    <3>. QED BY <1>10, <2>1, <2>3, <3>1
  <2>. QED BY <1>19, <2>2, <2>3 DEF WaitApi
<1>. QED BY <1>2, <1>11, <1>12, <1>13, <1>14, <1>15, <1>16, <1>17, <1>18, <1>19, <1>20 DEF StartStep

-----------------------------------------------------------------------------
(* The rest of the phone, and the theorems.                                *)

LEMMA PhoneKeepsSerial ==
  ASSUME SInv, Reboot \/ BootWatchdog \/ \E p \in Pids : ForeignStart(p)
  PROVE  SInv'
<1>1. /\ IInv /\ TableSound /\ SocketsSound /\ ServersKnown /\ Tidy /\ CmdInv /\ IInv'
      /\ Daemons = {"ctd", "dkd"} /\ Sockets = {"sup", "ctd", "dkd"}
  BY PhoneKeeps DEF SInv, Daemons, Sockets
<1>2. SUFFICES TableSound' /\ SocketsSound' /\ ServersKnown' /\ Tidy' /\ CmdInv'
  BY <1>1 DEF SInv
\* Somebody appears who is no supervisor and no daemon, and whom no stop minds.
<1>3. ASSUME NEW p \in Pids, proc[p].st = "free", NEW k \in {"dog", "foreign"}, NEW st,
             proc' = [proc EXCEPT ![p] = Fresh(k, st, NoPid)],
             k = "dog" => st = "boot", k = "foreign" => st = "up",
             UNCHANGED <<pidf, sock, cmd, hold>>,
             \A t \in Stoppers : pc[t] = "wait" => p \notin hold[t],
             k = "dog" => last # "stop" /\ \A t \in Stoppers : ~Active(t)
      PROVE  TableSound' /\ SocketsSound' /\ ServersKnown' /\ Tidy' /\ CmdInv'
  <2>1. /\ OnlyRow(p) /\ proc'[p].kind = k /\ proc'[p].st = st
        /\ ~proc'[p].term /\ proc'[p].parent = NoPid
    <3>1. IInv /\ proc' = [proc EXCEPT ![p] = Fresh(k, st, NoPid)]
      BY <1>1, <1>3
    <3>. QED BY <3>1, SpawnRow
  <2>2. TableSound'
    BY <1>1, <1>3, <2>1, TableSpawn
  <2>3. (\A j \in Sockets : sock[j] # p) /\ SameServers /\ SameDaemons
    BY <1>1, <1>3, <2>1, NewRow
  <2>4. SocketsSound'
    BY <1>1, <1>3, <2>1, <2>3, SocketsFrame DEF OnlyRow
  <2>5. ServersKnown' /\ Tidy'
    BY <1>1, <1>3, <2>3, ProcessRows
  <2>6. UNCHANGED <<pc, stage, step, last, stray, hold, pidf, sock>> /\ \A c : Active(c)' <=> Active(c)
    BY <1>3 DEF cmd, Active
  <2>7. OneCommand' /\ FreshCommands'
    BY <1>1, <2>6 DEF CmdInv, OneCommand, FreshCommands
  <2>8. \A t \in Stoppers : pc[t] = "wait" => Active(t) /\ k = "foreign" /\ Target(t)[2] # "foreign"
    BY <1>1, <1>3, TargetParts DEF Active, EndPc
  <2>9. Signalled'
    <3>1. ASSUME NEW q \in Pids, proc'[q].term, proc'[q].st # "zombie"
          PROVE  \/ \E t \in Stoppers : pc'[t] = "wait" /\ q \in hold'[t]
                 \/ stray' /\ proc'[q].kind \in Daemons /\ proc'[q].st = "stub"
      <4>1. q # p /\ proc'[q] = proc[q]
        BY <2>1, <3>1 DEF OnlyRow
      <4>. QED BY <1>1, <2>6, <3>1, <4>1 DEF CmdInv, Signalled
    <3>2. ASSUME NEW t \in Stoppers, pc'[t] = "wait"
          PROVE  /\ \A q \in hold'[t] : /\ proc'[q].kind \in {"none", Target(t)'[2]}
                                        /\ proc'[q].kind # "none" => proc'[q].term
                 /\ step'[t] \in {2, 6, 7, 8} => \A q \in Pids : Is(q, Target(t)[2])' => q \in hold'[t]
      <4>1. Target(t)' = Target(t) /\ hold'[t] = hold[t] /\ p \notin hold[t] /\ hold[t] \subseteq Pids
            /\ proc'[p].kind # Target(t)[2]
        BY <1>1, <1>3, <2>1, <2>6, <2>8, <3>2 DEF Target, IInv, TypeOK
      <4>2. \A q \in hold[t] : proc'[q] = proc[q]
        BY <2>1, <4>1 DEF OnlyRow
      <4>3. \A q \in Pids : proc'[q].kind = Target(t)[2] /\ proc'[q].st # "zombie" => Is(q, Target(t)[2])
        BY <2>1, <4>1 DEF OnlyRow, Is
      <4>4. /\ \A q \in hold[t] : /\ proc[q].kind \in {"none", Target(t)[2]}
                                  /\ proc[q].kind # "none" => proc[q].term
            /\ step[t] \in {2, 6, 7, 8} => \A q \in Pids : Is(q, Target(t)[2]) => q \in hold[t]
        BY <1>1, <2>6, <3>2 DEF CmdInv, Signalled
      <4>. QED BY <2>6, <4>1, <4>2, <4>3, <4>4 DEF Is
    <3>. QED BY <3>1, <3>2 DEF Signalled
  <2>10. StopProgress'
    <3>1. \A t \in Stoppers : Active(t) => k = "foreign"
      BY <1>3
    <3>2. k = "foreign" => \A d \in Owned : \A q \in Pids : Is(q, d)' => Is(q, d) /\ proc'[q] = proc[q]
      BY <2>1 DEF OnlyRow, Is, Owned, Daemons
    <3>3. {"dog", "dkd", "ctd"} \subseteq Owned
      BY DEF Owned, Daemons
    <3>4. k = "foreign" => \A q \in Pids : \A d \in {"dog", "dkd", "ctd"} :
                             Is(q, d)' => Is(q, d) /\ proc'[q] = proc[q]
      BY <3>2, <3>3
    <3>5. k = "foreign" => \A d \in Owned : Down(d) => Down(d)'
      BY <3>2 DEF Down
    <3>6. k = "foreign" /\ NoneComing => NoneComing'
      BY <3>4 DEF NoneComing
    <3>7. k = "foreign" => \A i \in 1..8 : Progress(i) => Progress(i)'
      BY <1>3, <3>3, <3>5 DEF Progress
    <3>8. \A t \in Stoppers : step[t] \in 1..8
      BY <1>1, TargetParts
    <3>. QED BY <1>1, <2>6, <3>1, <3>6, <3>7, <3>8 DEF CmdInv, StopProgress
  <2>11. StopLeavesNothing'
    <3>1. Quiet' /\ last' = "stop" => Quiet /\ last = "stop" /\ k = "foreign"
      BY <1>3, <2>6 DEF Quiet
    <3>. QED BY <1>1, <2>1, <2>6, <3>1 DEF CmdInv, StopLeavesNothing, OnlyRow, Owned, Daemons
  <2>12. CmdInv'
    BY <2>7, <2>9, <2>10, <2>11 DEF CmdInv
  <2>. QED BY <2>2, <2>4, <2>5, <2>12
<1>4. ASSUME NEW p \in Pids, ForeignStart(p)
      PROVE  TableSound' /\ SocketsSound' /\ ServersKnown' /\ Tidy' /\ CmdInv'
  <2>1. /\ proc[p].st = "free" /\ proc' = [proc EXCEPT ![p] = Fresh("foreign", "up", NoPid)]
        /\ UNCHANGED <<pidf, sock, cmd, hold>> /\ \A t \in Stoppers : p \notin hold[t]
    BY <1>4 DEF ForeignStart, run
  <2>. QED BY <1>3, <2>1
<1>5. CASE BootWatchdog
  <2>1. /\ last # "stop" /\ \A t \in Stoppers : ~Active(t)
        /\ UNCHANGED <<pidf, sock, cmd, hold>>
    BY <1>5 DEF BootWatchdog, run
  <2>2. PICK p \in Pids : proc[p].st = "free" /\ proc' = [proc EXCEPT ![p] = Fresh("dog", "boot", NoPid)]
    BY <1>5 DEF BootWatchdog, SpawnDog
  <2>3. \A t \in Stoppers : pc[t] # "wait"
    BY <2>1 DEF Active, EndPc
  <2>. QED BY <1>3, <2>1, <2>2, <2>3
<1>6. CASE Reboot
  <2>1. /\ proc' = [p \in Pids |-> Free]
        /\ sock' = [s \in Sockets |-> IF sock[s] = NoPid THEN NoPid ELSE Stale]
        /\ pc' = [c \in Commands |-> IF Active(c) THEN "killed" ELSE pc[c]]
        /\ last' = "none" /\ UNCHANGED <<stage, step>>
    BY <1>6 DEF Reboot
  <2>2. \A p \in Pids : proc'[p] = Free
    BY <2>1
  <2>3. \A c \in Commands : /\ pc'[c] \in EndPc /\ pc'[c] # "wait" /\ pc'[c] \notin StartPc
                            /\ pc'[c] = "idle" => pc[c] = "idle"
    BY <2>1 DEF Active, EndPc, StartPc
  <2>4. TableSound'
    BY <1>1, <2>2, Shapes DEF TableSound
  <2>5. SocketsSound'
    BY <1>1, <2>1 DEF SocketsSound
  <2>6. \A k \in {"server", "dog", "ctd", "dkd"} : \A p \in Pids : ~Is(p, k)'
    BY <1>1, <2>2, Shapes DEF Is
  <2>7. ServersKnown'
    BY <2>6 DEF ServersKnown
  <2>8. DaemonsKnown'
    <3>1. \A u \in Starters : pc'[u] \notin {"ensure", "spawn", "probe", "request"}
      BY <2>3 DEF StartPc, Commands
    <3>. QED BY <1>1, <2>6, <3>1 DEF DaemonsKnown, Is
  <2>9. OneCommand' /\ StopProgress' /\ Signalled'
    BY <1>1, <2>2, <2>3, Shapes DEF OneCommand, StopProgress, Signalled, Active, Commands
  <2>10. FreshCommands'
    BY <1>1, <2>1, <2>3 DEF CmdInv, FreshCommands, Commands
  <2>11. StopLeavesNothing'
    BY <2>1 DEF StopLeavesNothing
  <2>. QED BY <2>4, <2>5, <2>7, <2>8, <2>9, <2>10, <2>11 DEF CmdInv, Tidy
<1>. QED BY <1>4, <1>5, <1>6

LEMMA InitSInv == Init => SInv
<1> SUFFICES ASSUME Init PROVE SInv
  OBVIOUS
<1>1. IInv
  BY InitIInv
<1>2. \A p \in Pids : proc[p] = Free
  BY DEF Init
<1>3. /\ pc = [c \in Commands |-> "idle"] /\ stage = [c \in Starters |-> "first"]
      /\ step = [c \in Stoppers |-> 1] /\ last = "none" /\ sock = [k \in Sockets |-> NoPid]
  BY DEF Init
<1>4. TableSound
  BY <1>1, <1>2, Shapes DEF TableSound
<1>5. SocketsSound
  BY <1>3 DEF SocketsSound, Sockets, Daemons
<1>6. \A k \in {"server", "dog"} \union Daemons : \A p \in Pids : ~Is(p, k)
  BY <1>1, <1>2, Shapes DEF Is, Daemons
<1>7. \A c \in Commands : pc[c] = "idle" /\ ~Active(c)
  BY <1>3 DEF Active, EndPc
<1>8. ServersKnown /\ Tidy
  BY <1>3, <1>6, <1>7 DEF ServersKnown, Tidy, DaemonsKnown, Daemons, Commands
<1>9. CmdInv
  BY <1>1, <1>2, <1>3, <1>7, Shapes
  DEF CmdInv, OneCommand, FreshCommands, Signalled, StopProgress, StopLeavesNothing, Commands
<1>. QED BY <1>1, <1>4, <1>5, <1>8, <1>9 DEF SInv

LEMMA NextSInv == Serial /\ SInv /\ [Next]_vars => SInv'
<1> SUFFICES ASSUME Serial, SInv, [Next]_vars PROVE SInv'
  OBVIOUS
<1>1. CASE \E s \in Starters : StartBegin(s) \/ StartStep(s) \/ Interrupt(s)
  BY <1>1, StartKeepsSerial
<1>2. CASE \E t \in Stoppers : StopBegin(t) \/ StopStep(t)
  BY <1>2, StopKeepsSerial
<1>3. CASE \E p \in Pids : ProcessStep(p) \/ DaemonCrash(p)
  BY <1>3, ProcessKeepsSerial
<1>4. CASE Reboot \/ BootWatchdog \/ \E p \in Pids : ForeignStart(p)
  BY <1>4, PhoneKeepsSerial
<1>5. CASE UNCHANGED vars
  <2>1. IInv'
    BY <1>5, NextIInv DEF SInv
  <2>2. UNCHANGED <<proc, pidf, sock, pc, stage, step, hold, last, stray>>
    BY <1>5 DEF vars
  <2>3. TableSound' /\ SocketsSound'
    BY <2>2 DEF SInv, TableSound, SocketsSound
  <2>6. ServersKnown'
    BY <2>2 DEF SInv, ServersKnown, Is, Starting, Active
  <2>7. Tidy'
    BY <2>2 DEF SInv, Tidy, DaemonsKnown, Is, Starting, Active
  <2>4. OneCommand' /\ FreshCommands' /\ Signalled' /\ StopLeavesNothing'
    BY <2>2 DEF SInv, CmdInv, OneCommand, FreshCommands, Signalled, StopLeavesNothing,
       Is, Active, Quiet, Target
  <2>5. StopProgress'
    BY <2>2 DEF SInv, CmdInv, StopProgress, NoneComing, Progress, Is, Down, Active
  <2>. QED BY <2>1, <2>3, <2>4, <2>5, <2>6, <2>7 DEF SInv, CmdInv
<1>. QED BY <1>1, <1>2, <1>3, <1>4, <1>5 DEF Next

LEMMA SpecSInv == ASSUME Serial PROVE Spec => []SInv
<1>1. SInv /\ [Next]_vars => SInv'
  BY NextSInv
<1>. QED BY <1>1, InitSInv, PTL DEF Spec

\* When commands come one at a time and none is killed, a stop leaves no
\* process of ACHost, no pid file and no socket, whatever daemons crashed
\* before or during it, whatever launches were refused before it and
\* whatever an earlier boot left.
THEOREM StopsLeaveNothing ==
  ASSUME Faults \subseteq {"crash", "reboot", "refuse"}
  PROVE  Spec => []StopLeavesNothing
<1>1. Serial
  BY DEF Serial
<1>2. SInv => StopLeavesNothing
  BY DEF SInv, CmdInv
<1>. QED BY <1>1, <1>2, SpecSInv, PTL

\* Under the same conditions no supervisor is left that the pid file does
\* not name, so that the next stop finds it.
THEOREM ServersAreNamed ==
  ASSUME Faults \subseteq {"crash", "reboot", "refuse"}
  PROVE  Spec => []NoOrphanServer
<1>1. Serial
  BY DEF Serial
<1>2. SInv => NoOrphanServer
  <2> SUFFICES ASSUME SInv, Quiet, NEW p \in Pids, proc[p].kind = "server" PROVE pidf["sup"] = p
    BY DEF NoOrphanServer
  <2>1. TableSound /\ ServersKnown
    BY DEF SInv
  <2>2. \A s \in Starters : pc[s] # "probe"
    BY DEF Quiet, Commands, Active, EndPc
  <2>. QED BY <2>1, <2>2 DEF TableSound, ServersKnown, Is
<1>. QED BY <1>1, <1>2, SpecSInv, PTL

\* Nor is there ever a second supervisor beside a live one; nor a second
\* containerd or dockerd, except between a launch refused after its fork
\* and the next stop.
THEOREM NobodyRunsTwice ==
  ASSUME Faults \subseteq {"crash", "reboot", "refuse"}
  PROVE  Spec => []OneOfEach
<1>1. Serial
  BY DEF Serial
<1>2. SInv => OneOfEach
  <2>1. SInv => ServersKnown /\ Tidy /\ Kinds = {"server"} \union Daemons
    BY DEF SInv, Kinds
  <2>. QED BY <2>1 DEF ServersKnown, Tidy, DaemonsKnown, OneOfEach, Is
<1>. QED BY <1>1, <1>2, SpecSInv, PTL

-----------------------------------------------------------------------------
(* A start that reports success, when no daemon crashes.                   *)

\* The start that works on dockerd found containerd serving, and it serves.
ContainerdServes == \A s \in Starters : Active(s) /\ stage[s] = "dkd" => Answers("ctd")

LEMMA ContainerdStays ==
  ASSUME Faults \subseteq {"reboot", "refuse"}, SInv, ContainerdServes, [Next]_vars
  PROVE  ContainerdServes'
<1>1. /\ IInv /\ TableSound /\ SocketsSound /\ CmdInv /\ Serial
      /\ sock \in [Sockets -> Pids \union {NoPid, Stale}] /\ {"sup", "ctd", "dkd"} = Sockets
      /\ stage \in [Starters -> {"first"} \union Daemons]
  BY DEF SInv, Serial, IInv, TypeOK, Sockets
<1> SUFFICES ASSUME NEW s \in Starters, Active(s)', stage'[s] = "dkd" PROVE Answers("ctd")'
  BY DEF ContainerdServes
<1>2. CASE \E u \in Starters : StartBegin(u) \/ StartStep(u) \/ Interrupt(u)
  <2>1. PICK u \in Starters : StartBegin(u) \/ StartStep(u) \/ Interrupt(u)
    BY <1>2
  <2>2. (Active(u) \/ Quiet) /\ ~Interrupt(u)
    BY <1>1, <2>1 DEF StartBegin, Begin, StartStep, Ensure, SpawnServer, Probe, SpawnWatchdog, CheckDaemon,
        LaunchDaemon, LaunchRefused, WaitSocket, WaitApi, Interrupt, Active, EndPc, Serial
  <2>3. \E l : Goto(u, l)
    BY <2>1, <2>2 DEF StartBegin, StartStep, Ensure, Ensured, Fail, Finish, SpawnServer, Probe,
        SpawnWatchdog, CheckDaemon, LaunchDaemon, LaunchRefused, WaitSocket, WaitApi
  <2>4. u = s
    <3>1. u # s => ~Active(s)
      BY <1>1, <2>2, StartAlone DEF Commands
    <3>2. u # s => pc'[s] = pc[s]
      BY <1>1, <2>3 DEF Goto, IInv, TypeOK, Commands
    <3>. QED BY <3>1, <3>2 DEF Active
  <2>5. CASE StartBegin(s)
    <3>1. stage'[s] = "first"
      BY <1>1, <2>5 DEF StartBegin, Begin, CmdInv, FreshCommands
    <3>. QED BY <3>1
  <2>6. CASE StartStep(s)
    <3>1. Active(s)
      BY <2>6 DEF StartStep, Ensure, SpawnServer, Probe, SpawnWatchdog, CheckDaemon,
        LaunchDaemon, LaunchRefused, WaitSocket, WaitApi, Active, EndPc
    <3>2. CASE stage[s] = "dkd"
      <4>1. sock'["ctd"] = sock["ctd"]
        BY <1>1, <2>6, <3>2 DEF StartStep, Ensure, SpawnServer, Probe, SpawnWatchdog, CheckDaemon,
           LaunchDaemon, LaunchRefused, WaitSocket, WaitApi, run
      <4>. QED BY <3>1, <3>2, <4>1 DEF ContainerdServes, Answers
    <3>3. CASE stage[s] # "dkd"
      <4>1. WaitApi(s)
        BY <1>1, <2>6, <3>3 DEF StartStep, Ensure, Ensured, Fail, SpawnServer, Probe, SpawnWatchdog,
           CheckDaemon, LaunchDaemon, LaunchRefused, WaitSocket
      <4>2. Answers(stage[s]) /\ stage[s] = "ctd" /\ UNCHANGED sock
        BY <3>3, <4>1 DEF WaitApi, Fail, run
      <4>. QED BY <4>2 DEF Answers
    <3>. QED BY <3>2, <3>3
  <2>. QED BY <2>1, <2>2, <2>4, <2>5, <2>6
<1>3. CASE \E t \in Stoppers : StopBegin(t) \/ StopStep(t)
  <2>1. PICK t \in Stoppers : StopBegin(t) \/ StopStep(t)
    BY <1>3
  <2>2. Active(t) \/ Quiet
    BY <1>1, <2>1 DEF StopBegin, Begin, StopStep, StopPidFile, StopWait, StopScan, StopScanKill,
       Active, EndPc, Serial
  <2>3. \E l : Goto(t, l)
    BY <2>1 DEF StopBegin, StopStep, StopPidFile, StopWait, StopScan, StopScanKill, Advance, Finish
  <2>4. ~Active(s) /\ pc'[s] = pc[s]
    BY <1>1, <2>2, <2>3, StopAlone DEF Goto, IInv, TypeOK, Commands, Active
  <2>. QED BY <2>4 DEF Active
<1>4. CASE \E p \in Pids : ProcessStep(p) \/ DaemonCrash(p)
  <2>1. PICK p \in Pids : ProcessStep(p) \/ DaemonCrash(p)
    BY <1>4
  <2>2. ProcessStep(p) /\ UNCHANGED cmd
    BY <2>1 DEF DaemonCrash, ProcessStep, ServerBind, ServerWritePid, ServerReap, ServerLeave, ServerGone,
       DogJudge, DogWrite, DogTerm, DaemonExec, CtdServe, DkdWritePid, DkdServe, DaemonTerm
  <2>3. Active(s) /\ stage[s] = "dkd" /\ Answers("ctd")
    BY <2>2 DEF cmd, Active, ContainerdServes
  <2>4. NobodyTold
    BY <1>1, <2>3, StartAlone
  <2>5. sock["ctd"] = p => proc[p].kind = "ctd" /\ proc[p].st = "up" /\ ~proc[p].term
    BY <1>1, <2>4 DEF SocketsSound, NobodyTold, Daemons
  <2>6. CASE sock["ctd"] = p
    <3>1. UNCHANGED sock
      BY <2>2, <2>5, <2>6 DEF ProcessStep, ServerBind, ServerWritePid, ServerReap, ServerLeave, ServerGone,
         DogJudge, DogWrite, DogTerm, DaemonExec, CtdServe, DkdWritePid, DkdServe, DaemonTerm, run
    <3>. QED BY <2>3, <3>1 DEF Answers
  <2>7. CASE sock["ctd"] # p
    <3>1. sock'["ctd"] \in {sock["ctd"], p}
      BY <1>1, <2>2, <2>7 DEF ProcessStep, ServerBind, ServerWritePid, ServerReap, ServerLeave, ServerGone,
         DogJudge, DogWrite, DogTerm, DaemonExec, CtdServe, DkdWritePid, DkdServe, DaemonTerm, Cleanup, run
    <3>. QED BY <2>3, <3>1 DEF Answers
  <2>. QED BY <2>6, <2>7
<1>5. CASE Reboot
  BY <1>5 DEF Reboot, Active, EndPc, Commands
<1>6. CASE BootWatchdog \/ (\E p \in Pids : ForeignStart(p)) \/ UNCHANGED vars
  <2>1. UNCHANGED <<pc, stage, sock>>
    BY <1>6 DEF BootWatchdog, ForeignStart, vars, cmd, run
  <2>. QED BY <2>1 DEF ContainerdServes, Active, Answers
<1>. QED BY <1>2, <1>3, <1>4, <1>5, <1>6 DEF Next

\* Success is reported by the last wait of a start alone.
LEMMA OkIsLast ==
  ASSUME IInv, NEW s \in Starters, [Next]_vars, pc[s] # "ok", pc'[s] = "ok"
  PROVE  Active(s) /\ stage[s] = "dkd" /\ Answers("dkd") /\ UNCHANGED sock
<1>1. pc \in [Commands -> StartPc \union StopPc \union EndPc] /\ s \in Commands
  BY DEF IInv, TypeOK, Commands
<1>2. CASE \E u \in Starters : StartBegin(u) \/ StartStep(u) \/ Interrupt(u)
  <2>1. PICK u \in Starters : StartBegin(u) \/ StartStep(u) \/ Interrupt(u)
    BY <1>2
  <2>2. \E l : Goto(u, l)
    BY <2>1 DEF StartBegin, StartStep, Ensure, Ensured, Fail, Finish, SpawnServer, Probe,
        SpawnWatchdog, CheckDaemon, LaunchDaemon, LaunchRefused, WaitSocket, WaitApi, Interrupt
  <2>3. u = s
    BY <1>1, <2>2 DEF Goto
  <2>4. WaitApi(s)
    BY <1>1, <2>1, <2>3 DEF StartBegin, StartStep, Ensure, Ensured, Fail, Finish, SpawnServer, Probe,
        SpawnWatchdog, CheckDaemon, LaunchDaemon, LaunchRefused, WaitSocket, Interrupt, Goto
  <2>5. Active(s) /\ stage[s] # "ctd" /\ Answers(stage[s]) /\ UNCHANGED sock
    BY <1>1, <2>4 DEF WaitApi, Fail, Finish, Goto, run, Active, EndPc
  <2>6. stage[s] \in Daemons
    BY <2>4 DEF WaitApi, IInv, StageIsDaemon
  <2>. QED BY <2>5, <2>6 DEF Daemons
<1>3. CASE \E t \in Stoppers : StopBegin(t) \/ StopStep(t)
  <2>1. PICK t \in Stoppers : \E l : Goto(t, l)
    BY <1>3 DEF StopBegin, StopStep, StopPidFile, StopWait, StopScan, StopScanKill, Advance, Finish
  <2>2. t # s
    OBVIOUS
  <2>. QED BY <1>1, <2>1, <2>2 DEF Goto
<1>4. CASE \E p \in Pids : ProcessStep(p) \/ DaemonCrash(p) \/ ForeignStart(p)
  BY <1>4 DEF DaemonCrash, ProcessStep, ServerBind, ServerWritePid, ServerReap, ServerLeave, ServerGone,
     DogJudge, DogWrite, DogTerm, DaemonExec, CtdServe, DkdWritePid, DkdServe, DaemonTerm, ForeignStart, cmd
<1>5. CASE Reboot
  BY <1>1, <1>5 DEF Reboot
<1>6. CASE BootWatchdog \/ UNCHANGED vars
  BY <1>6 DEF BootWatchdog, vars, cmd
<1>. QED BY <1>2, <1>3, <1>4, <1>5, <1>6 DEF Next

\* When commands come one at a time, none is killed and no daemon crashes,
\* a start that reports success does so while containerd and dockerd both
\* answer: what it learned of containerd earlier still holds at its end.
THEOREM OkServes ==
  ASSUME Faults \subseteq {"reboot", "refuse"}
  PROVE  Spec => OkMeansServing
<1>1. Serial
  BY DEF Serial
<1>2. Init => ContainerdServes
  BY DEF Init, ContainerdServes, Active, EndPc, Commands
<1>3. SInv /\ ContainerdServes /\ [Next]_vars => ContainerdServes'
  BY ContainerdStays
<1>4. SInv /\ ContainerdServes /\ [Next]_vars =>
        [\A s \in Starters : pc[s] # "ok" /\ pc'[s] = "ok" =>
           Answers("ctd")' /\ Answers("dkd")']_vars
  <2> SUFFICES ASSUME SInv, ContainerdServes, [Next]_vars,
                      NEW s \in Starters, pc[s] # "ok", pc'[s] = "ok"
               PROVE  Answers("ctd")' /\ Answers("dkd")'
    OBVIOUS
  <2>1. Active(s) /\ stage[s] = "dkd" /\ Answers("dkd") /\ UNCHANGED sock
    BY OkIsLast DEF SInv
  <2>. QED BY <2>1 DEF ContainerdServes, Answers
<1>5. Spec => []SInv
  BY <1>1, SpecSInv
<1>6. Spec => OkMeansServing
  BY <1>2, <1>3, <1>4, <1>5, PTL DEF Spec, OkMeansServing
<1>. QED BY <1>6

-----------------------------------------------------------------------------
(* The refinement of RuntimeLife: how the abstract state reads.            *)

\* Something of the kind serves; nothing of the kind is on its way.
Top        == {"up", "leaving"}
Serves(k)  == \E p \in Pids : Is(p, k) /\ proc[p].st \in Top
Settled(k) == \A p \in Pids : Is(p, k) => proc[p].st \in Top
\* A step that leaves a kind as it is, and one that leaves all but one.
SameRow(p, k) == /\ Is(p, k)' <=> Is(p, k)
                 /\ Is(p, k) => (proc'[p].st \in Top <=> proc[p].st \in Top)
SameKind(k)   == \A p \in Pids : SameRow(p, k)
OnlyKind(k)   == \A j \in Kinds \ {k} : SameKind(j)

\* What RuntimeLife sees of a kind.
Level(k) == IF Serves(k) THEN "up" ELSE IF Down(k) THEN "down" ELSE "coming"

LEMMA LifeLevel == AbsLife = [k \in Kinds |-> Level(k)]
<1>1. ASSUME NEW k \in Kinds
      PROVE  AbsLife[k] = Level(k)
  <2>1. Down(k) <=> ~\E p \in Pids : proc[p].kind = k /\ proc[p].st # "zombie"
    BY DEF Down, Is
  <2>2. Serves(k) <=> \E p \in Pids : proc[p].kind = k /\ proc[p].st \in {"up", "leaving"}
    BY DEF Serves, Is, Top
  <2>. QED BY <1>1, <2>1, <2>2 DEF AbsLife, Level
<1>2. AbsLife = [k \in Kinds |-> AbsLife[k]]
  BY DEF AbsLife
<1>. QED BY <1>1, <1>2

\* The same for the state after a step.
LEMMA LifeLevelNext == AbsLife' = [k \in Kinds |-> Level(k)']
<1>1. ASSUME NEW k \in Kinds
      PROVE  AbsLife'[k] = Level(k)'
  <2>1. Down(k)' <=> ~\E p \in Pids : proc'[p].kind = k /\ proc'[p].st # "zombie"
    BY DEF Down, Is
  <2>2. Serves(k)' <=> \E p \in Pids : proc'[p].kind = k /\ proc'[p].st \in {"up", "leaving"}
    BY DEF Serves, Is, Top
  <2>. QED BY <1>1, <2>1, <2>2 DEF AbsLife, Level
<1>2. AbsLife' = [k \in Kinds |-> AbsLife'[k]]
  BY DEF AbsLife
<1>. QED BY <1>1, <1>2

LEMMA SameLevel ==
  ASSUME NEW k, SameKind(k)
  PROVE  Level(k)' = Level(k)
<1>1. (Down(k)' <=> Down(k)) /\ (Serves(k)' <=> Serves(k))
  BY DEF SameKind, SameRow, Down, Serves
<1>. QED BY <1>1 DEF Level

LEMMA LifeStays ==
  ASSUME \A k \in Kinds : SameKind(k)
  PROVE  UNCHANGED AbsLife
BY SameLevel, LifeLevel, LifeLevelNext

LEMMA LifeTurns ==
  ASSUME NEW k \in Kinds, OnlyKind(k)
  PROVE  AbsLife' = [AbsLife EXCEPT ![k] = Level(k)']
<1>1. \A j \in Kinds \ {k} : Level(j)' = Level(j)
  BY SameLevel DEF OnlyKind
<1>. QED BY <1>1, LifeLevel, LifeLevelNext

LEMMA PhaseGoes ==
  ASSUME IInv, NEW c \in Commands, NEW l, Goto(c, l)
  PROVE  AbsPhase' = [AbsPhase EXCEPT ![c] = IF l \notin EndPc THEN "busy"
                        ELSE IF l \in {"failed", "killed"} THEN "over" ELSE l]
<1>1. pc' = [pc EXCEPT ![c] = l] /\ pc'[c] = l /\ \A d \in Commands : d # c => pc'[d] = pc[d]
  BY DEF Goto, IInv, TypeOK
<1>. QED BY <1>1 DEF AbsPhase, Active

LEMMA PhaseReads ==
  /\ \A c \in Commands : /\ AbsPhase[c] = "busy" <=> Active(c)
                         /\ pc[c] = "idle" => AbsPhase[c] = "idle"
  /\ Runtime!Busy(Commands) <=> ~Quiet
  /\ Runtime!Busy(Starters) <=> \E s \in Starters : Active(s)
  /\ Runtime!Busy(Stoppers) <=> \E t \in Stoppers : Active(t)
<1>1. \A c \in Commands : /\ AbsPhase[c] = "busy" <=> Active(c)
                          /\ pc[c] = "idle" => AbsPhase[c] = "idle"
  BY DEF AbsPhase, Active, EndPc
<1>. QED BY <1>1 DEF Runtime!Busy, Quiet, Commands

\* A command goes on, and nothing else is to be seen.
LEMMA PhaseStutters ==
  ASSUME IInv, NEW c \in Commands, Active(c), NEW l, l \notin EndPc, Goto(c, l)
  PROVE  UNCHANGED AbsPhase
<1>1. AbsPhase' = [AbsPhase EXCEPT ![c] = "busy"] /\ AbsPhase[c] = "busy"
  BY PhaseGoes, PhaseReads
<1>. QED BY <1>1 DEF AbsPhase

-----------------------------------------------------------------------------
(* A start keeps its supervisor.                                           *)

SupervisorServes == \E p \in Pids : Is(p, "server") /\ proc[p].st = "up"
SupervisorUp ==
  \A s \in Starters : Active(s) /\ (stage[s] # "first" \/ pc[s] = "guard") => SupervisorServes

\* Who has the socket and answers the probe, serves.
LEMMA ProbedServes ==
  ASSUME SInv, ProbeOk
  PROVE  SupervisorServes /\ sock["sup"] \in Pids /\ Is(sock["sup"], "server")
BY DEF SInv, SocketsSound, ProbeOk, Answers, SupervisorServes, Is

\* What a step of a start does to the table: one more process at most.
LEMMA StartTable ==
  ASSUME SInv, NEW s \in Starters, StartBegin(s) \/ StartStep(s)
  PROVE  \/ proc' = proc
         \/ \E p \in Pids : proc[p].st = "free" /\ OnlyRow(p)
<1>1. IInv
  BY DEF SInv
<1>2. \/ proc' = proc
      \/ \E p \in Pids : proc[p].st = "free" /\ \E row : proc' = [proc EXCEPT ![p] = row]
  BY DEF StartBegin, StartStep, Ensure, SpawnServer, Probe, SpawnWatchdog, SpawnDog, CheckDaemon,
     LaunchDaemon, LaunchRefused, WaitSocket, WaitApi
<1>. QED BY <1>1, <1>2, Shapes DEF OnlyRow

LEMMA SupervisorStays ==
  ASSUME Serial, SInv, SupervisorUp, [Next]_vars
  PROVE  SupervisorUp'
<1>1. IInv /\ TableSound /\ CmdInv
  BY DEF SInv
<1> SUFFICES ASSUME NEW s \in Starters, Active(s)', stage'[s] # "first" \/ pc'[s] = "guard"
             PROVE  SupervisorServes'
  BY DEF SupervisorUp
<1>2. CASE \E u \in Starters : StartBegin(u) \/ StartStep(u) \/ Interrupt(u)
  <2>1. PICK u \in Starters : StartBegin(u) \/ StartStep(u)
    BY <1>2 DEF Interrupt, Serial
  <2>2. Active(u) \/ Quiet
    BY <2>1 DEF StartBegin, Begin, StartStep, Ensure, SpawnServer, Probe, SpawnWatchdog, CheckDaemon,
        LaunchDaemon, LaunchRefused, WaitSocket, WaitApi, Active, EndPc, Serial
  <2>3. \E l : Goto(u, l)
    BY <2>1 DEF StartBegin, StartStep, Ensure, Ensured, Fail, Finish, SpawnServer, Probe,
        SpawnWatchdog, CheckDaemon, LaunchDaemon, LaunchRefused, WaitSocket, WaitApi
  <2>4. u = s
    <3>1. u # s => ~Active(s)
      BY <1>1, <2>2, StartAlone DEF Commands
    <3>2. u # s => pc'[s] = pc[s]
      BY <1>1, <2>3 DEF Goto, IInv, TypeOK, Commands
    <3>. QED BY <3>1, <3>2 DEF Active
  <2>5. SupervisorServes
    <3>1. CASE Active(s) /\ (stage[s] # "first" \/ pc[s] = "guard")
      BY <3>1 DEF SupervisorUp
    <3>2. CASE Active(s) /\ stage[s] = "first" /\ pc[s] # "guard"
      <4>1. Ensure(s) \/ Probe(s) \/ SpawnServer(s)
        BY <1>1, <2>1, <2>4, <3>2 DEF StartStep, StartBegin, Begin, SpawnWatchdog, CheckDaemon,
           LaunchDaemon, LaunchRefused, WaitSocket, WaitApi, IInv, StageIsDaemon, Daemons, Active, EndPc
      <4>2. stage'[s] = "first" /\ pc'[s] = "guard"
        BY <3>2, <4>1 DEF Ensure, Ensured, Fail, Probe, SpawnServer
      <4>3. ProbeOk
        BY <1>1, <4>1, <4>2 DEF Ensure, Ensured, Fail, Finish, Probe, SpawnServer, Goto, IInv, TypeOK, Commands
      <4>. QED BY <4>3, ProbedServes
    <3>3. CASE ~Active(s)
      <4>1. StartBegin(s)
        BY <2>1, <2>4, <3>3 DEF StartStep, Ensure, SpawnServer, Probe, SpawnWatchdog, CheckDaemon,
           LaunchDaemon, LaunchRefused, WaitSocket, WaitApi, Active, EndPc
      <4>2. pc[s] = "idle" /\ stage'[s] = stage[s] /\ pc'[s] = "ensure"
        BY <1>1, <4>1 DEF StartBegin, Begin, Goto, IInv, TypeOK, Commands
      <4>. QED BY <1>1, <4>2 DEF CmdInv, FreshCommands
    <3>. QED BY <3>1, <3>2, <3>3
  <2>6. PICK p \in Pids : Is(p, "server") /\ proc[p].st = "up"
    BY <2>5 DEF SupervisorServes
  <2>7. proc'[p] = proc[p]
    BY <2>1, <2>6, StartTable DEF OnlyRow
  <2>. QED BY <2>6, <2>7 DEF SupervisorServes, Is
<1>3. CASE \E t \in Stoppers : StopBegin(t) \/ StopStep(t)
  <2>1. PICK t \in Stoppers : StopBegin(t) \/ StopStep(t)
    BY <1>3
  <2>2. Active(t) \/ Quiet
    BY <1>1, <2>1 DEF StopBegin, Begin, StopStep, StopPidFile, StopWait, StopScan, StopScanKill,
       Active, EndPc, Serial
  <2>3. \E l : Goto(t, l)
    BY <2>1 DEF StopBegin, StopStep, StopPidFile, StopWait, StopScan, StopScanKill, Advance, Finish
  <2>4. s # t /\ ~Active(s)
    BY <1>1, <2>2, StopAlone DEF Commands
  <2>5. pc'[s] = pc[s]
    BY <1>1, <2>3, <2>4 DEF Goto, IInv, TypeOK, Commands
  <2>. QED BY <2>4, <2>5 DEF Active
<1>4. CASE \E p \in Pids : ProcessStep(p) \/ DaemonCrash(p)
  <2>1. PICK p \in Pids : ProcessStep(p) \/ DaemonCrash(p)
    BY <1>4
  <2>2. UNCHANGED cmd
    BY <2>1 DEF DaemonCrash, ProcessStep, ServerBind, ServerWritePid, ServerReap, ServerLeave, ServerGone,
       DogJudge, DogWrite, DogTerm, DaemonExec, CtdServe, DkdWritePid, DkdServe, DaemonTerm
  <2>3. SupervisorServes /\ Active(s)
    BY <2>2 DEF cmd, Active, SupervisorUp
  <2>4. NobodyTold
    BY <1>1, <2>3, StartAlone
  <2>5. PICK q \in Pids : Is(q, "server") /\ proc[q].st = "up" /\ ~proc[q].term
    BY <2>3, <2>4 DEF SupervisorServes, NobodyTold, Is
  <2>6. ~ServerLeave(p) /\ ~ServerGone(p)
    BY <2>4, <2>5 DEF SInv, ServersKnown, ServerLeave, ServerGone, NobodyTold, Is
  <2>7. CASE ServerReap(p)
    BY <2>5, <2>7 DEF ServerReap, SupervisorServes, Is
  <2>8. CASE ~ServerReap(p)
    <3>1. \/ proc' = Ended({p}) /\ proc[p].kind # "server"
          \/ \E st : proc' = [proc EXCEPT ![p].st = st] /\ (p = q => st = "up")
      BY <2>1, <2>5, <2>6, <2>8 DEF DaemonCrash, ProcessStep, ServerBind, ServerWritePid,
        DogJudge, DogWrite, DogTerm, DaemonExec, CtdServe, DkdWritePid, DkdServe, DaemonTerm, Cleanup, Is, Daemons
    <3>2. CASE proc' = Ended({p}) /\ proc[p].kind # "server"
      <4>1. OnlyRow(p) /\ p # q
        BY <1>1, <2>5, <3>2, EndRow DEF Is
      <4>2. proc'[q] = proc[q]
        BY <4>1 DEF OnlyRow
      <4>. QED BY <2>5, <4>2 DEF SupervisorServes, Is
    <3>3. CASE \E st : proc' = [proc EXCEPT ![p].st = st] /\ (p = q => st = "up")
      <4>1. PICK st : proc' = [proc EXCEPT ![p].st = st] /\ (p = q => st = "up")
        BY <3>3
      <4>2. OnlyRow(p) /\ proc'[p].kind = proc[p].kind /\ proc'[p].st = st
        BY <1>1, <4>1, MoveRow
      <4>3. proc'[q].kind = "server" /\ proc'[q].st = "up"
        BY <2>5, <4>1, <4>2 DEF OnlyRow, Is
      <4>. QED BY <4>3 DEF SupervisorServes, Is
    <3>. QED BY <3>1, <3>2, <3>3
  <2>. QED BY <2>7, <2>8
<1>5. CASE Reboot
  BY <1>5 DEF Reboot, Active, EndPc, Commands
<1>6. CASE BootWatchdog \/ (\E p \in Pids : ForeignStart(p)) \/ UNCHANGED vars
  <2>1. UNCHANGED <<pc, stage>>
    BY <1>6 DEF BootWatchdog, ForeignStart, vars, cmd
  <2>2. SupervisorServes
    BY <2>1 DEF SupervisorUp, Active
  <2>3. PICK q \in Pids : Is(q, "server") /\ proc[q].st = "up"
    BY <2>2 DEF SupervisorServes
  <2>4. \/ proc' = proc
        \/ \E p \in Pids : \E k, st, par : proc[p].st = "free" /\ proc' = [proc EXCEPT ![p] = Fresh(k, st, par)]
    BY <1>6 DEF BootWatchdog, SpawnDog, ForeignStart, vars
  <2>5. proc'[q] = proc[q]
    BY <1>1, <2>3, <2>4, SpawnRow DEF OnlyRow
  <2>. QED BY <2>3, <2>5 DEF SupervisorServes, Is
<1>. QED BY <1>2, <1>3, <1>4, <1>5, <1>6 DEF Next

-----------------------------------------------------------------------------
(* When a start is torn.                                                   *)

LEMMA TornReads ==
  /\ AbsTorn \in BOOLEAN
  /\ (\A s \in Starters : ~Active(s)) => AbsTorn = FALSE
  /\ \A s \in Starters : Active(s) /\ stage[s] = "dkd" => Answers("ctd") \/ AbsTorn
BY DEF AbsTorn

LEMMA TornStays ==
  ASSUME UNCHANGED <<pc, stage>>, Answers("ctd")' <=> Answers("ctd")
  PROVE  UNCHANGED AbsTorn
<1>1. \A s \in Starters : Active(s)' <=> Active(s)
  BY DEF Active
<1>. QED BY <1>1 DEF AbsTorn

\* No start is at work before or after the step.
LEMMA NobodyTorn ==
  ASSUME \A s \in Starters : ~Active(s) /\ (Active(s)' => stage'[s] # "dkd")
  PROVE  AbsTorn = FALSE /\ AbsTorn' = FALSE
BY DEF AbsTorn

\* The watchdog comes before the daemons.
GuardedFirst == \A s \in Starters : pc[s] = "guard" => stage[s] = "first"

LEMMA GuardedFirstStays == IInv /\ GuardedFirst /\ [Next]_vars => GuardedFirst'
<1> SUFFICES ASSUME IInv, GuardedFirst, [Next]_vars, NEW s \in Starters, pc'[s] = "guard"
             PROVE  stage'[s] = "first"
  BY DEF GuardedFirst
<1>1. /\ pc \in [Commands -> StartPc \union StopPc \union EndPc] /\ s \in Commands
      /\ stage \in [Starters -> {"first"} \union Daemons] /\ s \notin Stoppers
  BY DEF IInv, TypeOK, Commands
<1>2. CASE \E u \in Starters : StartBegin(u) \/ StartStep(u) \/ Interrupt(u)
  <2>1. PICK u \in Starters : StartBegin(u) \/ StartStep(u) \/ Interrupt(u)
    BY <1>2
  <2>2. CASE u # s
    <3>1. pc'[s] = pc[s]
      BY <1>1, <2>1, <2>2 DEF StartBegin, StartStep, Ensure, Ensured, Fail, Finish, SpawnServer, Probe,
         SpawnWatchdog, CheckDaemon, LaunchDaemon, LaunchRefused, WaitSocket, WaitApi, Interrupt, Goto
    <3>2. stage'[s] = stage[s]
      BY <1>1, <2>1, <2>2 DEF StartBegin, StartStep, Ensure, Ensured, Fail, Finish, SpawnServer, Probe,
         SpawnWatchdog, CheckDaemon, LaunchDaemon, LaunchRefused, WaitSocket, WaitApi, Interrupt
    <3>. QED BY <3>1, <3>2 DEF GuardedFirst
  <2>3. CASE u = s
    <3>1. Ensured(s)
      BY <1>1, <2>1, <2>3 DEF StartBegin, StartStep, Ensure, Fail, Finish, SpawnServer, Probe,
         SpawnWatchdog, CheckDaemon, LaunchDaemon, LaunchRefused, WaitSocket, WaitApi, Interrupt, Goto
    <3>. QED BY <1>1, <3>1 DEF Ensured, Goto
  <2>. QED BY <2>2, <2>3
<1>3. CASE \E t \in Stoppers : StopBegin(t) \/ StopStep(t)
  <2>1. PICK t \in Stoppers : StopBegin(t) \/ StopStep(t)
    BY <1>3
  <2>2. pc'[s] = pc[s] /\ stage' = stage
    BY <1>1, <2>1 DEF StopBegin, StopStep, StopPidFile, StopWait, StopScan, StopScanKill, Advance, Finish, Goto
  <2>. QED BY <2>2 DEF GuardedFirst
<1>4. CASE \E p \in Pids : ProcessStep(p) \/ DaemonCrash(p) \/ ForeignStart(p)
  BY <1>4 DEF DaemonCrash, ProcessStep, ServerBind, ServerWritePid, ServerReap, ServerLeave, ServerGone,
     DogJudge, DogWrite, DogTerm, DaemonExec, CtdServe, DkdWritePid, DkdServe, DaemonTerm, ForeignStart,
     cmd, GuardedFirst
<1>5. CASE Reboot
  BY <1>1, <1>5 DEF Reboot, GuardedFirst
<1>6. CASE BootWatchdog \/ UNCHANGED vars
  BY <1>6 DEF BootWatchdog, vars, cmd, GuardedFirst
<1>. QED BY <1>2, <1>3, <1>4, <1>5, <1>6 DEF Next

\* A start gets to dockerd only over a containerd that answers, and leaves
\* that one's socket alone from there on.
LEMMA StartTears ==
  ASSUME Serial, SInv, GuardedFirst, NEW s \in Starters, StartStep(s), NEW l, Goto(s, l)
  PROVE  /\ l \notin EndPc => UNCHANGED AbsTorn
         /\ l \in EndPc => AbsTorn' = FALSE
<1>1. /\ IInv /\ CmdInv /\ sock \in [Sockets -> Pids \union {NoPid, Stale}]
      /\ {"sup", "ctd", "dkd"} = Sockets /\ stage \in [Starters -> {"first"} \union Daemons]
  BY DEF SInv, IInv, TypeOK, Sockets
<1>2. Active(s)
  BY DEF StartStep, Ensure, SpawnServer, Probe, SpawnWatchdog, CheckDaemon,
     LaunchDaemon, LaunchRefused, WaitSocket, WaitApi, Active, EndPc
<1>3. pc'[s] = l /\ \A u \in Starters : u # s => ~Active(u) /\ pc'[u] = pc[u]
  BY <1>1, <1>2, StartAlone DEF Goto, IInv, TypeOK, Commands
<1>4. \A u \in Starters : u # s => ~Active(u)'
  BY <1>3 DEF Active
<1>5. Active(s)' <=> l \notin EndPc
  BY <1>3 DEF Active
<1>6. CASE l \in EndPc
  BY <1>4, <1>5, <1>6 DEF AbsTorn
<1>7. CASE l \notin EndPc /\ stage[s] = "dkd"
  <2>1. sock'["ctd"] = sock["ctd"]
    BY <1>1, <1>7 DEF StartStep, Ensure, SpawnServer, Probe, SpawnWatchdog, CheckDaemon,
       LaunchDaemon, LaunchRefused, WaitSocket, WaitApi, run
  <2>2. ~WaitApi(s)
    <3>1. WaitApi(s) => Goto(s, "ok") \/ Goto(s, "failed")
      BY <1>7 DEF WaitApi, Fail, Finish
    <3>2. s \in Commands /\ pc \in [Commands -> StartPc \union StopPc \union EndPc]
      BY <1>1 DEF IInv, TypeOK, Commands
    <3>. QED BY <1>3, <1>7, <3>1, <3>2 DEF Goto, EndPc
  <2>3. stage'[s] = "dkd"
    BY <1>1, <1>7, <2>2 DEF GuardedFirst, StartStep, Ensure, Ensured, Fail, SpawnServer, Probe, SpawnWatchdog,
       CheckDaemon, LaunchDaemon, LaunchRefused, WaitSocket
  <2>4. Answers("ctd")' <=> Answers("ctd")
    BY <2>1 DEF Answers
  <2>. QED BY <1>2, <1>3, <1>4, <1>5, <1>7, <2>3, <2>4 DEF AbsTorn
<1>8. CASE l \notin EndPc /\ stage[s] # "dkd"
  <2>1. stage'[s] = "dkd" => WaitApi(s)
    BY <1>1, <1>8 DEF StartStep, Ensure, Ensured, Fail, SpawnServer, Probe, SpawnWatchdog,
       CheckDaemon, LaunchDaemon, LaunchRefused, WaitSocket
  <2>2. stage'[s] = "dkd" => Answers("ctd")'
    <3>1. ASSUME WaitApi(s), stage'[s] = "dkd" PROVE Answers("ctd") /\ UNCHANGED sock
      BY <1>8, <3>1 DEF WaitApi, Fail, run
    <3>. QED BY <2>1, <3>1 DEF Answers
  <2>. QED BY <1>3, <1>4, <1>8, <2>2 DEF AbsTorn
<1>. QED BY <1>6, <1>7, <1>8

-----------------------------------------------------------------------------
(* The steps of a start are steps of RuntimeLife, or are not to be seen.   *)

LInv == SInv /\ SupervisorUp /\ GuardedFirst
Maps == [Runtime!Next]_(Runtime!vars)

LEMMA NothingSeen ==
  ASSUME UNCHANGED <<AbsLife, AbsPhase, AbsTorn, stray>>
  PROVE  Maps
BY DEF Maps, Runtime!vars

\* The levels RuntimeLife asks for.
LEMMA LevelReads ==
  /\ \A k \in Kinds : /\ AbsLife[k] = "down" <=> Down(k)
                      /\ AbsLife[k] = "up" <=> Serves(k)
                      /\ Settled(k) => AbsLife[k] # "coming"
  /\ Runtime!Kinds = Kinds /\ Kinds = {"server", "ctd", "dkd"}
<1>1. \A k : Serves(k) => ~Down(k)
  BY DEF Serves, Down
<1>2. \A k : Settled(k) => Serves(k) \/ Down(k)
  BY DEF Serves, Settled, Down
<1>3. \A k \in Kinds : AbsLife[k] = Level(k)
  BY LifeLevel
<1>. QED BY <1>1, <1>2, <1>3 DEF Level, Runtime!Kinds, Kinds, Daemons

LEMMA TableStays ==
  ASSUME \A q \in Pids : proc'[q].kind = proc[q].kind /\ proc'[q].st = proc[q].st
  PROVE  \A k \in Kinds : SameKind(k)
BY DEF SameKind, SameRow, Is

\* What answers, serves.
LEMMA AnswersServe ==
  ASSUME SInv
  PROVE  \A k \in Daemons : Answers(k) => Serves(k)
BY DEF SInv, SocketsSound, Answers, Serves, Is, Top

\* What is on its way while a start runs, is what that start waits for,
\* unless a launch was refused.
LEMMA OthersSettled ==
  ASSUME SInv, NEW s \in Starters, Active(s)
  PROVE  /\ pc[s] # "probe" => Settled("server")
         /\ stray \/ \A k \in Daemons : pc[s] \notin {"socket", "api"} \/ stage[s] # k => Settled(k)
<1>1. IInv /\ TableSound /\ ServersKnown /\ Tidy /\ CmdInv
  BY DEF SInv
<1>2. \A u \in Starters : u # s => pc[u] \notin {"probe", "socket", "api"}
  BY <1>1, StartAlone DEF Active, EndPc, Commands
<1>3. pc[s] # "probe" => Settled("server")
  BY <1>1, <1>2 DEF ServersKnown, Settled, TableSound, Is, Top
<1>4. CASE stray
  BY <1>3, <1>4
<1>5. CASE ~stray
  <2>1. \A k \in Daemons : pc[s] \notin {"socket", "api"} \/ stage[s] # k => Settled(k)
    BY <1>1, <1>2, <1>5 DEF Tidy, DaemonsKnown, Starting, Settled, Top
  <2>. QED BY <1>3, <2>1
<1>. QED BY <1>4, <1>5

\* A start goes on without bringing up anything.
LEMMA StartGoesOn ==
  ASSUME SInv, NEW s \in Starters, Active(s), NEW l, l \notin EndPc, Goto(s, l),
         UNCHANGED AbsTorn, UNCHANGED stray, \A k \in Kinds : SameKind(k)
  PROVE  Maps
<1>1. UNCHANGED AbsLife
  BY LifeStays
<1>2. UNCHANGED AbsPhase
  BY PhaseStutters DEF SInv, Commands
<1>. QED BY <1>1, <1>2, NothingSeen

\* A start ends.
LEMMA StartEnds ==
  ASSUME SInv, NEW s \in Starters, Active(s), NEW l \in {"ok", "failed"}, Goto(s, l),
         proc' = proc, UNCHANGED stray, AbsTorn' = FALSE, stray \/ \A k \in Kinds : Settled(k),
         l = "ok" => Serves("server") /\ Serves("dkd") /\ (Serves("ctd") \/ AbsTorn)
  PROVE  Maps
<1>1. UNCHANGED AbsLife
  BY TableStays, LifeStays
<1> DEFINE p == IF l = "ok" THEN "ok" ELSE "over"
<1>2. AbsPhase' = [AbsPhase EXCEPT ![s] = p] /\ AbsPhase[s] = "busy"
  BY PhaseGoes, PhaseReads DEF SInv, EndPc, Commands
<1>3. Runtime!EndStart(s, p)
  BY <1>1, <1>2, LevelReads DEF Runtime!EndStart, Runtime!Goto
<1>. QED BY <1>3 DEF Maps, Runtime!Next

\* A process that does not serve yet appears under a free pid.
LEMMA RowAppears ==
  ASSUME SInv, NEW p \in Pids, proc[p].st = "free", OnlyRow(p),
         NEW k \in Kinds, proc'[p].kind = k, proc'[p].st \in {"boot", "stub"}
  PROVE  AbsLife' = [AbsLife EXCEPT ![k] = IF @ = "up" THEN "up" ELSE "coming"]
<1>1. \A j \in Kinds : ~Is(p, j)
  BY DEF SInv, TableSound, Is, Kinds, Daemons
<1>2. OnlyKind(k)
  BY <1>1 DEF OnlyKind, SameKind, SameRow, OnlyRow, Is
<1>3. Is(p, k)' /\ proc'[p].st \notin Top
  BY DEF Is, Top
<1>4. ~Down(k)'
  BY <1>3 DEF Down
<1>5. Serves(k)' <=> Serves(k)
  BY <1>1, <1>3 DEF Serves, OnlyRow, Is
<1>6. Level(k)' = IF AbsLife[k] = "up" THEN "up" ELSE "coming"
  BY <1>4, <1>5, LevelReads DEF Level
<1>7. DOMAIN AbsLife = Kinds
  BY DEF AbsLife
<1>. QED BY <1>2, <1>6, <1>7, LifeTurns

\* A start brings a process into being.
LEMMA StartBrings ==
  ASSUME SInv, NEW s \in Starters, Active(s), NEW l, l \notin EndPc, Goto(s, l),
         NEW p \in Pids, proc[p].st = "free", OnlyRow(p),
         NEW k \in Kinds, proc'[p].kind = k, proc'[p].st \in {"boot", "stub"},
         UNCHANGED AbsTorn, UNCHANGED stray, k # "server" => Serves("server"),
         k = "dkd" => Serves("ctd") \/ AbsTorn
  PROVE  Maps
<1>1. UNCHANGED AbsPhase
  BY PhaseStutters DEF SInv, Commands
<1>2. AbsLife' = [AbsLife EXCEPT ![k] = IF @ = "up" THEN "up" ELSE "coming"]
  BY RowAppears
<1>3. CASE AbsLife[k] = "down"
  <2>1. AbsLife' = [AbsLife EXCEPT ![k] = "coming"]
    BY <1>2, <1>3
  <2>2. Runtime!Come(k)
    BY <1>1, <1>3, <2>1, LevelReads, PhaseReads DEF Runtime!Come, Runtime!Turn
  <2>. QED BY <2>2, LevelReads DEF Maps, Runtime!Next
<1>4. CASE AbsLife[k] # "down"
  <2>1. AbsLife[k] \in {"up", "coming"} /\ AbsLife = [j \in Kinds |-> AbsLife[j]]
    BY <1>4 DEF AbsLife
  <2>2. UNCHANGED AbsLife
    BY <1>2, <2>1
  <2>. QED BY <1>1, <2>2, NothingSeen
<1>. QED BY <1>3, <1>4

LEMMA StartMaps ==
  ASSUME Serial, LInv, NEW s \in Starters, StartBegin(s) \/ StartStep(s)
  PROVE  Maps
<1>1. /\ SInv /\ IInv /\ TableSound /\ SocketsSound /\ ServersKnown /\ Tidy /\ CmdInv
      /\ s \in Commands /\ Kinds = {"server", "ctd", "dkd"} /\ Daemons = {"ctd", "dkd"}
      /\ stage \in [Starters -> {"first"} \union Daemons]
  BY DEF LInv, SInv, Commands, Kinds, Daemons, IInv, TypeOK
<1>2. CASE StartBegin(s)
  <2>1. pc[s] = "idle" /\ Quiet /\ Goto(s, "ensure") /\ proc' = proc
    BY <1>2 DEF StartBegin, Begin, Serial
  <2>2. AbsPhase' = [AbsPhase EXCEPT ![s] = "busy"] /\ AbsPhase[s] = "idle"
    BY <1>1, <2>1, PhaseGoes, PhaseReads DEF EndPc
  <2>3. UNCHANGED AbsLife
    BY <1>1, <2>1, TableStays, LifeStays
  <2>4. UNCHANGED AbsTorn
    <3>1. \A u \in Starters : ~Active(u)
      BY <2>1 DEF Quiet, Commands
    <3>2. \A u \in Starters : u # s => pc'[u] = pc[u]
      BY <1>1, <2>1 DEF Goto, IInv, TypeOK, Commands
    <3>3. stage' = stage /\ stage[s] = "first"
      BY <1>1, <1>2, <2>1 DEF StartBegin, CmdInv, FreshCommands
    <3>. QED BY <3>1, <3>2, <3>3, NobodyTorn DEF Active
  <2>5. UNCHANGED stray
    BY <1>2 DEF StartBegin, Keep
  <2>6. Runtime!Begin(s)
    BY <2>1, <2>2, <2>3, <2>4, <2>5, PhaseReads DEF Runtime!Begin, Runtime!Goto, Runtime!Commands, Commands
  <2>. QED BY <1>1, <2>6 DEF Maps, Runtime!Next, Runtime!Commands, Commands
<1>3. CASE StartStep(s)
  <2>0. \A l : Goto(s, l) => /\ l \notin EndPc => UNCHANGED AbsTorn
                             /\ l \in EndPc => AbsTorn' = FALSE
    BY <1>1, <1>3, StartTears DEF LInv
  <2>1. Active(s)
    BY <1>3 DEF StartStep, Ensure, SpawnServer, Probe, SpawnWatchdog, CheckDaemon,
        LaunchDaemon, LaunchRefused, WaitSocket, WaitApi, Active, EndPc
  <2>2. /\ pc[s] # "probe" => Settled("server")
        /\ stray \/ \A k \in Daemons : pc[s] \notin {"socket", "api"} \/ stage[s] # k => Settled(k)
    BY <1>1, <2>1, OthersSettled
  <2>3. ASSUME proc' = proc, UNCHANGED stray, NEW l, l \notin EndPc, Goto(s, l)
        PROVE  Maps
    BY <1>1, <2>0, <2>1, <2>3, TableStays, StartGoesOn
  <2>4. ASSUME proc' = proc, UNCHANGED stray, Fail(s), stray \/ \A k \in Kinds : Settled(k)
        PROVE  Maps
    <3>1. Goto(s, "failed")
      BY <2>4 DEF Fail, Finish
    <3>2. AbsTorn' = FALSE
      BY <2>0, <3>1 DEF EndPc
    <3>. QED BY <1>1, <2>1, <2>4, <3>1, <3>2, StartEnds
  <2>5. CASE Ensure(s)
    <3>1. proc' = proc /\ UNCHANGED stray /\ pc[s] = "ensure"
      BY <2>5 DEF Ensure, Keep
    <3>2. stray \/ \A k \in Kinds : Settled(k)
      BY <1>1, <2>2, <3>1
    <3>3. Fail(s) \/ \E l : l \notin EndPc /\ Goto(s, l)
      BY <2>5 DEF Ensure, Ensured, EndPc
    <3>. QED BY <2>3, <2>4, <3>1, <3>2, <3>3
  <2>6. CASE SpawnServer(s)
    <3>1. Goto(s, "probe") /\ UNCHANGED stray
      BY <2>6 DEF SpawnServer, Keep
    <3>2. PICK p \in Pids : proc[p].st = "free" /\ proc' = [proc EXCEPT ![p] = Fresh("server", "boot", NoPid)]
      BY <2>6 DEF SpawnServer
    <3>3. OnlyRow(p) /\ proc'[p].kind = "server" /\ proc'[p].st = "boot"
      BY <1>1, <3>2, SpawnRow
    <3>4. UNCHANGED AbsTorn
      BY <2>0, <3>1 DEF EndPc
    <3>. QED BY <1>1, <2>1, <3>1, <3>2, <3>3, <3>4, StartBrings DEF EndPc
  <2>7. CASE Probe(s)
    <3>1. proc' = proc /\ UNCHANGED stray /\ pc[s] = "probe"
      BY <2>7 DEF Probe, Keep
    <3>2. CASE Ensured(s)
      <4>1. \E l : l \notin EndPc /\ Goto(s, l)
        BY <3>2 DEF Ensured, EndPc
      <4>. QED BY <2>3, <3>1, <4>1
    <3>3. CASE Fail(s) /\ GivesUp("server")
      <4>1. Settled("server")
        BY <1>1, <2>1, <3>3, NothingComing DEF Settled, Top
      <4>2. stray \/ \A k \in Kinds : Settled(k)
        BY <1>1, <2>2, <3>1, <4>1
      <4>. QED BY <2>4, <3>1, <3>3, <4>2
    <3>. QED BY <2>7, <3>2, <3>3 DEF Probe
  <2>8. CASE SpawnWatchdog(s)
    <3>1. Goto(s, "check") /\ UNCHANGED stray
      BY <2>8 DEF SpawnWatchdog, Keep
    <3>2. CASE proc' = proc
      BY <2>3, <3>1, <3>2 DEF EndPc
    <3>3. CASE proc' # proc
      <4>1. PICK p \in Pids : proc[p].st = "free" /\ proc' = [proc EXCEPT ![p] = Fresh("dog", "boot", NoPid)]
        BY <2>8, <3>3 DEF SpawnWatchdog, SpawnDog
      <4>2. OnlyRow(p) /\ proc'[p].kind = "dog"
        <5>1. IInv /\ proc' = [proc EXCEPT ![p] = Fresh("dog", "boot", NoPid)]
          BY <1>1, <4>1
        <5>. QED BY <5>1, SpawnRow
      <4>3. \A k \in Kinds : SameKind(k)
        BY <1>1, <4>1, <4>2 DEF SameKind, SameRow, OnlyRow, Is, TableSound
      <4>4. UNCHANGED AbsTorn
        BY <2>0, <3>1 DEF EndPc
      <4>. QED BY <1>1, <2>1, <3>1, <4>3, <4>4, StartGoesOn DEF EndPc
    <3>. QED BY <3>2, <3>3
  <2>9. CASE CheckDaemon(s)
    <3>1. proc' = proc /\ UNCHANGED stray /\ \E l : l \notin EndPc /\ Goto(s, l)
      BY <2>9 DEF CheckDaemon, Keep, EndPc
    <3>. QED BY <2>3, <3>1
  \* A launch request: what it needs serves.
  <2>10. ASSUME pc[s] = "request"
         PROVE  /\ stage[s] \in Daemons
                /\ stray \/ \A k \in Kinds : Settled(k)
                /\ ProbeOk => Serves("server")
                /\ stage[s] = "dkd" => Serves("ctd") \/ AbsTorn
    <3>1. stage[s] \in Daemons
      BY <1>1, <2>10 DEF IInv, StageIsDaemon
    <3>2. stray \/ \A k \in Kinds : Settled(k)
      BY <1>1, <2>2, <2>10
    <3>3. ProbeOk => Serves("server")
      BY <1>1, ProbedServes DEF SupervisorServes, Serves, Top
    <3>4. stage[s] = "dkd" => Serves("ctd") \/ AbsTorn
      BY <1>1, <2>1, AnswersServe, TornReads
    <3>. QED BY <3>1, <3>2, <3>3, <3>4
  <2>11. CASE LaunchDaemon(s)
    <3>1. pc[s] = "request" /\ UNCHANGED stray
      BY <2>11 DEF LaunchDaemon, Keep
    <3>2. CASE ProbeOk
      <4>1. Goto(s, "socket")
        BY <2>11, <3>2 DEF LaunchDaemon
      <4>2. PICK p \in Pids : proc[p].st = "free" /\ proc' = [proc EXCEPT ![p] = Fresh(stage[s], "stub", sock["sup"])]
        BY <2>11, <3>2 DEF LaunchDaemon
      <4>3. OnlyRow(p) /\ proc'[p].kind = stage[s] /\ proc'[p].st = "stub"
        <5>1. IInv /\ proc' = [proc EXCEPT ![p] = Fresh(stage[s], "stub", sock["sup"])]
          BY <1>1, <4>2
        <5>. QED BY <5>1, SpawnRow
      <4>4. UNCHANGED AbsTorn
        BY <2>0, <4>1 DEF EndPc
      <4>5. stage[s] \in Kinds
        BY <1>1, <2>10, <3>1
      <4>. QED BY <1>1, <2>1, <2>10, <3>1, <3>2, <4>1, <4>2, <4>3, <4>4, <4>5, StartBrings DEF EndPc
    <3>3. CASE ~ProbeOk
      <4>1. Fail(s) /\ proc' = proc
        BY <2>11, <3>3 DEF LaunchDaemon
      <4>. QED BY <2>4, <2>10, <3>1, <4>1
    <3>. QED BY <3>2, <3>3
  <2>12. CASE LaunchRefused(s)
    <3>1. pc[s] = "request" /\ ProbeOk /\ Fail(s) /\ Goto(s, "failed")
      BY <2>12 DEF LaunchRefused, Fail, Finish
    <3>2. CASE UNCHANGED <<proc, pidf, stray>>
      BY <2>4, <2>10, <3>1, <3>2
    <3>3. CASE ~UNCHANGED <<proc, pidf, stray>>
      <4>1. /\ stray'
            /\ \E p \in Pids, told \in BOOLEAN :
                 /\ proc[p].st = "free"
                 /\ proc' = [proc EXCEPT ![p] = [Fresh(stage[s], "stub", sock["sup"]) EXCEPT !.term = told]]
        BY <2>12, <3>3 DEF LaunchRefused
      <4>2. PICK p \in Pids, told \in BOOLEAN :
              /\ proc[p].st = "free"
              /\ proc' = [proc EXCEPT ![p] = [Fresh(stage[s], "stub", sock["sup"]) EXCEPT !.term = told]]
        BY <4>1
      <4>3. OnlyRow(p) /\ proc'[p].kind = stage[s] /\ proc'[p].st = "stub"
        <5>1. PICK k, par : /\ k = stage[s] /\ par = sock["sup"]
                            /\ proc' = [proc EXCEPT ![p] = [Fresh(k, "stub", par) EXCEPT !.term = told]]
          BY <4>2
        <5>. QED BY <1>1, <4>2, <5>1, Shapes DEF OnlyRow, Fresh
      <4>4. stage[s] \in Kinds /\ stage[s] # "server"
        BY <1>1, <2>10, <3>1
      <4>5. AbsLife' = [AbsLife EXCEPT ![stage[s]] = IF @ = "up" THEN "up" ELSE "coming"]
        BY <1>1, <4>2, <4>3, <4>4, RowAppears
      <4>6. AbsPhase' = [AbsPhase EXCEPT ![s] = "over"] /\ AbsPhase[s] = "busy"
        BY <1>1, <2>1, <3>1, PhaseGoes, PhaseReads DEF EndPc
      <4>7. AbsTorn' = FALSE
        BY <2>0, <3>1 DEF EndPc
      <4>8. stray' = TRUE
        BY <2>12, <3>3 DEF LaunchRefused
      <4>9. Runtime!EndRefused(s, stage[s])
        BY <2>10, <3>1, <4>4, <4>5, <4>6, <4>7, <4>8, LevelReads DEF Runtime!EndRefused, Runtime!Goto
      <4>. QED BY <4>4, <4>9, LevelReads DEF Maps, Runtime!Next
    <3>. QED BY <3>2, <3>3
  <2>13. ASSUME pc[s] \in {"socket", "api"}, GivesUp(stage[s])
         PROVE  stray \/ \A k \in Kinds : Settled(k)
    <3>1. stage[s] \in Daemons
      BY <1>1, <2>13 DEF IInv, StageIsDaemon
    <3>2. ~stray => Settled(stage[s])
      BY <1>1, <2>1, <2>13, <3>1, NothingComing DEF Settled, Top
    <3>. QED BY <1>1, <2>2, <2>13, <3>2
  <2>14. CASE WaitSocket(s)
    <3>1. /\ pc[s] = "socket" /\ proc' = proc /\ UNCHANGED stray
          /\ Goto(s, "api") \/ (Fail(s) /\ GivesUp(stage[s]))
      BY <2>14 DEF WaitSocket, Keep
    <3>. QED BY <2>3, <2>4, <2>13, <3>1 DEF EndPc
  <2>15. CASE WaitApi(s)
    <3>1. pc[s] = "api" /\ proc' = proc /\ stage[s] \in Daemons /\ UNCHANGED stray
      BY <1>1, <2>15 DEF WaitApi, IInv, StageIsDaemon, Keep
    <3>2. CASE ~Answers(stage[s])
      BY <2>4, <2>13, <2>15, <3>1, <3>2 DEF WaitApi
    <3>3. CASE Answers(stage[s]) /\ stage[s] = "ctd"
      BY <2>3, <2>15, <3>1, <3>3 DEF WaitApi, EndPc
    <3>4. CASE Answers(stage[s]) /\ stage[s] = "dkd"
      <4>1. Goto(s, "ok")
        BY <2>15, <3>4 DEF WaitApi, Finish
      <4>2. sock["dkd"] \in Pids /\ Is(sock["dkd"], "dkd") /\ proc[sock["dkd"]].st = "up"
        BY <1>1, <3>4 DEF Answers, SocketsSound, Is
      <4>3. ~stray => Settled("dkd")
        BY <1>1, <4>2 DEF Tidy, DaemonsKnown, Settled, Top
      <4>4. Serves("server")
        BY <2>1, <3>4 DEF LInv, SupervisorUp, SupervisorServes, Serves, Top
      <4>5. Serves("dkd") /\ (Serves("ctd") \/ AbsTorn)
        BY <1>1, <2>1, <3>4, AnswersServe, TornReads
      <4>6. stray \/ \A k \in Kinds : Settled(k)
        BY <1>1, <2>2, <3>1, <3>4, <4>3
      <4>7. AbsTorn' = FALSE
        BY <2>0, <4>1 DEF EndPc
      <4>. QED BY <1>1, <2>1, <3>1, <4>1, <4>4, <4>5, <4>6, <4>7, StartEnds
    <3>. QED BY <1>1, <3>1, <3>2, <3>3, <3>4
  <2>. QED BY <1>3, <2>5, <2>6, <2>7, <2>8, <2>9, <2>11, <2>12, <2>14, <2>15 DEF StartStep
<1>. QED BY <1>2, <1>3

-----------------------------------------------------------------------------
(* Something ends.                                                         *)

\* A start loses a containerd that served.
Tears(k) == k = "ctd" /\ Serves(k) /\ ~Serves(k)' /\ AbsTorn' = TRUE /\ \E s \in Starters : Active(s)

\* A daemon ends and the other kinds are as they were. Nothing of its kind
\* is left, unless a launch was refused.
LEMMA DaemonFalls ==
  ASSUME UNCHANGED AbsPhase, UNCHANGED stray, NEW k \in Daemons, OnlyKind(k), ~Down(k),
         Serves(k)' => Serves(k), Down(k)' \/ stray,
         Serves(k) /\ ~Serves(k)' => (\E t \in Stoppers : Active(t)) \/ "crash" \in Faults,
         UNCHANGED AbsTorn \/ Tears(k)
  PROVE  Maps
<1>1. k \in Kinds /\ k # "server"
  BY DEF Kinds, Daemons
<1>2. AbsLife' = [AbsLife EXCEPT ![k] = Level(k)'] /\ AbsLife[k] # "down"
  BY <1>1, LifeTurns, LevelReads
<1>3. CASE Level(k)' = AbsLife[k]
  <2>1. UNCHANGED AbsLife
    BY <1>2, <1>3, LifeLevel
  <2>2. ~Tears(k)
    BY <1>1, <1>3, LevelReads DEF Tears, Level
  <2>. QED BY <2>1, <2>2, NothingSeen
<1>4. CASE Level(k)' # AbsLife[k]
  <2>1. ~Serves(k)'
    BY <1>1, <1>4, LevelReads DEF Level
  <2>2. Level(k)' = "down" \/ (stray /\ Level(k)' = "coming")
    BY <2>1 DEF Level
  <2>3. Runtime!Turn(k, "down") \/ (stray /\ Runtime!Turn(k, "coming"))
    BY <1>2, <2>2 DEF Runtime!Turn
  <2>4. AbsLife[k] = "up" => Runtime!Busy(Stoppers) \/ "crash" \in Faults
    BY <1>1, <2>1, LevelReads, PhaseReads
  <2>5. UNCHANGED AbsTorn \/ (k = "ctd" /\ AbsLife[k] = "up" /\ Runtime!Busy(Starters) /\ AbsTorn' = TRUE)
    BY <1>1, LevelReads, PhaseReads DEF Tears
  <2>6. Runtime!Fall(k)
    BY <1>1, <1>2, <2>3, <2>4, <2>5 DEF Runtime!Fall
  <2>. QED BY <1>1, <2>6, LevelReads DEF Maps, Runtime!Next
<1>. QED BY <1>3, <1>4

-----------------------------------------------------------------------------
(* The steps of a stop.                                                    *)

LEMMA StopMaps ==
  ASSUME Serial, LInv, SInv', NEW t \in Stoppers, StopBegin(t) \/ StopStep(t)
  PROVE  Maps
<1>1. /\ SInv /\ IInv /\ TableSound /\ ServersKnown /\ CmdInv /\ CmdInv'
      /\ t \in Commands /\ Kinds = {"server", "ctd", "dkd"} /\ Daemons = {"ctd", "dkd"}
      /\ "slow" \notin Faults
  BY DEF LInv, SInv, Commands, Kinds, Daemons, Serial
<1>0. AbsTorn = FALSE /\ AbsTorn' = FALSE
  <2>1. Active(t) \/ Quiet
    BY <1>1 DEF StopBegin, Begin, StopStep, StopPidFile, StopWait, StopScan, StopScanKill,
       Active, EndPc, Serial
  <2>2. \E l : Goto(t, l)
    BY DEF StopBegin, StopStep, StopPidFile, StopWait, StopScan, StopScanKill, Advance, Finish
  <2>3. \A s \in Starters : s # t /\ ~Active(s)
    BY <1>1, <2>1, StopAlone DEF Commands
  <2>4. \A s \in Starters : pc'[s] = pc[s]
    BY <1>1, <2>2, <2>3 DEF Goto, IInv, TypeOK, Commands
  <2>. QED BY <2>3, <2>4, NobodyTorn DEF Active
<1>2. CASE StopBegin(t)
  <2>1. pc[t] = "idle" /\ Quiet /\ Goto(t, "enter") /\ proc' = proc
    BY <1>2 DEF StopBegin, Begin, Serial
  <2>2. AbsPhase' = [AbsPhase EXCEPT ![t] = "busy"] /\ AbsPhase[t] = "idle"
    BY <1>1, <2>1, PhaseGoes, PhaseReads DEF EndPc
  <2>3. UNCHANGED AbsLife
    BY <1>1, <2>1, TableStays, LifeStays
  <2>4. UNCHANGED stray
    BY <1>2 DEF StopBegin, Keep
  <2>5. Runtime!Begin(t)
    BY <1>0, <2>1, <2>2, <2>3, <2>4, PhaseReads DEF Runtime!Begin, Runtime!Goto, Runtime!Commands, Commands
  <2>. QED BY <1>1, <2>5 DEF Maps, Runtime!Next, Runtime!Commands, Commands
<1>3. ASSUME Active(t), NEW l, l \notin EndPc, Goto(t, l), UNCHANGED stray, \A k \in Kinds : SameKind(k)
      PROVE  Maps
  BY <1>0, <1>1, <1>3, LifeStays, PhaseStutters, NothingSeen
\* The stop goes on, or is done.
<1>4. ASSUME Active(t), proc' = proc, NEW left, Advance(t, left)
      PROVE  Maps
  <2>1. \/ Goto(t, "enter") /\ UNCHANGED stray
        \/ Goto(t, "ok") /\ last' = "stop" /\ stray' = FALSE
    BY <1>1, <1>4 DEF Advance, Finish
  <2>2. CASE Goto(t, "enter") /\ UNCHANGED stray
    BY <1>3, <1>4, <2>2, TableStays DEF EndPc
  <2>3. CASE Goto(t, "ok") /\ last' = "stop" /\ stray' = FALSE
    <3>1. UNCHANGED AbsLife
      BY <1>1, <1>4, TableStays, LifeStays
    <3>2. AbsPhase' = [AbsPhase EXCEPT ![t] = "ok"] /\ AbsPhase[t] = "busy"
      BY <1>1, <1>4, <2>3, PhaseGoes, PhaseReads DEF EndPc
    <3>3. Quiet'
      <4>1. pc'[t] = "ok" /\ \A c \in Commands : c # t => pc'[c] = pc[c] /\ ~Active(c)
        BY <1>1, <1>4, <2>3, StopAlone DEF Goto, IInv, TypeOK
      <4>. QED BY <4>1 DEF Quiet, Active, EndPc
    <3>4. \A k \in Kinds : Down(k)
      BY <1>1, <1>4, <2>3, <3>3 DEF CmdInv, StopLeavesNothing, Owned, Down, Is
    <3>5. AbsLife = Runtime!AllDown
      BY <1>1, <3>4, LifeLevel DEF Level, Serves, Down, Runtime!AllDown, Runtime!Kinds
    <3>6. Runtime!EndStop(t)
      BY <1>0, <2>3, <3>1, <3>2, <3>5 DEF Runtime!EndStop, Runtime!Goto
    <3>. QED BY <3>6 DEF Maps, Runtime!Next
  <2>. QED BY <2>1, <2>2, <2>3
<1>5. CASE StopStep(t)
  <2>1. Active(t) /\ pc[t] \in {"enter", "wait"}
    BY <1>5 DEF StopStep, StopPidFile, StopWait, StopScan, StopScanKill, Active, EndPc
  <2>2. CASE StopPidFile(t)
    <3> DEFINE p == pidf[Target(t)[1]]
    <3>1. CASE Alive(p) /\ Uses(p, Target(t)[2])
      <4>1. proc' = [proc EXCEPT ![p].term = TRUE] /\ Goto(t, "wait") /\ UNCHANGED stray /\ p \in Pids
        BY <2>2, <3>1 DEF StopPidFile, Alive
      <4>. HIDE DEF p
      <4>2. TermRows({p})
        BY <1>1, <4>1, MarkRow
      <4>3. \A k \in Kinds : SameKind(k)
        BY <4>2, TableStays DEF TermRows
      <4>. QED BY <1>3, <2>1, <4>1, <4>3 DEF EndPc
    <3>2. CASE ~(Alive(p) /\ Uses(p, Target(t)[2]))
      <4>1. proc' = proc /\ Advance(t, sock)
        BY <2>2, <3>2 DEF StopPidFile
      <4>. QED BY <1>4, <2>1, <4>1
    <3>. QED BY <3>1, <3>2
  <2>3. CASE StopWait(t)
    <3> DEFINE kill == {p \in hold[t] : Alive(p)}
    <3>1. /\ pc[t] = "wait" /\ \A p \in kill : ~proc[p].term
          /\ proc' = Ended(kill) /\ Advance(t, Abandoned(kill))
      BY <1>1, <2>3 DEF StopWait
    <3>2. \A p \in hold[t] : p \in Pids /\ (proc[p].kind # "none" => proc[p].term)
      BY <1>1, <3>1 DEF CmdInv, Signalled, IInv, TypeOK
    <3>3. kill = {}
      BY <1>1, <3>1, <3>2 DEF TableSound, Alive
    <3>4. proc' = proc
      BY <1>1, <3>1, <3>3, EndNone
    <3>. QED BY <1>4, <2>1, <3>1, <3>4
  <2>4. CASE StopScan(t)
    <3> DEFINE found == {p \in Pids : Uses(p, Target(t)[2])}
    <3>1. CASE found = {}
      <4>1. proc' = proc /\ Advance(t, sock)
        BY <2>4, <3>1 DEF StopScan
      <4>. QED BY <1>4, <2>1, <4>1
    <3>2. CASE found # {}
      <4>1. /\ proc' = [p \in Pids |-> IF p \in found THEN [proc[p] EXCEPT !.term = TRUE] ELSE proc[p]]
            /\ Goto(t, "wait") /\ UNCHANGED stray /\ found \in SUBSET Pids
        BY <2>4, <3>2 DEF StopScan
      <4>. HIDE DEF found
      <4>2. TermRows(found)
        BY <1>1, <4>1, MarkRows
      <4>3. \A k \in Kinds : SameKind(k)
        BY <4>2, TableStays DEF TermRows
      <4>. QED BY <1>3, <2>1, <4>1, <4>3 DEF EndPc
    <3>. QED BY <3>1, <3>2
  <2>5. CASE StopScanKill(t)
    <3> DEFINE kill == {p \in hold[t] : Alive(p)}
    <3>0. PICK k : k = Target(t)[2]
      OBVIOUS
    <3>1. /\ pc[t] = "wait" /\ Target(t)[1] = "scan"
          /\ proc' = Ended(kill) /\ Advance(t, Abandoned(kill))
      BY <2>5 DEF StopScanKill
    <3>2. kill \in SUBSET Pids /\ step[t] \in {2, 6, 7} /\ k \in {"dog", "dkd", "ctd"}
      BY <1>1, <3>0, <3>1, TargetParts DEF IInv, TypeOK
    <3>3. \A p \in hold[t] : proc[p].kind \in {"none", k}
      BY <1>1, <3>0, <3>1 DEF CmdInv, Signalled
    <3>4. \A p \in kill : proc[p].kind # "server"
      BY <3>2, <3>3
    <3>5. \A p \in Pids : Is(p, k) => p \in kill
      <4>1. \A p \in Pids : Is(p, k) => p \in hold[t]
        BY <1>1, <3>0, <3>1, <3>2 DEF CmdInv, Signalled
      <4>2. \A p \in Pids : Is(p, k) => Alive(p)
        BY <1>1, <3>2 DEF TableSound, Alive, Is
      <4>. QED BY <4>1, <4>2
    <3>6. Goto(t, "enter") /\ UNCHANGED stray
      BY <3>1, <3>2, PlanTypes DEF Advance
    <3>. HIDE DEF kill
    <3>7. /\ \A q \in Pids \ kill : proc'[q] = proc[q]
          /\ \A q \in kill : GoneRow(q)
      BY <1>1, <3>1, <3>2, <3>4, EndRows
    <3>8. \A q \in kill : proc[q].kind \in {"none", k} /\ \A j \in Kinds : ~Is(q, j)'
      <4>1. \A q \in kill : proc[q].kind \in {"none", k}
        BY <3>3 DEF kill
      <4>. QED BY <1>1, <3>7, <4>1, Shapes DEF GoneRow, Is
    <3>9. ASSUME NEW j \in Kinds, j # k PROVE SameKind(j)
      BY <1>1, <3>7, <3>8, <3>9 DEF SameKind, SameRow, Is
    <3>10. CASE Down(k) \/ k = "dog"
      <4>1. ASSUME k \in Kinds PROVE SameKind(k)
        <5>1. \A q \in Pids : ~Is(q, k)
          BY <1>1, <3>10, <4>1 DEF Down
        <5>2. \A q \in Pids : ~Is(q, k)'
          BY <3>7, <3>8, <4>1, <5>1 DEF Is
        <5>. QED BY <5>1, <5>2 DEF SameKind, SameRow
      <4>. QED BY <1>3, <2>1, <3>6, <3>9, <4>1 DEF EndPc
    <3>11. CASE ~Down(k) /\ k # "dog"
      <4>1. k \in Daemons /\ k \in Kinds
        BY <1>1, <3>2, <3>11
      <4>2. \A q \in Pids : ~Is(q, k)'
        BY <3>5, <3>7, <3>8, <4>1 DEF Is
      <4>3. Down(k)'
        BY <4>2 DEF Down
      <4>4. OnlyKind(k)
        BY <3>9 DEF OnlyKind
      <4>5. UNCHANGED AbsPhase
        BY <1>1, <2>1, <3>6, PhaseStutters DEF EndPc
      <4>6. ~Serves(k)'
        BY <4>2 DEF Serves
      <4>. QED BY <1>0, <2>1, <3>6, <3>11, <4>1, <4>3, <4>4, <4>5, <4>6, DaemonFalls
    <3>. QED BY <3>10, <3>11
  <2>. QED BY <1>5, <2>2, <2>3, <2>4, <2>5 DEF StopStep
<1>. QED BY <1>2, <1>5

-----------------------------------------------------------------------------
(* The steps of processes and of the phone.                                *)

\* A daemon ends.
LEMMA OneFalls ==
  ASSUME SInv, UNCHANGED AbsPhase, UNCHANGED stray, NEW p \in Pids, NEW k \in Daemons, Is(p, k),
         proc' = Ended({p}), proc[p].st = "up" => (\E t \in Stoppers : Active(t)) \/ "crash" \in Faults,
         UNCHANGED AbsTorn \/ Tears(k)
  PROVE  Maps
<1>1. IInv /\ TableSound /\ Tidy /\ k \in Kinds /\ k # "server"
  BY DEF SInv, Kinds, Daemons
<1>2. OnlyRow(p) /\ GoneRow(p)
  BY <1>1, EndRow DEF Is
<1>3. \A j \in Kinds : ~Is(p, j)'
  BY <1>2, Shapes, <1>1 DEF GoneRow, Is, Kinds, Daemons
<1>4. OnlyKind(k)
  BY <1>2, <1>3 DEF OnlyKind, SameKind, SameRow, OnlyRow, Is
<1>5. \A q \in Pids : Is(q, k)' => q # p /\ Is(q, k) /\ proc'[q] = proc[q]
  BY <1>1, <1>2, <1>3 DEF OnlyRow, Is
<1>6. Down(k)' \/ stray
  BY <1>1, <1>5 DEF Down, Tidy, DaemonsKnown
<1>7. Serves(k)' => Serves(k)
  BY <1>5 DEF Serves
<1>8. Serves(k) /\ ~Serves(k)' => proc[p].st = "up"
  <2>1. \A q \in Pids : Is(q, k) /\ q # p => Is(q, k)' /\ proc'[q] = proc[q]
    BY <1>2 DEF OnlyRow, Is
  <2>2. proc[p].st \in Top => proc[p].st = "up"
    BY <1>1 DEF Top, TableSound, Is, Daemons
  <2>. QED BY <2>1, <2>2 DEF Serves
<1>9. ~Down(k)
  BY DEF Down
<1>. QED BY <1>4, <1>6, <1>7, <1>8, <1>9, DaemonFalls

\* Something comes to serve.
LEMMA OneServes ==
  ASSUME SInv, UNCHANGED AbsPhase, UNCHANGED stray, NEW p \in Pids, NEW k \in Kinds, Is(p, k),
         proc' = [proc EXCEPT ![p].st = "up"], proc[p].st \notin Top,
         (\E s \in Starters : Active(s)) \/ (stray /\ k # "server"),
         UNCHANGED AbsTorn \/ (stray /\ k = "ctd" /\ ~Serves(k) /\ AbsTorn' = FALSE),
         k = "dkd" => Serves("ctd")
  PROVE  Maps
<1>1. IInv
  BY DEF SInv
<1>2. OnlyRow(p) /\ proc'[p].kind = proc[p].kind /\ proc'[p].st = "up"
  BY <1>1, MoveRow
<1>3. OnlyKind(k)
  BY <1>2 DEF OnlyKind, SameKind, SameRow, OnlyRow, Is
<1>4. Serves(k)'
  BY <1>2 DEF Serves, Is, Top
<1>5. AbsLife' = [AbsLife EXCEPT ![k] = "up"]
  BY <1>3, <1>4, LifeTurns DEF Level
<1>6. CASE Serves(k)
  <2>1. AbsLife[k] = "up" /\ AbsLife = [j \in Kinds |-> AbsLife[j]]
    BY <1>6, LevelReads DEF AbsLife
  <2>2. UNCHANGED AbsLife
    BY <1>5, <2>1
  <2>. QED BY <1>6, <2>2, NothingSeen
<1>7. CASE ~Serves(k)
  <2>1. AbsLife[k] = "coming"
    <3>1. ~Down(k)
      BY DEF Down
    <3>. QED BY <1>7, <3>1, LifeLevel DEF Level
  <2>2. Runtime!Serve(k)
    BY <1>5, <2>1, LevelReads, PhaseReads DEF Runtime!Serve, Runtime!Turn
  <2>. QED BY <2>2, LevelReads DEF Maps, Runtime!Next
<1>. QED BY <1>6, <1>7

\* Only the crash of a containerd that serves tears a start, and only one
\* whose launch was refused mends it.
LEMMA ProcessTears ==
  ASSUME Serial, SInv, NEW p \in Pids, ProcessStep(p) \/ DaemonCrash(p)
  PROVE  /\ ProcessStep(p) /\ ~CtdServe(p) => UNCHANGED AbsTorn
         /\ CtdServe(p) => UNCHANGED AbsTorn \/ (stray /\ AbsTorn' = FALSE)
         /\ DaemonCrash(p) => UNCHANGED AbsTorn \/ (Is(p, "ctd") /\ Tears("ctd"))
<1>1. /\ IInv /\ TableSound /\ SocketsSound /\ Tidy /\ CmdInv
      /\ sock \in [Sockets -> Pids \union {NoPid, Stale}]
      /\ {"sup", "ctd", "dkd"} = Sockets /\ Daemons = {"ctd", "dkd"}
  BY DEF SInv, IInv, TypeOK, Sockets, Daemons
<1>2. UNCHANGED <<pc, stage>>
  <2>1. UNCHANGED cmd
    BY DEF DaemonCrash, ProcessStep, ServerBind, ServerWritePid, ServerReap, ServerLeave, ServerGone,
       DogJudge, DogWrite, DogTerm, DaemonExec, CtdServe, DkdWritePid, DkdServe, DaemonTerm
  <2>. QED BY <2>1 DEF cmd
<1>3. CASE \A s \in Starters : ~(Active(s) /\ stage[s] = "dkd")
  <2>1. \A s \in Starters : Active(s)' <=> Active(s)
    BY <1>2 DEF Active
  <2>. QED BY <1>2, <1>3, <2>1 DEF AbsTorn
<1>4. ASSUME NEW s \in Starters, Active(s), stage[s] = "dkd"
      PROVE  /\ ProcessStep(p) /\ ~CtdServe(p) => UNCHANGED AbsTorn
             /\ CtdServe(p) => UNCHANGED AbsTorn \/ (stray /\ AbsTorn' = FALSE)
             /\ DaemonCrash(p) => UNCHANGED AbsTorn \/ (Is(p, "ctd") /\ Tears("ctd"))
  <2>1. ASSUME ProcessStep(p), ~CtdServe(p) PROVE UNCHANGED AbsTorn
    <3>1. DaemonTerm(p) => sock["ctd"] # p
      <4>1. NobodyTold
        BY <1>1, <1>4, StartAlone
      <4>. QED BY <1>1, <4>1 DEF DaemonTerm, NobodyTold, SocketsSound
    <3>2. DkdServe(p) => sock["ctd"] # p
      BY <1>1 DEF DkdServe, SocketsSound
    <3>3. sock'["ctd"] = sock["ctd"]
      BY <1>1, <2>1, <3>1, <3>2 DEF ProcessStep, ServerBind, ServerWritePid, ServerReap, ServerLeave,
         ServerGone, DogJudge, DogWrite, DogTerm, DaemonExec, DkdWritePid, DkdServe, DaemonTerm, Cleanup, run
    <3>. QED BY <1>2, <3>3, TornStays DEF Answers
  <2>2. ASSUME CtdServe(p) PROVE stray /\ AbsTorn' = FALSE
    <3>1. stray
      <4>1. SUFFICES ASSUME ~stray PROVE FALSE
        OBVIOUS
      <4>2. Starting("ctd")
        BY <1>1, <2>2, <4>1 DEF CtdServe, Tidy, DaemonsKnown, Is
      <4>3. PICK u \in Starters : pc[u] \in {"socket", "api"} /\ stage[u] = "ctd"
        BY <4>2 DEF Starting
      <4>. QED BY <1>1, <1>4, <4>3, StartAlone DEF Active, EndPc, Commands
    <3>2. sock'["ctd"] = p
      BY <1>1, <2>2 DEF CtdServe
    <3>. QED BY <3>1, <3>2 DEF AbsTorn, Answers
  <2>3. ASSUME DaemonCrash(p), sock["ctd"] # p PROVE UNCHANGED AbsTorn
    <3>1. sock'["ctd"] = sock["ctd"]
      BY <1>1, <2>3 DEF DaemonCrash, Abandoned
    <3>. QED BY <1>2, <3>1, TornStays DEF Answers
  <2>4. ASSUME DaemonCrash(p), sock["ctd"] = p PROVE Is(p, "ctd") /\ Tears("ctd")
    <3>1. Is(p, "ctd") /\ proc[p].st = "up"
      BY <1>1, <2>4 DEF SocketsSound, Is
    <3>2. Serves("ctd")
      BY <3>1 DEF Serves, Top
    <3>3. OnlyRow(p) /\ GoneRow(p)
      BY <1>1, <2>4, <3>1, EndRow DEF DaemonCrash, Is
    <3>4. ~Serves("ctd")'
      <4>1. ~Is(p, "ctd")'
        BY <1>1, <3>3, Shapes DEF GoneRow, Is
      <4>2. \A q \in Pids : Is(q, "ctd") /\ proc[q].st \in Top => q = p
        BY <1>1, <3>1 DEF TableSound, Is, Top
      <4>. QED BY <3>3, <4>1, <4>2 DEF Serves, OnlyRow, Is
    <3>5. sock'["ctd"] = Stale
      BY <1>1, <2>4 DEF DaemonCrash, Abandoned
    <3>6. AbsTorn'
      BY <1>2, <1>4, <3>5 DEF AbsTorn, Answers, Active
    <3>7. Tears("ctd")
      BY <1>4, <3>2, <3>4, <3>6, TornReads DEF Tears, AbsTorn
    <3>. QED BY <3>1, <3>7
  <2>. QED BY <2>1, <2>2, <2>3, <2>4
<1>. QED BY <1>3, <1>4

LEMMA ProcessMaps ==
  ASSUME Serial, LInv, NEW p \in Pids, ProcessStep(p) \/ DaemonCrash(p)
  PROVE  Maps
<1>1. /\ SInv /\ IInv /\ TableSound /\ SocketsSound /\ ServersKnown /\ Tidy /\ CmdInv
      /\ Kinds = {"server", "ctd", "dkd"} /\ Daemons = {"ctd", "dkd"}
  BY DEF LInv, SInv, Kinds, Daemons
<1>2. UNCHANGED <<pc, stage, stray, AbsPhase>>
  <2>1. UNCHANGED cmd
    BY DEF DaemonCrash, ProcessStep, ServerBind, ServerWritePid, ServerReap, ServerLeave, ServerGone,
       DogJudge, DogWrite, DogTerm, DaemonExec, CtdServe, DkdWritePid, DkdServe, DaemonTerm
  <2>. QED BY <2>1 DEF cmd, AbsPhase, Active
<1>0. /\ ProcessStep(p) /\ ~CtdServe(p) => UNCHANGED AbsTorn
      /\ CtdServe(p) => UNCHANGED AbsTorn \/ (stray /\ AbsTorn' = FALSE)
      /\ DaemonCrash(p) => UNCHANGED AbsTorn \/ (Is(p, "ctd") /\ Tears("ctd"))
  BY <1>1, ProcessTears
<1>3. ASSUME \A k \in Kinds : SameKind(k), UNCHANGED AbsTorn PROVE Maps
  BY <1>2, <1>3, LifeStays, NothingSeen
\* A process comes further without serving.
<1>4. ASSUME NEW st, proc' = [proc EXCEPT ![p].st = st], proc[p].st # "zombie", st # "zombie",
             proc[p].kind # "dog" => (st \in Top <=> proc[p].st \in Top), UNCHANGED AbsTorn
      PROVE  Maps
  <2>1. OnlyRow(p) /\ proc'[p].kind = proc[p].kind /\ proc'[p].st = st
    BY <1>1, <1>4, MoveRow
  <2>2. \A k \in Kinds : SameKind(k)
    BY <1>1, <1>4, <2>1 DEF SameKind, SameRow, OnlyRow, Is
  <2>. QED BY <1>3, <1>4, <2>2
\* A watchdog ends.
<1>5. ASSUME proc[p].kind = "dog", proc' = Ended({p}), UNCHANGED AbsTorn PROVE Maps
  <2>1. OnlyRow(p) /\ GoneRow(p)
    BY <1>1, <1>5, EndRow
  <2>2. \A k \in Kinds : SameKind(k)
    BY <1>1, <1>5, <2>1, Shapes DEF SameKind, SameRow, OnlyRow, GoneRow, Is
  <2>. QED BY <1>3, <1>5, <2>2
<1>6. CASE ServerBind(p) \/ ServerLeave(p) \/ DaemonExec(p)
  <2>1. \E st : /\ proc' = [proc EXCEPT ![p].st = st] /\ proc[p].st # "zombie" /\ st # "zombie"
                /\ st \in Top <=> proc[p].st \in Top
    BY <1>6 DEF ServerBind, ServerLeave, DaemonExec, Top
  <2>2. UNCHANGED AbsTorn
    BY <1>0, <1>6 DEF ProcessStep, ServerBind, ServerLeave, DaemonExec, CtdServe
  <2>. QED BY <1>4, <2>1, <2>2
<1>7. CASE ServerWritePid(p)
  <2>1. Is(p, "server") /\ proc[p].st = "bound" /\ proc' = [proc EXCEPT ![p].st = "up"]
    BY <1>7 DEF ServerWritePid, Is
  <2>2. \E s \in Starters : Active(s)
    BY <1>1, <2>1 DEF ServersKnown, Active, EndPc
  <2>3. UNCHANGED AbsTorn
    BY <1>0, <1>7, <2>1 DEF ProcessStep, CtdServe, Is
  <2>. QED BY <1>1, <1>2, <2>1, <2>2, <2>3, OneServes DEF Top
<1>8. CASE ServerReap(p)
  <2>1. \A q \in Pids : IF proc[q].parent = p /\ proc[q].st = "zombie" THEN proc'[q] = Free ELSE proc'[q] = proc[q]
    BY <1>8 DEF ServerReap
  <2>2. \A k \in Kinds : SameKind(k)
    BY <1>1, <2>1, Shapes DEF SameKind, SameRow, Is
  <2>3. UNCHANGED AbsTorn
    BY <1>0, <1>8 DEF ProcessStep, ServerReap, CtdServe
  <2>. QED BY <1>3, <2>2, <2>3
<1>9. CASE ServerGone(p)
  <2>1. Is(p, "server") /\ proc[p].st = "leaving" /\ proc' = Ended({p}) /\ proc[p].term
    BY <1>1, <1>9 DEF ServerGone, Is, ServersKnown
  <2>2. PICK t \in Stoppers : pc[t] = "wait" /\ p \in hold[t]
    BY <1>1, <2>1 DEF CmdInv, Signalled
  <2>3. Active(t) /\ Target(t)[2] = "server"
    BY <1>1, <2>1, <2>2 DEF CmdInv, Signalled, Active, EndPc, Is
  <2>4. step[t] = 8
    BY <1>1, <2>3, TargetParts
  <2>5. step[t] > 6 /\ step[t] > 7
    BY <2>4
  <2>6. Down("dkd") /\ Down("ctd")
    BY <1>1, <2>3, <2>5 DEF CmdInv, StopProgress, Progress
  <2>7. proc'[p] = Free /\ Orphaned(p)
    BY <1>1, <2>1, EndServer DEF Is
  <2>8. \A q \in Pids : q # p => ~Is(q, "server")
    BY <1>1, <2>1 DEF ServersKnown
  <2>9. \A k \in Kinds : ~Is(p, k)'
    BY <1>1, <2>7, Shapes DEF Is
  <2>10. OnlyKind("server")
    <3>1. ASSUME NEW k \in Daemons, NEW q \in Pids PROVE SameRow(q, k)
      BY <1>1, <2>1, <2>7, <2>9, <3>1, Shapes DEF Orphaned, SameRow, Is
    <3>. QED BY <1>1, <3>1 DEF OnlyKind, SameKind
  <2>11. \A q \in Pids : ~Is(q, "server")'
    BY <1>1, <2>7, <2>8, <2>9, Shapes DEF Orphaned, Is
  <2>12. Level("server")' = "down"
    BY <2>11 DEF Level, Serves, Down
  <2>13. AbsLife' = [AbsLife EXCEPT !["server"] = "down"]
    BY <1>1, <2>10, <2>12, LifeTurns
  <2>14. UNCHANGED AbsTorn
    BY <1>0, <1>9 DEF ProcessStep, ServerGone, CtdServe
  <2>15. Runtime!ServerFalls
    BY <1>1, <1>2, <2>3, <2>6, <2>13, <2>14, LevelReads, PhaseReads DEF Runtime!ServerFalls, Runtime!Turn
  <2>. QED BY <2>15 DEF Maps, Runtime!Next
<1>10. CASE DogJudge(p) \/ DogWrite(p) \/ DogTerm(p)
  <2>1. /\ proc[p].kind = "dog"
        /\ \/ proc' = Ended({p})
           \/ \E st : proc' = [proc EXCEPT ![p].st = st] /\ proc[p].st # "zombie" /\ st # "zombie"
    BY <1>10 DEF DogJudge, DogWrite, DogTerm
  <2>2. UNCHANGED AbsTorn
    BY <1>0, <1>10, <2>1 DEF ProcessStep, CtdServe
  <2>. QED BY <1>4, <1>5, <2>1, <2>2
<1>11. CASE CtdServe(p)
  <2>1. Is(p, "ctd") /\ proc[p].st = "boot" /\ proc' = [proc EXCEPT ![p].st = "up"]
    BY <1>11 DEF CtdServe, Is
  <2>2. (\E s \in Starters : Active(s)) \/ stray
    BY <1>1, <2>1 DEF Tidy, DaemonsKnown, Starting, Active, EndPc
  <2>3. ~Serves("ctd")
    BY <1>1, <1>11 DEF CtdServe, TableSound, Serves, Is, Top
  <2>. QED BY <1>0, <1>1, <1>2, <1>11, <2>1, <2>2, <2>3, OneServes DEF Top
<1>12. CASE DkdWritePid(p)
  <2>1. Is(p, "dkd") /\ proc[p].st = "boot"
    BY <1>12 DEF DkdWritePid, Is
  <2>2. UNCHANGED AbsTorn
    BY <1>0, <1>12, <2>1 DEF ProcessStep, CtdServe, Is
  <2>3. CASE proc' = Ended({p})
    BY <1>1, <1>2, <2>1, <2>2, <2>3, OneFalls
  <2>4. CASE proc' = [proc EXCEPT ![p].st = "bound"]
    BY <1>4, <2>1, <2>2, <2>4 DEF Top
  <2>. QED BY <1>12, <2>3, <2>4 DEF DkdWritePid
<1>13. CASE DkdServe(p)
  <2>1. Is(p, "dkd") /\ proc[p].st = "bound" /\ UNCHANGED AbsTorn
    BY <1>0, <1>13 DEF DkdServe, CtdServe, Is, ProcessStep
  <2>2. CASE Answers("ctd")
    <3>1. proc' = [proc EXCEPT ![p].st = "up"]
      BY <1>13, <2>2 DEF DkdServe
    <3>2. (\E s \in Starters : Active(s)) \/ stray
      BY <1>1, <2>1 DEF Tidy, DaemonsKnown, Starting, Active, EndPc
    <3>3. Serves("ctd")
      BY <1>1, <2>2, AnswersServe
    <3>. QED BY <1>1, <1>2, <2>1, <3>1, <3>2, <3>3, OneServes DEF Top
  <2>3. CASE ~Answers("ctd")
    <3>1. proc' = Ended({p})
      BY <1>13, <2>3 DEF DkdServe, Cleanup
    <3>. QED BY <1>1, <1>2, <2>1, <3>1, OneFalls
  <2>. QED BY <2>2, <2>3
<1>14. CASE DaemonTerm(p)
  <2>1. PICK k \in Daemons : Is(p, k) /\ proc[p].term /\ proc' = Ended({p})
    BY <1>14 DEF DaemonTerm, Cleanup, Is
  <2>2. proc[p].st = "up" => \E t \in Stoppers : Active(t)
    BY <1>1, <2>1 DEF CmdInv, Signalled, Active, EndPc, Is
  <2>3. UNCHANGED AbsTorn
    BY <1>0, <1>14 DEF ProcessStep, DaemonTerm, CtdServe
  <2>. QED BY <1>1, <1>2, <2>1, <2>2, <2>3, OneFalls
<1>15. CASE DaemonCrash(p)
  <2>1. proc' = Ended({p}) /\ "crash" \in Faults /\ (proc[p].kind = "dog" \/ \E k \in Daemons : Is(p, k))
    BY <1>15 DEF DaemonCrash, Is
  <2>2. CASE proc[p].kind = "dog"
    <3>1. UNCHANGED AbsTorn
      BY <1>0, <1>15, <2>2 DEF Is
    <3>. QED BY <1>5, <2>1, <2>2, <3>1
  <2>3. CASE \E k \in Daemons : Is(p, k)
    <3>1. PICK k \in Daemons : Is(p, k)
      BY <2>3
    <3>2. UNCHANGED AbsTorn \/ Tears(k)
      BY <1>0, <1>15, <3>1 DEF Is
    <3>. QED BY <1>1, <1>2, <2>1, <3>1, <3>2, OneFalls
  <2>. QED BY <2>1, <2>2, <2>3
<1>. QED BY <1>6, <1>7, <1>8, <1>9, <1>10, <1>11, <1>12, <1>13, <1>14, <1>15 DEF ProcessStep

LEMMA PhoneMaps ==
  ASSUME LInv, Reboot \/ BootWatchdog \/ \E p \in Pids : ForeignStart(p)
  PROVE  Maps
<1>1. SInv /\ IInv /\ TableSound /\ Kinds = {"server", "ctd", "dkd"} /\ Daemons = {"ctd", "dkd"}
  BY DEF LInv, SInv, Kinds, Daemons
<1>2. CASE BootWatchdog \/ \E p \in Pids : ForeignStart(p)
  <2>1. UNCHANGED AbsPhase /\ UNCHANGED stray
    BY <1>2 DEF BootWatchdog, ForeignStart, cmd, AbsPhase, Active
  <2>2. PICK p \in Pids, k \in {"dog", "foreign"} :
          proc[p].st = "free" /\ \E st : proc' = [proc EXCEPT ![p] = Fresh(k, st, NoPid)]
    BY <1>2 DEF BootWatchdog, SpawnDog, ForeignStart
  <2>3. OnlyRow(p) /\ proc'[p].kind = k
    BY <1>1, <2>2, SpawnRow
  <2>4. \A j \in Kinds : SameKind(j)
    BY <1>1, <2>2, <2>3 DEF SameKind, SameRow, OnlyRow, Is, TableSound
  <2>5. UNCHANGED AbsTorn
    BY <1>2, TornStays DEF BootWatchdog, ForeignStart, cmd, run, Answers
  <2>. QED BY <1>1, <2>1, <2>4, <2>5, LifeStays, NothingSeen
<1>3. CASE Reboot
  <2>1. /\ \A p \in Pids : proc'[p] = Free
        /\ pc' = [c \in Commands |-> IF Active(c) THEN "killed" ELSE pc[c]]
    BY <1>3 DEF Reboot
  <2>2. \A k \in Kinds : Down(k)'
    BY <1>1, <2>1, Shapes DEF Down, Is
  <2>3. stray' = FALSE
    BY <1>3 DEF Reboot
  <2>4. AbsLife' = Runtime!AllDown
    BY <1>1, <2>2, LifeLevelNext DEF Level, Serves, Down, Runtime!AllDown, Runtime!Kinds
  <2>5. AbsPhase' = [c \in Commands |-> IF AbsPhase[c] = "busy" THEN "over" ELSE AbsPhase[c]]
    BY <2>1 DEF AbsPhase, Active, EndPc
  <2>6. AbsTorn' = FALSE
    <3>1. \A s \in Starters : ~Active(s)'
      BY <2>1 DEF Active, EndPc, Commands
    <3>. QED BY <3>1 DEF AbsTorn
  <2>7. Runtime!Reboot
    BY <2>3, <2>4, <2>5, <2>6 DEF Runtime!Reboot, Runtime!Commands, Commands
  <2>. QED BY <2>7 DEF Maps, Runtime!Next
<1>. QED BY <1>2, <1>3

LEMMA InitMaps == Init => Runtime!Init
<1> SUFFICES ASSUME Init PROVE Runtime!Init
  OBVIOUS
<1>1. \A k \in Kinds : \A p \in Pids : ~Is(p, k)
  BY DEF Init, Free, Is, Kinds, Daemons
<1>2. AbsLife = Runtime!AllDown
  BY <1>1 DEF AbsLife, Is, Runtime!AllDown, Runtime!Kinds, Kinds, Daemons, Init, Free
<1>3. AbsPhase = [c \in Commands |-> "idle"]
  BY DEF Init, AbsPhase, Active, EndPc
<1>4. AbsTorn = FALSE
  BY DEF Init, AbsTorn, Active, EndPc, Commands
<1>5. stray = FALSE
  BY DEF Init
<1>. QED BY <1>2, <1>3, <1>4, <1>5 DEF Runtime!Init, Runtime!Commands, Commands

\* When commands come one at a time and none is killed, every behaviour is
\* one of RuntimeLife: supervisor, containerd and dockerd come up in order,
\* each start brings them up itself and ends with nothing on its way, with
\* success only over all three, or over a containerd that crashed since it
\* answered that start; only a stop or a crash takes down what serves, the
\* supervisor last; a stop ends over nothing. Daemons may crash, the phone
\* may reboot and launches may be refused at any moment. The one start that
\* ends with something on its way is that whose launch was refused after
\* its fork, and only between it and the next stop may a daemon come up
\* outside a start.
THEOREM RuntimeRefinement ==
  ASSUME Faults \subseteq {"crash", "reboot", "refuse"}
  PROVE  Spec => ImplementsRuntimeLife
<1>1. Serial
  BY DEF Serial
<1>2. Init => Runtime!Init /\ LInv
  <2>1. Init => SupervisorUp /\ GuardedFirst
    BY DEF Init, SupervisorUp, GuardedFirst, Active, EndPc, Commands
  <2>. QED BY <2>1, InitMaps, InitSInv DEF LInv
<1>3. LInv /\ [Next]_vars => LInv' /\ [Runtime!Next]_(Runtime!vars)
  <2> SUFFICES ASSUME LInv, [Next]_vars PROVE LInv' /\ Maps
    BY DEF Maps
  <2>1. SInv'
    BY <1>1, NextSInv DEF LInv
  <2>2. SupervisorUp' /\ GuardedFirst'
    BY <1>1, SupervisorStays, GuardedFirstStays DEF LInv, SInv
  <2>3. Maps
    <3>1. CASE \E s \in Starters : StartBegin(s) \/ StartStep(s) \/ Interrupt(s)
      BY <1>1, <3>1, StartMaps DEF Interrupt, Serial
    <3>2. CASE \E t \in Stoppers : StopBegin(t) \/ StopStep(t)
      BY <1>1, <2>1, <3>2, StopMaps
    <3>3. CASE \E p \in Pids : ProcessStep(p) \/ DaemonCrash(p)
      BY <1>1, <3>3, ProcessMaps
    <3>4. CASE Reboot \/ BootWatchdog \/ \E p \in Pids : ForeignStart(p)
      BY <3>4, PhoneMaps
    <3>5. CASE UNCHANGED vars
      BY <3>5, NothingSeen DEF vars, AbsLife, AbsPhase, AbsTorn, Answers, Active
    <3>. QED BY <3>1, <3>2, <3>3, <3>4, <3>5 DEF Next
  <2>. QED BY <2>1, <2>2, <2>3 DEF LInv
<1>4. Spec => Runtime!Spec
  BY <1>2, <1>3, PTL DEF Spec, Runtime!Spec
<1>. QED BY <1>4 DEF ImplementsRuntimeLife
=============================================================================
