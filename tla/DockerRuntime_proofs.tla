------------------------ MODULE DockerRuntime_proofs ------------------------
(***************************************************************************)
(* Theorems about DockerRuntime, for any number of commands and pids and   *)
(* any faults: the types of the state, and that a stop never signals a     *)
(* process that is not ACHost's.                                           *)
(***************************************************************************)
EXTENDS DockerRuntime, TLAPS

\* Who has no kind is no process, so whoever is alive is of a kind.
KnownKind == \A p \in Pids : proc[p].kind = "none" => proc[p].st = "free"

\* What a stop waits for was ACHost's when it was signalled, and its pid
\* cannot have become a stranger's since.
HeldAreOurs == \A t \in Stoppers : \A p \in hold[t] : proc[p].kind # "foreign"

\* What may come to be under a pid: what was there, or one of ours.
NoNewForeign == \A p \in Pids : proc'[p].kind = "foreign" => proc[p].kind = "foreign"

\* A start that has come to the daemons works on one of them.
StageIsDaemon ==
  \A s \in Starters : pc[s] \in {"check", "request", "socket", "api"} => stage[s] \in Daemons

IInv == TypeOK /\ StageIsDaemon /\ KnownKind /\ HeldAreOurs /\ struck \subseteq Owned

USE DockerAssumption

-----------------------------------------------------------------------------
LEMMA PlanTypes ==
  /\ Len(StopPlan) = 8
  /\ \A i \in 1..8 : StopPlan[i][2] \in Owned
<1>1. Len(StopPlan) = 8
  BY DEF StopPlan
<1>2. ASSUME NEW i \in 1..8 PROVE StopPlan[i][2] \in Owned
  <2>1. i = 1 \/ i = 2 \/ i = 3 \/ i = 4 \/ i = 5 \/ i = 6 \/ i = 7 \/ i = 8
    OBVIOUS
  <2>2. StopPlan[i][2] \in {"dog", "dkd", "ctd", "server"}
    <3>1. CASE i \in {1, 2}
      BY <3>1 DEF StopPlan
    <3>2. CASE i \in {3, 4, 6}
      BY <3>2 DEF StopPlan
    <3>3. CASE i \in {5, 7, 8}
      BY <3>3 DEF StopPlan
    <3>. QED BY <2>1, <3>1, <3>2, <3>3
  <2>. QED BY <2>2 DEF Owned, Daemons
<1>. QED BY <1>1, <1>2

\* The end of processes keeps the table a table, and names no new kind.
LEMMA EndedTypes ==
  ASSUME IInv, NEW ps \in SUBSET Pids, \A p \in ps : proc[p].kind # "none"
  PROVE  /\ Ended(ps) \in [Pids -> Process]
         /\ \A p \in Pids : /\ Ended(ps)[p].kind \in {"none", proc[p].kind}
                            /\ Ended(ps)[p].kind = "none" => Ended(ps)[p].st = "free"
<1> DEFINE dead == [p \in Pids |-> IF p \notin ps THEN proc[p]
                                   ELSE IF proc[p].parent \in Pids \ ps
                                        THEN [proc[p] EXCEPT !.st = "zombie"] ELSE Free]
           gone == {p \in ps : proc[p].kind = "server"}
<1>1. Free \in Process /\ Free.kind = "none" /\ Free.st = "free"
  BY DEF Free, Process, Stages
<1>2. dead \in [Pids -> Process]
  BY <1>1 DEF IInv, TypeOK, Process, Stages
<1>3. \A p \in Pids : /\ dead[p].kind \in {"none", proc[p].kind}
                      /\ dead[p].kind = "none" => dead[p].st = "free"
  BY <1>1 DEF IInv, TypeOK, KnownKind, Process, Stages
<1>4. Ended(ps) = Adopt(dead, gone)
  BY DEF Ended
<1>. HIDE DEF dead, gone
<1>5. Adopt(dead, gone) \in [Pids -> Process]
  BY <1>1, <1>2 DEF Adopt, Process
<1>6. ASSUME NEW p \in Pids
      PROVE  Adopt(dead, gone)[p] = Free \/ (/\ Adopt(dead, gone)[p].kind = dead[p].kind
                                             /\ Adopt(dead, gone)[p].st = dead[p].st)
  BY <1>2 DEF Adopt, Process
<1>. QED BY <1>1, <1>3, <1>4, <1>5, <1>6

\* A step that only touches processes, keeps the rest of the invariant when
\* it brings no stranger into being.
LEMMA ProcessFrame ==
  ASSUME IInv, UNCHANGED <<hold, struck>>, NoNewForeign
  PROVE  HeldAreOurs' /\ (struck \subseteq Owned)'
BY DEF IInv, TypeOK, HeldAreOurs, NoNewForeign

\* One process is put or changed, and it is ours.
LEMMA OneProcess ==
  ASSUME IInv, NEW p \in Pids, NEW r \in Process, r.kind \in Owned \union {proc[p].kind},
         r.kind # "none", proc' = [proc EXCEPT ![p] = r]
  PROVE  proc' \in [Pids -> Process] /\ KnownKind' /\ NoNewForeign
BY DEF IInv, TypeOK, KnownKind, NoNewForeign, Owned, Daemons

\* Some processes end.
LEMMA SomeEnd ==
  ASSUME IInv, NEW ps \in SUBSET Pids, \A p \in ps : proc[p].kind # "none",
         proc' = Ended(ps)
  PROVE  proc' \in [Pids -> Process] /\ KnownKind' /\ NoNewForeign
BY EndedTypes DEF KnownKind, NoNewForeign

\* A new process is a process.
LEMMA FreshTypes ==
  ASSUME NEW k \in Owned \union {"foreign"}, NEW s \in Stages, NEW q \in Pids \union {NoPid}
  PROVE  Fresh(k, s, q) \in Process /\ Fresh(k, s, q).kind = k
BY DEF Fresh, Process, Owned

-----------------------------------------------------------------------------
(* The steps of a start.                                                   *)

\* Where a start goes is a place a start can be at, and leads to the daemons
\* only with one to work on.
LEMMA StartGoes ==
  ASSUME IInv, NEW s \in Starters, NEW l \in StartPc \union EndPc, Goto(s, l),
         \/ UNCHANGED stage /\ (l \in {"check", "request", "socket", "api"} => stage[s] \in Daemons)
         \/ \E d \in Daemons : stage' = [stage EXCEPT ![s] = d]
  PROVE  /\ StageIsDaemon'
         /\ pc' \in [Commands -> StartPc \union StopPc \union EndPc]
         /\ \A c \in Starters : pc'[c] \in StartPc \union EndPc
         /\ \A c \in Stoppers : pc'[c] \in StopPc \union EndPc
BY DEF Goto, IInv, TypeOK, Commands, StageIsDaemon

LEMMA StartKeeps ==
  ASSUME IInv, NEW s \in Starters, StartBegin(s) \/ StartStep(s) \/ Interrupt(s)
  PROVE  IInv'
<1> DEFINE Cmds == /\ pc' \in [Commands -> StartPc \union StopPc \union EndPc]
                   /\ \A c \in Starters : pc'[c] \in StartPc \union EndPc
                   /\ \A c \in Stoppers : pc'[c] \in StopPc \union EndPc
                   /\ stage' \in [Starters -> {"first"} \union Daemons]
                   /\ last' \in {"none", "start", "stop"}
                   /\ StageIsDaemon'
           Files == /\ pidf' \in [PidNames -> Pids \union {NoPid}]
                    /\ sock' \in [Sockets -> Pids \union {NoPid, Stale}]
           Procs == proc' \in [Pids -> Process] /\ KnownKind' /\ NoNewForeign
           Rest == UNCHANGED <<step, hold, struck, rebooted, watched>> /\ stray' \in BOOLEAN
<1>1. SUFFICES Cmds /\ Files /\ Procs /\ Rest
  <2>2. HeldAreOurs' /\ (struck \subseteq Owned)'
    BY ProcessFrame
  <2>. QED BY <2>2 DEF IInv, TypeOK
<1>18. Keep => Rest
  BY DEF Keep, IInv, TypeOK
<1>2. proc' = proc => Procs
  BY DEF IInv, TypeOK, KnownKind, NoNewForeign
<1>3. UNCHANGED run => Files
  BY DEF IInv, TypeOK, run
<1>4. stage[s] \in {"first", "ctd", "dkd"} /\ Stages # {}
  BY DEF IInv, TypeOK, Daemons, Stages
<1>5. ASSUME NEW l \in StartPc \union EndPc, Goto(s, l),
             \/ UNCHANGED stage /\ (l \in {"check", "request", "socket", "api"} => stage[s] \in Daemons)
             \/ \E d \in Daemons : stage' = [stage EXCEPT ![s] = d],
             last' \in {last, "start"}
      PROVE  Cmds
  <2>1. stage' \in [Starters -> {"first"} \union Daemons] /\ last' \in {"none", "start", "stop"}
    BY <1>5 DEF IInv, TypeOK
  <2>. QED BY <1>5, <2>1, StartGoes
<1>6. ASSUME Fail(s) \/ Ensured(s) PROVE Cmds
  <2>1. PICK l \in StartPc \union EndPc :
          Goto(s, l) /\ (l \in {"check", "request", "socket", "api"} => stage[s] \in Daemons)
    BY <1>4, <1>6 DEF Fail, Ensured, Finish, StartPc, EndPc, Daemons
  <2>2. UNCHANGED stage /\ last' \in {last, "start"}
    BY <1>6 DEF Fail, Ensured, Finish
  <2>. QED BY <1>5, <2>1, <2>2
<1>7. ASSUME NEW p \in Pids, NEW k \in Owned, NEW st \in Stages, NEW q \in Pids \union {NoPid},
             proc' = [proc EXCEPT ![p] = Fresh(k, st, q)]
      PROVE  Procs
  <2>1. k # "none"
    BY DEF Owned, Daemons
  <2>2. Fresh(k, st, q) \in Process /\ Fresh(k, st, q).kind = k
    BY FreshTypes
  <2>. HIDE DEF Procs
  <2>3. proc' \in [Pids -> Process] /\ KnownKind' /\ NoNewForeign
    BY <1>7, <2>1, <2>2, OneProcess
  <2>. QED BY <2>3 DEF Procs
<1>. HIDE DEF Cmds, Files, Procs, Rest
<1>8. CASE StartBegin(s)
  <2>1. "ensure" \in StartPc
    BY DEF StartPc
  <2>. QED BY <1>18, <1>2, <1>3, <1>5, <1>8, <2>1 DEF StartBegin
<1>9. CASE Ensure(s)
  <2>1. Files
    BY <1>3, <1>9 DEF Ensure, IInv, TypeOK, Files, PidNames, Sockets
  <2>2. "spawn" \in StartPc
    BY DEF StartPc
  <2>. QED BY <1>18, <1>2, <1>5, <1>6, <1>9, <2>1, <2>2 DEF Ensure
<1>10. CASE SpawnServer(s)
  <2>1. "probe" \in StartPc /\ "server" \in Owned /\ "boot" \in Stages
    BY DEF StartPc, Owned, Stages
  <2>. QED BY <1>18, <1>3, <1>5, <1>7, <1>10, <2>1 DEF SpawnServer
<1>11. CASE Probe(s)
  BY <1>18, <1>2, <1>3, <1>6, <1>11 DEF Probe
<1>12. CASE SpawnWatchdog(s)
  <2>1. "check" \in StartPc /\ "dog" \in Owned /\ "boot" \in Stages /\ "ctd" \in Daemons
    BY DEF StartPc, Owned, Stages, Daemons
  <2>2. Procs
    BY <1>2, <1>7, <1>12, <2>1 DEF SpawnWatchdog, SpawnDog
  <2>. QED BY <1>18, <1>3, <1>5, <1>12, <2>1, <2>2 DEF SpawnWatchdog
<1>13. CASE CheckDaemon(s)
  <2>1. Files
    BY <1>13 DEF CheckDaemon, IInv, TypeOK, Files, run
  <2>2. "socket" \in StartPc /\ "ensure" \in StartPc
    BY DEF StartPc
  <2>3. stage[s] \in Daemons
    BY <1>13 DEF CheckDaemon, IInv, StageIsDaemon
  <2>. QED BY <1>18, <1>2, <1>5, <1>13, <2>1, <2>2, <2>3 DEF CheckDaemon
<1>14. CASE LaunchDaemon(s)
  <2>1. "socket" \in StartPc /\ "stub" \in Stages
    BY DEF StartPc, Stages
  <2>2. CASE ~ProbeOk
    BY <1>18, <1>2, <1>3, <1>6, <1>14, <2>2 DEF LaunchDaemon, run
  <2>3. CASE ProbeOk
    <3>1. PICK p \in Pids :
            /\ proc' = [proc EXCEPT ![p] = Fresh(stage[s], "stub", sock["sup"])]
            /\ pidf' = [pidf EXCEPT ![LaunchFile(stage[s])] = p]
            /\ UNCHANGED sock
      BY <1>14, <2>3 DEF LaunchDaemon
    <3>2. Files
      BY <3>1 DEF IInv, TypeOK, Files, LaunchFile, PidNames
    <3>3. sock["sup"] \in Pids
      BY <2>3 DEF ProbeOk, Answers
    <3>4. stage[s] \in Owned
      BY <1>14 DEF LaunchDaemon, Owned, IInv, StageIsDaemon
    <3>5. stage[s] \in Daemons
      BY <1>14 DEF LaunchDaemon, IInv, StageIsDaemon
    <3>6. Goto(s, "socket") /\ UNCHANGED <<stage, last>> /\ Keep
      BY <1>14, <2>3 DEF LaunchDaemon
    <3>7. Cmds
      BY <1>5, <2>1, <3>5, <3>6
    <3>8. Procs
      BY <1>7, <2>1, <3>1, <3>3, <3>4
    <3>. QED BY <1>18, <3>2, <3>6, <3>7, <3>8
  <2>. QED BY <2>2, <2>3
<1>19. CASE LaunchRefused(s)
  <2>1. Cmds
    BY <1>6, <1>19 DEF LaunchRefused
  <2>2. UNCHANGED <<sock, step, hold, struck, rebooted, watched>>
    BY <1>19 DEF LaunchRefused
  <2>3. CASE UNCHANGED <<proc, pidf, stray>>
    <3>1. Rest
      BY <2>2, <2>3 DEF Rest, IInv, TypeOK
    <3>. QED BY <1>2, <1>3, <2>1, <2>2, <2>3, <3>1 DEF run
  <2>4. CASE \E p \in Pids, told \in BOOLEAN :
               /\ proc[p].st = "free"
               /\ proc' = [proc EXCEPT ![p] = [Fresh(stage[s], "stub", sock["sup"]) EXCEPT !.term = told]]
    <3>1. PICK p \in Pids, told \in BOOLEAN :
            proc' = [proc EXCEPT ![p] = [Fresh(stage[s], "stub", sock["sup"]) EXCEPT !.term = told]]
      BY <2>4
    <3>2. sock["sup"] \in Pids /\ stage[s] \in Owned /\ stage[s] # "none" /\ "stub" \in Stages
      BY <1>19 DEF LaunchRefused, ProbeOk, Answers, Owned, Daemons, Stages, IInv, StageIsDaemon
    <3>3. [Fresh(stage[s], "stub", sock["sup"]) EXCEPT !.term = told] \in Process
      BY <3>2 DEF Fresh, Process
    <3>4. [Fresh(stage[s], "stub", sock["sup"]) EXCEPT !.term = told].kind = stage[s]
      BY DEF Fresh
    <3>5. Procs
      BY <3>1, <3>2, <3>3, <3>4, OneProcess DEF Procs
    <3>6. pidf' \in [PidNames -> Pids \union {NoPid}] /\ stray' \in BOOLEAN
      <4>1. pidf' \in {pidf, [pidf EXCEPT ![LaunchFile(stage[s])] = NoPid]} \/ UNCHANGED pidf
        BY <1>19 DEF LaunchRefused
      <4>2. stray' = TRUE \/ UNCHANGED stray
        BY <1>19 DEF LaunchRefused
      <4>. QED BY <4>1, <4>2 DEF IInv, TypeOK, LaunchFile, PidNames
    <3>7. Files /\ Rest
      BY <2>2, <3>6 DEF Files, Rest, IInv, TypeOK
    <3>. QED BY <2>1, <3>5, <3>7
  <2>. QED BY <1>19, <2>3, <2>4 DEF LaunchRefused
<1>15. CASE WaitSocket(s)
  <2>1. "api" \in StartPc
    BY DEF StartPc
  <2>2. stage[s] \in Daemons
    BY <1>15 DEF WaitSocket, IInv, StageIsDaemon
  <2>. QED BY <1>18, <1>2, <1>3, <1>5, <1>6, <1>15, <2>1, <2>2 DEF WaitSocket
<1>16. CASE WaitApi(s)
  <2>1. "check" \in StartPc /\ "ok" \in EndPc /\ "dkd" \in Daemons
    BY DEF StartPc, EndPc, Daemons
  <2>. QED BY <1>18, <1>2, <1>3, <1>5, <1>6, <1>16, <2>1 DEF WaitApi, Finish
<1>17. CASE Interrupt(s)
  <2>1. "killed" \in EndPc
    BY DEF EndPc
  <2>. QED BY <1>18, <1>2, <1>3, <1>5, <1>17, <2>1 DEF Interrupt, Finish
<1>. QED BY <1>8, <1>9, <1>10, <1>11, <1>12, <1>13, <1>14, <1>15, <1>16, <1>17, <1>19 DEF StartStep

-----------------------------------------------------------------------------
(* The steps of a stop.                                                    *)

\* Where a stop goes is a place a stop can be at, and no start moves.
LEMMA StopGoes ==
  ASSUME IInv, NEW t \in Stoppers, NEW l \in StopPc \union EndPc, Goto(t, l), UNCHANGED stage
  PROVE  /\ StageIsDaemon'
         /\ pc' \in [Commands -> StartPc \union StopPc \union EndPc]
         /\ \A c \in Starters : pc'[c] \in StartPc \union EndPc
         /\ \A c \in Stoppers : pc'[c] \in StopPc \union EndPc
BY DEF Goto, IInv, TypeOK, Commands, StageIsDaemon

\* The next part of a stop's plan, or its end.
LEMMA StopAdvances ==
  ASSUME IInv, NEW t \in Stoppers, NEW left \in [Sockets -> Pids \union {NoPid, Stale}],
         Advance(t, left), UNCHANGED stage
  PROVE  /\ StageIsDaemon'
         /\ pc' \in [Commands -> StartPc \union StopPc \union EndPc]
         /\ \A c \in Starters : pc'[c] \in StartPc \union EndPc
         /\ \A c \in Stoppers : pc'[c] \in StopPc \union EndPc
         /\ step' \in [Stoppers -> 1..Len(StopPlan)]
         /\ sock' \in [Sockets -> Pids \union {NoPid, Stale}]
         /\ last' \in {"none", "start", "stop"} /\ stray' \in BOOLEAN
<1>1. {"enter", "ok"} \subseteq StopPc \union EndPc
  BY DEF StopPc, EndPc
<1>2. step[t] \in 1..8 /\ step \in [Stoppers -> 1..8] /\ last \in {"none", "start", "stop"}
  BY PlanTypes DEF IInv, TypeOK
<1>3. CASE step[t] < Len(StopPlan)
  <2>1. Goto(t, "enter") /\ step' = [step EXCEPT ![t] = @ + 1] /\ sock' = left
        /\ UNCHANGED <<last, stray>>
    BY <1>3 DEF Advance
  <2>2. step' \in [Stoppers -> 1..8]
    BY <1>2, <1>3, <2>1, PlanTypes
  <2>3. stray' \in BOOLEAN
    BY <2>1 DEF IInv, TypeOK
  <2>. QED BY <1>1, <1>2, <2>1, <2>2, <2>3, PlanTypes, StopGoes
<1>4. CASE ~(step[t] < Len(StopPlan))
  <2>1. /\ Goto(t, "ok") /\ last' = (IF t \in Starters THEN "start" ELSE "stop")
        /\ sock' = [s \in Sockets |-> NoPid] /\ UNCHANGED step /\ stray' = FALSE
    BY <1>4 DEF Advance, Finish
  <2>. QED BY <1>1, <1>2, <2>1, PlanTypes, StopGoes
<1>. QED BY <1>3, <1>4

\* What a stop signals next is of one of the kinds its plan names.
LEMMA TargetOwned ==
  ASSUME IInv, NEW t \in Stoppers
  PROVE  Target(t)[2] \in Owned
BY PlanTypes DEF Target, IInv, TypeOK

\* What is still alive of what a stop holds is ACHost's, and a process.
LEMMA StillHeld ==
  ASSUME IInv, NEW t \in Stoppers
  PROVE  \A p \in {q \in hold[t] : Alive(q)} :
            p \in Pids /\ proc[p].kind \in Owned /\ proc[p].kind # "none"
BY DEF IInv, TypeOK, KnownKind, HeldAreOurs, Alive, Process, Owned, Daemons

\* The end of a wait: SIGKILL to what is left of it.
LEMMA WaitEnds ==
  ASSUME IInv, NEW t \in Stoppers, NEW kill, kill = {p \in hold[t] : Alive(p)},
         proc' = Ended(kill), struck' = struck \union {proc[p].kind : p \in kill},
         hold' = [hold EXCEPT ![t] = {}]
  PROVE  /\ proc' \in [Pids -> Process] /\ KnownKind' /\ HeldAreOurs'
         /\ (struck \subseteq Owned)' /\ hold' \in [Stoppers -> SUBSET Pids]
         /\ Abandoned(kill) \in [Sockets -> Pids \union {NoPid, Stale}]
<1>1. kill \in SUBSET Pids /\ \A p \in kill : proc[p].kind \in Owned /\ proc[p].kind # "none"
  BY StillHeld
<1>2. proc' \in [Pids -> Process] /\ KnownKind' /\ NoNewForeign
  BY <1>1, SomeEnd
<1>3. struck' \subseteq Owned
  BY <1>1 DEF IInv
<1>4. hold' \in [Stoppers -> SUBSET Pids] /\ \A u \in Stoppers : hold'[u] \subseteq hold[u]
  BY DEF IInv, TypeOK
<1>5. HeldAreOurs'
  BY <1>2, <1>4 DEF IInv, TypeOK, HeldAreOurs, NoNewForeign
<1>6. Abandoned(kill) \in [Sockets -> Pids \union {NoPid, Stale}]
  BY DEF Abandoned, IInv, TypeOK
<1>. QED BY <1>2, <1>3, <1>4, <1>5, <1>6

\* SIGTERM to processes of the kind that is meant.
LEMMA TermSent ==
  ASSUME IInv, NEW t \in Stoppers, NEW k \in Owned, NEW found \in SUBSET Pids,
         \A p \in found : proc[p].kind = k,
         proc' = [p \in Pids |-> IF p \in found THEN [proc[p] EXCEPT !.term = TRUE] ELSE proc[p]],
         hold' = [hold EXCEPT ![t] = found]
  PROVE  /\ proc' \in [Pids -> Process] /\ KnownKind' /\ HeldAreOurs'
         /\ hold' \in [Stoppers -> SUBSET Pids]
<1>1. /\ proc' \in [Pids -> Process]
      /\ \A p \in Pids : proc'[p].kind = proc[p].kind /\ proc'[p].st = proc[p].st
  <2>1. ASSUME NEW r \in Process
        PROVE  /\ [r EXCEPT !.term = TRUE] \in Process
               /\ [r EXCEPT !.term = TRUE].kind = r.kind /\ [r EXCEPT !.term = TRUE].st = r.st
    BY DEF Process
  <2>2. proc \in [Pids -> Process]
    BY DEF IInv, TypeOK
  <2>. QED BY <2>1, <2>2
<1>2. KnownKind'
  BY <1>1 DEF IInv, KnownKind
<1>3. hold' \in [Stoppers -> SUBSET Pids]
  BY DEF IInv, TypeOK
<1>4. k # "foreign"
  BY DEF Owned, Daemons
<1>5. HeldAreOurs'
  BY <1>1, <1>3, <1>4 DEF IInv, TypeOK, HeldAreOurs
<1>. QED BY <1>1, <1>2, <1>3, <1>5

\* SIGTERM to the one process a pid file names.
LEMMA TermSentTo ==
  ASSUME IInv, NEW t \in Stoppers, NEW p \in Pids, proc[p].kind \in Owned,
         proc' = [q \in Pids |-> IF q \in {p} THEN [proc[q] EXCEPT !.term = TRUE] ELSE proc[q]],
         hold' = [hold EXCEPT ![t] = {p}]
  PROVE  /\ proc' \in [Pids -> Process] /\ KnownKind' /\ HeldAreOurs'
         /\ hold' \in [Stoppers -> SUBSET Pids]
<1>. DEFINE k     == proc[p].kind
            found == {p}
<1>1. /\ k \in Owned /\ found \in SUBSET Pids
      /\ \A q \in found : proc[q].kind = k
  OBVIOUS
<1>2. /\ proc' = [q \in Pids |-> IF q \in found THEN [proc[q] EXCEPT !.term = TRUE] ELSE proc[q]]
      /\ hold' = [hold EXCEPT ![t] = found]
  OBVIOUS
<1>. HIDE DEF k, found
<1>. QED BY <1>1, <1>2, TermSent

LEMMA StopKeeps ==
  ASSUME IInv, NEW t \in Stoppers, StopBegin(t) \/ StopStep(t)
  PROVE  IInv'
<1>1. /\ TypeOK /\ StageIsDaemon /\ KnownKind /\ HeldAreOurs /\ struck \subseteq Owned
      /\ sock \in [Sockets -> Pids \union {NoPid, Stale}]
  BY DEF IInv, TypeOK
<1>2. "wait" \in StopPc
  BY DEF StopPc
<1>3. ASSUME NEW f PROVE [pidf EXCEPT ![f] = NoPid] \in [PidNames -> Pids \union {NoPid}]
  BY DEF IInv, TypeOK
<1>4. CASE StopBegin(t)
  <2>1. "enter" \in StopPc
    BY DEF StopPc
  <2>. QED BY <1>1, <1>4, <2>1, StopGoes
     DEF StopBegin, IInv, TypeOK, KnownKind, HeldAreOurs, StageIsDaemon, Keep, run
<1>5. CASE StopPidFile(t)
  <2> DEFINE f == Target(t)[1]
             p == pidf[f]
  <2>1. CASE Alive(p) /\ Uses(p, Target(t)[2])
    <3>1. p \in Pids /\ proc[p].kind = Target(t)[2] /\ Target(t)[2] \in Owned
      BY <2>1, TargetOwned DEF Alive, Uses
    <3>2. proc' = [q \in Pids |-> IF q \in {p} THEN [proc[q] EXCEPT !.term = TRUE] ELSE proc[q]]
      BY <1>1, <1>5, <2>1, <3>1 DEF StopPidFile, TypeOK
    <3>3. /\ hold' = [hold EXCEPT ![t] = {p}] /\ struck' = struck \union {proc[p].kind}
          /\ Goto(t, "wait") /\ UNCHANGED <<pidf, sock, step, last, stage, stray, rebooted, watched>>
      BY <1>5, <2>1 DEF StopPidFile, run
    <3>4. /\ proc' \in [Pids -> Process] /\ KnownKind' /\ HeldAreOurs'
          /\ hold' \in [Stoppers -> SUBSET Pids]
      <4>. HIDE DEF p
      <4>. QED BY <3>1, <3>2, <3>3, TermSentTo
    <3>5. (struck \subseteq Owned)'
      BY <1>1, <3>1, <3>3
    <3>. QED BY <1>1, <3>3, <3>4, <3>5, <1>2, StopGoes DEF IInv, TypeOK
  <2>2. CASE ~(Alive(p) /\ Uses(p, Target(t)[2]))
    <3>1. /\ pidf' = [pidf EXCEPT ![f] = NoPid]
          /\ Advance(t, sock) /\ UNCHANGED <<proc, hold, struck, stage, rebooted, watched>>
      BY <1>5, <2>2 DEF StopPidFile
    <3>2. pidf' \in [PidNames -> Pids \union {NoPid}]
      BY <1>3, <3>1
    <3>3. HeldAreOurs' /\ KnownKind'
      BY <1>1, <3>1 DEF HeldAreOurs, KnownKind
    <3>. QED BY <1>1, <3>1, <3>2, <3>3, StopAdvances DEF IInv, TypeOK
  <2>. QED BY <2>1, <2>2
<1>6. CASE StopScan(t)
  <2> DEFINE k == Target(t)[2]
             found == {p \in Pids : Uses(p, k)}
  <2>1. CASE found = {}
    <3>1. Advance(t, sock) /\ UNCHANGED <<proc, hold, struck, pidf, stage, rebooted, watched>>
      BY <1>6, <2>1 DEF StopScan
    <3>2. HeldAreOurs' /\ KnownKind'
      BY <1>1, <3>1 DEF HeldAreOurs, KnownKind
    <3>. QED BY <1>1, <3>1, <3>2, StopAdvances DEF IInv, TypeOK
  <2>2. CASE found # {}
    <3>1. /\ proc' = [p \in Pids |-> IF p \in found THEN [proc[p] EXCEPT !.term = TRUE] ELSE proc[p]]
          /\ hold' = [hold EXCEPT ![t] = found]
          /\ struck' = struck \union {k}
          /\ Goto(t, "wait") /\ UNCHANGED <<sock, step, last, pidf, stage, stray, rebooted, watched>>
      BY <1>6, <2>2 DEF StopScan
    <3>2. k \in Owned /\ \A p \in found : proc[p].kind = k
      BY TargetOwned DEF Uses
    <3>3. /\ proc' \in [Pids -> Process] /\ KnownKind' /\ HeldAreOurs'
          /\ hold' \in [Stoppers -> SUBSET Pids]
      BY <3>1, <3>2, TermSent
    <3>4. (struck \subseteq Owned)'
      BY <1>1, <3>1, <3>2
    <3>. QED BY <1>1, <3>1, <3>3, <3>4, <1>2, StopGoes DEF IInv, TypeOK
  <2>. QED BY <2>1, <2>2
<1>7. CASE StopWait(t) \/ StopScanKill(t)
  <2> DEFINE kill == {p \in hold[t] : Alive(p)}
  <2>1. /\ proc' = Ended(kill) /\ struck' = struck \union {proc[p].kind : p \in kill}
        /\ hold' = [hold EXCEPT ![t] = {}] /\ Advance(t, Abandoned(kill))
        /\ UNCHANGED <<stage, rebooted, watched>>
    BY <1>7 DEF StopWait, StopScanKill
  <2>2. pidf' \in [PidNames -> Pids \union {NoPid}]
    BY <1>1, <1>3, <1>7 DEF StopWait, StopScanKill, TypeOK
  <2>. HIDE DEF kill
  <2>3. /\ proc' \in [Pids -> Process] /\ KnownKind' /\ HeldAreOurs'
        /\ (struck \subseteq Owned)' /\ hold' \in [Stoppers -> SUBSET Pids]
        /\ Abandoned(kill) \in [Sockets -> Pids \union {NoPid, Stale}]
    BY <2>1, WaitEnds DEF kill
  <2>. QED BY <1>1, <2>1, <2>2, <2>3, StopAdvances DEF IInv, TypeOK
<1>. QED BY <1>4, <1>5, <1>6, <1>7 DEF StopStep

-----------------------------------------------------------------------------
(* The steps of the processes and of the phone.                            *)

\* A step of a process leaves the commands alone.
LEMMA ProcessKeeps ==
  ASSUME IInv, UNCHANGED <<cmd, hold, struck>>,
         proc' \in [Pids -> Process], KnownKind', NoNewForeign,
         pidf' \in [PidNames -> Pids \union {NoPid}],
         sock' \in [Sockets -> Pids \union {NoPid, Stale}],
         rebooted' \in BOOLEAN, watched' \in BOOLEAN
  PROVE  IInv'
<1>1. HeldAreOurs' /\ (struck \subseteq Owned)'
  BY ProcessFrame
<1>2. StageIsDaemon'
  BY DEF IInv, StageIsDaemon, cmd
<1>. QED BY <1>1, <1>2 DEF IInv, TypeOK, cmd

\* A process that exists changes its stage or its parent.
LEMMA StageMoves ==
  ASSUME IInv, NEW p \in Pids, proc[p].kind # "none", NEW st \in Stages,
         proc' = [proc EXCEPT ![p].st = st]
  PROVE  proc' \in [Pids -> Process] /\ KnownKind' /\ NoNewForeign
<1>1. proc \in [Pids -> Process]
  BY DEF IInv, TypeOK
<1>2. ASSUME NEW r \in Process
      PROVE  [r EXCEPT !.st = st] \in Process /\ [r EXCEPT !.st = st].kind = r.kind
  BY DEF Process
<1>3. proc' \in [Pids -> Process] /\ \A q \in Pids : proc'[q].kind = proc[q].kind
  BY <1>1, <1>2
<1>4. KnownKind'
  BY <1>1, <1>3 DEF IInv, KnownKind
<1>. QED BY <1>3, <1>4 DEF NoNewForeign

LEMMA DaemonsKeep ==
  ASSUME IInv, NEW p \in Pids, ProcessStep(p) \/ DaemonCrash(p)
  PROVE  IInv'
<1>1. /\ proc \in [Pids -> Process] /\ pidf \in [PidNames -> Pids \union {NoPid}]
      /\ sock \in [Sockets -> Pids \union {NoPid, Stale}]
      /\ rebooted \in BOOLEAN /\ watched \in BOOLEAN
  BY DEF IInv, TypeOK
<1>2. {"boot", "bound", "up", "leaving"} \subseteq Stages
  BY DEF Stages
<1>3. ASSUME proc[p].kind # "none", proc' = Ended({p})
      PROVE  proc' \in [Pids -> Process] /\ KnownKind' /\ NoNewForeign
  BY <1>3, SomeEnd
<1>4. CASE ServerBind(p) \/ ServerWritePid(p) \/ ServerLeave(p)
  <2>1. PICK st \in Stages : proc' = [proc EXCEPT ![p].st = st]
    BY <1>2, <1>4 DEF ServerBind, ServerWritePid, ServerLeave
  <2>2. proc[p].kind # "none"
    BY <1>4 DEF ServerBind, ServerWritePid, ServerLeave
  <2>3. proc' \in [Pids -> Process] /\ KnownKind' /\ NoNewForeign
    BY <2>1, <2>2, StageMoves
  <2>. QED BY <1>1, <1>4, <2>3, ProcessKeeps DEF ServerBind, ServerWritePid, ServerLeave
<1>5. CASE ServerReap(p)
  <2>1. Free \in Process /\ Free.kind = "none" /\ Free.st = "free"
    BY DEF Free, Process, Stages
  <2>2. proc' = [q \in Pids |-> IF proc[q].parent = p /\ proc[q].st = "zombie" THEN Free ELSE proc[q]]
    BY <1>5 DEF ServerReap
  <2>3. proc' \in [Pids -> Process] /\ \A q \in Pids : proc'[q] = Free \/ proc'[q] = proc[q]
    BY <1>1, <2>1, <2>2
  <2>4. KnownKind' /\ NoNewForeign
    BY <2>1, <2>3 DEF IInv, KnownKind, NoNewForeign
  <2>. QED BY <1>1, <1>5, <2>3, <2>4, ProcessKeeps DEF ServerReap, run
<1>6. CASE ServerGone(p)
  <2>1. proc' \in [Pids -> Process] /\ KnownKind' /\ NoNewForeign
    BY <1>3, <1>6 DEF ServerGone
  <2>. QED BY <1>1, <1>6, <2>1, ProcessKeeps DEF ServerGone
<1>7. CASE DogJudge(p)
  <2>1. proc' \in [Pids -> Process] /\ KnownKind' /\ NoNewForeign
    BY <1>2, <1>3, <1>7, StageMoves DEF DogJudge
  <2>. QED BY <1>1, <1>7, <2>1, ProcessKeeps DEF DogJudge, run
<1>8. CASE DogWrite(p)
  <2>1. proc' \in [Pids -> Process] /\ KnownKind' /\ NoNewForeign
    BY <1>2, <1>8, StageMoves DEF DogWrite
  <2>. QED BY <1>1, <1>8, <2>1, ProcessKeeps DEF DogWrite
<1>9. CASE DogTerm(p)
  <2>1. proc' \in [Pids -> Process] /\ KnownKind' /\ NoNewForeign
    BY <1>3, <1>9 DEF DogTerm
  <2>. QED BY <1>1, <1>9, <2>1, ProcessKeeps DEF DogTerm
<1>10. CASE DaemonExec(p)
  <2>1. proc' \in [Pids -> Process] /\ KnownKind' /\ NoNewForeign
    BY <1>2, <1>10, StageMoves DEF DaemonExec, Daemons
  <2>. QED BY <1>1, <1>10, <2>1, ProcessKeeps DEF DaemonExec, run
<1>11. CASE CtdServe(p)
  <2>1. proc' \in [Pids -> Process] /\ KnownKind' /\ NoNewForeign
    BY <1>2, <1>11, StageMoves DEF CtdServe
  <2>. QED BY <1>1, <1>11, <2>1, ProcessKeeps DEF CtdServe
<1>12. CASE DkdWritePid(p)
  <2>1. proc' \in [Pids -> Process] /\ KnownKind' /\ NoNewForeign
    BY <1>2, <1>3, <1>12, StageMoves DEF DkdWritePid
  <2>. QED BY <1>1, <1>12, <2>1, ProcessKeeps DEF DkdWritePid
<1>13. ASSUME proc[p].kind # "none", Cleanup(p)
       PROVE  /\ proc' \in [Pids -> Process] /\ KnownKind' /\ NoNewForeign
              /\ pidf' \in [PidNames -> Pids \union {NoPid}]
              /\ sock' \in [Sockets -> Pids \union {NoPid, Stale}]
  BY <1>1, <1>3, <1>13 DEF Cleanup
<1>14. CASE DkdServe(p)
  <2>1. CASE Answers("ctd")
    <3>1. proc' \in [Pids -> Process] /\ KnownKind' /\ NoNewForeign
      BY <1>2, <1>14, <2>1, StageMoves DEF DkdServe
    <3>. QED BY <1>1, <1>14, <2>1, <3>1, ProcessKeeps DEF DkdServe
  <2>2. CASE ~Answers("ctd")
    BY <1>1, <1>13, <1>14, <2>2, ProcessKeeps DEF DkdServe
  <2>. QED BY <2>1, <2>2
<1>15. CASE DaemonTerm(p)
  BY <1>1, <1>13, <1>15, ProcessKeeps DEF DaemonTerm, Daemons
<1>16. CASE DaemonCrash(p)
  <2>1. proc' \in [Pids -> Process] /\ KnownKind' /\ NoNewForeign
    BY <1>3, <1>16 DEF DaemonCrash, Daemons
  <2>2. sock' \in [Sockets -> Pids \union {NoPid, Stale}]
    BY <1>1, <1>16 DEF DaemonCrash, Abandoned
  <2>. QED BY <1>1, <1>16, <2>1, <2>2, ProcessKeeps DEF DaemonCrash
<1>. QED BY <1>4, <1>5, <1>6, <1>7, <1>8, <1>9, <1>10, <1>11, <1>12, <1>14, <1>15, <1>16
         DEF ProcessStep

LEMMA PhoneKeeps ==
  ASSUME IInv, Reboot \/ BootWatchdog \/ \E p \in Pids : ForeignStart(p)
  PROVE  IInv'
<1>1. /\ proc \in [Pids -> Process] /\ pidf \in [PidNames -> Pids \union {NoPid}]
      /\ sock \in [Sockets -> Pids \union {NoPid, Stale}]
      /\ rebooted \in BOOLEAN /\ watched \in BOOLEAN
  BY DEF IInv, TypeOK
<1>2. {"boot", "up"} \subseteq Stages
  BY DEF Stages
<1>3. CASE BootWatchdog
  <2>1. PICK p \in Pids : proc' = [proc EXCEPT ![p] = Fresh("dog", "boot", NoPid)]
    BY <1>3 DEF BootWatchdog, SpawnDog
  <2>2. /\ Fresh("dog", "boot", NoPid) \in Process /\ Fresh("dog", "boot", NoPid).kind = "dog"
        /\ "dog" \in Owned
    BY <1>2, FreshTypes DEF Owned
  <2>3. proc' \in [Pids -> Process] /\ KnownKind' /\ NoNewForeign
    BY <2>1, <2>2, OneProcess
  <2>. QED BY <1>1, <1>3, <2>3, ProcessKeeps DEF BootWatchdog, run
<1>4. ASSUME NEW p \in Pids, ForeignStart(p) PROVE IInv'
  <2>1. Fresh("foreign", "up", NoPid) \in Process /\ Fresh("foreign", "up", NoPid).kind = "foreign"
    BY <1>2, FreshTypes
  <2>2. proc' = [proc EXCEPT ![p] = Fresh("foreign", "up", NoPid)]
        /\ \A t \in Stoppers : p \notin hold[t]
    BY <1>4 DEF ForeignStart
  <2>3. /\ proc' \in [Pids -> Process]
        /\ \A q \in Pids : q # p => proc'[q] = proc[q]
        /\ proc'[p].kind = "foreign"
    BY <1>1, <2>1, <2>2
  <2>4. KnownKind'
    BY <2>3 DEF IInv, KnownKind
  <2>5. UNCHANGED <<run, cmd, hold, struck, rebooted, watched>>
    BY <1>4 DEF ForeignStart
  <2>6. HeldAreOurs'
    BY <2>2, <2>3, <2>5 DEF IInv, TypeOK, HeldAreOurs
  <2>7. StageIsDaemon'
    BY <2>5 DEF IInv, StageIsDaemon, cmd
  <2>. QED BY <2>3, <2>4, <2>5, <2>6, <2>7 DEF IInv, TypeOK, run, cmd
<1>5. CASE Reboot
  <2>1. Free \in Process /\ Free.kind = "none" /\ Free.st = "free"
    BY DEF Free, Process, Stages
  <2>2. /\ proc' = [p \in Pids |-> Free]
        /\ sock' = [s \in Sockets |-> IF sock[s] = NoPid THEN NoPid ELSE Stale]
        /\ pc' = [c \in Commands |-> IF Active(c) THEN "killed" ELSE pc[c]]
        /\ hold' = [t \in Stoppers |-> {}]
        /\ last' = "none" /\ stray' = FALSE /\ watched' = FALSE /\ rebooted' = TRUE
        /\ UNCHANGED <<pidf, stage, step, struck>>
    BY <1>5 DEF Reboot
  <2>3. proc' \in [Pids -> Process] /\ KnownKind'
    BY <2>1, <2>2 DEF KnownKind
  <2>4. HeldAreOurs'
    BY <2>2 DEF HeldAreOurs
  <2>5. /\ pc' \in [Commands -> StartPc \union StopPc \union EndPc]
        /\ \A c \in Starters : pc'[c] \in StartPc \union EndPc
        /\ \A c \in Stoppers : pc'[c] \in StopPc \union EndPc
        /\ \A c \in Commands : pc'[c] = "killed" \/ pc'[c] = pc[c]
    BY <2>2 DEF IInv, TypeOK, Commands, EndPc
  <2>6. StageIsDaemon'
    BY <2>2, <2>5 DEF IInv, StageIsDaemon, Commands
  <2>. QED BY <2>2, <2>3, <2>4, <2>5, <2>6 DEF IInv, TypeOK
<1>. QED BY <1>3, <1>4, <1>5

-----------------------------------------------------------------------------
\* Initially nothing runs.
LEMMA InitIInv == Init => IInv
<1> SUFFICES ASSUME Init PROVE IInv
  OBVIOUS
<1>1. Free \in Process /\ Free.kind = "none" /\ Free.st = "free"
  BY DEF Free, Process, Stages
<1>2. proc \in [Pids -> Process] /\ KnownKind /\ HeldAreOurs /\ StageIsDaemon
  BY <1>1 DEF Init, KnownKind, HeldAreOurs, StageIsDaemon, Commands
<1>3. step \in [Stoppers -> 1..Len(StopPlan)]
  BY PlanTypes DEF Init
<1>. QED BY <1>2, <1>3 DEF Init, IInv, TypeOK, Commands, EndPc

\* Every step keeps the invariant.
LEMMA NextIInv == IInv /\ [Next]_vars => IInv'
<1> SUFFICES ASSUME IInv, [Next]_vars PROVE IInv'
  OBVIOUS
<1>1. CASE \E s \in Starters : StartBegin(s) \/ StartStep(s) \/ Interrupt(s)
  BY <1>1, StartKeeps
<1>2. CASE \E t \in Stoppers : StopBegin(t) \/ StopStep(t)
  BY <1>2, StopKeeps
<1>3. CASE \E p \in Pids : ProcessStep(p) \/ DaemonCrash(p)
  BY <1>3, DaemonsKeep
<1>4. CASE Reboot \/ BootWatchdog \/ \E p \in Pids : ForeignStart(p)
  BY <1>4, PhoneKeeps
<1>5. CASE UNCHANGED vars
  BY <1>5 DEF vars, IInv, TypeOK, StageIsDaemon, KnownKind, HeldAreOurs
<1>. QED BY <1>1, <1>2, <1>3, <1>4, <1>5 DEF Next

LEMMA SpecIInv == Spec => []IInv
<1>. QED BY InitIInv, NextIInv, PTL DEF Spec

\* The types of the process table, the files and the commands, for every
\* interleaving of starts, stops, daemons, crashes and the reboot.
THEOREM TypeCorrect == Spec => []TypeOK
<1>1. IInv => TypeOK
  BY DEF IInv
<1>. QED BY <1>1, SpecIInv, PTL

\* No stop ever signals a process that is not ACHost's, whatever pid files
\* an earlier boot left and whoever has those pids by now.
THEOREM StopsSpareForeign == Spec => []StopSparesForeign
<1>1. IInv => StopSparesForeign
  BY DEF IInv, StopSparesForeign, Owned, Daemons
<1>. QED BY <1>1, SpecIInv, PTL
=============================================================================
