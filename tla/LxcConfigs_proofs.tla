-------------------------- MODULE LxcConfigs_proofs --------------------------
(***************************************************************************)
(* Proofs about what the commands of achost-lxc-runtime write into a       *)
(* container's config, about the autostart at boot, and that they          *)
(* implement ContainerLife, for every set of commands, containers and      *)
(* pids, and any number of killed commands.                                *)
(***************************************************************************)
EXTENDS LxcContainers_proofs

\* Nobody has emptied the config without having written it again.
Steady(n) == \A c \in Writers(n) : pc[c] # "write"

\* Commands that start the container and have written its address.
Past(n) == {c \in Cmds : at[c] = n /\ pc[c] \in {"guest", "info", "bridge", "launch"}}

\* What a command has in hand of a config is what the config said, and what
\* it will say but for the setting the command is about.
Kept(n) ==
  /\ \A c, d \in Writers(n) : c = d
  /\ n \notin touched =>
       /\ \A c \in Writers(n) :
            /\ Exists(n) /\ dir[n].rootfs = {buf[c].of} /\ buf[c].auto = want[n]
            /\ pc[c] = "write" => c \in held /\ dir[n].config = Empty
            /\ Past(n) # {} => buf[c].net
       /\ Exists(n) /\ Steady(n) =>
            /\ dir[n].rootfs = {dir[n].config.of} /\ dir[n].config.auto = want[n]
            /\ Past(n) # {} => dir[n].config.net

AllKept == \A n \in Names \ raced : Kept(n)

\* An autostart accounts for every container it was to start: it still has
\* to look at it, or has it chosen, or starts it now, or counted a failure.
Starting == {"validate", "read", "truncate", "write", "guest", "info", "bridge", "launch", "await"}
Accounts(c) ==
  /\ pc[c] \in {"list", "statuses", "next"} \union Starting \union EndPc
  /\ \A n \in owed[c] : inst[n] # "RUNNING"
  /\ pc[c] = "list" => owed[c] = {}
  /\ pc[c] = "statuses" => \A n \in owed[c] :
       HasConfig(n) /\ dir[n].config.auto /\ n \in names[c] \union chosen[c]
  /\ pc[c] = "next" => owed[c] \subseteq chosen[c] \/ failures[c]
  /\ pc[c] \in Starting => owed[c] \subseteq chosen[c] \union {at[c]} \/ failures[c]
  /\ pc[c] = "ok" => owed[c] = {}

AllAccounted == \A c \in Cmds : op[c] = "autostart" => Accounts(c)

-----------------------------------------------------------------------------
(* Rewriting a config keeps what is not rewritten.                         *)

USE DEF disk, self, auto, hist

\* A name nobody touches, apart from commands that leave it alone.
LEMMA FrameKept ==
  ASSUME NEW n, Kept(n), dir'[n] = dir[n], want'[n] = want[n], n \in touched => n \in touched',
         \A d \in Writers(n)' : /\ d \in Writers(n) /\ pc'[d] = pc[d] /\ buf'[d] = buf[d]
                                /\ d \in held => d \in held' \/ n \in touched',
         \A d \in Writers(n) : pc[d] = "write" => d \in Writers(n)' /\ pc'[d] = "write",
         Past(n)' # {} => Past(n) # {}
  PROVE  Kept(n)'
<1>1. \A c, d \in Writers(n)' : c = d
  BY DEF Kept
<1>2. ASSUME n \notin touched', NEW c \in Writers(n)'
      PROVE  /\ Exists(n)' /\ dir'[n].rootfs = {buf'[c].of} /\ buf'[c].auto = want'[n]
             /\ pc'[c] = "write" => c \in held' /\ dir'[n].config = Empty
             /\ Past(n)' # {} => buf'[c].net
  BY <1>2 DEF Kept, Exists
<1>3. ASSUME n \notin touched', Exists(n)', Steady(n)'
      PROVE  /\ dir'[n].rootfs = {dir'[n].config.of} /\ dir'[n].config.auto = want'[n]
             /\ Past(n)' # {} => dir'[n].config.net
  <2>1. Exists(n) /\ Steady(n)
    BY <1>3 DEF Exists, Steady
  <2>. QED BY <1>3, <2>1 DEF Kept
<1>. QED BY <1>1, <1>2, <1>3 DEF Kept

\* A container whose removal has begun.
LEMMA TouchedKept ==
  ASSUME NEW n, Kept(n), n \in touched', \A d \in Writers(n)' : d \in Writers(n)
  PROVE  Kept(n)'
BY DEF Kept

\* What a step of c changes at most when it is none of those that read or
\* write a config: the directories of touched containers, and c itself,
\* which does not go on to one of those either.
Bystander(c) ==
  /\ UNCHANGED <<buf, want, raced>>
  /\ pc[c] # "write"
  /\ \A d \in Cmds \ {c} : pc'[d] = pc[d] /\ at'[d] = at[d]
  /\ pc'[c] \notin {"truncate", "write"}
  /\ pc'[c] \in {"guest", "info", "bridge", "launch"} =>
       at'[c] = at[c] /\ pc[c] \in {"guest", "info", "bridge", "launch"}
  /\ \A n \in Names : n \in touched => n \in touched'
  /\ \A n \in Names : dir'[n] = dir[n] \/ n \in touched'
  /\ \A d \in held : d \in held' \/ at[d] \in touched' \/ d = c

LEMMA BystanderKeeps ==
  ASSUME TypeOK, AllKept, NEW c \in Cmds, Bystander(c)
  PROVE  AllKept'
<1>. SUFFICES ASSUME NEW n \in Names, n \notin raced PROVE Kept(n)'
  BY DEF AllKept, Bystander
<1>1. Kept(n)
  BY DEF AllKept
<1>2. \A d \in Writers(n)' : d \in Writers(n) /\ d # c /\ pc'[d] = pc[d] /\ at[d] = n
  BY DEF Writers, Bystander
<1>3. CASE n \in touched'
  BY <1>1, <1>2, <1>3, TouchedKept
<1>4. CASE n \notin touched'
  <2>1. dir'[n] = dir[n] /\ want'[n] = want[n] /\ (n \in touched => n \in touched')
    BY <1>4 DEF Bystander
  <2>2. \A d \in Writers(n)' : buf'[d] = buf[d] /\ (d \in held => d \in held' \/ n \in touched')
    BY <1>2 DEF Bystander
  <2>3. \A d \in Writers(n) : pc[d] = "write" => d \in Writers(n)' /\ pc'[d] = "write"
    BY DEF Writers, Bystander
  <2>4. Past(n)' # {} => Past(n) # {}
    <3>1. ASSUME NEW d \in Past(n)' PROVE d \in Past(n)
      BY <3>1 DEF Past, Bystander
    <3>. QED BY <3>1
  <2>. QED BY <1>1, <1>2, <2>1, <2>2, <2>3, <2>4, FrameKept
<1>. QED BY <1>3, <1>4

LEMMA BystanderSteps ==
  ASSUME TypeOK, OwnTemp, HeldIsThere, WorkedOn, OneWholeImport, NEW c \in Cmds,
         \/ ImportRefused(c) \/ ImportBegin(c) \/ Extract(c) \/ Discard(c)
         \/ Validate(c) \/ StartStep(c) \/ StopStep(c) \/ DestroyStep(c) \/ AutostartStep(c)
  PROVE  Bystander(c)
<1>0. pc \in [Cmds -> Pc] /\ at \in [Cmds -> Names] /\ held \subseteq Cmds
      /\ dir \in [Names -> Tree \union {None}] /\ chosen[c] \subseteq Names
  BY DEF TypeOK
<1> HIDE DEF TypeOK
<1> USE DEF EndPc
<1>1. CASE ImportRefused(c) \/ ImportBegin(c) \/ Extract(c) \/ Discard(c)
  <2>1. /\ UNCHANGED <<dir, touched, held, at, buf, want, raced>>
        /\ pc[c] \in {"import", "extract", "discard"}
    BY <1>1 DEF ImportRefused, ImportBegin, Extract, Discard
  <2>2. \E l \in {"failed", "extract", "install", "discard"} : Goto(c, l)
    BY <1>1 DEF ImportRefused, ImportBegin, Extract, Discard
  <2> QED BY <1>0, <2>1, <2>2 DEF Bystander, Goto
<1>2. CASE Validate(c)
  <2>1. UNCHANGED <<dir, touched, held, at, buf, want, raced>> /\ pc[c] = "validate"
    BY <1>2 DEF Validate
  <2>2. \/ \E ok : Return(c, ok)
        \/ \E l \in {"stopped", "status", "read"} : Goto(c, l)
    BY <1>2 DEF Validate
  <2> QED BY <1>0, <2>1, <2>2, ReturnMoves DEF Bystander, Goto
<1>3. CASE Guest(c)
  <2>1. /\ UNCHANGED <<touched, held, at, buf, want, raced>> /\ pc[c] = "guest" /\ Goto(c, "info")
        /\ \A n \in Names \ {at[c]} : dir'[n] = dir[n]
    BY <1>0, <1>3 DEF Guest
  <2>2. dir'[at[c]] = dir[at[c]] \/ at[c] \in touched
    <3>. SUFFICES ASSUME at[c] \notin touched PROVE dir'[at[c]] = dir[at[c]]
      OBVIOUS
    <3>1. Exists(at[c])
      BY <2>1 DEF WorkedOn
    <3>2. dir[at[c]].rootfs # None
      <4>1. PICK o \in Origins : dir[at[c]].rootfs = {o}
        BY <1>0, <3>1 DEF OneWholeImport
      <4>. QED BY <4>1, NoneAssumption
    <3>. QED BY <1>0, <1>3, <3>1, <3>2 DEF Guest
  <2> QED BY <1>0, <2>1, <2>2 DEF Bystander, Goto
<1>4. CASE Info(c) \/ Bridge(c) \/ Launch(c) \/ Await(c)
  <2>1. /\ UNCHANGED <<dir, touched, held, at, buf, want, raced>>
        /\ pc[c] \in {"info", "bridge", "launch", "await"}
    BY <1>4 DEF Info, Bridge, Launch, Await
  <2>2. \/ \E ok : Return(c, ok)
        \/ pc[c] \in {"info", "bridge"} /\ \E l \in {"bridge", "launch"} : Goto(c, l)
        \/ After(c, "await")
    BY <1>4 DEF Info, Bridge, Launch, Await
  <2> QED BY <1>0, <2>1, <2>2, ReturnMoves, AfterMoves DEF Bystander, Goto
<1>5. CASE StopStep(c) \/ Status(c) \/ Stop(c)
  <2>1. /\ UNCHANGED <<dir, touched, held, at, buf, want, raced>>
        /\ pc[c] \in {"stopped", "halt", "halted", "down", "status", "stop"}
    BY <1>5 DEF StopStep, Stopped, Halt, Down, Status, Stop
  <2>2. \/ \E ok : Return(c, ok)
        \/ \E l \in {"halt", "stop", "lxc-destroy", "stopped"} : Goto(c, l)
        \/ After(c, "halted") \/ After(c, "down")
    BY <1>5 DEF StopStep, Stopped, Halt, Down, Status, Stop
  <2> QED BY <1>0, <2>1, <2>2, ReturnMoves, AfterMoves DEF Bystander, Goto
<1>6. CASE LxcDestroy(c) \/ RemoveBegin(c) \/ RemoveEntry(c) \/ RemoveDir(c)
  <2>1. UNCHANGED <<at, buf, want, raced>> /\ pc[c] \in {"lxc-destroy", "exists", "remove"}
    BY <1>6 DEF LxcDestroy, RemoveBegin, RemoveEntry, RemoveDir
  <2>2. \E l \in {"exists", "killed", "remove", "ok", "failed"} : pc' = [pc EXCEPT ![c] = l]
    BY <1>0, <1>6, AfterMoves DEF LxcDestroy, RemoveBegin, RemoveEntry, RemoveDir, Goto
  <2>3. \/ UNCHANGED <<dir, touched>> /\ \A d \in held : d \in held' \/ d = c
        \/ LoseAll(at[c])
        \/ \E es : Lose(at[c], es)
    BY <1>6 DEF LxcDestroy, RemoveBegin, RemoveEntry, RemoveDir
  <2>4. /\ \A n \in Names : n \in touched => n \in touched'
        /\ \A n \in Names : dir'[n] = dir[n] \/ n \in touched'
        /\ \A d \in held : d \in held' \/ at[d] \in touched' \/ d = c
    BY <1>0, <2>3 DEF LoseAll, Lose
  <2> QED BY <1>0, <2>1, <2>2, <2>4 DEF Bystander
<1>7. CASE AutostartStep(c)
  <2>1. /\ UNCHANGED <<dir, touched, held, buf, want, raced>> /\ pc[c] \in {"list", "statuses", "next"}
    BY <1>7 DEF AutostartStep, List, Statuses, NextContainer
  <2>2. UNCHANGED at \/ \E n \in chosen[c] : at' = [at EXCEPT ![c] = n]
    BY <1>7 DEF AutostartStep, List, Statuses, NextContainer
  <2>3. \/ \E l \in {"statuses", "next", "failed", "validate", "ok"} : Goto(c, l)
        \/ UNCHANGED pc
    BY <1>7 DEF AutostartStep, List, Statuses, NextContainer
  <2> QED BY <1>0, <2>1, <2>2, <2>3 DEF Bystander, Goto
<1> QED BY <1>1, <1>2, <1>3, <1>4, <1>5, <1>6, <1>7 DEF StartStep, DestroyStep

\* A step of c on its own container leaves the others alone.
LEMMA ElsewhereKept ==
  ASSUME NEW n \in Names, Kept(n), NEW c \in Cmds, at[c] # n, UNCHANGED at,
         \A d \in Cmds \ {c} : pc'[d] = pc[d] /\ buf'[d] = buf[d],
         dir'[n] = dir[n], want'[n] = want[n], n \in touched => n \in touched',
         \A d \in held : at[d] = n => d \in held'
  PROVE  Kept(n)'
<1>1. \A d \in Writers(n)' : d \in Writers(n) /\ pc'[d] = pc[d] /\ buf'[d] = buf[d] /\ (d \in held => d \in held')
  BY DEF Writers
<1>2. \A d \in Writers(n) : pc[d] = "write" => d \in Writers(n)' /\ pc'[d] = "write"
  BY DEF Writers
<1>3. Past(n)' # {} => Past(n) # {}
  BY DEF Past
<1>. QED BY <1>1, <1>2, <1>3, FrameKept

\* Reading a config next to another writer is a race; alone, what is read
\* is what is there.
LEMMA ReadKeeps ==
  ASSUME TypeOK, AllKept, NEW c \in Cmds, Read(c)
  PROVE  AllKept'
<1>0. pc \in [Cmds -> Pc] /\ at \in [Cmds -> Names] /\ buf \in [Cmds -> Config]
  BY DEF TypeOK
<1> HIDE DEF TypeOK
<1>1. pc[c] = "read" /\ UNCHANGED <<dir, at, held, touched, want>>
  BY DEF Read
<1>2. CASE ~HasConfig(at[c])
  <2>1. UNCHANGED <<buf, raced>> /\ Return(c, FALSE)
    BY <1>2 DEF Read
  <2>2. PICK l \in {"next", "lxc-destroy"} \union EndPc : pc' = [pc EXCEPT ![c] = l]
    BY <2>1, ReturnMoves
  <2>3. Bystander(c)
    BY <1>0, <1>1, <2>1, <2>2 DEF Bystander, EndPc
  <2> QED BY <2>3, BystanderKeeps DEF TypeOK
<1>3. CASE HasConfig(at[c])
  <2>1. /\ buf' = [buf EXCEPT ![c] = dir[at[c]].config] /\ pc' = [pc EXCEPT ![c] = "truncate"]
        /\ raced' = IF Writers(at[c]) # {} THEN raced \union {at[c]} ELSE raced
    BY <1>3 DEF Read, Goto
  <2>. SUFFICES ASSUME NEW n \in Names, n \notin raced' PROVE Kept(n)'
    BY DEF AllKept
  <2>2. Kept(n) /\ (n = at[c] => Writers(n) = {})
    BY <2>1 DEF AllKept
  <2>3. CASE n # at[c]
    BY <1>0, <1>1, <2>1, <2>2, <2>3, ElsewhereKept
  <2>4. CASE n = at[c]
    <3>1. Writers(n)' = {c} /\ buf'[c] = dir[n].config /\ pc'[c] = "truncate" /\ Exists(n) /\ Steady(n)
      BY <1>0, <1>1, <1>3, <2>1, <2>2, <2>4 DEF Writers, Steady, HasConfig
    <3>2. Past(n)' # {} => Past(n) # {}
      BY <1>0, <1>1, <2>1 DEF Past
    <3>. QED BY <1>1, <2>2, <3>1, <3>2 DEF Kept, Exists
  <2> QED BY <2>3, <2>4
<1> QED BY <1>2, <1>3

\* The only writer empties the config it has read.
LEMMA TruncateKeeps ==
  ASSUME TypeOK, AllKept, WorkedOn, NEW c \in Cmds, Truncate(c)
  PROVE  AllKept'
<1>0. /\ pc \in [Cmds -> Pc] /\ at \in [Cmds -> Names] /\ held \subseteq Cmds
      /\ dir \in [Names -> Tree \union {None}]
  BY DEF TypeOK
<1>1. pc[c] = "truncate" /\ UNCHANGED <<buf, at, touched, want, raced>>
  BY DEF Truncate
<1>2. CASE ~Exists(at[c])
  <2>1. UNCHANGED <<dir, held>> /\ Return(c, FALSE)
    BY <1>2 DEF Truncate
  <2>2. PICK l \in {"next", "lxc-destroy"} \union EndPc : pc' = [pc EXCEPT ![c] = l]
    BY <2>1, ReturnMoves
  <2>3. Bystander(c)
    BY <1>0, <1>1, <2>1, <2>2 DEF Bystander, EndPc
  <2> QED BY <2>3, BystanderKeeps
<1>3. CASE Exists(at[c])
  <2>1. /\ dir' = [dir EXCEPT ![at[c]] = [dir[at[c]] EXCEPT !.config = Empty]]
        /\ held' = held \union {c} /\ pc' = [pc EXCEPT ![c] = "write"]
    BY <1>3 DEF Truncate, Goto
  <2>. SUFFICES ASSUME NEW n \in Names, n \notin raced PROVE Kept(n)'
    BY <1>1 DEF AllKept
  <2>2. Kept(n)
    BY DEF AllKept
  <2>3. CASE n # at[c]
    BY <1>0, <1>1, <2>1, <2>2, <2>3, ElsewhereKept
  <2>4. CASE n = at[c]
    <3>1. c \in Writers(n) /\ \A d \in Writers(n) : d = c
      BY <1>1, <2>2, <2>4 DEF Kept, Writers
    <3>2. Writers(n)' = {c} /\ pc'[c] = "write" /\ c \in held' /\ ~Steady(n)'
      BY <1>0, <1>1, <2>1, <2>4, <3>1 DEF Writers, Steady
    <3>3. dir[n] \in Tree
      BY <1>0, <1>3, <2>4 DEF Exists
    <3>4. dir'[n] = [dir[n] EXCEPT !.config = Empty]
      BY <1>0, <2>1, <2>4
    <3>5. dir'[n].config = Empty /\ dir'[n].rootfs = dir[n].rootfs /\ dir'[n] \in Tree
      BY <3>3, <3>4, TreeTypes DEF Tree
    <3>6. Exists(n)'
      BY <3>5, NoneAssumption DEF Exists
    <3>7. Past(n)' # {} => Past(n) # {}
      BY <1>0, <1>1, <2>1 DEF Past
    <3>8. n \notin touched' => /\ dir[n].rootfs = {buf[c].of} /\ buf[c].auto = want[n]
                               /\ Past(n) # {} => buf[c].net
      BY <1>1, <2>2, <3>1 DEF Kept
    <3>. QED BY <1>1, <3>2, <3>5, <3>6, <3>7, <3>8 DEF Kept
  <2> QED BY <2>3, <2>4
<1> QED BY <1>2, <1>3

\* It writes it again, with the one setting changed.
LEMMA WriteKeeps ==
  ASSUME TypeOK, AllKept, HeldIsThere, NEW c \in Cmds, Write(c)
  PROVE  AllKept'
<1>0. /\ pc \in [Cmds -> Pc] /\ at \in [Cmds -> Names] /\ held \subseteq Cmds
      /\ dir \in [Names -> Tree \union {None}] /\ buf \in [Cmds -> Config]
      /\ want \in [Names -> BOOLEAN]
  BY DEF TypeOK
<1>1. /\ pc[c] = "write" /\ UNCHANGED <<at, touched, raced>>
      /\ held' = held \ {c} /\ buf' = [buf EXCEPT ![c] = Empty]
  BY DEF Write
<1>2. \/ op[c] \in {"on", "off"} /\ want' = [want EXCEPT ![at[c]] = op[c] = "on"]
         /\ \E l \in {"next", "lxc-destroy"} \union EndPc : pc' = [pc EXCEPT ![c] = l]
      \/ op[c] \notin {"on", "off"} /\ want' = want /\ pc' = [pc EXCEPT ![c] = "guest"]
  BY ReturnMoves DEF Write, Goto
<1>3. \A n \in Names \ {at[c]} : dir'[n] = dir[n] /\ want'[n] = want[n]
  <2>1. \A n \in Names \ {at[c]} : dir'[n] = dir[n]
    BY <1>0 DEF Write
  <2>. QED BY <1>0, <1>2, <2>1
<1>4. \A d \in Cmds \ {c} : pc'[d] = pc[d] /\ buf'[d] = buf[d]
  BY <1>0, <1>1, <1>2
<1>5. pc'[c] \notin {"truncate", "write"}
  BY <1>0, <1>2 DEF EndPc
<1>. SUFFICES ASSUME NEW n \in Names, n \notin raced PROVE Kept(n)'
  BY <1>1 DEF AllKept
<1>6. Kept(n)
  BY DEF AllKept
<1>7. CASE n # at[c]
  BY <1>0, <1>1, <1>3, <1>4, <1>6, <1>7, ElsewhereKept
<1>8. CASE n = at[c]
  <2>1. c \in Writers(n) /\ \A d \in Writers(n) : d = c
    BY <1>1, <1>6, <1>8 DEF Kept, Writers
  <2>2. Writers(n)' = {}
    BY <1>1, <1>4, <1>5, <2>1 DEF Writers
  <2>3. ASSUME n \notin touched
        PROVE  /\ dir'[n].rootfs = {dir'[n].config.of} /\ dir'[n].config.auto = want'[n]
               /\ Past(n)' # {} => dir'[n].config.net
    <3>1. /\ c \in held /\ dir[n].config = Empty /\ dir[n].rootfs = {buf[c].of} /\ buf[c].auto = want[n]
          /\ Past(n) # {} => buf[c].net
          /\ Exists(n)
      BY <1>1, <1>6, <2>1, <2>3 DEF Kept
    <3>2. dir' = [dir EXCEPT ![n] = [dir[n] EXCEPT !.config = Rewritten(c)]]
      BY <1>8, <3>1 DEF Write
    <3>3. dir[n] \in Tree
      BY <1>0, <3>1 DEF Exists
    <3>4. dir'[n].config = Rewritten(c) /\ dir'[n].rootfs = dir[n].rootfs
      BY <1>0, <3>2, <3>3 DEF Tree
    <3>5. buf[c] \in Config
      BY <1>0
    <3>6. Rewritten(c).of = buf[c].of
      BY <3>5 DEF Rewritten, Config
    <3>7. CASE op[c] \in {"on", "off"}
      <4>1. Rewritten(c).auto = (op[c] = "on") /\ Rewritten(c).net = buf[c].net
        BY <3>5, <3>7 DEF Rewritten, Config
      <4>2. want'[n] = (op[c] = "on")
        BY <1>0, <1>2, <1>8, <3>7
      <4>3. Past(n)' # {} => Past(n) # {}
        <5>1. pc'[c] \notin {"guest", "info", "bridge", "launch"}
          BY <1>0, <1>2, <3>7 DEF EndPc
        <5>. QED BY <1>1, <1>4, <5>1 DEF Past
      <4>. QED BY <3>1, <3>4, <3>6, <4>1, <4>2, <4>3
    <3>8. CASE op[c] \notin {"on", "off"}
      <4>1. Rewritten(c).auto = buf[c].auto /\ Rewritten(c).net = TRUE /\ want'[n] = want[n]
        BY <1>2, <3>5, <3>8 DEF Rewritten, Config
      <4>. QED BY <3>1, <3>4, <3>6, <4>1
    <3>. QED BY <3>7, <3>8
  <2>. QED BY <1>1, <2>2, <2>3 DEF Kept
<1>. QED BY <1>7, <1>8

\* An import installs a config of its own; beside a writer it is a race.
LEMMA InstallKeeps ==
  ASSUME TypeOK, OwnTemp, AllKept, NEW c \in Cmds, Install(c)
  PROVE  AllKept'
<1>0. /\ pc \in [Cmds -> Pc] /\ at \in [Cmds -> Names] /\ held \subseteq Cmds
      /\ dir \in [Names -> Tree \union {None}] /\ want \in [Names -> BOOLEAN]
  BY DEF TypeOK
<1>1. pc[c] = "install" /\ UNCHANGED <<at, buf>>
  BY DEF Install
<1>2. CASE dir[at[c]] \notin {None, Bare}
  <2>1. pc' = [pc EXCEPT ![c] = "discard"] /\ UNCHANGED <<dir, held, touched, raced, want>>
    BY <1>2 DEF Install, Goto
  <2>2. Bystander(c)
    BY <1>0, <1>1, <2>1 DEF Bystander
  <2> QED BY <2>2, BystanderKeeps
<1>3. CASE dir[at[c]] \in {None, Bare}
  <2>1. Temp(c) = {c}
    BY <1>1 DEF OwnTemp, Importing
  <2>2. /\ dir' = [dir EXCEPT ![at[c]] =
                     [rootfs |-> {c}, meta |-> c,
                      config |-> [of |-> c, net |-> TRUE, auto |-> FALSE]]]
        /\ held' = {d \in held : at[d] # at[c]} /\ touched' = touched \ {at[c]}
        /\ raced' = IF Writers(at[c]) = {} THEN raced \ {at[c]} ELSE raced \union {at[c]}
        /\ want' = [want EXCEPT ![at[c]] = FALSE]
        /\ pc' = [pc EXCEPT ![c] = "ok"]
    BY <1>3, <2>1 DEF Install, Goto
  <2>. SUFFICES ASSUME NEW n \in Names, n \notin raced' PROVE Kept(n)'
    BY DEF AllKept
  <2>3. CASE n # at[c]
    <3>1. Kept(n)
      BY <2>2, <2>3 DEF AllKept
    <3>. QED BY <1>0, <1>1, <2>2, <2>3, <3>1, ElsewhereKept
  <2>4. CASE n = at[c]
    <3>1. Writers(n) = {}
      BY <2>2, <2>4
    <3>2. Writers(n)' = {}
      BY <1>0, <1>1, <2>2, <3>1 DEF Writers
    <3>3. /\ dir'[n].rootfs = {c} /\ dir'[n].config.of = c /\ dir'[n].config.auto = FALSE
          /\ dir'[n].config.net = TRUE /\ want'[n] = FALSE
      BY <1>0, <2>2, <2>4
    <3>. QED BY <3>2, <3>3 DEF Kept
  <2> QED BY <2>3, <2>4
<1> QED BY <1>2, <1>3

LEMMA KillKeeps ==
  ASSUME TypeOK, AllKept, NEW c \in Cmds, Kill(c)
  PROVE  AllKept'
<1>0. pc \in [Cmds -> Pc] /\ at \in [Cmds -> Names] /\ held \subseteq Cmds
  BY DEF TypeOK
<1>1. /\ UNCHANGED <<dir, at, buf, touched, want>> /\ held' = held \ {c}
      /\ raced' = IF pc[c] = "write" THEN raced \union {at[c]} ELSE raced
  BY DEF Kill
<1>2. \/ pc' = pc /\ pc[c] \in {"launch", "halt", "lxc-destroy"}
      \/ pc' = [pc EXCEPT ![c] = "killed"]
  BY DEF Kill, Goto
<1>3. \A d \in Cmds \ {c} : pc'[d] = pc[d]
  BY <1>0, <1>2
<1>4. pc'[c] \in {"launch", "halt", "lxc-destroy", "killed"} /\ (pc'[c] = "launch" => pc[c] = "launch")
  BY <1>0, <1>2
<1>. SUFFICES ASSUME NEW n \in Names, n \notin raced' PROVE Kept(n)'
  BY DEF AllKept
<1>5. Kept(n) /\ (n = at[c] => pc[c] # "write")
  BY <1>1 DEF AllKept
<1>6. \A d \in Writers(n)' : d \in Writers(n) /\ d # c /\ pc'[d] = pc[d]
  BY <1>1, <1>3, <1>4 DEF Writers
<1>7. \A d \in Writers(n) : pc[d] = "write" => d \in Writers(n)' /\ pc'[d] = "write"
  BY <1>1, <1>3, <1>5 DEF Writers
<1>8. Past(n)' # {} => Past(n) # {}
  <2>1. ASSUME NEW d \in Past(n)' PROVE d \in Past(n)
    <3>1. CASE d = c
      BY <1>1, <1>4, <2>1, <3>1 DEF Past
    <3>2. CASE d # c
      BY <1>1, <1>3, <2>1, <3>2 DEF Past
    <3>. QED BY <3>1, <3>2
  <2>. QED BY <2>1
<1>. QED BY <1>1, <1>5, <1>6, <1>7, <1>8, FrameKept

LEMMA AllKeptStep ==
  ASSUME Inv, AllKept, [Next]_vars
  PROVE  AllKept'
<1>0. TypeOK /\ OwnTemp /\ HeldIsThere /\ WorkedOn /\ OneWholeImport
  BY DEF Inv
<1> HIDE DEF disk, self, auto, hist
<1>1. CASE UNCHANGED vars
  BY <1>1 DEF vars, disk, self, hist, AllKept, Kept, Writers, Past, Steady, Exists
<1>2. ASSUME NEW c \in Cmds, ImportStep(c) \/ RewriteStep(c) \/ StartStep(c) \/ StopStep(c)
                             \/ DestroyStep(c) \/ AutostartStep(c)
      PROVE  AllKept'
  <2>1. CASE \/ ImportRefused(c) \/ ImportBegin(c) \/ Extract(c) \/ Discard(c)
             \/ Validate(c) \/ StartStep(c) \/ StopStep(c) \/ DestroyStep(c) \/ AutostartStep(c)
    BY <1>0, <2>1, BystanderSteps, BystanderKeeps
  <2>2. CASE Install(c) \/ Read(c) \/ Truncate(c) \/ Write(c)
    BY <1>0, <2>2, InstallKeeps, ReadKeeps, TruncateKeeps, WriteKeeps
  <2>. QED BY <1>2, <2>1, <2>2 DEF ImportStep, RewriteStep
<1>3. ASSUME NEW c \in Cmds, Kill(c) PROVE AllKept'
  BY <1>0, <1>3, KillKeeps
<1>4. ASSUME NEW n \in Names, GuestEnds(n) PROVE AllKept'
  BY <1>4 DEF GuestEnds, disk, self, hist, AllKept, Kept, Writers, Past, Steady, Exists
<1>. QED BY <1>1, <1>2, <1>3, <1>4 DEF Next

LEMMA AllKeptInit == Init => AllKept
<1>. SUFFICES ASSUME Init, NEW n \in Names PROVE Kept(n)
  BY DEF AllKept
<1>1. Writers(n) = {} /\ Past(n) = {}
  BY DEF Init, FirstPc, Writers, Past
<1>2. ASSUME Exists(n)
      PROVE  dir[n].rootfs = {dir[n].config.of} /\ dir[n].config.auto = want[n]
  <2>1. PICK m \in {Prior, None}, a \in BOOLEAN :
          dir[n] = [rootfs |-> {Prior}, meta |-> m,
                    config |-> [of |-> Prior, net |-> m # None, auto |-> a]]
    BY <1>2 DEF Init, Exists
  <2>2. dir[n].rootfs = {dir[n].config.of} /\ dir[n].config.auto = a
    BY <2>1
  <2>3. HasConfig(n)
    <3>1. [of |-> Prior, net |-> m # None, auto |-> a] \in Config
      BY DEF Config, Origins
    <3>2. dir[n].config \in Config
      BY <2>1, <3>1
    <3>. QED BY <1>2, <3>2, NoneAssumption DEF HasConfig
  <2>4. want[n] = (HasConfig(n) /\ dir[n].config.auto)
    BY Zenon DEF Init
  <2>5. want[n] = a
    BY <2>2, <2>3, <2>4
  <2>. QED BY <2>2, <2>5
<1>. QED BY <1>1, <1>2 DEF Kept

\* The config of a container nobody is writing to says what Kept says.
LEMMA KeptIsSafe == AllKept => ConfigKept
BY DEF AllKept, Kept, ConfigKept, Steady

\* A start that gets as far as lxc-start has put the address there.
LEMMA LaunchHasAddress ==
  ASSUME TypeOK, AllKept, [Next]_vars
  PROVE  \A n \in Names :
           inst[n] = "STOPPED" /\ inst'[n] = "RUNNING"
           /\ n \notin touched \union raced /\ Writers(n) = {}
           => dir[n].config.net
<1>. SUFFICES ASSUME NEW n \in Names, inst[n] = "STOPPED", inst'[n] = "RUNNING",
                     n \notin touched \union raced, Writers(n) = {}
              PROVE  dir[n].config.net
  OBVIOUS
<1>0. inst \in [Names -> States] /\ at \in [Cmds -> Names]
  BY DEF TypeOK
<1>1. ASSUME NEW c \in Cmds, Launch(c) PROVE dir[n].config.net
  <2>1. HasConfig(at[c]) /\ pc[c] = "launch" /\ at[c] = n
    BY <1>0, <1>1 DEF Launch
  <2>2. c \in Past(n) /\ Exists(n) /\ Steady(n)
    BY <2>1 DEF Past, HasConfig, Steady
  <2>. QED BY <2>2 DEF AllKept, Kept
<1>2. ASSUME NEW c \in Cmds, Halt(c) PROVE FALSE
  BY <1>0, <1>2 DEF Halt
<1>3. ASSUME NEW c \in Cmds,
             \/ ImportStep(c) \/ RewriteStep(c) \/ Guest(c) \/ Info(c) \/ Bridge(c) \/ Await(c)
             \/ Stopped(c) \/ Down(c) \/ DestroyStep(c) \/ AutostartStep(c) \/ Kill(c)
      PROVE  FALSE
  <2>1. CASE ImportStep(c)
    BY <2>1 DEF ImportStep, ImportRefused, ImportBegin, Extract, Install, Discard
  <2>2. CASE RewriteStep(c)
    BY <2>2 DEF RewriteStep, Validate, Read, Truncate, Write
  <2>3. CASE Guest(c) \/ Info(c) \/ Bridge(c) \/ Await(c) \/ Stopped(c) \/ Down(c) \/ Kill(c)
    BY <2>3 DEF Guest, Info, Bridge, Await, Stopped, Down, Kill
  <2>4. CASE DestroyStep(c)
    BY <2>4 DEF DestroyStep, Status, Stop, LxcDestroy, RemoveBegin, RemoveEntry, RemoveDir
  <2>5. CASE AutostartStep(c)
    BY <2>5 DEF AutostartStep, List, Statuses, NextContainer
  <2>. QED BY <1>3, <2>1, <2>2, <2>3, <2>4, <2>5
<1>4. ASSUME NEW m \in Names, GuestEnds(m) PROVE FALSE
  BY <1>0, <1>4 DEF GuestEnds
<1>5. CASE UNCHANGED vars
  BY <1>5 DEF vars
<1>. QED BY <1>1, <1>2, <1>3, <1>4, <1>5 DEF Next, StartStep, StopStep

LEMMA KeptInvariance == Spec => [](Inv /\ AllKept)
<1>1. Init => Inv /\ AllKept
  BY InvInit, AllKeptInit
<1>2. Inv /\ AllKept /\ [Next]_vars => Inv' /\ AllKept'
  BY InvStep, AllKeptStep
<1>. QED BY <1>1, <1>2, PTL DEF Spec

\* However many commands rewrite a config one after the other, and whoever
\* is killed on the way, the config stays the import's and keeps the
\* autostart that was set last (set_container_autostart,
\* ensure_container_network).
THEOREM ConfigsAreKept == Spec => []ConfigKept
BY KeptInvariance, KeptIsSafe, PTL

\* Whatever way a start takes to lxc-start, autostart's included, the
\* address is in the config it starts with (ensure_container_network).
THEOREM StartsHaveAddress == Spec => StartedWithAddress
<1> DEFINE Addressed == \A n \in Names :
             inst[n] = "STOPPED" /\ inst'[n] = "RUNNING"
             /\ n \notin touched \union raced /\ Writers(n) = {}
             => dir[n].config.net
<1>1. Inv /\ AllKept /\ [Next]_vars => [Addressed]_vars
  BY LaunchHasAddress DEF Inv
<1>. QED BY <1>1, KeptInvariance, PTL DEF Spec, StartedWithAddress

-----------------------------------------------------------------------------
(* The autostart.                                                          *)

\* What another command's step may do to the account of c: take containers
\* off it, and change nothing about those it leaves there.
Spares(c) ==
  /\ op'[c] = op[c] /\ pc'[c] = pc[c] /\ at'[c] = at[c]
  /\ names'[c] = names[c] /\ chosen'[c] = chosen[c] /\ failures'[c] = failures[c]
  /\ owed'[c] \subseteq owed[c]
  /\ \A n \in owed'[c] : /\ inst'[n] = "RUNNING" => inst[n] = "RUNNING"
                         /\ HasConfig(n) => HasConfig(n)' /\ dir'[n].config = dir[n].config

LEMMA SparedAccounts ==
  ASSUME NEW c, Accounts(c), Spares(c)
  PROVE  Accounts(c)'
<1>1. \A n \in owed'[c] : n \in owed[c] /\ inst'[n] # "RUNNING"
  BY DEF Accounts, Spares
<1>2. pc'[c] = "statuses" => \A n \in owed'[c] :
        HasConfig(n)' /\ dir'[n].config.auto /\ n \in names'[c] \union chosen'[c]
  BY <1>1 DEF Accounts, Spares
<1>. QED BY <1>1, <1>2 DEF Accounts, Spares

LEMMA OthersSpare ==
  ASSUME TypeOK, NEW c \in Cmds, NEW d \in Cmds \ {c},
         \/ ImportStep(d) \/ RewriteStep(d) \/ StartStep(d) \/ StopStep(d)
         \/ DestroyStep(d) \/ AutostartStep(d) \/ Kill(d)
  PROVE  Spares(c)
<1>0. /\ pc \in [Cmds -> Pc] /\ at \in [Cmds -> Names] /\ op \in [Cmds -> AllOps \union {"orphan"}]
      /\ dir \in [Names -> Tree \union {None}] /\ inst \in [Names -> States]
      /\ names \in [Cmds -> SUBSET Names] /\ chosen \in [Cmds -> SUBSET Names]
      /\ failures \in [Cmds -> BOOLEAN] /\ owed \in [Cmds -> SUBSET Names]
  BY DEF TypeOK
<1> HIDE DEF TypeOK
<1>r. ASSUME NEW ok, Return(d, ok)
      PROVE  pc'[c] = pc[c] /\ names' = names /\ chosen' = chosen /\ failures'[c] = failures[c]
  <2>1. pc'[c] = pc[c] /\ names' = names /\ chosen' = chosen
    BY <1>0, <1>r DEF Return, Goto
  <2>2. failures' = [failures EXCEPT ![d] = @ \/ (op[d] = "autostart" /\ ~ok)]
    BY <1>r DEF Return
  <2>. QED BY <1>0, <2>1, <2>2, Zenon
<1>g. ASSUME NEW l, Goto(d, l) \/ After(d, l) PROVE pc'[c] = pc[c]
  BY <1>0, <1>g DEF Goto, After
<1>1. CASE ImportStep(d)
  <2>1. UNCHANGED <<inst, op, at, names, chosen, failures, owed>>
    BY <1>1 DEF ImportStep, ImportRefused, ImportBegin, Extract, Install, Discard
  <2>2. pc'[c] = pc[c]
    BY <1>1, <1>g DEF ImportStep, ImportRefused, ImportBegin, Extract, Install, Discard
  <2>3. ASSUME NEW n \in Names, HasConfig(n) PROVE dir'[n] = dir[n]
    <3>1. CASE ~Install(d)
      BY <1>1, <3>1 DEF ImportStep, ImportRefused, ImportBegin, Extract, Discard
    <3>2. CASE Install(d)
      <4>1. dir[n] \notin {None, Bare}
        BY <2>3 DEF HasConfig, Exists, Bare
      <4>. QED BY <1>0, <3>2, <4>1 DEF Install
    <3>. QED BY <3>1, <3>2
  <2>. QED BY <1>0, <2>1, <2>2, <2>3 DEF Spares, HasConfig, Exists
<1>2. CASE Validate(d) \/ Read(d)
  <2>1. UNCHANGED <<dir, inst, op, at, owed>>
    BY <1>2 DEF Validate, Read
  <2>2. pc'[c] = pc[c] /\ names' = names /\ chosen' = chosen /\ failures'[c] = failures[c]
    BY <1>2, <1>r, <1>g DEF Validate, Read
  <2>. QED BY <2>1, <2>2 DEF Spares, HasConfig, Exists
<1>3. CASE Truncate(d) \/ Write(d)
  <2>1. UNCHANGED <<inst, op, at>>
    BY <1>3 DEF Truncate, Write
  <2>2. pc'[c] = pc[c] /\ names' = names /\ chosen' = chosen /\ failures'[c] = failures[c]
    BY <1>3, <1>r, <1>g DEF Truncate, Write
  <2>3. \A n \in Names \ {at[d]} : dir'[n] = dir[n]
    BY <1>0, <1>3 DEF Truncate, Write
  <2>4. owed'[c] = owed[c] \ {at[d]} \/ (owed'[c] = owed[c] /\ dir' = dir)
    BY <1>0, <1>3 DEF Truncate, Write
  <2>. QED BY <1>0, <2>1, <2>2, <2>3, <2>4 DEF Spares, HasConfig, Exists
<1>4. CASE Guest(d)
  <2>1. UNCHANGED <<inst, op, at, owed, names, chosen, failures>> /\ pc'[c] = pc[c]
    BY <1>4, <1>g DEF Guest
  <2>2. ASSUME NEW n \in Names, HasConfig(n) PROVE HasConfig(n)' /\ dir'[n].config = dir[n].config
    <3>1. dir[n] \in Tree /\ Exists(n)
      BY <1>0, <2>2 DEF HasConfig, Exists
    <3>2. dir'[n] \in {dir[n], [dir[n] EXCEPT !.rootfs = {}]}
      BY <1>0, <1>4, <3>1 DEF Guest
    <3>3. dir'[n].config = dir[n].config /\ dir'[n] \in Tree
      BY <3>1, <3>2, TreeTypes DEF Tree, TypeOK
    <3>. QED BY <2>2, <3>3, NoneAssumption DEF HasConfig, Exists
  <2>. QED BY <1>0, <2>1, <2>2 DEF Spares
<1>5. CASE Info(d) \/ Bridge(d) \/ Await(d) \/ StopStep(d) \/ Status(d) \/ Stop(d)
  <2>1. UNCHANGED <<dir, op, at, owed>>
    BY <1>5 DEF Info, Bridge, Await, StopStep, Stopped, Halt, Down, Status, Stop
  <2>2. \A n \in Names : inst'[n] = "RUNNING" => inst[n] = "RUNNING"
    BY <1>0, <1>5 DEF Info, Bridge, Await, StopStep, Stopped, Halt, Down, Status, Stop
  <2>3. pc'[c] = pc[c] /\ names'[c] = names[c] /\ chosen'[c] = chosen[c] /\ failures'[c] = failures[c]
    BY <1>5, <1>r, <1>g DEF Info, Bridge, Await, StopStep, Stopped, Halt, Down, Status, Stop
  <2>. QED BY <1>0, <2>1, <2>2, <2>3 DEF Spares, HasConfig, Exists
<1>6. CASE Launch(d)
  <2>1. UNCHANGED <<dir, op, at>> /\ pc'[c] = pc[c]
        /\ names'[c] = names[c] /\ chosen'[c] = chosen[c] /\ failures'[c] = failures[c]
    BY <1>6, <1>r, <1>g DEF Launch
  <2>2. \/ UNCHANGED <<inst, owed>>
        \/ inst' = [inst EXCEPT ![at[d]] = "RUNNING"] /\ owed'[c] = owed[c] \ {at[d]}
    BY <1>6 DEF Launch
  <2>. QED BY <1>0, <2>1, <2>2 DEF Spares, HasConfig, Exists
<1>7. CASE LxcDestroy(d) \/ RemoveBegin(d) \/ RemoveEntry(d) \/ RemoveDir(d)
  <2>1. UNCHANGED <<inst, op, at, names, chosen, failures>>
    BY <1>7 DEF LxcDestroy, RemoveBegin, RemoveEntry, RemoveDir
  <2>2. pc'[c] = pc[c]
    BY <1>7, <1>g DEF LxcDestroy, RemoveBegin, RemoveEntry, RemoveDir
  <2>3. \/ UNCHANGED <<dir, owed>>
        \/ LoseAll(at[d]) \/ \E es : Lose(at[d], es)
    BY <1>7 DEF LxcDestroy, RemoveBegin, RemoveEntry, RemoveDir
  <2>4. \/ UNCHANGED <<dir, owed>>
        \/ owed'[c] = owed[c] \ {at[d]} /\ \A n \in Names \ {at[d]} : dir'[n] = dir[n]
    BY <1>0, <2>3 DEF LoseAll, Lose
  <2>. QED BY <1>0, <2>1, <2>2, <2>4 DEF Spares, HasConfig, Exists
<1>8. CASE AutostartStep(d)
  <2>1. UNCHANGED <<dir, inst, op>> /\ owed'[c] = owed[c] /\ failures' = failures
    BY <1>0, <1>8 DEF AutostartStep, List, Statuses, NextContainer
  <2>2. pc'[c] = pc[c]
    BY <1>8, <1>g DEF AutostartStep, List, Statuses, NextContainer
  <2>3. at'[c] = at[c] /\ names'[c] = names[c] /\ chosen'[c] = chosen[c]
    BY <1>0, <1>8 DEF AutostartStep, List, Statuses, NextContainer
  <2>. QED BY <2>1, <2>2, <2>3 DEF Spares, HasConfig, Exists
<1>9. CASE Kill(d)
  <2>1. UNCHANGED <<dir, inst, at, names, chosen, failures, owed>>
    BY <1>9 DEF Kill
  <2>2. op'[c] = op[c] /\ pc'[c] = pc[c]
    BY <1>0, <1>9 DEF Kill, Goto
  <2>. QED BY <2>1, <2>2 DEF Spares, HasConfig, Exists
<1>. QED BY <1>1, <1>2, <1>3, <1>4, <1>5, <1>6, <1>7, <1>8, <1>9 DEF RewriteStep, StartStep, DestroyStep

\* Where an autostart goes after one container, and what it counts then.
LEMMA AutostartReturns ==
  ASSUME TypeOK, NEW c \in Cmds, op[c] = "autostart", NEW ok \in BOOLEAN, Return(c, ok)
  PROVE  /\ pc'[c] = "next" /\ chosen' = chosen
         /\ failures[c] \/ ~ok => failures'[c]
<1>0. pc \in [Cmds -> Pc] /\ failures \in [Cmds -> BOOLEAN]
  BY DEF TypeOK
<1>1. pc'[c] = "next" /\ chosen' = chosen
  BY <1>0 DEF Return, Goto
<1>2. failures' = [failures EXCEPT ![c] = @ \/ (op[c] = "autostart" /\ ~ok)]
  BY DEF Return
<1>3. failures'[c] = (failures[c] \/ ~ok)
  BY <1>0, <1>2, Zenon
<1>. QED BY <1>1, <1>3

\* While it starts one container, it loses nothing from its account.
LEMMA StartingAccounts ==
  ASSUME TypeOK, NEW c \in Cmds, op[c] = "autostart", Accounts(c),
         RewriteStep(c) \/ StartStep(c)
  PROVE  Accounts(c)'
<1>0. /\ pc \in [Cmds -> Pc] /\ at \in [Cmds -> Names] /\ inst \in [Names -> States]
      /\ owed \in [Cmds -> SUBSET Names]
  BY DEF TypeOK
<1> USE DEF Starting, EndPc
<1>1. pc[c] \in Starting
  <2>1. CASE RewriteStep(c)
    BY <2>1 DEF RewriteStep, Validate, Read, Truncate, Write
  <2>2. CASE StartStep(c)
    BY <2>2 DEF StartStep, Guest, Info, Bridge, Launch, Await
  <2>. QED BY <2>1, <2>2
<1>2. owed[c] \subseteq chosen[c] \union {at[c]} \/ failures[c]
  BY <1>1 DEF Accounts
<1>3. UNCHANGED at /\ owed'[c] \subseteq owed[c]
  <2>1. CASE RewriteStep(c)
    BY <1>0, <2>1 DEF RewriteStep, Validate, Read, Truncate, Write
  <2>2. CASE Guest(c) \/ Info(c) \/ Bridge(c) \/ Await(c)
    BY <2>2 DEF Guest, Info, Bridge, Await
  <2>3. CASE Launch(c)
    <3>1. /\ UNCHANGED at
          /\ owed' = owed \/ owed' = [d \in Cmds |-> owed[d] \ {at[c]}]
      BY <2>3 DEF Launch
    <3>. QED BY <3>1
  <2>. QED BY <2>1, <2>2, <2>3 DEF StartStep
<1>4. \A n \in owed'[c] : inst'[n] # "RUNNING"
  <2>1. \/ UNCHANGED inst
        \/ inst' = [inst EXCEPT ![at[c]] = "RUNNING"] /\ owed'[c] = owed[c] \ {at[c]}
    BY DEF RewriteStep, Validate, Read, Truncate, Write, StartStep, Guest, Info, Bridge, Launch, Await
  <2>. QED BY <1>0, <1>3, <2>1 DEF Accounts
<1>5. \/ pc'[c] \in Starting /\ chosen' = chosen /\ failures' = failures
      \/ Return(c, FALSE)
      \/ Return(c, TRUE) /\ inst[at[c]] = "RUNNING" /\ UNCHANGED owed
  <2>1. CASE RewriteStep(c)
    BY <1>0, <2>1 DEF RewriteStep, Validate, Read, Truncate, Write, Goto
  <2>2. CASE Guest(c) \/ Info(c) \/ Bridge(c) \/ Launch(c)
    BY <1>0, <2>2 DEF Guest, Info, Bridge, Launch, Goto, After
  <2>3. CASE Await(c)
    <3>1. Return(c, inst[at[c]] = "RUNNING") /\ UNCHANGED owed
      BY <2>3 DEF Await
    <3>2. CASE inst[at[c]] = "RUNNING"
      <4>1. (inst[at[c]] = "RUNNING") = TRUE
        BY <3>2
      <4>. QED BY <3>1, <3>2, <4>1
    <3>3. CASE inst[at[c]] # "RUNNING"
      <4>1. (inst[at[c]] = "RUNNING") = FALSE
        BY <3>3
      <4>. QED BY <3>1, <4>1
    <3>. QED BY <3>2, <3>3
  <2>. QED BY <2>1, <2>2, <2>3 DEF StartStep
<1>6. CASE pc'[c] \in Starting /\ chosen' = chosen /\ failures' = failures
  BY <1>2, <1>3, <1>4, <1>6 DEF Accounts
<1>7. CASE Return(c, FALSE)
  <2>1. pc'[c] = "next" /\ failures'[c]
    BY <1>7, AutostartReturns
  <2>. QED BY <1>4, <2>1 DEF Accounts
<1>8. CASE Return(c, TRUE) /\ inst[at[c]] = "RUNNING" /\ UNCHANGED owed
  <2>1. pc'[c] = "next" /\ chosen' = chosen /\ (failures[c] => failures'[c])
    BY <1>8, AutostartReturns
  <2>2. at[c] \notin owed[c]
    BY <1>8 DEF Accounts
  <2>. QED BY <1>2, <1>4, <1>8, <2>1, <2>2 DEF Accounts
<1>. QED BY <1>5, <1>6, <1>7, <1>8

\* Between the containers, too.
LEMMA BetweenAccounts ==
  ASSUME TypeOK, NEW c \in Cmds, op[c] = "autostart", Accounts(c), AutostartStep(c)
  PROVE  Accounts(c)'
<1>0. /\ pc \in [Cmds -> Pc] /\ at \in [Cmds -> Names] /\ inst \in [Names -> States]
      /\ owed \in [Cmds -> SUBSET Names] /\ chosen \in [Cmds -> SUBSET Names]
      /\ names \in [Cmds -> SUBSET Names] /\ failures \in [Cmds -> BOOLEAN]
  BY DEF TypeOK
<1> USE DEF Starting, EndPc
<1>1. CASE List(c)
  <2>1. /\ pc'[c] = "statuses" /\ UNCHANGED <<dir, inst>>
        /\ names'[c] = {n \in Names : HasConfig(n) \/ (Exists(n) /\ dir[n].meta # None)}
        /\ owed'[c] = {n \in Names : HasConfig(n) /\ dir[n].config.auto /\ inst[n] # "RUNNING"}
    BY <1>0, <1>1 DEF List, Goto
  <2>2. \A n \in owed'[c] : inst'[n] # "RUNNING" /\ HasConfig(n)' /\ dir'[n].config.auto /\ n \in names'[c]
    BY <2>1 DEF HasConfig, Exists
  <2>. QED BY <2>1, <2>2 DEF Accounts
<1>2. CASE Statuses(c)
  <2>1. pc[c] = "statuses" /\ UNCHANGED <<dir, inst, owed, at>>
    BY <1>2 DEF Statuses
  <2>2. \A n \in owed[c] : /\ HasConfig(n) /\ dir[n].config.auto /\ n \in names[c] \union chosen[c]
                           /\ inst[n] # "RUNNING"
    BY <2>1 DEF Accounts
  <2>3. CASE names[c] = {} /\ Goto(c, "next") /\ UNCHANGED auto
    <3>1. pc'[c] = "next" /\ chosen' = chosen /\ names[c] = {}
      BY <1>0, <2>3 DEF Goto
    <3>2. owed'[c] \subseteq chosen'[c]
      BY <2>1, <2>2, <3>1
    <3>. QED BY <2>1, <2>2, <3>1, <3>2 DEF Accounts
  <2>4. ASSUME NEW n \in names[c], Exists(n),
               names' = [names EXCEPT ![c] = @ \ {n}],
               chosen' = IF HasConfig(n) /\ dir[n].config.auto /\ inst[n] # "RUNNING"
                         THEN [chosen EXCEPT ![c] = @ \union {n}] ELSE chosen,
               UNCHANGED <<pc, failures>>
        PROVE  Accounts(c)'
    <3>1. ASSUME NEW m \in owed'[c]
          PROVE  HasConfig(m)' /\ dir'[m].config.auto /\ m \in names'[c] \union chosen'[c] /\ inst'[m] # "RUNNING"
      <4>1. /\ HasConfig(m) /\ dir[m].config.auto /\ m \in names[c] \union chosen[c] /\ inst[m] # "RUNNING"
        BY <2>1, <2>2, <3>1
      <4>2. names'[c] = names[c] \ {n}
        BY <1>0, <2>4
      <4>3. chosen[c] \subseteq chosen'[c] /\ (m = n => n \in chosen'[c])
        BY <1>0, <2>4, <4>1
      <4>. QED BY <2>1, <4>1, <4>2, <4>3 DEF HasConfig, Exists
    <3>2. pc'[c] = "statuses"
      BY <2>1, <2>4
    <3>. QED BY <3>1, <3>2 DEF Accounts
  <2>5. CASE Goto(c, "failed")
    <3>1. pc'[c] = "failed"
      BY <1>0, <2>5 DEF Goto
    <3>. QED BY <2>1, <2>2, <3>1 DEF Accounts
  <2>. QED BY <1>2, <2>3, <2>4, <2>5 DEF Statuses
<1>3. CASE NextContainer(c)
  <2>1. pc[c] = "next" /\ UNCHANGED <<inst, owed, failures>>
    BY <1>3 DEF NextContainer
  <2>2. (owed[c] \subseteq chosen[c] \/ failures[c]) /\ \A n \in owed[c] : inst[n] # "RUNNING"
    BY <2>1 DEF Accounts
  <2>3. ASSUME NEW n \in chosen[c], chosen' = [chosen EXCEPT ![c] = @ \ {n}],
               at' = [at EXCEPT ![c] = n], Goto(c, "validate")
        PROVE  Accounts(c)'
    <3>1. pc'[c] = "validate" /\ at'[c] = n /\ chosen'[c] = chosen[c] \ {n}
      BY <1>0, <2>3 DEF Goto
    <3>. QED BY <2>1, <2>2, <3>1 DEF Accounts
  <2>4. ASSUME chosen[c] = {}, Goto(c, IF failures[c] THEN "failed" ELSE "ok"), UNCHANGED <<chosen, at>>
        PROVE  Accounts(c)'
    <3>1. pc'[c] = IF failures[c] THEN "failed" ELSE "ok"
      BY <1>0, <2>4 DEF Goto
    <3>. QED BY <2>1, <2>2, <2>4, <3>1 DEF Accounts
  <2>. QED BY <1>3, <2>3, <2>4 DEF NextContainer
<1>. QED BY <1>1, <1>2, <1>3 DEF AutostartStep

LEMMA AllAccountedStep ==
  ASSUME TypeOK, AllAccounted, [Next]_vars
  PROVE  AllAccounted'
<1>. SUFFICES ASSUME NEW c \in Cmds, op'[c] = "autostart" PROVE Accounts(c)'
  BY DEF AllAccounted
<1>0. op \in [Cmds -> AllOps \union {"orphan"}] /\ pc \in [Cmds -> Pc]
  BY DEF TypeOK
<1>1. CASE UNCHANGED vars
  BY <1>1 DEF vars, AllAccounted, Accounts, HasConfig, Exists
<1>2. ASSUME NEW d \in Cmds \ {c},
             \/ ImportStep(d) \/ RewriteStep(d) \/ StartStep(d) \/ StopStep(d)
             \/ DestroyStep(d) \/ AutostartStep(d) \/ Kill(d)
      PROVE  Accounts(c)'
  <2>1. Spares(c)
    BY <1>2, OthersSpare
  <2>. QED BY <2>1, SparedAccounts DEF AllAccounted, Spares
<1>3. ASSUME RewriteStep(c) \/ StartStep(c) \/ AutostartStep(c) PROVE Accounts(c)'
  <2>1. op[c] = "autostart"
    BY <1>3 DEF RewriteStep, Validate, Read, Truncate, Write, StartStep, Guest, Info, Bridge, Launch, Await,
                AutostartStep, List, Statuses, NextContainer
  <2>. QED BY <1>3, <2>1, StartingAccounts, BetweenAccounts DEF AllAccounted
<1>4. ASSUME ImportStep(c) \/ StopStep(c) \/ DestroyStep(c) PROVE FALSE
  <2>1. op[c] = "autostart"
    BY <1>4 DEF ImportStep, ImportRefused, ImportBegin, Extract, Install, Discard, StopStep, Stopped, Halt, Down,
                DestroyStep, Status, Stop, LxcDestroy, RemoveBegin, RemoveEntry, RemoveDir
  <2>2. pc[c] \notin {"list", "statuses", "next"} \union Starting \union EndPc
    BY <1>4 DEF Starting, EndPc, ImportStep, ImportRefused, ImportBegin, Extract, Install, Discard,
                StopStep, Stopped, Halt, Down,
                DestroyStep, Status, Stop, LxcDestroy, RemoveBegin, RemoveEntry, RemoveDir
  <2>. QED BY <2>1, <2>2 DEF AllAccounted, Accounts
<1>5. ASSUME Kill(c) PROVE Accounts(c)'
  <2>1. op' = op /\ pc' = [pc EXCEPT ![c] = "killed"] /\ UNCHANGED <<inst, owed>>
    BY <1>0, <1>5 DEF Kill, Goto
  <2>2. pc'[c] = "killed"
    BY <1>0, <2>1
  <2>. QED BY <2>1, <2>2 DEF AllAccounted, Accounts, Starting, EndPc
<1>6. ASSUME NEW n \in Names, GuestEnds(n) PROVE Accounts(c)'
  <2>1. inst' = [inst EXCEPT ![n] = "STOPPED"]
    BY <1>6 DEF GuestEnds
  <2>2. \A m \in Names : inst'[m] = "RUNNING" => inst[m] = "RUNNING"
    BY <2>1 DEF TypeOK
  <2>3. Spares(c)
    BY <1>6, <2>2 DEF GuestEnds, Spares, HasConfig, Exists, TypeOK
  <2>. QED BY <2>3, SparedAccounts DEF AllAccounted, Spares
<1>. QED BY <1>1, <1>2, <1>3, <1>4, <1>5, <1>6 DEF Next

LEMMA AllAccountedInit == Init => AllAccounted
<1>. SUFFICES ASSUME Init, NEW c \in Cmds, op[c] = "autostart" PROVE Accounts(c)
  BY DEF AllAccounted
<1>1. pc[c] = "list" /\ owed[c] = {}
  BY DEF Init, FirstPc
<1>. QED BY <1>1 DEF Accounts, Starting, EndPc

\* An autostart that ends with success owes no container its start: each was
\* started, or another command set it off, rewrote or removed it
\* (autostart_containers).
THEOREM AutostartsCover == Spec => []AutostartOkCovers
<1>1. Init => TypeOK /\ AllAccounted
  BY InvInit, AllAccountedInit DEF Inv
<1>2. TypeOK /\ AllAccounted /\ [Next]_vars /\ TypeOK' => AllAccounted'
  BY AllAccountedStep
<1>3. AllAccounted => AutostartOkCovers
  BY DEF AllAccounted, Accounts, AutostartOkCovers
<1>. QED BY <1>1, <1>2, <1>3, TypeCorrect, PTL DEF Spec

-----------------------------------------------------------------------------
(* The commands implement ContainerLife: every step of theirs is a step of *)
(* it, or changes nothing of what it is about.                             *)

ImportPc  == Importing \union {"import"}
RemovePc  == {"lxc-destroy", "exists", "remove"}

\* Only an import does an import's work, and it does nothing else.
Kinds == \A c \in Cmds : /\ op[c] = "import" => pc[c] \in ImportPc \union EndPc
                         /\ pc[c] \in ImportPc => op[c] = "import"

Maps == [Life!Next]_(Life!vars)

-----------------------------------------------------------------------------
(* Where each step takes a command.                                        *)

\* Start, stop, set-autostart, autostart and a destroy up to lxc-destroy.
LEMMA WorkingMoves ==
  ASSUME TypeOK, NEW c \in Cmds,
         RewriteStep(c) \/ StartStep(c) \/ StopStep(c) \/ AutostartStep(c)
         \/ Status(c) \/ Stop(c)
  PROVE  /\ UNCHANGED op /\ pc[c] \notin ImportPc \union RemovePc \union EndPc
         /\ \E l \in Pc : /\ l \notin ImportPc \union {"exists", "remove"}
                          /\ pc' = [pc EXCEPT ![c] = l]
<1> USE DEF Importing, ImportPc, RemovePc, EndPc, Pc
<1>0. pc \in [Cmds -> Pc]
  BY DEF TypeOK
<1> HIDE DEF TypeOK
<1>1. CASE RewriteStep(c)
  <2>1. UNCHANGED op /\ pc[c] \in {"validate", "read", "truncate", "write"}
    BY <1>1 DEF RewriteStep, Validate, Read, Truncate, Write
  <2>2. \/ \E ok : Return(c, ok)
        \/ \E l \in {"stopped", "status", "read", "truncate", "write", "guest"} : Goto(c, l)
    BY <1>1 DEF RewriteStep, Validate, Read, Truncate, Write
  <2> QED BY <2>1, <2>2, ReturnMoves DEF Goto
<1>2. CASE StartStep(c)
  <2>1. UNCHANGED op /\ pc[c] \in {"guest", "info", "bridge", "launch", "await"}
    BY <1>2 DEF StartStep, Guest, Info, Bridge, Launch, Await
  <2>2. \/ \E ok : Return(c, ok)
        \/ \E l \in {"info", "bridge", "launch"} : Goto(c, l)
        \/ After(c, "await")
    BY <1>2 DEF StartStep, Guest, Info, Bridge, Launch, Await
  <2> QED BY <2>1, <2>2, ReturnMoves, AfterMoves DEF Goto
<1>3. CASE StopStep(c) \/ Status(c) \/ Stop(c)
  <2>1. UNCHANGED op /\ pc[c] \in {"stopped", "halt", "halted", "down", "status", "stop"}
    BY <1>3 DEF StopStep, Stopped, Halt, Down, Status, Stop
  <2>2. \/ \E ok : Return(c, ok)
        \/ \E l \in {"halt", "stop", "lxc-destroy", "stopped"} : Goto(c, l)
        \/ After(c, "halted") \/ After(c, "down")
    BY <1>3 DEF StopStep, Stopped, Halt, Down, Status, Stop
  <2> QED BY <2>1, <2>2, ReturnMoves, AfterMoves DEF Goto
<1>4. CASE AutostartStep(c)
  <2>1. UNCHANGED op /\ pc[c] \in {"list", "statuses", "next"}
    BY <1>4 DEF AutostartStep, List, Statuses, NextContainer
  <2>2. \/ \E l \in {"statuses", "next", "failed", "validate", "ok"} : Goto(c, l)
        \/ UNCHANGED pc
    BY <1>4 DEF AutostartStep, List, Statuses, NextContainer
  <2>3. UNCHANGED pc => pc' = [pc EXCEPT ![c] = pc[c]]
    BY <1>0
  <2> QED BY <1>0, <2>1, <2>2, <2>3 DEF Goto
<1> QED BY <1>1, <1>2, <1>3, <1>4

\* A destroy from lxc-destroy on.
LEMMA RemovingMoves ==
  ASSUME TypeOK, NEW c \in Cmds,
         LxcDestroy(c) \/ RemoveBegin(c) \/ RemoveEntry(c) \/ RemoveDir(c)
  PROVE  /\ UNCHANGED op /\ pc[c] \in RemovePc
         /\ \E l \in RemovePc \union EndPc : pc' = [pc EXCEPT ![c] = l]
<1> USE DEF RemovePc, EndPc
<1>0. pc \in [Cmds -> Pc]
  BY DEF TypeOK
<1>1. UNCHANGED op /\ pc[c] \in RemovePc
  BY DEF LxcDestroy, RemoveBegin, RemoveEntry, RemoveDir
<1>2. \/ \E l \in {"remove", "ok", "failed"} : Goto(c, l)
      \/ After(c, "exists")
      \/ UNCHANGED pc
  BY DEF LxcDestroy, RemoveBegin, RemoveEntry, RemoveDir
<1>3. UNCHANGED pc => pc' = [pc EXCEPT ![c] = pc[c]]
  BY <1>0
<1> QED BY <1>1, <1>2, <1>3, AfterMoves DEF Goto

\* An import.
LEMMA ImportMoves ==
  ASSUME NEW c \in Cmds, ImportStep(c)
  PROVE  /\ UNCHANGED op /\ pc[c] \in ImportPc
         /\ \E l \in ImportPc \union EndPc : pc' = [pc EXCEPT ![c] = l]
<1> USE DEF Importing, ImportPc, EndPc
<1>1. UNCHANGED op /\ pc[c] \in ImportPc
  BY DEF ImportStep, ImportRefused, ImportBegin, Extract, Install, Discard
<1>2. \E l \in {"extract", "install", "discard", "ok", "failed"} : Goto(c, l)
  BY DEF ImportStep, ImportRefused, ImportBegin, Extract, Install, Discard
<1> QED BY <1>1, <1>2 DEF Goto

\* A command that is killed: its child goes on where it was, or nobody does.
LEMMA KillEnds ==
  ASSUME TypeOK, NEW c \in Cmds, Kill(c)
  PROVE  /\ pc[c] \notin EndPc
         /\ \/ /\ UNCHANGED pc /\ op' = [op EXCEPT ![c] = "orphan"]
               /\ pc[c] \in {"launch", "halt", "lxc-destroy"}
            \/ pc' = [pc EXCEPT ![c] = "killed"] /\ UNCHANGED op
BY DEF Kill, Live, Goto

LEMMA KindsStep ==
  ASSUME TypeOK, Kinds, [Next]_vars
  PROVE  Kinds'
<1> USE DEF Importing, ImportPc, EndPc, RemovePc
<1>0. pc \in [Cmds -> Pc] /\ op \in [Cmds -> AllOps \union {"orphan"}]
  BY DEF TypeOK
<1>1. CASE UNCHANGED vars
  BY <1>1 DEF vars, Kinds
<1>2. ASSUME NEW c \in Cmds, ImportStep(c) PROVE Kinds'
  <2>1. PICK l \in ImportPc \union EndPc : pc' = [pc EXCEPT ![c] = l]
    BY <1>2, ImportMoves
  <2>2. UNCHANGED op /\ op[c] = "import"
    BY <1>2, ImportMoves DEF Kinds
  <2> QED BY <1>0, <2>1, <2>2 DEF Kinds
<1>3. ASSUME NEW c \in Cmds, NEW l, l \notin ImportPc, UNCHANGED op,
             pc[c] \notin ImportPc \union EndPc, pc' = [pc EXCEPT ![c] = l]
      PROVE  Kinds'
  BY <1>0, <1>3 DEF Kinds
<1>4. ASSUME NEW c \in Cmds, RewriteStep(c) \/ StartStep(c) \/ StopStep(c) \/ AutostartStep(c)
                             \/ Status(c) \/ Stop(c)
      PROVE  Kinds'
  <2>1. PICK l \in Pc : l \notin ImportPc /\ pc' = [pc EXCEPT ![c] = l]
    BY <1>4, WorkingMoves
  <2>2. UNCHANGED op /\ pc[c] \notin ImportPc \union EndPc
    BY <1>4, WorkingMoves
  <2> QED BY <1>3, <2>1, <2>2
<1>5. ASSUME NEW c \in Cmds, LxcDestroy(c) \/ RemoveBegin(c) \/ RemoveEntry(c) \/ RemoveDir(c)
      PROVE  Kinds'
  <2>1. PICK l \in RemovePc \union EndPc : pc' = [pc EXCEPT ![c] = l]
    BY <1>5, RemovingMoves
  <2>2. UNCHANGED op /\ pc[c] \in RemovePc
    BY <1>5, RemovingMoves
  <2> QED BY <1>3, <2>1, <2>2
<1>6. ASSUME NEW c \in Cmds, Kill(c) PROVE Kinds'
  BY <1>0, <1>6, KillEnds DEF Kinds
<1>7. ASSUME NEW n \in Names, GuestEnds(n) PROVE Kinds'
  BY <1>7 DEF GuestEnds, Kinds
<1> QED BY <1>1, <1>2, <1>4, <1>5, <1>6, <1>7 DEF Next, DestroyStep

-----------------------------------------------------------------------------
(* What the steps look like from ContainerLife.                            *)

Importers == {c \in Cmds : op[c] = "import"}

\* A command's move shows as its own phase's.
LEMMA PhaseMoves ==
  ASSUME TypeOK, NEW c \in Cmds, NEW l, pc' = [pc EXCEPT ![c] = l]
  PROVE  AbsPhase' = [AbsPhase EXCEPT ![c] = Phase(l)]
<1>1. pc \in [Cmds -> Pc]
  BY DEF TypeOK
<1>2. \A d \in Cmds : Phase(pc[d])' = IF d = c THEN Phase(l) ELSE Phase(pc[d])
  BY <1>1 DEF Phase, EndPc
<1> QED BY <1>2 DEF AbsPhase

\* Containers that stay as they are look the same.
LEMMA LifeStays ==
  ASSUME \A n \in Names : \/ dir'[n] = dir[n] /\ (n \in touched <=> n \in touched')
                          \/ n \in touched /\ n \in touched'
                          \/ /\ n \notin touched /\ n \notin touched' /\ Exists(n) /\ Exists(n)'
                             /\ dir'[n].rootfs = dir[n].rootfs
  PROVE  UNCHANGED AbsLife
BY DEF AbsLife, Exists

\* One of which some goes is no container any more.
LEMMA LifeEnds ==
  ASSUME TypeOK, NEW n \in Names, touched' = touched \union {n},
         \A m \in Names \ {n} : dir'[m] = dir[m]
  PROVE  AbsLife' = [AbsLife EXCEPT ![n] = {}]
BY DEF AbsLife, Exists

\* A step that leaves the containers alone is a command's end, a destroy's
\* turn to removing, or nothing.
LEMMA QuietMaps ==
  ASSUME TypeOK, NEW c \in Cmds, NEW l, pc' = [pc EXCEPT ![c] = l],
         UNCHANGED <<AbsLife, Importers>>, pc[c] \notin EndPc,
         l = "ok" => c \notin Importers,
         \/ l \in EndPc
         \/ Phase(l) = Phase(pc[c])
         \/ Phase(pc[c]) = "working" /\ l \in RemovePc /\ c \notin Importers
  PROVE  Maps
<1> USE DEF EndPc, RemovePc
<1>1. AbsPhase' = [AbsPhase EXCEPT ![c] = Phase(l)] /\ AbsPhase[c] = Phase(pc[c])
  BY PhaseMoves DEF AbsPhase
<1>2. CASE l \in EndPc
  <2>1. Phase(l) = l /\ Phase(pc[c]) \notin {"ok", "failed", "killed"}
    BY <1>2 DEF Phase
  <2>2. DOMAIN AbsPhase = Cmds
    BY DEF AbsPhase
  <2>3. AbsPhase' = [AbsPhase EXCEPT ![c] = l] /\ AbsPhase'[c] = l
    BY <1>1, <2>1, <2>2
  <2>4. Life!End(c)
    BY <1>1, <1>2, <2>1, <2>3 DEF Life!End, Life!Over, Life!Goto, Importers
  <2> QED BY <2>4 DEF Maps, Life!Next
<1>3. CASE Phase(l) = Phase(pc[c])
  <2>1. UNCHANGED AbsPhase
    BY <1>1, <1>3 DEF AbsPhase
  <2> QED BY <2>1 DEF Maps, Life!vars, Importers
<1>4. CASE Phase(pc[c]) = "working" /\ l \in RemovePc /\ c \notin Importers
  <2>1. Phase(l) = "removing"
    BY <1>4 DEF Phase
  <2>2. Life!Turn(c)
    BY <1>1, <1>4, <2>1 DEF Life!Turn, Life!Goto, Importers
  <2> QED BY <2>2 DEF Maps, Life!Next
<1> QED BY <1>2, <1>3, <1>4

\* What a removal takes makes the container go for ContainerLife.
LEMMA RemovalMaps ==
  ASSUME TypeOK, NEW c \in Cmds, NEW l \in {"exists", "remove", "killed"}, NEW n \in Names,
         pc[c] \in RemovePc, pc' = [pc EXCEPT ![c] = l], UNCHANGED op,
         LoseAll(n) \/ \E es : Lose(n, es)
  PROVE  Maps
<1>1. AbsPhase' = [AbsPhase EXCEPT ![c] = Phase(l)] /\ AbsPhase[c] = "removing"
  BY PhaseMoves DEF AbsPhase, Phase, RemovePc, EndPc
<1>2. Phase(l) \in {"removing", "killed"}
  BY DEF Phase, EndPc
<1>3. touched' = touched \union {n} /\ \A m \in Names \ {n} : dir'[m] = dir[m]
  BY DEF LoseAll, Lose, TypeOK
<1>4. AbsLife' = [AbsLife EXCEPT ![n] = {}]
  BY <1>3, LifeEnds
<1>5. Life!Remove(c, n)
  BY <1>1, <1>2, <1>4 DEF Life!Remove, Life!Goto
<1> QED BY <1>5 DEF Maps, Life!Next

\* A step of a destroy that takes nothing shows as its end at most.
LEMMA NothingTakenMaps ==
  ASSUME TypeOK, Kinds, NEW c \in Cmds,
         LxcDestroy(c) \/ RemoveBegin(c) \/ RemoveEntry(c) \/ RemoveDir(c), UNCHANGED AbsLife
  PROVE  Maps
<1>1. PICK l \in RemovePc \union EndPc : pc' = [pc EXCEPT ![c] = l]
  BY RemovingMoves
<1>2. UNCHANGED op /\ pc[c] \in RemovePc
  BY RemovingMoves
<1>3. c \notin Importers /\ pc[c] \notin EndPc /\ UNCHANGED Importers
  BY <1>2 DEF Kinds, Importers, Importing, ImportPc, RemovePc, EndPc
<1>4. l \in EndPc \/ Phase(l) = Phase(pc[c])
  BY <1>1, <1>2, <1>3 DEF Phase, RemovePc, EndPc
<1> QED BY <1>1, <1>3, <1>4, QuietMaps

\* Every step is one of ContainerLife's, or nothing to it.
LEMMA StepMaps ==
  ASSUME Inv, Kinds, [Next]_vars
  PROVE  Maps
<1>0. /\ TypeOK /\ OneWholeImport /\ WorkedOn /\ HeldIsThere /\ OwnTemp
      /\ pc \in [Cmds -> Pc] /\ at \in [Cmds -> Names] /\ dir \in [Names -> Tree \union {None}]
      /\ touched \subseteq Names
  BY DEF Inv, TypeOK
<1> USE NoneAssumption
<1>1. CASE UNCHANGED vars
  BY <1>1 DEF vars, Maps, Life!vars, AbsLife, AbsPhase, Exists
\* An import is nothing but its rename, or the end it comes to.
<1>2. ASSUME NEW c \in Cmds, ImportStep(c), UNCHANGED AbsLife, pc'[c] # "ok" PROVE Maps
  <2>1. PICK l \in ImportPc \union EndPc : pc' = [pc EXCEPT ![c] = l]
    BY <1>2, ImportMoves
  <2>2. UNCHANGED op /\ pc[c] \in ImportPc
    BY <1>2, ImportMoves
  <2>3. UNCHANGED Importers /\ l # "ok"
    BY <1>0, <1>2, <2>1, <2>2 DEF Importers
  <2>4. pc[c] \notin EndPc /\ (l \in EndPc \/ Phase(l) = Phase(pc[c]))
    BY <2>2 DEF ImportPc, Importing, EndPc, Phase
  <2> QED BY <1>0, <1>2, <2>1, <2>3, <2>4, QuietMaps
<1>3. ASSUME NEW c \in Cmds, Install(c) PROVE Maps
  <2>1. CASE dir[at[c]] \in {None, Bare}
    <3>1. pc[c] = "install" /\ UNCHANGED op /\ op[c] = "import" /\ Temp(c) = {c} /\ at[c] \in Names
      BY <1>0, <1>3 DEF Install, Kinds, ImportPc, Importing, OwnTemp
    <3>2. /\ dir' = [dir EXCEPT ![at[c]] =
                       [rootfs |-> {c}, meta |-> c,
                        config |-> [of |-> c, net |-> TRUE, auto |-> FALSE]]]
          /\ touched' = touched \ {at[c]} /\ pc' = [pc EXCEPT ![c] = "ok"]
      BY <1>3, <2>1, <3>1 DEF Install, Goto
    <3>3. AbsLife[at[c]] = {}
      <4>1. CASE dir[at[c]] = None
        BY <3>1, <4>1 DEF AbsLife, Exists
      <4>2. CASE dir[at[c]] = Bare
        <5>1. ~HasConfig(at[c])
          BY <4>2 DEF HasConfig, Bare
        <5>2. Exists(at[c])
          BY <1>0, <4>2, TreeTypes DEF Exists
        <5>3. at[c] \in touched
          BY <1>0, <3>1, <5>1, <5>2 DEF OneWholeImport
        <5> QED BY <3>1, <5>3 DEF AbsLife
      <4> QED BY <2>1, <4>1, <4>2
    <3>4. AbsLife' = [AbsLife EXCEPT ![at[c]] = {c}]
      <4>1. /\ [rootfs |-> {c}, meta |-> c, config |-> [of |-> c, net |-> TRUE, auto |-> FALSE]] \in Tree
            /\ None \notin Tree
        BY DEF Tree, Config, Origins
      <4>2. Exists(at[c])' /\ dir'[at[c]].rootfs = {c} /\ at[c] \notin touched' /\ UNCHANGED at
        BY <1>0, <1>3, <3>1, <3>2, <4>1 DEF Exists, Install
      <4>3. dir'[at[c]] # None
        BY <1>0, <3>1, <3>2, <4>1
      <4>4. \A m \in Names \ {at[c]} : dir'[m] = dir[m] /\ (m \in touched' <=> m \in touched)
        BY <1>0, <3>2
      <4> QED BY <4>2, <4>3, <4>4 DEF AbsLife, Exists
    <3>5. AbsPhase' = [AbsPhase EXCEPT ![c] = "ok"] /\ AbsPhase[c] = "working"
      <4>1. Phase("ok") = "ok" /\ Phase("install") = "working"
        BY DEF Phase, EndPc
      <4> QED BY <1>0, <3>1, <3>2, <4>1, PhaseMoves DEF AbsPhase
    <3>6. Life!Import(c, at[c])
      BY <3>1, <3>3, <3>4, <3>5 DEF Life!Import, Life!Goto
    <3> QED BY <3>1, <3>6 DEF Maps, Life!Next
  <2>2. CASE dir[at[c]] \notin {None, Bare}
    <3>1. UNCHANGED <<dir, touched>> /\ pc' = [pc EXCEPT ![c] = "discard"]
      BY <1>3, <2>2 DEF Install, Goto
    <3>2. UNCHANGED AbsLife /\ pc'[c] # "ok"
      BY <1>0, <3>1 DEF AbsLife, Exists
    <3> QED BY <1>2, <1>3, <3>2 DEF ImportStep
  <2> QED BY <2>1, <2>2
<1>4. ASSUME NEW c \in Cmds, ImportRefused(c) \/ ImportBegin(c) \/ Extract(c) \/ Discard(c)
      PROVE  Maps
  <2>1. UNCHANGED <<dir, touched>>
    BY <1>4 DEF ImportRefused, ImportBegin, Extract, Discard
  <2>2. UNCHANGED AbsLife
    BY <2>1 DEF AbsLife, Exists
  <2>3. \E l \in {"extract", "failed", "install", "discard"} : pc' = [pc EXCEPT ![c] = l]
    BY <1>4 DEF ImportRefused, ImportBegin, Extract, Discard, Goto
  <2>4. pc'[c] # "ok"
    BY <1>0, <2>3
  <2> QED BY <1>2, <1>4, <2>2, <2>4 DEF ImportStep
\* Start, stop, set-autostart, autostart and a destroy's stop.
<1>5. ASSUME NEW c \in Cmds, UNCHANGED AbsLife,
             RewriteStep(c) \/ StartStep(c) \/ StopStep(c) \/ AutostartStep(c)
             \/ Status(c) \/ Stop(c)
      PROVE  Maps
  <2>1. PICK l \in Pc : /\ l \notin ImportPc \union {"exists", "remove"}
                        /\ pc' = [pc EXCEPT ![c] = l]
    BY <1>0, <1>5, WorkingMoves
  <2>2. UNCHANGED op /\ pc[c] \notin ImportPc \union RemovePc \union EndPc
    BY <1>0, <1>5, WorkingMoves
  <2>3. c \notin Importers /\ UNCHANGED Importers
    BY <2>2 DEF Kinds, Importers
  <2>4. Phase(pc[c]) = "working"
    BY <2>2 DEF Phase, RemovePc
  <2>5. l \in EndPc \/ Phase(l) = "working" \/ l \in RemovePc
    BY DEF Phase, RemovePc
  <2> QED BY <1>0, <1>5, <2>1, <2>2, <2>3, <2>4, <2>5, QuietMaps
<1>6. ASSUME NEW c \in Cmds,
             \/ Validate(c) \/ Read(c) \/ Info(c) \/ Bridge(c) \/ Launch(c) \/ Await(c)
             \/ StopStep(c) \/ Status(c) \/ Stop(c) \/ AutostartStep(c)
      PROVE  Maps
  <2>1. UNCHANGED <<dir, touched>>
    BY <1>0, <1>6, AsideSteps DEF Aside
  <2>2. UNCHANGED AbsLife
    BY <2>1 DEF AbsLife, Exists
  <2> QED BY <1>5, <1>6, <2>2 DEF RewriteStep, StartStep
\* A config is rewritten, or written where none is any more.
<1>7. ASSUME NEW c \in Cmds, Truncate(c) \/ Write(c) PROVE Maps
  <2>1. UNCHANGED <<touched, at>> /\ at[c] \in Names
    BY <1>0, <1>7 DEF Truncate, Write
  <2>2. UNCHANGED dir \/ /\ Exists(at[c])
                         /\ \E f \in Config : dir' = [dir EXCEPT ![at[c]] = [dir[at[c]] EXCEPT !.config = f]]
    <3>1. CASE Truncate(c)
      BY <1>0, <3>1, TreeTypes DEF Truncate
    <3>2. CASE Write(c) /\ c \in held
      <4>1. HasConfig(at[c]) /\ Exists(at[c])
        BY <3>2 , <1>0 DEF Write, HeldIsThere, HasConfig
      <4>2. dir[at[c]].config \in Config
        BY <1>0, <4>1 DEF HasConfig, Exists, Tree
      <4>3. PICK f \in Config : dir' = [dir EXCEPT ![at[c]].config = f]
        BY <1>0, <3>2, <4>2, TreeTypes DEF Write
      <4> QED BY <4>1, <4>3
    <3>3. CASE Write(c) /\ c \notin held
      BY <3>3 DEF Write
    <3> QED BY <1>7, <3>1, <3>2, <3>3
  <2>3. ASSUME NEW n \in Names
        PROVE  \/ dir'[n] = dir[n]
               \/ Exists(n) /\ Exists(n)' /\ dir'[n].rootfs = dir[n].rootfs
    <3>1. CASE UNCHANGED dir \/ n # at[c]
      BY <1>0, <2>2, <3>1
    <3>2. CASE n = at[c] /\ ~UNCHANGED dir
      <4>1. PICK f \in Config : dir' = [dir EXCEPT ![n] = [dir[n] EXCEPT !.config = f]]
        BY <2>2, <3>2
      <4>2. dir[n] \in Tree
        BY <1>0, <2>2, <3>2 DEF Exists
      <4>3. [dir[n] EXCEPT !.config = f] \in Tree /\ dir'[n] = [dir[n] EXCEPT !.config = f]
        BY <1>0, <4>1, <4>2, TreeTypes
      <4> QED BY <2>2, <3>2, <4>2, <4>3 DEF Exists, Tree
    <3> QED BY <3>1, <3>2
  <2>4. UNCHANGED AbsLife
    BY <2>1, <2>3, LifeStays
  <2> QED BY <1>5, <1>7, <2>4 DEF RewriteStep
\* Only what was removed gets made anew.
<1>8. ASSUME NEW c \in Cmds, Guest(c) PROVE Maps
  <2>1. /\ pc[c] = "guest" /\ UNCHANGED touched /\ at[c] \in Names
        /\ at[c] \in touched \/ Exists(at[c])
        /\ \A m \in Names \ {at[c]} : dir'[m] = dir[m]
    BY <1>0, <1>8 DEF Guest, WorkedOn
  <2>2. at[c] \notin touched => dir'[at[c]] = dir[at[c]]
    <3>1. HAVE at[c] \notin touched
    <3>2. Exists(at[c]) /\ dir[at[c]].rootfs # None
      BY <1>0, <2>1, <3>1 DEF OneWholeImport
    <3> QED BY <1>0, <1>8, <2>1, <3>2 DEF Guest
  <2>3. UNCHANGED AbsLife
    BY <2>1, <2>2, LifeStays
  <2> QED BY <1>5, <1>8, <2>3 DEF StartStep
<1>9. ASSUME NEW c \in Cmds, LxcDestroy(c) PROVE Maps
  <2>1. pc[c] = "lxc-destroy" /\ UNCHANGED op /\ After(c, "exists")
    BY <1>9 DEF LxcDestroy
  <2>2. PICK l \in {"exists", "killed"} : pc' = [pc EXCEPT ![c] = l]
    BY <2>1, AfterMoves
  <2>3. CASE UNCHANGED <<dir, touched>>
    <3>1. UNCHANGED AbsLife
      BY <2>3 DEF AbsLife, Exists
    <3> QED BY <1>0, <1>9, <3>1, NothingTakenMaps
  <2>4. CASE LoseAll(at[c]) \/ \E es : Lose(at[c], es)
    BY <1>0, <2>1, <2>2, <2>4, RemovalMaps DEF RemovePc
  <2> QED BY <1>9, <2>3, <2>4 DEF LxcDestroy
<1>10. ASSUME NEW c \in Cmds, RemoveBegin(c) PROVE Maps
  <2>1. UNCHANGED <<dir, touched>>
    BY <1>10 DEF RemoveBegin
  <2>2. UNCHANGED AbsLife
    BY <2>1 DEF AbsLife, Exists
  <2> QED BY <1>0, <1>10, <2>2, NothingTakenMaps
<1>11. ASSUME NEW c \in Cmds, RemoveEntry(c) PROVE Maps
  <2>1. pc[c] = "remove" /\ UNCHANGED <<op, pc>>
    BY <1>11 DEF RemoveEntry
  <2>2. pc' = [pc EXCEPT ![c] = "remove"]
    BY <1>0, <2>1
  <2>3. CASE UNCHANGED <<dir, touched>>
    <3>1. UNCHANGED AbsLife
      BY <2>3 DEF AbsLife, Exists
    <3> QED BY <1>0, <1>11, <3>1, NothingTakenMaps
  <2>4. CASE \E es : Lose(at[c], es)
    BY <1>0, <2>1, <2>2, <2>4, RemovalMaps DEF RemovePc
  <2> QED BY <1>11, <2>3, <2>4 DEF RemoveEntry
\* The directory that goes at last had nothing in it.
<1>12. ASSUME NEW c \in Cmds, RemoveDir(c) PROVE Maps
  <2>1. UNCHANGED AbsLife
    <3>1. CASE dir[at[c]] = Bare
      <4>1. at[c] \in Names /\ Exists(at[c]) /\ ~HasConfig(at[c])
        <5>1. Bare \in Tree
          BY <1>0, TreeTypes
        <5> QED BY <1>0, <3>1, <5>1 DEF Exists, HasConfig, Bare
      <4>2. at[c] \in touched
        BY <1>0, <4>1 DEF OneWholeImport
      <4>3. touched' = touched \union {at[c]} /\ \A m \in Names \ {at[c]} : dir'[m] = dir[m]
        BY <1>0, <1>12, <3>1 DEF RemoveDir, LoseAll
      <4> QED BY <4>2, <4>3, LifeStays
    <3>2. CASE dir[at[c]] # Bare
      <4>1. UNCHANGED <<dir, touched>>
        BY <1>12, <3>2 DEF RemoveDir
      <4> QED BY <4>1 DEF AbsLife, Exists
    <3> QED BY <3>1, <3>2
  <2> QED BY <1>0, <1>12, <2>1, NothingTakenMaps
<1>13. ASSUME NEW c \in Cmds, Kill(c) PROVE Maps
  <2>1. UNCHANGED AbsLife
    BY <1>0, <1>13, KillMoves DEF AbsLife, Exists
  <2>2. CASE pc' = [pc EXCEPT ![c] = "killed"] /\ UNCHANGED op
    BY <1>0, <1>13, <2>1, <2>2, KillEnds, QuietMaps DEF Importers, EndPc
  <2>3. CASE /\ UNCHANGED pc /\ op' = [op EXCEPT ![c] = "orphan"]
             /\ pc[c] \in {"launch", "halt", "lxc-destroy"}
    <3>1. op[c] # "import"
      BY <2>3 DEF Kinds, ImportPc, Importing, EndPc
    <3>2. \A d \in Cmds : op'[d] = "import" <=> op[d] = "import"
      BY <2>3, <3>1 DEF Inv, TypeOK
    <3>3. UNCHANGED Importers
      BY <3>2 DEF Importers
    <3>4. pc' = [pc EXCEPT ![c] = pc[c]]
      BY <1>0, <2>3
    <3>5. pc[c] \notin EndPc
      BY <1>0, <1>13, KillEnds
    <3> QED BY <1>0, <2>1, <3>3, <3>4, <3>5, QuietMaps DEF EndPc
  <2> QED BY <1>0, <1>13, <2>2, <2>3, KillEnds
<1>14. ASSUME NEW n \in Names, GuestEnds(n) PROVE Maps
  BY <1>14 DEF GuestEnds, Maps, Life!vars, AbsLife, AbsPhase, Exists
<1> QED
  BY <1>1, <1>3, <1>4, <1>6, <1>7, <1>8, <1>9, <1>10, <1>11, <1>12, <1>13, <1>14
  DEF Next, ImportStep, RewriteStep, StartStep, DestroyStep

-----------------------------------------------------------------------------
LEMMA InitMaps ==
  ASSUME Init
  PROVE  Life!Init /\ Kinds
<1> USE NoneAssumption, LxcAssumption
<1>1. ASSUME NEW c \in Cmds
      PROVE  /\ pc[c] \in {"import", "list", "validate"}
             /\ op[c] = "import" <=> pc[c] = "import"
  BY DEF Init, FirstPc
<1>2. ASSUME NEW n \in Names PROVE AbsLife[n] \in {{}, {Prior}}
  <2>1. dir \in [Names -> {None} \union
                   {[rootfs |-> {Prior}, meta |-> m,
                     config |-> [of |-> Prior, net |-> m # None, auto |-> a]]
                      : m \in {Prior, None}, a \in BOOLEAN}]
    BY DEF Init
  <2>2. PICK d \in {None} \union
                   {[rootfs |-> {Prior}, meta |-> m,
                     config |-> [of |-> Prior, net |-> m # None, auto |-> a]]
                      : m \in {Prior, None}, a \in BOOLEAN} : dir[n] = d
    BY <2>1
  <2>3. d = None \/ d.rootfs = {Prior}
    OBVIOUS
  <2>4. dir[n] = None \/ dir[n].rootfs = {Prior}
    BY <2>2, <2>3
  <2> QED BY <2>4 DEF AbsLife, Exists
<1>3. AbsLife \in [Names -> {{}, {Prior}}]
  BY <1>2 DEF AbsLife
<1>4. AbsPhase = [c \in Cmds |-> "working"]
  BY <1>1 DEF AbsPhase, Phase, EndPc
<1> QED BY <1>1, <1>3, <1>4 DEF Life!Init, Kinds, ImportPc, Importing, EndPc

\* The commands implement ContainerLife: whatever runs at once, fails or is
\* killed, a container comes whole with an import that reports ok, where
\* none was, and goes only by a destroy (import_rootfs, destroy_container).
THEOREM LifeRefinement == Spec => ImplementsContainerLife
<1>1. Init => Life!Init /\ Inv /\ Kinds
  BY InitMaps, InvInit
<1>2. Inv /\ Kinds /\ [Next]_vars => Inv' /\ Kinds' /\ [Life!Next]_(Life!vars)
  BY InvStep, KindsStep, StepMaps DEF Maps, Inv
<1> QED BY <1>1, <1>2, PTL DEF Spec, Life!Spec, ImplementsContainerLife
=============================================================================
