------------------------ MODULE LxcContainers_proofs ------------------------
(***************************************************************************)
(* Proofs about the container directories: the type invariant of module    *)
(* LxcContainers, that a container in its place is one whole import, and   *)
(* that an import leaves no temporary files behind, for every set of       *)
(* commands, containers and pids, and any number of killed commands.       *)
(***************************************************************************)
EXTENDS LxcContainers, TLAPS

Importing == {"extract", "install", "discard"}

\* An import at work has a pid, which no other live import has, and a
\* temporary directory with its own files only.
OwnTemp ==
  /\ \A c \in Cmds : pc[c] \in Importing =>
       /\ pid[c] \in Pids
       /\ Temp(c) = IF pc[c] = "extract" THEN {} ELSE {c}
  /\ \A c, d \in Cmds : Live(c) /\ Live(d) /\ pid[c] # None /\ pid[c] = pid[d] => c = d
  /\ \A c \in Cmds : pid[c] # None => pc[c] \in Importing \union EndPc

\* What is open is still there.
HeldIsThere ==
  \A c \in held : /\ pc[c] \in {"write", "remove"}
                  /\ pc[c] = "write" => HasConfig(at[c])
                  /\ pc[c] = "remove" => Exists(at[c])

\* A container a command rewrites was there, and may only have been removed.
WorkedOn ==
  \A c \in Cmds : pc[c] \in {"read", "truncate", "write", "guest"} =>
    at[c] \in touched \/ Exists(at[c])

Inv == TypeOK /\ OwnTemp /\ HeldIsThere /\ WorkedOn /\ OneWholeImport /\ NoTempLeft

-----------------------------------------------------------------------------
(* Types.                                                                  *)

USE DEF disk, self, auto, hist

\* Where a command goes, it is known to go.
LEMMA GotoTypes ==
  ASSUME TypeOK, NEW c \in Cmds
  PROVE  /\ \A l \in Pc : Goto(c, l) => pc' \in [Cmds -> Pc]
         /\ \A l \in Pc : After(c, l) => pc' \in [Cmds -> Pc]
         /\ \A ok \in BOOLEAN : Return(c, ok) =>
              pc' \in [Cmds -> Pc] /\ failures' \in [Cmds -> BOOLEAN]
              /\ UNCHANGED <<names, chosen>>
<1> USE DEF Goto, Pc, EndPc
<1>1. pc \in [Cmds -> Pc]
  BY DEF TypeOK
<1>2. ASSUME NEW l \in Pc PROVE Goto(c, l) => pc' \in [Cmds -> Pc]
  BY <1>1
<1>3. ASSUME NEW l \in Pc PROVE After(c, l) => pc' \in [Cmds -> Pc]
  BY <1>1 DEF After
<1>4. ASSUME NEW ok \in BOOLEAN, Return(c, ok)
      PROVE  pc' \in [Cmds -> Pc] /\ failures' \in [Cmds -> BOOLEAN] /\ UNCHANGED <<names, chosen>>
  <2>1. pc' \in [Cmds -> Pc]
    BY <1>1, <1>4 DEF Return
  <2>2. failures' \in [Cmds -> BOOLEAN]
    <3>1. failures \in [Cmds -> BOOLEAN]
      BY DEF TypeOK
    <3>2. failures' = [failures EXCEPT ![c] = @ \/ (op[c] = "autostart" /\ ~ok)]
      BY <1>4 DEF Return
    <3> QED BY <3>1, <3>2, Zenon
  <2> QED BY <1>4, <2>1, <2>2 DEF Return
<1> QED BY <1>2, <1>3, <1>4

\* What the commands make of a directory and of a config is one again.
LEMMA TreeTypes ==
  ASSUME TypeOK
  PROVE  /\ Empty \in Config /\ Bare \in Tree /\ [Bare EXCEPT !.rootfs = {}] \in Tree
         /\ \A t \in Tree : /\ [t EXCEPT !.rootfs = {}] \in Tree
                           /\ \A f \in Config : [t EXCEPT !.config = f] \in Tree
                           /\ \A es : Without(t, es) \in Tree
         /\ \A c \in Cmds : Rewritten(c) \in Config
         /\ \A f, g \in Config : Overwritten(f, g) \subseteq Config
<1>1. Empty \in Config
  BY DEF Empty, Config
<1>2. Bare \in Tree /\ [Bare EXCEPT !.rootfs = {}] \in Tree
  BY DEF Bare, Tree
<1>3. ASSUME NEW t \in Tree
      PROVE  /\ [t EXCEPT !.rootfs = {}] \in Tree
             /\ \A f \in Config : [t EXCEPT !.config = f] \in Tree
             /\ \A es : Without(t, es) \in Tree
  BY DEF Tree, Without
<1>4. ASSUME NEW c \in Cmds PROVE Rewritten(c) \in Config
  <2>1. buf[c] \in Config
    BY DEF TypeOK
  <2> QED BY <2>1 DEF Rewritten, Config
<1>5. ASSUME NEW f \in Config, NEW g \in Config PROVE Overwritten(f, g) \subseteq Config
  <2>1. (g.net \/ f.net) \in BOOLEAN
    OBVIOUS
  <2>2. [g EXCEPT !.auto = f.auto] \in Config /\ [g EXCEPT !.net = g.net \/ f.net] \in Config
    BY <2>1 DEF Config
  <2> QED BY <2>2 DEF Overwritten
<1> QED BY <1>1, <1>2, <1>3, <1>4, <1>5

\* Names kept for each command, with some taken out or put in.
LEMMA NameSets ==
  ASSUME NEW f \in [Cmds -> SUBSET Names], NEW c \in Cmds
  PROVE  /\ \A x : [d \in Cmds |-> f[d] \ x] \in [Cmds -> SUBSET Names]
         /\ \A x : [d \in Cmds |-> IF d = c THEN f[d] ELSE f[d] \ x] \in [Cmds -> SUBSET Names]
         /\ \A x : [f EXCEPT ![c] = f[c] \ x] \in [Cmds -> SUBSET Names]
         /\ \A n \in Names : [f EXCEPT ![c] = f[c] \union {n}] \in [Cmds -> SUBSET Names]
<1>1. \A x : \A d \in Cmds : f[d] \ x \in SUBSET Names /\ f[d] \in SUBSET Names
  OBVIOUS
<1>2. \A n \in Names : f[c] \union {n} \in SUBSET Names
  OBVIOUS
<1> QED BY <1>1, <1>2

\* Every step keeps the types (all of main.rs; the kernel and LXC).
LEMMA TypeStep ==
  ASSUME TypeOK, OwnTemp, HeldIsThere, [Next]_vars
  PROVE  TypeOK'
<1> USE LxcAssumption, NoneAssumption DEF TypeOK, Goto, Pc, EndPc
<1>0. CASE UNCHANGED vars
  BY <1>0 DEF vars
<1>1. ASSUME NEW c \in Cmds, ImportRefused(c), UNCHANGED kills PROVE TypeOK'
  BY <1>1 DEF ImportRefused
<1>2. ASSUME NEW c \in Cmds, ImportBegin(c), UNCHANGED kills PROVE TypeOK'
  BY <1>2 DEF ImportBegin
<1>3. ASSUME NEW c \in Cmds, Extract(c), UNCHANGED kills PROVE TypeOK'
  <2>1. Temp(c) \union {c} \in SUBSET Cmds /\ pid[c] \in Pids
    BY <1>3 DEF Extract, OwnTemp, Importing
  <2>2. temp' \in [Names -> [Pids -> {None} \union SUBSET Cmds]]
    BY <1>3, <2>1 DEF Extract, SetTemp
  <2>3. pc' \in [Cmds -> Pc]
    BY <1>3 DEF Extract
  <2> QED BY <1>3, <2>2, <2>3 DEF Extract
<1>4. ASSUME NEW c \in Cmds, Install(c), UNCHANGED kills PROVE TypeOK'
  <2>1. Goto(c, "ok") \/ Goto(c, "discard")
    BY <1>4 DEF Install
  <2>2. pc' \in [Cmds -> Pc]
    BY <2>1, GotoTypes
  <2>3. pc[c] = "install"
    BY <1>4 DEF Install
  <2>4. Temp(c) \in SUBSET Origins
    <3> HIDE DEF TypeOK
    <3> QED BY <2>3 DEF OwnTemp, Importing, Origins
  <2>5. [rootfs |-> Temp(c), meta |-> c, config |-> [of |-> c, net |-> TRUE, auto |-> FALSE]] \in Tree
    BY <2>4 DEF Tree, Config, Origins
  <2>6. dir' \in [Names -> Tree \union {None}]
    <3>1. UNCHANGED dir \/ \E v \in Tree : dir' = [dir EXCEPT ![at[c]] = v]
      <4> HIDE DEF TypeOK, Goto, Pc, EndPc
      <4> QED BY <1>4, <2>5 DEF Install
    <3>2. dir \in [Names -> Tree \union {None}]
      OBVIOUS
    <3> HIDE DEF TypeOK, Goto
    <3> QED BY <3>1, <3>2
  <2>7. temp' \in [Names -> [Pids -> {None} \union SUBSET Cmds]]
    <3>1. temp' = temp \/ SetTemp(c, None)
      BY <1>4 DEF Install
    <3>2. ASSUME NEW a \in Names, NEW p
          PROVE  [temp EXCEPT ![a][p] = None] \in [Names -> [Pids -> {None} \union SUBSET Cmds]]
      OBVIOUS
    <3>3. at[c] \in Names
      OBVIOUS
    <3> QED BY <3>1, <3>2, <3>3 DEF SetTemp
  <2>8. /\ held' \subseteq Cmds /\ touched' \subseteq Names /\ raced' \subseteq Names
        /\ gone' \subseteq Names /\ want' \in [Names -> BOOLEAN]
    <3>1. \/ UNCHANGED <<held, touched, raced, gone, want>>
          \/ /\ held' \subseteq held /\ touched' \subseteq touched /\ gone' \subseteq gone
             /\ raced' = raced \ {at[c]} \/ raced' = raced \union {at[c]}
             /\ want' = [want EXCEPT ![at[c]] = FALSE]
      <4> HIDE DEF TypeOK, Goto
      <4> QED BY <1>4 DEF Install
    <3>2. at[c] \in Names /\ want \in [Names -> BOOLEAN]
      OBVIOUS
    <3>3. want' \in [Names -> BOOLEAN]
      BY <3>1, <3>2
    <3>4. held \subseteq Cmds /\ touched \subseteq Names /\ raced \subseteq Names /\ gone \subseteq Names
      OBVIOUS
    <3> HIDE DEF TypeOK, Goto
    <3> QED BY <3>1, <3>2, <3>3, <3>4
  <2> QED BY <1>4, <2>2, <2>6, <2>7, <2>8 DEF Install
<1>5. ASSUME NEW c \in Cmds, Discard(c), UNCHANGED kills PROVE TypeOK'
  BY <1>5 DEF Discard, SetTemp
<1>6. ASSUME NEW c \in Cmds, Validate(c), UNCHANGED kills PROVE TypeOK'
  <2>1. pc' \in [Cmds -> Pc] /\ failures' \in [Cmds -> BOOLEAN] /\ UNCHANGED <<names, chosen>>
    BY <1>6, GotoTypes DEF Validate
  <2> QED BY <1>6, <2>1 DEF Validate
<1>7. ASSUME NEW c \in Cmds, Read(c), UNCHANGED kills PROVE TypeOK'
  <2>1. pc' \in [Cmds -> Pc] /\ failures' \in [Cmds -> BOOLEAN] /\ UNCHANGED <<names, chosen>>
    BY <1>7, GotoTypes DEF Read
  <2>2. buf' \in [Cmds -> Config]
    <3>1. CASE HasConfig(at[c])
      <4>1. dir[at[c]] \in Tree /\ dir[at[c]].config # None
        BY <3>1 DEF HasConfig, Exists
      <4>2. dir[at[c]].config \in Config
        BY <4>1 DEF Tree
      <4> QED BY <1>7, <3>1, <4>2 DEF Read
    <3>2. CASE ~HasConfig(at[c])
      BY <1>7, <3>2 DEF Read
    <3> QED BY <3>1, <3>2
  <2>3. raced' \subseteq Names
    <3>1. UNCHANGED raced \/ raced' = raced \union {at[c]}
      BY <1>7 DEF Read
    <3>2. at[c] \in Names /\ raced \subseteq Names
      OBVIOUS
    <3> HIDE DEF TypeOK
    <3> QED BY <3>1, <3>2
  <2>4. UNCHANGED <<disk, inst, self, held, todo, kills, touched, want, owed, gone>>
    BY <1>7 DEF Read
  <2> HIDE DEF Goto
  <2> QED BY <2>1, <2>2, <2>3, <2>4
<1>8. ASSUME NEW c \in Cmds, Truncate(c), UNCHANGED kills PROVE TypeOK'
  <2>1. pc' \in [Cmds -> Pc] /\ failures' \in [Cmds -> BOOLEAN] /\ UNCHANGED <<names, chosen>>
    BY <1>8, GotoTypes DEF Truncate
  <2>2. dir' \in [Names -> Tree \union {None}]
    <3>1. CASE Exists(at[c])
      <4>1. dir[at[c]] \in Tree
        BY <3>1 DEF Exists
      <4>2. dir' = [dir EXCEPT ![at[c]] = [dir[at[c]] EXCEPT !.config = Empty]]
        BY <1>8, <3>1 DEF Truncate
      <4>3. [dir[at[c]] EXCEPT !.config = Empty] \in Tree
        BY <4>1, TreeTypes
      <4> QED BY <4>2, <4>3
    <3>2. CASE ~Exists(at[c])
      BY <1>8, <3>2 DEF Truncate
    <3> QED BY <3>1, <3>2
  <2>3. owed' \in [Cmds -> SUBSET Names] /\ held' \subseteq Cmds
    <3>1. \/ UNCHANGED <<held, owed>>
          \/ /\ held' = held \union {c}
             /\ owed' = [d \in Cmds |-> IF d = c THEN owed[d] ELSE owed[d] \ {at[c]}]
      <4> HIDE DEF TypeOK, Goto
      <4> QED BY <1>8 DEF Truncate
    <3>2. owed \in [Cmds -> SUBSET Names] /\ held \subseteq Cmds
      OBVIOUS
    <3> HIDE DEF TypeOK
    <3> QED BY <3>1, <3>2, NameSets
  <2>4. UNCHANGED <<temp, inst, self, buf, todo, kills, touched, raced, want, gone>>
    BY <1>8 DEF Truncate
  <2> HIDE DEF Goto
  <2> QED BY <2>1, <2>2, <2>3, <2>4
<1>9. ASSUME NEW c \in Cmds, Write(c), UNCHANGED kills PROVE TypeOK'
  <2>1. pc' \in [Cmds -> Pc] /\ failures' \in [Cmds -> BOOLEAN] /\ UNCHANGED <<names, chosen>>
    BY <1>9, GotoTypes DEF Write
  <2>2. dir' \in [Names -> Tree \union {None}]
    <3>1. CASE c \in held
      <4>1. dir[at[c]] \in Tree /\ dir[at[c]].config # None
        BY <1>9, <3>1 DEF Write, HeldIsThere, HasConfig, Exists
      <4>2. dir[at[c]].config \in Config
        BY <4>1 DEF Tree
      <4>3. PICK t \in Config : dir' = [dir EXCEPT ![at[c]].config = t]
        BY <1>9, <3>1, <4>2, TreeTypes DEF Write
      <4>4. dir' = [dir EXCEPT ![at[c]] = [dir[at[c]] EXCEPT !.config = t]]
        BY <4>3
      <4>5. [dir[at[c]] EXCEPT !.config = t] \in Tree
        BY <4>1, TreeTypes
      <4> QED BY <4>4, <4>5
    <3>2. CASE c \notin held
      BY <1>9, <3>2 DEF Write
    <3> QED BY <3>1, <3>2
  <2>3. want' \in [Names -> BOOLEAN] /\ owed' \in [Cmds -> SUBSET Names]
    BY <1>9 DEF Write
  <2>4. buf' \in [Cmds -> Config] /\ held' \subseteq Cmds
    BY <1>9, TreeTypes DEF Write
  <2> QED BY <1>9, <2>1, <2>2, <2>3, <2>4 DEF Write
<1>10. ASSUME NEW c \in Cmds, Guest(c), UNCHANGED kills PROVE TypeOK'
  <2>1. dir' \in [Names -> Tree \union {None}]
    BY <1>10, TreeTypes DEF Guest, Exists
  <2> QED BY <1>10, <2>1 DEF Guest
<1>11. ASSUME NEW c \in Cmds, Info(c), UNCHANGED kills PROVE TypeOK'
  <2>1. pc' \in [Cmds -> Pc] /\ failures' \in [Cmds -> BOOLEAN] /\ UNCHANGED <<names, chosen>>
    BY <1>11, GotoTypes DEF Info
  <2> QED BY <1>11, <2>1 DEF Info
<1>12. ASSUME NEW c \in Cmds, Bridge(c), UNCHANGED kills PROVE TypeOK'
  <2>1. pc' \in [Cmds -> Pc] /\ failures' \in [Cmds -> BOOLEAN] /\ UNCHANGED <<names, chosen>>
    BY <1>12, GotoTypes DEF Bridge
  <2> QED BY <1>12, <2>1 DEF Bridge
<1>13. ASSUME NEW c \in Cmds, Launch(c), UNCHANGED kills PROVE TypeOK'
  <2>1. pc' \in [Cmds -> Pc] /\ failures' \in [Cmds -> BOOLEAN] /\ UNCHANGED <<names, chosen>>
    BY <1>13, GotoTypes DEF Launch
  <2>2. inst' \in [Names -> States] /\ owed' \in [Cmds -> SUBSET Names]
    <3>1. \/ UNCHANGED <<inst, owed>>
          \/ /\ inst' = [inst EXCEPT ![at[c]] = "RUNNING"]
             /\ owed' = [d \in Cmds |-> owed[d] \ {at[c]}]
      BY <1>13 DEF Launch
    <3>2. owed' \in [Cmds -> SUBSET Names]
      <4>1. owed \in [Cmds -> SUBSET Names]
        OBVIOUS
      <4> HIDE DEF TypeOK
      <4> QED BY <3>1, <4>1, NameSets
    <3>3. inst' \in [Names -> States]
      BY <3>1 DEF States
    <3> QED BY <3>2, <3>3
  <2>3. UNCHANGED <<disk, self, buf, held, todo, kills, touched, raced, want, gone>>
    BY <1>13 DEF Launch
  <2> HIDE DEF Goto
  <2> QED BY <2>1, <2>2, <2>3
<1>14. ASSUME NEW c \in Cmds, Await(c), UNCHANGED kills PROVE TypeOK'
  <2>1. pc' \in [Cmds -> Pc] /\ failures' \in [Cmds -> BOOLEAN] /\ UNCHANGED <<names, chosen>>
    BY <1>14, GotoTypes DEF Await
  <2> QED BY <1>14, <2>1 DEF Await
<1>15. ASSUME NEW c \in Cmds, Stopped(c), UNCHANGED kills PROVE TypeOK'
  <2>1. pc' \in [Cmds -> Pc] /\ failures' \in [Cmds -> BOOLEAN] /\ UNCHANGED <<names, chosen>>
    BY <1>15, GotoTypes DEF Stopped
  <2> QED BY <1>15, <2>1 DEF Stopped
<1>16. ASSUME NEW c \in Cmds, Halt(c), UNCHANGED kills PROVE TypeOK'
  <2>1. pc' \in [Cmds -> Pc] /\ failures' \in [Cmds -> BOOLEAN] /\ UNCHANGED <<names, chosen>>
    BY <1>16, GotoTypes DEF Halt
  <2>2. inst' \in [Names -> States]
    BY <1>16 DEF Halt, States
  <2> QED BY <1>16, <2>1, <2>2 DEF Halt
<1>17. ASSUME NEW c \in Cmds, Down(c), UNCHANGED kills PROVE TypeOK'
  <2>1. SeesStopped(at[c]) \in BOOLEAN
    BY DEF SeesStopped, HasConfig, Exists
  <2>2. pc' \in [Cmds -> Pc] /\ failures' \in [Cmds -> BOOLEAN] /\ UNCHANGED <<names, chosen>>
    <3>1. Return(c, SeesStopped(at[c]))
      BY <1>17 DEF Down
    <3> HIDE DEF TypeOK, Goto, Pc, EndPc
    <3> QED BY <2>1, <3>1, GotoTypes
  <2> QED BY <1>17, <2>2 DEF Down
<1>18. ASSUME NEW c \in Cmds, Status(c), UNCHANGED kills PROVE TypeOK'
  BY <1>18 DEF Status
<1>19. ASSUME NEW c \in Cmds, Stop(c), UNCHANGED kills PROVE TypeOK'
  <2>1. pc' \in [Cmds -> Pc] /\ failures' \in [Cmds -> BOOLEAN] /\ UNCHANGED <<names, chosen>>
    BY <1>19, GotoTypes DEF Stop
  <2> QED BY <1>19, <2>1 DEF Stop
<1>20. ASSUME NEW c \in Cmds, LxcDestroy(c), UNCHANGED kills PROVE TypeOK'
  <2>1. pc' \in [Cmds -> Pc]
    BY <1>20, GotoTypes DEF LxcDestroy
  <2>2. CASE UNCHANGED <<dir, held, touched, owed>>
    BY <1>20, <2>1, <2>2 DEF LxcDestroy
  <2>3. CASE LoseAll(at[c])
    BY <1>20, <2>1, <2>3 DEF LxcDestroy, LoseAll
  <2>4. ASSUME Exists(at[c]), NEW es \in SUBSET Entries, Lose(at[c], es) PROVE TypeOK'
    <3>1. dir' \in [Names -> Tree \union {None}]
      BY <2>4, TreeTypes DEF Lose, Exists
    <3> QED BY <1>20, <2>1, <2>4, <3>1 DEF LxcDestroy, Lose
  <2> QED BY <1>20, <2>2, <2>3, <2>4 DEF LxcDestroy, SeesStopped, HasConfig
<1>21. ASSUME NEW c \in Cmds, RemoveBegin(c), UNCHANGED kills PROVE TypeOK'
  <2>1. todo' \in [Cmds -> SUBSET Entries]
    <3>1. todo \in [Cmds -> SUBSET Entries]
      OBVIOUS
    <3>2. \E es \in SUBSET Entries : todo' = todo \/ todo' = [todo EXCEPT ![c] = es]
      <4> HIDE DEF TypeOK, Goto
      <4> QED BY <1>21 DEF RemoveBegin
    <3> HIDE DEF TypeOK
    <3> QED BY <3>1, <3>2
  <2>2. pc' \in [Cmds -> Pc]
    BY <1>21, GotoTypes DEF RemoveBegin
  <2>3. held' \subseteq Cmds /\ gone' \subseteq Names
    BY <1>21 DEF RemoveBegin
  <2>4. UNCHANGED <<disk, inst, self, buf, auto, kills, touched, raced, want, owed>>
    BY <1>21 DEF RemoveBegin
  <2> HIDE DEF Goto
  <2> QED BY <2>1, <2>2, <2>3, <2>4
<1>22. ASSUME NEW c \in Cmds, RemoveEntry(c), UNCHANGED kills PROVE TypeOK'
  <2>1. todo' \in [Cmds -> SUBSET Entries]
    BY <1>22 DEF RemoveEntry
  <2>2. ASSUME NEW e \in Entries, c \in held, Lose(at[c], {e}) PROVE TypeOK'
    <3>1. dir' \in [Names -> Tree \union {None}]
      <4>1. pc[c] = "remove" /\ dir' = [dir EXCEPT ![at[c]] = Without(dir[at[c]], {e})]
        BY <1>22, <2>2 DEF RemoveEntry, Lose
      <4>2. dir[at[c]] # None
        BY <2>2, <4>1 DEF HeldIsThere, Exists
      <4>3. Without(dir[at[c]], {e}) \in Tree
        BY <4>2, TreeTypes
      <4> QED BY <4>1, <4>3
    <3> QED BY <1>22, <2>1, <2>2, <3>1 DEF RemoveEntry, Lose
  <2>3. CASE UNCHANGED <<dir, held, touched, owed>>
    BY <1>22, <2>1, <2>3 DEF RemoveEntry
  <2> QED BY <1>22, <2>2, <2>3 DEF RemoveEntry
<1>23. ASSUME NEW c \in Cmds, RemoveDir(c), UNCHANGED kills PROVE TypeOK'
  <2>1. pc' \in [Cmds -> Pc]
    BY <1>23, GotoTypes DEF RemoveDir
  <2>2. CASE dir[at[c]] = Bare
    <3>1. LoseAll(at[c]) /\ gone' = gone \union {at[c]}
      BY <1>23, <2>2 DEF RemoveDir
    <3>2. dir' \in [Names -> Tree \union {None}] /\ held' \subseteq Cmds
      BY <3>1 DEF LoseAll
    <3>3. touched' \subseteq Names /\ owed' \in [Cmds -> SUBSET Names] /\ gone' \subseteq Names
      BY <3>1 DEF LoseAll
    <3> HIDE DEF Goto
    <3> QED BY <1>23, <2>1, <3>2, <3>3 DEF RemoveDir
  <2>3. CASE dir[at[c]] # Bare
    BY <1>23, <2>3 DEF RemoveDir
  <2> QED BY <2>2, <2>3
<1>24. ASSUME NEW c \in Cmds, List(c), UNCHANGED kills PROVE TypeOK'
  BY <1>24 DEF List
<1>25. ASSUME NEW c \in Cmds, Statuses(c), UNCHANGED kills PROVE TypeOK'
  <2>1. pc' \in [Cmds -> Pc]
    BY <1>25, GotoTypes DEF Statuses
  <2>2. \/ UNCHANGED auto
        \/ \E n \in names[c] : /\ names' = [names EXCEPT ![c] = @ \ {n}]
                             /\ \/ UNCHANGED chosen
                                \/ chosen' = [chosen EXCEPT ![c] = @ \union {n}]
                             /\ UNCHANGED failures
    <3> HIDE DEF TypeOK, Goto
    <3> QED BY <1>25 DEF Statuses
  <2>3. /\ names' \in [Cmds -> SUBSET Names] /\ chosen' \in [Cmds -> SUBSET Names]
        /\ UNCHANGED failures
    <3>1. names \in [Cmds -> SUBSET Names] /\ chosen \in [Cmds -> SUBSET Names]
      OBVIOUS
    <3>2. names[c] \subseteq Names
      BY <3>1
    <3> HIDE DEF TypeOK
    <3> QED BY <2>2, <3>1, <3>2, NameSets
  <2>4. UNCHANGED <<disk, inst, self, buf, held, todo, kills, hist>>
    BY <1>25 DEF Statuses
  <2> HIDE DEF Goto
  <2> QED BY <2>1, <2>3, <2>4
<1>26. ASSUME NEW c \in Cmds, NextContainer(c), UNCHANGED kills PROVE TypeOK'
  <2>1. pc' \in [Cmds -> Pc]
    BY <1>26, GotoTypes DEF NextContainer
  <2>2. at' \in [Cmds -> Names] /\ chosen' \in [Cmds -> SUBSET Names]
    <3>1. \/ UNCHANGED <<at, chosen>>
          \/ \E n \in chosen[c] : /\ chosen' = [chosen EXCEPT ![c] = @ \ {n}]
                                /\ at' = [at EXCEPT ![c] = n]
      BY <1>26 DEF NextContainer
    <3>2. chosen \in [Cmds -> SUBSET Names] /\ at \in [Cmds -> Names]
      OBVIOUS
    <3>3. chosen[c] \subseteq Names
      BY <3>2
    <3> HIDE DEF TypeOK
    <3> QED BY <3>1, <3>2, <3>3, NameSets
  <2> HIDE DEF Goto
  <2> QED BY <1>26, <2>1, <2>2 DEF NextContainer
<1>27. ASSUME NEW c \in Cmds, Kill(c) PROVE TypeOK'
  <2>1. pc' \in [Cmds -> Pc] /\ op' \in [Cmds -> AllOps \union {"orphan"}]
    BY <1>27 DEF Kill
  <2>2. kills' \in 0..MaxKills
    BY <1>27 DEF Kill
  <2> QED BY <1>27, <2>1, <2>2 DEF Kill
<1>28. ASSUME NEW n \in Names, GuestEnds(n) PROVE TypeOK'
  BY <1>28 DEF GuestEnds, States
<1> QED
  BY <1>0, <1>1, <1>2, <1>3, <1>4, <1>5, <1>6, <1>7, <1>8, <1>9, <1>10, <1>11, <1>12, <1>13, <1>14, <1>15, <1>16, <1>17, <1>18, <1>19, <1>20, <1>21, <1>22, <1>23, <1>24, <1>25, <1>26, <1>27, <1>28
  DEF Next, ImportStep, RewriteStep, StartStep, StopStep, DestroyStep, AutostartStep

-----------------------------------------------------------------------------
(* Temporary directories.                                                  *)

\* What start, stop, destroy, set-autostart and autostart do is no business
\* of an import's: none of them has or gets a temporary directory.
NoImport(c) ==
  /\ UNCHANGED <<temp, pid>>
  /\ pc[c] \notin Importing \union EndPc \union {"import"}
  /\ \E l \in Pc \ Importing : pc' = [pc EXCEPT ![c] = l]
  /\ \A d \in Cmds \ {c} : at'[d] = at[d]

LEMMA ReturnMoves ==
  ASSUME NEW c \in Cmds, NEW ok, Return(c, ok)
  PROVE  \E l \in {"next", "lxc-destroy"} \union EndPc : pc' = [pc EXCEPT ![c] = l]
BY DEF Return, Goto, EndPc

LEMMA AfterMoves ==
  ASSUME NEW c \in Cmds, NEW l, After(c, l)
  PROVE  \E k \in {l, "killed"} : pc' = [pc EXCEPT ![c] = k]
BY DEF After, Goto

LEMMA OtherSteps ==
  ASSUME TypeOK, NEW c \in Cmds,
         RewriteStep(c) \/ StartStep(c) \/ StopStep(c) \/ DestroyStep(c) \/ AutostartStep(c)
  PROVE  NoImport(c)
<1> USE DEF Importing, EndPc, Pc
<1>0. pc \in [Cmds -> Pc] /\ at \in [Cmds -> Names]
  BY DEF TypeOK
<1> HIDE DEF TypeOK
<1>1. CASE RewriteStep(c)
  <2>1. UNCHANGED <<temp, pid, at>> /\ pc[c] \in {"validate", "read", "truncate", "write"}
    BY <1>1 DEF RewriteStep, Validate, Read, Truncate, Write
  <2>2. \/ \E ok : Return(c, ok)
        \/ \E l \in {"stopped", "status", "read", "truncate", "write", "guest"} : Goto(c, l)
    BY <1>1 DEF RewriteStep, Validate, Read, Truncate, Write
  <2> QED BY <2>1, <2>2, ReturnMoves DEF NoImport, Goto
<1>2. CASE StartStep(c)
  <2>1. UNCHANGED <<temp, pid, at>> /\ pc[c] \in {"guest", "info", "bridge", "launch", "await"}
    BY <1>2 DEF StartStep, Guest, Info, Bridge, Launch, Await
  <2>2. \/ \E ok : Return(c, ok)
        \/ \E l \in {"info", "bridge", "launch"} : Goto(c, l)
        \/ After(c, "await")
    BY <1>2 DEF StartStep, Guest, Info, Bridge, Launch, Await
  <2> QED BY <2>1, <2>2, ReturnMoves, AfterMoves DEF NoImport, Goto
<1>3. CASE StopStep(c)
  <2>1. UNCHANGED <<temp, pid, at>> /\ pc[c] \in {"stopped", "halt", "halted", "down"}
    BY <1>3 DEF StopStep, Stopped, Halt, Down
  <2>2. \/ \E ok : Return(c, ok)
        \/ Goto(c, "halt")
        \/ After(c, "halted") \/ After(c, "down")
    BY <1>3 DEF StopStep, Stopped, Halt, Down
  <2> QED BY <2>1, <2>2, ReturnMoves, AfterMoves DEF NoImport, Goto
<1>4. CASE DestroyStep(c)
  <2>1. UNCHANGED <<temp, pid, at>> /\ pc[c] \in {"status", "stop", "lxc-destroy", "exists", "remove"}
    BY <1>4 DEF DestroyStep, Status, Stop, LxcDestroy, RemoveBegin, RemoveEntry, RemoveDir
  <2>2. \/ \E ok : Return(c, ok)
        \/ \E l \in {"stop", "lxc-destroy", "stopped", "remove", "ok", "failed"} : Goto(c, l)
        \/ After(c, "exists")
        \/ UNCHANGED pc
    BY <1>4 DEF DestroyStep, Status, Stop, LxcDestroy, RemoveBegin, RemoveEntry, RemoveDir
  <2>3. UNCHANGED pc => pc' = [pc EXCEPT ![c] = pc[c]]
    BY <1>0
  <2> QED BY <2>1, <2>2, <2>3, ReturnMoves, AfterMoves DEF NoImport, Goto
<1>5. CASE AutostartStep(c)
  <2>1. /\ UNCHANGED <<temp, pid>> /\ pc[c] \in {"list", "statuses", "next"}
        /\ UNCHANGED at \/ \E n \in Names : at' = [at EXCEPT ![c] = n]
    <3>1. UNCHANGED <<temp, pid>> /\ pc[c] \in {"list", "statuses", "next"}
      BY <1>5 DEF AutostartStep, List, Statuses, NextContainer
    <3>2. chosen[c] \subseteq Names
      BY DEF TypeOK
    <3>3. UNCHANGED at \/ \E n \in chosen[c] : at' = [at EXCEPT ![c] = n]
      BY <1>5 DEF AutostartStep, List, Statuses, NextContainer
    <3> QED BY <3>1, <3>2, <3>3
  <2>2. \/ \E l \in {"statuses", "next", "failed", "validate", "ok"} : Goto(c, l)
        \/ UNCHANGED pc
    BY <1>5 DEF AutostartStep, List, Statuses, NextContainer
  <2>3. UNCHANGED pc => pc' = [pc EXCEPT ![c] = pc[c]]
    BY <1>0
  <2> QED BY <1>0, <2>1, <2>2, <2>3 DEF NoImport, Goto
<1> QED BY <1>1, <1>2, <1>3, <1>4, <1>5

\* A killed command keeps its pid to itself, or its child goes on.
LEMMA KillMoves ==
  ASSUME TypeOK, NEW c \in Cmds, Kill(c)
  PROVE  /\ UNCHANGED <<temp, pid, at, dir, touched>> /\ held' = held \ {c}
         /\ pc[c] \notin EndPc
         /\ \E l \in {pc[c], "killed"} : pc' = [pc EXCEPT ![c] = l]
         /\ pc'[c] = pc[c] => pc[c] \in {"launch", "halt", "lxc-destroy"}
<1>0. pc \in [Cmds -> Pc]
  BY DEF TypeOK
<1> HIDE DEF TypeOK
<1>1. UNCHANGED <<temp, pid, at, dir, touched>> /\ held' = held \ {c} /\ pc[c] \notin EndPc
  BY DEF Kill, Live
<1>2. \/ UNCHANGED pc /\ pc[c] \in {"launch", "halt", "lxc-destroy"}
      \/ Goto(c, "killed")
  BY DEF Kill
<1>3. pc[c] # "killed"
  BY <1>1 DEF EndPc
<1> QED BY <1>0, <1>1, <1>2, <1>3 DEF Goto

\* An import's temporary directory is its own, whatever else happens: a new
\* import takes a pid no live command has (import_rootfs, process::id).
LEMMA OwnTempStep ==
  ASSUME TypeOK, OwnTemp, [Next]_vars
  PROVE  OwnTemp'
<1> USE NoneAssumption DEF Importing, EndPc
<1>0. /\ pc \in [Cmds -> Pc] /\ at \in [Cmds -> Names] /\ pid \in [Cmds -> Pids \union {None}]
      /\ temp \in [Names -> [Pids -> {None} \union SUBSET Cmds]]
  BY DEF TypeOK
<1> HIDE DEF TypeOK
<1>1. CASE UNCHANGED vars
  BY <1>1 DEF vars, OwnTemp, Temp, Live
<1>2. ASSUME NEW c \in Cmds, ImportRefused(c) PROVE OwnTemp'
  BY <1>0, <1>2 DEF ImportRefused, Goto, OwnTemp, Temp, Live
<1>3. ASSUME NEW c \in Cmds, ImportBegin(c) PROVE OwnTemp'
  <2>1. PICK p \in Pids : /\ \A d \in Cmds : Live(d) => pid[d] # p
                          /\ pid' = [pid EXCEPT ![c] = p]
                          /\ temp' = [temp EXCEPT ![at[c]][p] = {}]
    BY <1>3 DEF ImportBegin
  <2>2. /\ pc[c] = "import" /\ UNCHANGED at
        /\ \E l \in {"extract", "failed"} : pc' = [pc EXCEPT ![c] = l]
    BY <1>3 DEF ImportBegin, Goto
  <2>3. ASSUME NEW d \in Cmds, pc'[d] \in Importing
        PROVE  pid'[d] \in Pids /\ Temp(d)' = IF pc'[d] = "extract" THEN {} ELSE {d}
    <3>1. CASE d = c
      BY <1>0, <2>1, <2>2, <2>3, <3>1 DEF Temp
    <3>2. CASE d # c
      <4>1. pc[d] \in Importing /\ pc'[d] = pc[d] /\ Live(d) /\ pid'[d] = pid[d] /\ pid[d] # p
        BY <1>0, <2>1, <2>2, <2>3, <3>2 DEF Live
      <4>2. pid[d] \in Pids /\ Temp(d) = IF pc[d] = "extract" THEN {} ELSE {d}
        BY <4>1 DEF OwnTemp
      <4>3. Temp(d)' = Temp(d)
        BY <1>0, <2>1, <2>2, <4>1, <4>2 DEF Temp
      <4> QED BY <4>1, <4>2, <4>3
    <3> QED BY <3>1, <3>2
  <2>4. ASSUME NEW d \in Cmds, NEW e \in Cmds, Live(d)', Live(e)', pid'[d] # None, pid'[d] = pid'[e]
        PROVE  d = e
    <3>1. Live(d) /\ Live(e)
      BY <1>0, <2>2, <2>4 DEF Live
    <3> QED BY <1>0, <2>1, <2>4, <3>1 DEF OwnTemp
  <2>5. ASSUME NEW d \in Cmds, pid'[d] # None PROVE pc'[d] \in Importing \union EndPc
    BY <1>0, <2>1, <2>2, <2>5 DEF OwnTemp
  <2> QED BY <2>3, <2>4, <2>5 DEF OwnTemp
\* Extract, Install and Discard change the temporary directory of c alone.
<1>4. ASSUME NEW c \in Cmds, NEW l \in {"install", "discard", "ok", "failed"},
             pc[c] \in Importing, pc' = [pc EXCEPT ![c] = l], UNCHANGED <<at, pid>>,
             temp' = temp \/ \E v : SetTemp(c, v),
             l \in Importing => Temp(c)' = {c}
      PROVE  OwnTemp'
  <2>1. ASSUME NEW d \in Cmds, pc'[d] \in Importing
        PROVE  pid'[d] \in Pids /\ Temp(d)' = IF pc'[d] = "extract" THEN {} ELSE {d}
    <3>1. CASE d = c
      <4>1. pc'[c] = l /\ l # "extract"
        BY <1>0, <1>4
      <4> QED BY <1>4, <2>1, <3>1, <4>1 DEF OwnTemp
    <3>2. CASE d # c
      <4>1. pc'[d] = pc[d] /\ pc[d] \in Importing /\ Live(d) /\ Live(c)
        BY <1>0, <1>4, <2>1, <3>2 DEF Live
      <4>2. /\ pid[d] \in Pids /\ pid[d] # pid[c] /\ pid[c] \in Pids
            /\ Temp(d) = IF pc[d] = "extract" THEN {} ELSE {d}
        BY <1>4, <3>2, <4>1 DEF OwnTemp
      <4>3. Temp(d)' = Temp(d)
        BY <1>0, <1>4, <4>2 DEF Temp, SetTemp
      <4> QED BY <1>4, <4>1, <4>2, <4>3
    <3> QED BY <3>1, <3>2
  <2>2. \A d \in Cmds : Live(d)' => Live(d)
    BY <1>0, <1>4 DEF Live
  <2>3. \A d \in Cmds : pid'[d] # None => pc'[d] \in Importing \union EndPc
    BY <1>0, <1>4 DEF OwnTemp
  <2> QED BY <1>4, <2>1, <2>2, <2>3 DEF OwnTemp
<1>5. ASSUME NEW c \in Cmds, Extract(c) PROVE OwnTemp'
  <2>1. pc[c] = "extract" /\ UNCHANGED <<at, pid>> /\ SetTemp(c, Temp(c) \union {c})
    BY <1>5 DEF Extract
  <2>2. PICK l \in {"install", "discard"} : pc' = [pc EXCEPT ![c] = l]
    BY <1>5 DEF Extract, Goto
  <2>3. pid[c] \in Pids /\ Temp(c) = {}
    BY <2>1 DEF OwnTemp
  <2>4. Temp(c)' = {c}
    <3>1. temp' = [temp EXCEPT ![at[c]][pid[c]] = {c}]
      BY <2>1, <2>3 DEF SetTemp
    <3> QED BY <1>0, <2>1, <2>3, <3>1 DEF Temp
  <2> QED BY <1>4, <2>1, <2>2, <2>4
<1>6. ASSUME NEW c \in Cmds, Install(c) PROVE OwnTemp'
  <2>1. pc[c] = "install" /\ UNCHANGED <<at, pid>>
    BY <1>6 DEF Install
  <2>2. CASE Goto(c, "ok") /\ SetTemp(c, None)
    BY <1>4, <2>1, <2>2 DEF Goto
  <2>3. CASE Goto(c, "discard") /\ UNCHANGED temp
    <3>1. Temp(c)' = {c}
      BY <2>1, <2>3 DEF OwnTemp, Temp
    <3> QED BY <1>4, <2>1, <2>3, <3>1 DEF Goto
  <2> QED BY <1>6, <2>2, <2>3 DEF Install
<1>7. ASSUME NEW c \in Cmds, Discard(c) PROVE OwnTemp'
  <2>1. /\ pc[c] = "discard" /\ UNCHANGED <<at, pid>>
        /\ SetTemp(c, None) /\ pc' = [pc EXCEPT ![c] = "failed"]
    BY <1>7 DEF Discard, Goto
  <2> QED BY <1>4, <2>1
\* What is left of a command that is no import's does not change, and a
\* killed import is no longer at work.
<1>8. ASSUME NEW c \in Cmds, NEW l, l \notin Importing, pc[c] \notin EndPc,
             UNCHANGED <<temp, pid>>, \A d \in Cmds \ {c} : at'[d] = at[d],
             pc' = [pc EXCEPT ![c] = l],
             pc[c] \in Importing => l \in EndPc
      PROVE  OwnTemp'
  <2>1. ASSUME NEW d \in Cmds, pc'[d] \in Importing
        PROVE  pid'[d] \in Pids /\ Temp(d)' = IF pc'[d] = "extract" THEN {} ELSE {d}
    <3>1. d # c /\ pc'[d] = pc[d]
      BY <1>0, <1>8, <2>1
    <3>2. at'[d] = at[d]
      BY <1>8, <3>1
    <3>3. pid[d] \in Pids /\ Temp(d) = IF pc[d] = "extract" THEN {} ELSE {d}
      BY <2>1, <3>1 DEF OwnTemp
    <3> QED BY <1>8, <3>1, <3>2, <3>3 DEF Temp
  <2>2. \A d \in Cmds : Live(d)' => Live(d)
    BY <1>0, <1>8 DEF Live
  <2>3. \A d \in Cmds : pid'[d] # None => pc'[d] \in Importing \union EndPc
    BY <1>0, <1>8 DEF OwnTemp
  <2> QED BY <1>8, <2>1, <2>2, <2>3 DEF OwnTemp
<1>9. ASSUME NEW c \in Cmds, NoImport(c) PROVE OwnTemp'
  BY <1>8, <1>9 DEF NoImport
<1>10. ASSUME NEW c \in Cmds, Kill(c) PROVE OwnTemp'
  <2>1. PICK l \in {pc[c], "killed"} : pc' = [pc EXCEPT ![c] = l]
    BY <1>10, KillMoves
  <2>2. pc'[c] = l
    BY <1>0, <2>1
  <2>3. l \notin Importing /\ (pc[c] \in Importing => l \in EndPc)
    BY <1>10, <2>1, <2>2, KillMoves
  <2>4. UNCHANGED <<temp, pid, at>> /\ pc[c] \notin EndPc
    BY <1>10, KillMoves
  <2> QED BY <1>8, <2>1, <2>3, <2>4
<1>11. ASSUME NEW n \in Names, GuestEnds(n) PROVE OwnTemp'
  BY <1>11 DEF GuestEnds, OwnTemp, Temp, Live
<1> QED
  BY <1>1, <1>2, <1>3, <1>5, <1>6, <1>7, <1>9, <1>10, <1>11, OtherSteps DEF Next, ImportStep

\* The command whose files are in a temporary directory.
Owner(c, n, p) == at[c] = n /\ pid[c] = p /\ pc[c] \in Importing \union {"killed"}

LEMMA Owned ==
  ASSUME OwnTemp, NoTempLeft, NEW n \in Names, NEW p \in Pids, temp[n][p] \notin {None, {}}
  PROVE  \E c \in Cmds : Owner(c, n, p)
<1>1. PICK c \in Cmds : at[c] = n /\ pid[c] = p /\ (Live(c) \/ pc[c] = "killed")
  BY DEF NoTempLeft
<1>2. pid[c] # None
  BY <1>1, NoneAssumption
<1>3. pc[c] \in Importing \union EndPc
  BY <1>2 DEF OwnTemp
<1> QED BY <1>1, <1>3 DEF Owner, Live, Importing

\* Files in a temporary directory keep an owner that will remove them or was
\* killed (import_rootfs: every error after the first file removes them).
LEMMA NoTempLeftStep ==
  ASSUME TypeOK, OwnTemp, NoTempLeft, [Next]_vars
  PROVE  NoTempLeft'
<1> USE DEF Importing, EndPc
<1>0. /\ pc \in [Cmds -> Pc] /\ at \in [Cmds -> Names] /\ pid \in [Cmds -> Pids \union {None}]
      /\ temp \in [Names -> [Pids -> {None} \union SUBSET Cmds]]
  BY DEF TypeOK
<1> HIDE DEF TypeOK
<1> SUFFICES ASSUME NEW n \in Names, NEW p \in Pids, temp'[n][p] \notin {None, {}}
             PROVE  \E c \in Cmds : Owner(c, n, p)'
  BY DEF NoTempLeft, Owner, Live
\* A step that puts no file there leaves the owner as it is, or takes it one
\* step further.
<1>1. ASSUME temp[n][p] \notin {None, {}},
             \A d \in Cmds : Owner(d, n, p) => Owner(d, n, p)'
      PROVE  \E c \in Cmds : Owner(c, n, p)'
  BY <1>1, Owned
<1>2. CASE UNCHANGED vars
  BY <1>1, <1>2 DEF vars, Owner
<1>3. ASSUME NEW c \in Cmds, ImportRefused(c) PROVE \E d \in Cmds : Owner(d, n, p)'
  BY <1>0, <1>1, <1>3 DEF ImportRefused, Goto, Owner
<1>4. ASSUME NEW c \in Cmds, ImportBegin(c) PROVE \E d \in Cmds : Owner(d, n, p)'
  <2>1. PICK q \in Pids : /\ pid' = [pid EXCEPT ![c] = q]
                          /\ temp' = [temp EXCEPT ![at[c]][q] = {}]
    BY <1>4 DEF ImportBegin
  <2>2. /\ pc[c] = "import" /\ UNCHANGED at
        /\ \E l \in {"extract", "failed"} : pc' = [pc EXCEPT ![c] = l]
    BY <1>4 DEF ImportBegin, Goto
  <2>3. CASE at[c] = n /\ q = p
    BY <1>0, <2>1, <2>3
  <2>4. CASE ~(at[c] = n /\ q = p)
    <3>1. temp[n][p] \notin {None, {}}
      BY <1>0, <2>1, <2>4
    <3>2. ASSUME NEW d \in Cmds, Owner(d, n, p) PROVE Owner(d, n, p)'
      BY <1>0, <2>1, <2>2, <3>2 DEF Owner
    <3> QED BY <1>1, <3>1, <3>2
  <2> QED BY <2>3, <2>4
<1>5. ASSUME NEW c \in Cmds, Extract(c) PROVE \E d \in Cmds : Owner(d, n, p)'
  <2>1. pc[c] = "extract" /\ UNCHANGED <<at, pid>>
    BY <1>5 DEF Extract
  <2>2. PICK l \in {"install", "discard"} : pc' = [pc EXCEPT ![c] = l]
    BY <1>5 DEF Extract, Goto
  <2>3. temp' = [temp EXCEPT ![at[c]][pid[c]] = Temp(c) \union {c}]
    BY <1>5 DEF Extract, SetTemp
  <2>4. ASSUME NEW d \in Cmds, Owner(d, n, p) PROVE Owner(d, n, p)'
    BY <1>0, <2>1, <2>2, <2>4 DEF Owner
  <2>5. CASE at[c] = n /\ pid[c] = p
    BY <2>1, <2>4, <2>5 DEF Owner
  <2>6. CASE ~(at[c] = n /\ pid[c] = p)
    BY <1>0, <1>1, <2>3, <2>4, <2>6
  <2> QED BY <2>5, <2>6
\* Who ends an import has no temporary directory left.
<1>6. ASSUME NEW c \in Cmds, NEW l, UNCHANGED <<at, pid>>, SetTemp(c, None),
             pc' = [pc EXCEPT ![c] = l]
      PROVE  \E d \in Cmds : Owner(d, n, p)'
  <2>1. temp[n][p] \notin {None, {}} /\ ~(at[c] = n /\ pid[c] = p)
    BY <1>0, <1>6 DEF SetTemp
  <2>2. ASSUME NEW d \in Cmds, Owner(d, n, p) PROVE Owner(d, n, p)'
    BY <1>0, <1>6, <2>1, <2>2 DEF Owner
  <2> QED BY <1>1, <2>1, <2>2
<1>7. ASSUME NEW c \in Cmds, Install(c) PROVE \E d \in Cmds : Owner(d, n, p)'
  <2>1. UNCHANGED <<at, pid>>
    BY <1>7 DEF Install
  <2>2. CASE Goto(c, "ok") /\ SetTemp(c, None)
    BY <1>6, <2>1, <2>2 DEF Goto
  <2>3. CASE Goto(c, "discard") /\ UNCHANGED temp
    BY <1>0, <1>1, <2>1, <2>3, <1>7 DEF Goto, Owner, Install
  <2> QED BY <1>7, <2>2, <2>3 DEF Install
<1>8. ASSUME NEW c \in Cmds, Discard(c) PROVE \E d \in Cmds : Owner(d, n, p)'
  BY <1>6, <1>8 DEF Discard, Goto
<1>9. ASSUME NEW c \in Cmds, NoImport(c) PROVE \E d \in Cmds : Owner(d, n, p)'
  <2>1. temp[n][p] \notin {None, {}}
    BY <1>9 DEF NoImport
  <2>2. ASSUME NEW d \in Cmds, Owner(d, n, p) PROVE Owner(d, n, p)'
    <3>1. d # c
      BY <1>9, <2>2 DEF NoImport, Owner
    <3> QED BY <1>0, <1>9, <2>2, <3>1 DEF NoImport, Owner
  <2> QED BY <1>1, <2>1, <2>2
<1>10. ASSUME NEW c \in Cmds, Kill(c) PROVE \E d \in Cmds : Owner(d, n, p)'
  <2>1. PICK l \in {pc[c], "killed"} : pc' = [pc EXCEPT ![c] = l]
    BY <1>10, KillMoves
  <2>2. UNCHANGED <<temp, pid, at>>
    BY <1>10, KillMoves
  <2>3. ASSUME NEW d \in Cmds, Owner(d, n, p) PROVE Owner(d, n, p)'
    BY <1>0, <2>1, <2>2, <2>3 DEF Owner
  <2> QED BY <1>1, <2>2, <2>3
<1>11. ASSUME NEW m \in Names, GuestEnds(m) PROVE \E d \in Cmds : Owner(d, n, p)'
  BY <1>1, <1>11 DEF GuestEnds, Owner
<1> QED
  BY <1>2, <1>3, <1>4, <1>5, <1>7, <1>8, <1>9, <1>10, <1>11, OtherSteps DEF Next, ImportStep

-----------------------------------------------------------------------------
(* Container directories.                                                  *)

Working == {"read", "truncate", "write", "guest"}

\* One import's whole directory is at n.
Whole(n) == \E o \in Origins : /\ dir[n].rootfs = {o} /\ HasConfig(n)
                               /\ dir[n].meta = o \/ (o = Prior /\ dir[n].meta = None)

Dirs == HeldIsThere /\ WorkedOn /\ OneWholeImport

\* A step that leaves directories and open files alone, by a command that
\* has nothing open; it gets to work on a container only where there is one.
Aside(c) ==
  /\ UNCHANGED <<dir, touched, held>>
  /\ pc[c] \notin {"write", "remove"}
  /\ \E l \in Pc : /\ pc' = [pc EXCEPT ![c] = l]
                   /\ l \in Working => Exists(at[c]) /\ UNCHANGED at
  /\ \A d \in Cmds \ {c} : at'[d] = at[d]

LEMMA AsideSteps ==
  ASSUME TypeOK, NEW c \in Cmds,
         \/ ImportRefused(c) \/ ImportBegin(c) \/ Extract(c) \/ Discard(c)
         \/ Validate(c) \/ Read(c) \/ Info(c) \/ Bridge(c) \/ Launch(c) \/ Await(c)
         \/ StopStep(c) \/ Status(c) \/ Stop(c) \/ AutostartStep(c)
  PROVE  Aside(c)
<1> USE DEF Working, EndPc, Pc
<1>0. pc \in [Cmds -> Pc] /\ at \in [Cmds -> Names]
  BY DEF TypeOK
<1>1. chosen[c] \subseteq Names
  BY DEF TypeOK
<1> HIDE DEF TypeOK
<1>2. CASE ImportRefused(c) \/ ImportBegin(c) \/ Extract(c) \/ Discard(c)
  <2>1. UNCHANGED <<dir, touched, held, at>> /\ pc[c] \in {"import", "extract", "discard"}
    BY <1>2 DEF ImportRefused, ImportBegin, Extract, Discard
  <2>2. \E l \in {"failed", "extract", "install", "discard"} : Goto(c, l)
    BY <1>2 DEF ImportRefused, ImportBegin, Extract, Discard
  <2> QED BY <2>1, <2>2 DEF Aside, Goto
<1>3. CASE Validate(c) \/ Read(c)
  <2>1. UNCHANGED <<dir, touched, held, at>> /\ pc[c] \in {"validate", "read"}
    BY <1>3 DEF Validate, Read
  <2>2. \/ \E ok : Return(c, ok)
        \/ Exists(at[c]) /\ \E l \in {"stopped", "status", "read", "truncate"} : Goto(c, l)
    BY <1>3 DEF Validate, Read, HasConfig
  <2> QED BY <2>1, <2>2, ReturnMoves DEF Aside, Goto
<1>4. CASE Info(c) \/ Bridge(c) \/ Launch(c) \/ Await(c)
  <2>1. UNCHANGED <<dir, touched, held, at>> /\ pc[c] \in {"info", "bridge", "launch", "await"}
    BY <1>4 DEF Info, Bridge, Launch, Await
  <2>2. \/ \E ok : Return(c, ok)
        \/ \E l \in {"bridge", "launch"} : Goto(c, l)
        \/ After(c, "await")
    BY <1>4 DEF Info, Bridge, Launch, Await
  <2> QED BY <2>1, <2>2, ReturnMoves, AfterMoves DEF Aside, Goto
<1>5. CASE StopStep(c) \/ Status(c) \/ Stop(c)
  <2>1. /\ UNCHANGED <<dir, touched, held, at>>
        /\ pc[c] \in {"stopped", "halt", "halted", "down", "status", "stop"}
    BY <1>5 DEF StopStep, Stopped, Halt, Down, Status, Stop
  <2>2. \/ \E ok : Return(c, ok)
        \/ \E l \in {"halt", "stop", "lxc-destroy", "stopped"} : Goto(c, l)
        \/ After(c, "halted") \/ After(c, "down")
    BY <1>5 DEF StopStep, Stopped, Halt, Down, Status, Stop
  <2> QED BY <2>1, <2>2, ReturnMoves, AfterMoves DEF Aside, Goto
<1>6. CASE AutostartStep(c)
  <2>1. UNCHANGED <<dir, touched, held>> /\ pc[c] \in {"list", "statuses", "next"}
    BY <1>6 DEF AutostartStep, List, Statuses, NextContainer
  <2>2. UNCHANGED at \/ \E n \in chosen[c] : at' = [at EXCEPT ![c] = n]
    BY <1>6 DEF AutostartStep, List, Statuses, NextContainer
  <2>3. \A d \in Cmds \ {c} : at'[d] = at[d]
    BY <1>0, <1>1, <2>2
  <2>4. \/ \E l \in {"statuses", "next", "failed", "validate", "ok"} : Goto(c, l)
        \/ UNCHANGED pc
    BY <1>6 DEF AutostartStep, List, Statuses, NextContainer
  <2>5. UNCHANGED pc => pc' = [pc EXCEPT ![c] = pc[c]]
    BY <1>0
  <2> QED BY <1>0, <2>1, <2>3, <2>4, <2>5 DEF Aside, Goto
<1> QED BY <1>2, <1>3, <1>4, <1>5, <1>6

\* Such a step changes nothing about the directories.
LEMMA AsideKeepsDirs ==
  ASSUME TypeOK, Dirs, NEW c \in Cmds, Aside(c)
  PROVE  Dirs'
<1>0. pc \in [Cmds -> Pc] /\ held \subseteq Cmds
  BY DEF TypeOK
<1> HIDE DEF TypeOK
<1>1. PICK l \in Pc : /\ pc' = [pc EXCEPT ![c] = l]
                      /\ l \in Working => Exists(at[c]) /\ UNCHANGED at
  BY DEF Aside
<1>2. UNCHANGED <<dir, touched, held>> /\ c \notin held
  BY DEF Aside, Dirs, HeldIsThere
<1>3. \A d \in Cmds \ {c} : at'[d] = at[d] /\ pc'[d] = pc[d]
  BY <1>0, <1>1 DEF Aside
<1>4. HeldIsThere'
  BY <1>0, <1>2, <1>3 DEF Dirs, HeldIsThere, HasConfig, Exists
<1>5. WorkedOn'
  <2>1. ASSUME NEW d \in Cmds, pc'[d] \in Working PROVE at'[d] \in touched \/ Exists(at'[d])
    <3>1. CASE d = c
      BY <1>0, <1>1, <2>1, <3>1
    <3>2. CASE d # c
      BY <1>3, <2>1, <3>2 DEF Dirs, WorkedOn, Working
    <3> QED BY <3>1, <3>2
  <2> QED BY <1>2, <2>1 DEF WorkedOn, Working, Exists
<1>6. OneWholeImport'
  BY <1>2 DEF Dirs, OneWholeImport, HasConfig, Exists
<1> QED BY <1>4, <1>5, <1>6 DEF Dirs

\* A step that changes the directory of the container it works on, and who
\* has something open there, keeps them sound if it keeps that one sound.
LEMMA ChangeKeepsDirs ==
  ASSUME TypeOK, Dirs, NEW c \in Cmds, NEW l,
         pc' = [pc EXCEPT ![c] = l], UNCHANGED at,
         \A m \in Names \ {at[c]} : dir'[m] = dir[m] /\ (m \in touched => m \in touched'),
         \A d \in held' \ {c} : d \in held,
         c \in held' => l \in {"write", "remove"},
         \A d \in held' : at[d] = at[c] =>
           /\ pc'[d] = "write" => HasConfig(at[c])'
           /\ pc'[d] = "remove" => Exists(at[c])',
         (at[c] \in touched \/ Exists(at[c])) => (at[c] \in touched' \/ Exists(at[c])'),
         l \in Working => at[c] \in touched' \/ Exists(at[c])',
         at[c] \notin touched' /\ Exists(at[c])' => Whole(at[c])'
  PROVE  Dirs'
<1>0. pc \in [Cmds -> Pc] /\ at \in [Cmds -> Names] /\ held \subseteq Cmds
  BY DEF TypeOK
<1> HIDE DEF TypeOK
<1>1. \A d \in Cmds \ {c} : pc'[d] = pc[d]
  BY <1>0
<1>2. pc'[c] = l
  BY <1>0
<1>3. HeldIsThere'
  <2>1. ASSUME NEW d \in held'
        PROVE  /\ pc'[d] \in {"write", "remove"}
               /\ pc'[d] = "write" => HasConfig(at[d])'
               /\ pc'[d] = "remove" => Exists(at[d])'
    <3>1. CASE d = c
      BY <1>2, <2>1, <3>1
    <3>2. CASE d # c
      <4>1. d \in held /\ d \in Cmds /\ pc'[d] = pc[d] /\ at[d] \in Names
        BY <1>0, <1>1, <2>1, <3>2
      <4>2. /\ pc[d] \in {"write", "remove"}
            /\ pc[d] = "write" => HasConfig(at[d])
            /\ pc[d] = "remove" => Exists(at[d])
        BY <4>1 DEF Dirs, HeldIsThere
      <4>3. CASE at[d] = at[c]
        BY <2>1, <4>1, <4>2, <4>3
      <4>4. CASE at[d] # at[c]
        <5>1. dir'[at[d]] = dir[at[d]]
          BY <4>1, <4>4
        <5> QED BY <4>1, <4>2, <5>1 DEF HasConfig, Exists
      <4> QED BY <4>3, <4>4
    <3> QED BY <3>1, <3>2
  <2> QED BY <2>1 DEF HeldIsThere
<1>4. WorkedOn'
  <2>1. ASSUME NEW d \in Cmds, pc'[d] \in Working PROVE at[d] \in touched' \/ Exists(at[d])'
    <3>1. CASE d = c
      BY <1>2, <2>1, <3>1
    <3>2. CASE d # c
      <4>1. at[d] \in touched \/ Exists(at[d])
        BY <1>1, <2>1, <3>2 DEF Dirs, WorkedOn, Working
      <4>2. CASE at[d] = at[c]
        BY <4>1, <4>2
      <4>3. CASE at[d] # at[c]
        BY <1>0, <4>1, <4>3 DEF Exists
      <4> QED BY <4>2, <4>3
    <3> QED BY <3>1, <3>2
  <2> QED BY <2>1 DEF WorkedOn, Working
<1>5. OneWholeImport'
  <2>1. ASSUME NEW n \in Names, n \notin touched', Exists(n)' PROVE Whole(n)'
    <3>1. CASE n = at[c]
      BY <2>1, <3>1
    <3>2. CASE n # at[c]
      <4>1. n \notin touched /\ dir'[n] = dir[n]
        BY <2>1, <3>2
      <4>2. Whole(n)
        BY <2>1, <4>1 DEF Dirs, OneWholeImport, Whole, Exists
      <4> QED BY <4>1, <4>2 DEF Whole, HasConfig, Exists
    <3> QED BY <3>1, <3>2
  <2> QED BY <2>1 DEF OneWholeImport, Whole
<1> QED BY <1>3, <1>4, <1>5 DEF Dirs

\* A container that was whole and has its config rewritten stays whole, and
\* who has something open in it still has it there.
LEMMA RewriteKeepsDirs ==
  ASSUME TypeOK, Dirs, NEW c \in Cmds, NEW l, NEW f \in Config,
         pc' = [pc EXCEPT ![c] = l], UNCHANGED <<at, touched>>, Exists(at[c]),
         dir' = [dir EXCEPT ![at[c]] = [dir[at[c]] EXCEPT !.config = f]],
         held' \subseteq held \union {c}, c \in held' => l = "write"
  PROVE  Dirs'
<1>0. /\ pc \in [Cmds -> Pc] /\ at \in [Cmds -> Names] /\ held \subseteq Cmds
      /\ dir \in [Names -> Tree \union {None}]
  BY DEF TypeOK
<1> HIDE DEF TypeOK
<1>1. dir[at[c]] \in Tree
  BY <1>0 DEF Exists
<1>2. /\ dir'[at[c]] \in Tree /\ dir'[at[c]].config = f
      /\ dir'[at[c]].rootfs = dir[at[c]].rootfs /\ dir'[at[c]].meta = dir[at[c]].meta
  BY <1>0, <1>1 DEF Tree
<1>3. HasConfig(at[c])' /\ Exists(at[c])'
  BY <1>2, NoneAssumption DEF HasConfig, Exists
<1>4. at[c] \notin touched => Whole(at[c])
  BY <1>0 DEF Dirs, OneWholeImport, Whole
<1>5. at[c] \notin touched => Whole(at[c])'
  BY <1>2, <1>3, <1>4 DEF Whole
<1>6. \A m \in Names \ {at[c]} : dir'[m] = dir[m]
  BY <1>0
<1> QED BY <1>3, <1>5, <1>6, ChangeKeepsDirs

\* Entries that go belong to a container that is being removed, and a file
\* open in it goes with them.
LEMMA LoseKeepsDirs ==
  ASSUME TypeOK, Dirs, NEW c \in Cmds, NEW es, Exists(at[c]), Lose(at[c], es), UNCHANGED at,
         NEW l, l \notin Working, pc' = [pc EXCEPT ![c] = l],
         pc[c] # "write", c \in held => l = "remove"
  PROVE  Dirs'
<1>0. /\ pc \in [Cmds -> Pc] /\ at \in [Cmds -> Names] /\ held \subseteq Cmds
      /\ dir \in [Names -> Tree \union {None}]
  BY DEF TypeOK
<1> USE DEF Working
<1>1. dir[at[c]] \in Tree
  BY <1>0 DEF Exists
<1>2. dir' = [dir EXCEPT ![at[c]] = Without(dir[at[c]], es)] /\ touched' = touched \union {at[c]}
  BY DEF Lose
<1>3. dir'[at[c]] = Without(dir[at[c]], es) /\ dir'[at[c]] \in Tree
  BY <1>0, <1>1, <1>2, TreeTypes
<1> HIDE DEF TypeOK
<1>4. Exists(at[c])'
  BY <1>3, NoneAssumption DEF Exists
<1>5. held' \subseteq held
  BY DEF Lose
<1>6. ASSUME NEW d \in held', at[d] = at[c], pc'[d] = "write" PROVE HasConfig(at[c])'
  <2>1. d \in held /\ d \in Cmds /\ d # c /\ pc[d] = "write"
    BY <1>0, <1>5, <1>6
  <2>2. "config" \notin es
    BY <1>6, <2>1 DEF Lose
  <2>3. dir[at[c]].config # None
    BY <1>6, <2>1 DEF Dirs, HeldIsThere, HasConfig
  <2> QED BY <1>3, <1>4, <2>2, <2>3 DEF HasConfig, Exists, Without
<1>7. \A m \in Names \ {at[c]} : dir'[m] = dir[m]
  BY <1>0, <1>2
<1> QED BY <1>2, <1>4, <1>5, <1>6, <1>7, ChangeKeepsDirs

LEMMA LoseAllKeepsDirs ==
  ASSUME TypeOK, Dirs, NEW c \in Cmds, LoseAll(at[c]), UNCHANGED at,
         NEW l, l \notin Working, pc' = [pc EXCEPT ![c] = l]
  PROVE  Dirs'
<1>0. /\ pc \in [Cmds -> Pc] /\ at \in [Cmds -> Names] /\ held \subseteq Cmds
      /\ dir \in [Names -> Tree \union {None}]
  BY DEF TypeOK
<1> HIDE DEF TypeOK
<1>1. /\ dir' = [dir EXCEPT ![at[c]] = None] /\ touched' = touched \union {at[c]}
      /\ held' = {d \in held : at[d] # at[c]}
  BY DEF LoseAll
<1>2. \A m \in Names \ {at[c]} : dir'[m] = dir[m]
  BY <1>0, <1>1
<1> QED BY <1>1, <1>2, ChangeKeepsDirs

LEMMA StayKeepsDirs ==
  ASSUME TypeOK, Dirs, NEW c \in Cmds, NEW l,
         pc' = [pc EXCEPT ![c] = l], UNCHANGED <<dir, touched, at>>,
         held' \subseteq held \union {c},
         c \in held' => l = "remove" /\ Exists(at[c]),
         l \in Working => at[c] \in touched \/ Exists(at[c])
  PROVE  Dirs'
<1>0. pc \in [Cmds -> Pc] /\ at \in [Cmds -> Names] /\ held \subseteq Cmds
  BY DEF TypeOK
<1> HIDE DEF TypeOK
<1>1. ASSUME NEW d \in held', at[d] = at[c]
      PROVE  /\ pc'[d] = "write" => HasConfig(at[c])'
             /\ pc'[d] = "remove" => Exists(at[c])'
  <2>1. CASE d = c
    BY <1>0, <1>1, <2>1 DEF Exists
  <2>2. CASE d # c
    <3>1. d \in held /\ d \in Cmds /\ pc'[d] = pc[d]
      BY <1>0, <1>1, <2>2
    <3> QED BY <1>1, <3>1 DEF Dirs, HeldIsThere, HasConfig, Exists
  <2> QED BY <2>1, <2>2
<1>2. at[c] \notin touched' /\ Exists(at[c])' => Whole(at[c])'
  BY <1>0 DEF Dirs, OneWholeImport, Whole, HasConfig, Exists
<1>3. /\ c \in held' => l \in {"write", "remove"}
      /\ l \in Working => at[c] \in touched' \/ Exists(at[c])'
      /\ \A m \in Names \ {at[c]} : dir'[m] = dir[m] /\ (m \in touched => m \in touched')
      /\ \A d \in held' \ {c} : d \in held
      /\ (at[c] \in touched \/ Exists(at[c])) => (at[c] \in touched' \/ Exists(at[c])')
  BY DEF Exists
<1> QED BY <1>1, <1>2, <1>3, ChangeKeepsDirs

\* Every step keeps the directories sound.
LEMMA DirsStep ==
  ASSUME TypeOK, OwnTemp, Dirs, [Next]_vars
  PROVE  Dirs'
<1>0. /\ pc \in [Cmds -> Pc] /\ at \in [Cmds -> Names] /\ held \subseteq Cmds
      /\ dir \in [Names -> Tree \union {None}] /\ todo \in [Cmds -> SUBSET Entries]
  BY DEF TypeOK
<1> USE NoneAssumption DEF Working
<1> HIDE DEF TypeOK
<1>1. CASE UNCHANGED vars
  BY <1>1 DEF vars, Dirs, HeldIsThere, WorkedOn, OneWholeImport, HasConfig, Exists
<1>2. ASSUME NEW c \in Cmds, Aside(c) PROVE Dirs'
  BY <1>2, AsideKeepsDirs
\* The whole temporary directory takes the place of nothing, or of an empty
\* directory that nobody has a file open in.
<1>3. ASSUME NEW c \in Cmds, Install(c) PROVE Dirs'
  <2>1. pc[c] = "install" /\ UNCHANGED at
    BY <1>3 DEF Install
  <2>2. c \notin held
    BY <2>1 DEF Dirs, HeldIsThere
  <2>3. CASE dir[at[c]] \in {None, Bare}
    <3>1. Temp(c) = {c}
      BY <2>1 DEF OwnTemp, Importing
    <3>2. dir' = [dir EXCEPT ![at[c]] =
                    [rootfs |-> {c}, meta |-> c,
                     config |-> [of |-> c, net |-> TRUE, auto |-> FALSE]]]
      BY <1>3, <2>3, <3>1 DEF Install
    <3>3. /\ held' = {d \in held : at[d] # at[c]} /\ touched' = touched \ {at[c]}
          /\ pc' = [pc EXCEPT ![c] = "ok"]
      BY <1>3, <2>3 DEF Install, Goto
    <3>4. /\ dir'[at[c]] = [rootfs |-> {c}, meta |-> c,
                            config |-> [of |-> c, net |-> TRUE, auto |-> FALSE]]
          /\ \A m \in Names \ {at[c]} : dir'[m] = dir[m]
      BY <1>0, <3>2
    <3>5. [of |-> c, net |-> TRUE, auto |-> FALSE] \in Config /\ c \in Origins /\ {c} \in SUBSET Origins
      BY DEF Config, Origins
    <3>6. dir'[at[c]] # None /\ dir'[at[c]].config # None
      <4>1. [rootfs |-> {c}, meta |-> c, config |-> [of |-> c, net |-> TRUE, auto |-> FALSE]] \in Tree
        BY <3>5 DEF Tree
      <4>2. None \notin Tree /\ None \notin Config
        BY NoneAssumption
      <4>3. dir'[at[c]] # None
        BY <3>4, <4>1, <4>2
      <4>4. dir'[at[c]].config = [of |-> c, net |-> TRUE, auto |-> FALSE]
        BY <3>4
      <4>5. dir'[at[c]].config \in Config
        BY <3>5, <4>4
      <4> QED BY <4>2, <4>3, <4>5
    <3>7. Exists(at[c])' /\ HasConfig(at[c])'
      BY <2>1, <3>6 DEF Exists, HasConfig
    <3>8. Whole(at[c])'
      BY <2>1, <3>4, <3>5, <3>7 DEF Whole
    <3> QED BY <2>1, <2>2, <3>3, <3>4, <3>7, <3>8, ChangeKeepsDirs
  <2>4. CASE dir[at[c]] \notin {None, Bare}
    <3>1. UNCHANGED <<dir, touched, held>> /\ pc' = [pc EXCEPT ![c] = "discard"]
      BY <1>3, <2>4 DEF Install, Goto
    <3> QED BY <2>1, <2>2, <3>1, StayKeepsDirs
  <2> QED BY <2>3, <2>4
<1>4. ASSUME NEW c \in Cmds, Truncate(c) PROVE Dirs'
  <2>1. pc[c] = "truncate" /\ UNCHANGED <<at, touched>>
    BY <1>4 DEF Truncate
  <2>2. CASE Exists(at[c])
    <3>1. /\ dir' = [dir EXCEPT ![at[c]] = [dir[at[c]] EXCEPT !.config = Empty]]
          /\ held' = held \union {c} /\ pc' = [pc EXCEPT ![c] = "write"]
      BY <1>4, <2>2 DEF Truncate, Goto
    <3> QED BY <2>1, <2>2, <3>1, TreeTypes, RewriteKeepsDirs
  <2>3. CASE ~Exists(at[c])
    <3>1. UNCHANGED <<dir, held>> /\ Return(c, FALSE)
      BY <1>4, <2>3 DEF Truncate
    <3>2. c \notin held
      BY <2>1 DEF Dirs, HeldIsThere
    <3>3. PICK l \in {"next", "lxc-destroy"} \union EndPc : pc' = [pc EXCEPT ![c] = l]
      BY <3>1, ReturnMoves
    <3> QED BY <2>1, <3>1, <3>2, <3>3, StayKeepsDirs DEF EndPc
  <2> QED BY <2>2, <2>3
<1>5. ASSUME NEW c \in Cmds, Write(c) PROVE Dirs'
  <2>1. pc[c] = "write" /\ UNCHANGED <<at, touched>> /\ held' = held \ {c}
    BY <1>5 DEF Write
  <2>2. \E l \in {"next", "lxc-destroy", "guest"} \union EndPc : pc' = [pc EXCEPT ![c] = l]
    BY <1>5, ReturnMoves DEF Write, Goto
  <2>3. PICK l \in {"next", "lxc-destroy", "guest"} \union EndPc : pc' = [pc EXCEPT ![c] = l]
    BY <2>2
  <2>4. CASE c \in held
    <3>1. HasConfig(at[c]) /\ Exists(at[c])
      BY <2>1, <2>4 DEF Dirs, HeldIsThere, HasConfig
    <3>2. dir[at[c]].config \in Config
      BY <1>0, <3>1 DEF HasConfig, Exists, Tree
    <3>3. PICK f \in Config : dir' = [dir EXCEPT ![at[c]].config = f]
      BY <1>5, <2>4, <3>2, TreeTypes DEF Write
    <3>4. dir' = [dir EXCEPT ![at[c]] = [dir[at[c]] EXCEPT !.config = f]]
      BY <3>3
    <3> QED BY <2>1, <2>3, <3>1, <3>4, RewriteKeepsDirs
  <2>5. CASE c \notin held
    <3>1. UNCHANGED dir
      BY <1>5, <2>5 DEF Write
    <3>2. at[c] \in touched \/ Exists(at[c])
      BY <2>1 DEF Dirs, WorkedOn
    <3> QED BY <2>1, <2>3, <3>1, <3>2, StayKeepsDirs
  <2> QED BY <2>4, <2>5
\* start makes a directory anew only where one was removed, and a root file
\* system only where it was removed.
<1>6. ASSUME NEW c \in Cmds, Guest(c) PROVE Dirs'
  <2>1. /\ pc[c] = "guest" /\ UNCHANGED <<at, touched, held>>
        /\ pc' = [pc EXCEPT ![c] = "info"] /\ c \notin held
    BY <1>6 DEF Guest, Goto, Dirs, HeldIsThere
  <2>2. at[c] \in touched \/ Exists(at[c])
    BY <2>1 DEF Dirs, WorkedOn
  <2>3. \A m \in Names \ {at[c]} : dir'[m] = dir[m]
    BY <1>0, <1>6 DEF Guest
  <2>4. CASE ~Exists(at[c])
    <3>1. dir'[at[c]] = [Bare EXCEPT !.rootfs = {}]
      BY <1>0, <1>6, <2>4 DEF Guest
    <3>2. Exists(at[c])'
      <4>1. [Bare EXCEPT !.rootfs = {}] \in Tree
        BY TreeTypes
      <4> QED BY <2>1, <3>1, <4>1 DEF Exists
    <3>3. at[c] \in touched
      BY <2>2, <2>4
    <3>4. \A d \in held : at[d] # at[c]
      BY <2>4 DEF Dirs, HeldIsThere, HasConfig
    <3> QED BY <1>0, <2>1, <2>3, <3>2, <3>3, <3>4, ChangeKeepsDirs
  <2>5. CASE Exists(at[c])
    <3>1. dir[at[c]] \in Tree
      BY <1>0, <2>5 DEF Exists
    <3>2. dir'[at[c]] = IF dir[at[c]].rootfs = None THEN [dir[at[c]] EXCEPT !.rootfs = {}]
                                                    ELSE dir[at[c]]
      BY <1>0, <1>6, <2>5 DEF Guest
    <3>3. dir'[at[c]] \in Tree /\ dir'[at[c]].config = dir[at[c]].config
      BY <3>1, <3>2, TreeTypes DEF Tree
    <3>4. Exists(at[c])' /\ (HasConfig(at[c]) => HasConfig(at[c])')
      BY <2>1, <3>3 DEF Exists, HasConfig
    <3>5. at[c] \notin touched => Whole(at[c])'
      <4>1. HAVE at[c] \notin touched
      <4>2. PICK o \in Origins : /\ dir[at[c]].rootfs = {o} /\ HasConfig(at[c])
                                 /\ dir[at[c]].meta = o \/ (o = Prior /\ dir[at[c]].meta = None)
        BY <1>0, <2>5, <4>1 DEF Dirs, OneWholeImport
      <4>3. dir[at[c]].rootfs # None
        BY <4>2
      <4>4. dir'[at[c]] = dir[at[c]]
        BY <3>2, <4>3
      <4> QED BY <2>1, <3>4, <4>2, <4>4 DEF Whole
    <3>6. ASSUME NEW d \in held, at[d] = at[c]
          PROVE  pc'[d] = "write" => HasConfig(at[c])'
      <4>1. d \in Cmds /\ d # c /\ pc'[d] = pc[d]
        BY <1>0, <2>1, <3>6
      <4> QED BY <3>4, <3>6, <4>1 DEF Dirs, HeldIsThere
    <3> QED BY <1>0, <2>1, <2>3, <3>4, <3>5, <3>6, ChangeKeepsDirs
  <2> QED BY <2>4, <2>5
<1>7. ASSUME NEW c \in Cmds, LxcDestroy(c) PROVE Dirs'
  <2>1. pc[c] = "lxc-destroy" /\ UNCHANGED at /\ After(c, "exists") /\ c \notin held
    BY <1>7 DEF LxcDestroy, Dirs, HeldIsThere
  <2>2. PICK l \in {"exists", "killed"} : pc' = [pc EXCEPT ![c] = l]
    BY <2>1, AfterMoves
  <2>3. CASE UNCHANGED <<dir, held, touched>>
    BY <2>1, <2>2, <2>3, StayKeepsDirs
  <2>4. CASE LoseAll(at[c])
    BY <2>1, <2>2, <2>4, LoseAllKeepsDirs
  <2>5. ASSUME Exists(at[c]), NEW es, Lose(at[c], es) PROVE Dirs'
    BY <2>1, <2>2, <2>5, LoseKeepsDirs
  <2> QED BY <1>7, <2>3, <2>4, <2>5 DEF LxcDestroy, SeesStopped, HasConfig
<1>8. ASSUME NEW c \in Cmds, RemoveBegin(c) PROVE Dirs'
  <2>1. pc[c] = "exists" /\ UNCHANGED <<at, dir, touched>> /\ c \notin held
    BY <1>8 DEF RemoveBegin, Dirs, HeldIsThere
  <2>2. CASE Exists(at[c])
    <3>1. held' = held \union {c} /\ pc' = [pc EXCEPT ![c] = "remove"]
      BY <1>8, <2>2 DEF RemoveBegin, Goto
    <3> QED BY <2>1, <2>2, <3>1, StayKeepsDirs
  <2>3. CASE ~Exists(at[c])
    <3>1. held' = held /\ pc' = [pc EXCEPT ![c] = "ok"]
      BY <1>8, <2>3 DEF RemoveBegin, Goto
    <3> QED BY <2>1, <3>1, StayKeepsDirs
  <2> QED BY <2>2, <2>3
<1>9. ASSUME NEW c \in Cmds, RemoveEntry(c) PROVE Dirs'
  <2>1. pc[c] = "remove" /\ UNCHANGED <<at, pc>>
    BY <1>9 DEF RemoveEntry
  <2>2. pc' = [pc EXCEPT ![c] = "remove"]
    BY <1>0, <2>1
  <2>3. ASSUME NEW e, c \in held, Lose(at[c], {e}) PROVE Dirs'
    <3>1. Exists(at[c])
      BY <2>1, <2>3 DEF Dirs, HeldIsThere
    <3> QED BY <2>1, <2>2, <2>3, <3>1, LoseKeepsDirs
  <2>4. CASE c \notin held /\ UNCHANGED <<dir, held, touched>>
    BY <2>1, <2>2, <2>4, StayKeepsDirs
  <2> QED BY <1>9, <2>3, <2>4 DEF RemoveEntry
<1>10. ASSUME NEW c \in Cmds, RemoveDir(c) PROVE Dirs'
  <2>1. pc[c] = "remove" /\ UNCHANGED at
    BY <1>10 DEF RemoveDir
  <2>2. CASE LoseAll(at[c]) /\ Goto(c, "ok")
    BY <2>1, <2>2, LoseAllKeepsDirs DEF Goto
  <2>3. CASE Goto(c, "failed") /\ held' = held \ {c} /\ UNCHANGED <<dir, touched>>
    BY <2>1, <2>3, StayKeepsDirs DEF Goto
  <2> QED BY <1>10, <2>2, <2>3 DEF RemoveDir
<1>11. ASSUME NEW c \in Cmds, Kill(c) PROVE Dirs'
  <2>1. PICK l \in {pc[c], "killed"} : pc' = [pc EXCEPT ![c] = l]
    BY <1>11, KillMoves
  <2>2. l \notin Working
    <3>1. pc'[c] = l
      BY <1>0, <2>1
    <3> QED BY <1>11, <2>1, <3>1, KillMoves
  <2>3. UNCHANGED <<dir, touched, at>> /\ held' = held \ {c}
    BY <1>11, KillMoves
  <2> QED BY <2>1, <2>2, <2>3, StayKeepsDirs
<1>12. ASSUME NEW n \in Names, GuestEnds(n) PROVE Dirs'
  BY <1>12 DEF GuestEnds, Dirs, HeldIsThere, WorkedOn, OneWholeImport, HasConfig, Exists
<1> QED
  <2>1. ASSUME NEW c \in Cmds, ImportStep(c) PROVE Dirs'
    BY <2>1, <1>2, <1>3, AsideSteps DEF ImportStep
  <2>2. ASSUME NEW c \in Cmds, RewriteStep(c) PROVE Dirs'
    BY <2>2, <1>2, <1>4, <1>5, AsideSteps DEF RewriteStep
  <2>3. ASSUME NEW c \in Cmds, StartStep(c) \/ StopStep(c) \/ AutostartStep(c) PROVE Dirs'
    BY <2>3, <1>2, <1>6, AsideSteps DEF StartStep
  <2>4. ASSUME NEW c \in Cmds, DestroyStep(c) PROVE Dirs'
    BY <2>4, <1>2, <1>7, <1>8, <1>9, <1>10, AsideSteps DEF DestroyStep
  <2> QED BY <1>1, <1>11, <1>12, <2>1, <2>2, <2>3, <2>4 DEF Next

-----------------------------------------------------------------------------
(* The invariant and what it says.                                         *)

\* At first every container is as one import left it, whole, and no command
\* has begun.
LEMMA InvInit ==
  ASSUME Init
  PROVE  Inv
<1> USE NoneAssumption, LxcAssumption
<1>1. \A c \in Cmds : pc[c] \in {"import", "list", "validate"}
  BY DEF Init, FirstPc
<1>2. ASSUME NEW n \in Names
      PROVE  /\ dir[n] \in Tree \union {None}
             /\ dir[n] # None =>
                  dir[n].rootfs = {Prior} /\ dir[n].config # None /\ dir[n].meta \in {Prior, None}
  <2>1. CASE dir[n] # None
    <3>1. PICK m \in {Prior, None}, a \in BOOLEAN :
            dir[n] = [rootfs |-> {Prior}, meta |-> m,
                      config |-> [of |-> Prior, net |-> m # None, auto |-> a]]
      BY <2>1 DEF Init
    <3>2. Prior \in Origins /\ {Prior} \in SUBSET Origins
      BY DEF Origins
    <3>3. dir[n].config \in Config
      BY <3>1, <3>2 DEF Config
    <3>4. dir[n].config # None
      BY <3>3
    <3>5. dir[n] \in Tree
      BY <3>1, <3>2, <3>3 DEF Tree
    <3> QED BY <3>1, <3>4, <3>5
  <2> QED BY <2>1
<1>3. TypeOK
  <2>1. dir \in [Names -> Tree \union {None}]
    BY <1>2 DEF Init
  <2>2. pc \in [Cmds -> Pc]
    BY <1>1 DEF Init, Pc
  <2>3. op \in [Cmds -> AllOps \union {"orphan"}]
    BY DEF Init
  <2>4. temp \in [Names -> [Pids -> {None} \union SUBSET Cmds]]
    BY DEF Init
  <2>5. /\ buf \in [Cmds -> Config] /\ inst \in [Names -> States]
        /\ pid \in [Cmds -> Pids \union {None}] /\ at \in [Cmds -> Names]
    BY DEF Init, States, Config, Empty
  <2>6. want \in [Names -> BOOLEAN]
    <3>1. ASSUME NEW n \in Names PROVE (HasConfig(n) /\ dir[n].config.auto) \in BOOLEAN
      OBVIOUS
    <3>2. want = [n \in Names |-> HasConfig(n) /\ dir[n].config.auto]
      BY DEF Init
    <3> QED BY <3>1, <3>2, Zenon
  <2>7. /\ todo \in [Cmds -> SUBSET Entries] /\ names \in [Cmds -> SUBSET Names]
        /\ chosen \in [Cmds -> SUBSET Names] /\ failures \in [Cmds -> BOOLEAN]
        /\ owed \in [Cmds -> SUBSET Names]
        /\ held = {} /\ kills = 0 /\ touched = {} /\ raced = {} /\ gone = {}
    BY DEF Init
  <2>8. held \subseteq Cmds /\ kills \in 0..MaxKills
        /\ touched \subseteq Names /\ raced \subseteq Names /\ gone \subseteq Names
    BY <2>7
  <2> QED BY <2>1, <2>2, <2>3, <2>4, <2>5, <2>6, <2>7, <2>8 DEF TypeOK
<1>4. OwnTemp
  BY <1>1 DEF Init, OwnTemp, Importing
<1>5. HeldIsThere /\ WorkedOn
  BY <1>1 DEF Init, HeldIsThere, WorkedOn
<1>6. OneWholeImport
  BY <1>2 DEF OneWholeImport, Origins, HasConfig, Exists
<1>7. NoTempLeft
  BY DEF Init, NoTempLeft
<1> QED BY <1>3, <1>4, <1>5, <1>6, <1>7 DEF Inv

LEMMA InvStep == Inv /\ [Next]_vars => Inv'
BY TypeStep, OwnTempStep, NoTempLeftStep, DirsStep DEF Inv, Dirs

THEOREM Invariance == Spec => []Inv
BY InvInit, InvStep, PTL DEF Spec

\* The commands keep every directory, config and history in its type: no
\* step writes into a directory that is not there (achost-lxc-runtime).
THEOREM TypeCorrect == Spec => []TypeOK
BY Invariance, PTL DEF Inv

\* A container that no destroy has begun on is one import, whole, however
\* many imports, starts and kills of its name there are (import_rootfs).
THEOREM ImportsAreWhole == Spec => []OneWholeImport
BY Invariance, PTL DEF Inv

\* However many imports fail or race, only a killed one leaves files in its
\* temporary directory (import_rootfs).
THEOREM TempsAreRemoved == Spec => []NoTempLeft
BY Invariance, PTL DEF Inv
=============================================================================
