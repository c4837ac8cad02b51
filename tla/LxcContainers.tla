---------------------------- MODULE LxcContainers ----------------------------
(***************************************************************************)
(* achost-lxc-runtime: import-rootfs, start, stop, destroy, set-autostart  *)
(* and the autostart at boot, on the directories and config files that all *)
(* of them share, and the containers LXC runs. Nothing is locked: the boot *)
(* script, the WebUI and a shell each run commands of their own, and the   *)
(* WebUI kills one that takes too long.                                    *)
(*                                                                         *)
(* A root file system is the set of imports whose files are in it, and a   *)
(* config is what the commands tell apart in it. lxc-start, lxc-stop and   *)
(* lxc-destroy are single steps that may also fail. The waits for a state  *)
(* are abstracted to: a wait ends when it sees the state, and may give up  *)
(* when it does not. Force makes no difference here.                       *)
(***************************************************************************)
EXTENDS Naturals, FiniteSets

CONSTANTS
  Cmds,      \* invocations of achost-lxc-runtime, each runs once
  Names,     \* container names
  Pids,      \* pids an import may get
  Prior,     \* the import that made what is there at first
  None,      \* nothing
  Ops,       \* the subcommands invoked
  MaxKills   \* bound: commands killed on their way

AllOps == {"import", "start", "stop", "destroy", "on", "off", "autostart"}

ASSUME LxcAssumption ==
  /\ Ops \subseteq AllOps /\ MaxKills \in Nat
  /\ Prior \notin Cmds /\ None \notin Cmds \union {Prior}

VARIABLES
  dir,      \* each container's directory
  temp,     \* .NAME.tmp.PID: the imports with files in it, None if absent
  inst,     \* what lxc-info says of each container
  op, at,   \* each command's subcommand, "orphan" for a child that outlives
            \*   a killed command, and the container it works on
  pid,      \* each import's pid
  pc,       \* where each command stands
  buf,      \* the config text a command read
  held,     \* commands whose open config or directory is still in its place
  todo,     \* destroy: directory entries to delete
  names,    \* autostart: containers to look at, then those to start
  chosen,   \* autostart: containers to start
  failures, \* autostart: a start failed
  kills,
  touched,  \* history: a removal of the container has begun
  raced,    \* history: two commands rewrote its config at once, or one was
            \*   killed while it did
  want,     \* history: its autostart as imported or last set
  owed,     \* history: what an autostart found no reason to leave stopped yet
  gone      \* history: a destroy of the name succeeded, no import since

disk == <<dir, temp>>
self == <<op, at, pid>>
auto == <<names, chosen, failures>>
hist == <<touched, raced, want, owed, gone>>
vars == <<disk, inst, self, pc, buf, held, todo, auto, kills, hist>>

Origins == Cmds \union {Prior}
\* of: the import whose lines are there; net: the container's address is.
Config  == [of : Origins \union {None}, net : BOOLEAN, auto : BOOLEAN]
Empty   == [of |-> None, net |-> FALSE, auto |-> FALSE]
\* Guest network files alone make a rootfs that holds no import.
Entries == {"rootfs", "meta", "config"}
Tree    == [rootfs : {None} \union SUBSET Origins, meta : Origins \union {None},
            config : Config \union {None}]
Bare    == [rootfs |-> None, meta |-> None, config |-> None]
ASSUME NoneAssumption == /\ None \notin Tree /\ None \notin Config /\ None \notin Pids
                         /\ \A s \in SUBSET Origins : s # None

States  == {"STOPPED", "RUNNING", "STOPPING"}

EndPc    == {"ok", "failed", "killed"}
FirstPc(o) == CASE o = "import" -> "import" [] o = "autostart" -> "list"
                [] OTHER -> "validate"
Pc == {"import", "extract", "install", "discard", "validate", "read", "truncate",
       "write", "guest", "info", "bridge", "launch", "await", "stopped", "halt",
       "halted", "down", "status", "stop", "lxc-destroy", "exists", "remove", "list",
       "statuses", "next"} \union EndPc

Live(c)    == pc[c] \notin EndPc
Quiet      == \A c \in Cmds : ~Live(c)
Exists(n)  == dir[n] # None
HasConfig(n) == Exists(n) /\ dir[n].config # None
\* Commands between reading a config and having rewritten it.
Writers(n) == {c \in Cmds : at[c] = n /\ pc[c] \in {"truncate", "write"}}

Goto(c, l) == pc' = [pc EXCEPT ![c] = l]

\* What follows a child process: nothing for a command that was killed.
After(c, l) == Goto(c, IF op[c] = "orphan" THEN "killed" ELSE l)

\* Mutant of Return: a start that failed is not counted.
ReturnUncounted(c, ok) ==
  /\ Goto(c, CASE op[c] = "autostart" -> "next"
               [] op[c] = "destroy"   -> "lxc-destroy"
               [] op[c] = "orphan"    -> "killed"
               [] OTHER               -> IF ok THEN "ok" ELSE "failed")
  /\ UNCHANGED auto

\* What follows start_container, stop_container and the other procedures:
\* autostart counts a failure and goes on, destroy ignores how its stop
\* ended, the rest is the command's result.
Return(c, ok) ==
  /\ Goto(c, CASE op[c] = "autostart" -> "next"
               [] op[c] = "destroy"   -> "lxc-destroy"
               [] op[c] = "orphan"    -> "killed"
               [] OTHER               -> IF ok THEN "ok" ELSE "failed")
  /\ failures' = [failures EXCEPT ![c] = @ \/ (op[c] = "autostart" /\ ~ok)]
  /\ UNCHANGED <<names, chosen>>

Init ==
  /\ op \in [Cmds -> Ops] /\ at \in [Cmds -> Names]
  /\ pid = [c \in Cmds |-> None]
  /\ dir \in [Names -> {None} \union
                {[rootfs |-> {Prior}, meta |-> m,
                  config |-> [of |-> Prior, net |-> m # None, auto |-> a]]
                   : m \in {Prior, None}, a \in BOOLEAN}]
  /\ temp = [n \in Names |-> [p \in Pids |-> None]]
  /\ inst \in [Names -> {"STOPPED", "RUNNING"}]
  /\ \A n \in Names : inst[n] = "RUNNING" => Exists(n) /\ dir[n].config.net
  /\ pc = [c \in Cmds |-> FirstPc(op[c])]
  /\ buf = [c \in Cmds |-> Empty] /\ held = {} /\ todo = [c \in Cmds |-> {}]
  /\ names = [c \in Cmds |-> {}] /\ chosen = [c \in Cmds |-> {}]
  /\ failures = [c \in Cmds |-> FALSE]
  /\ kills = 0
  /\ touched = {} /\ raced = {} /\ owed = [c \in Cmds |-> {}] /\ gone = {}
  /\ want = [n \in Names |-> HasConfig(n) /\ dir[n].config.auto]

-----------------------------------------------------------------------------
(* import-rootfs.                                                          *)

Temp(c) == temp[at[c]][pid[c]]
SetTemp(c, v) == temp' = [temp EXCEPT ![at[c]][pid[c]] = v]

\* The asset does not match its checksum, or the container exists, or no
\* temporary directory can be made.
ImportRefused(c) ==
  /\ pc[c] = "import" /\ Goto(c, "failed")
  /\ UNCHANGED <<disk, inst, self, buf, held, todo, auto, hist>>

\* Mutant of ImportBegin: a stale temporary directory is used as it is.
ImportBeginStale(c) ==
  /\ pc[c] = "import" /\ ~Exists(at[c])
  /\ \E p \in Pids :
       /\ \A d \in Cmds : Live(d) => pid[d] # p
       /\ pid' = [pid EXCEPT ![c] = p]
       /\ temp' = [temp EXCEPT ![at[c]][p] = IF @ = None THEN {} ELSE @]
  /\ \E l \in {"extract", "failed"} : Goto(c, l)
  /\ UNCHANGED <<dir, inst, op, at, buf, held, todo, auto, hist>>

\* The temporary directory is made; a stale one of that pid is removed first.
\* If rootfs cannot be made in it, it stays, empty.
ImportBegin(c) ==
  /\ pc[c] = "import" /\ ~Exists(at[c])
  /\ \E p \in Pids :
       /\ \A d \in Cmds : Live(d) => pid[d] # p
       /\ pid' = [pid EXCEPT ![c] = p]
       /\ temp' = [temp EXCEPT ![at[c]][p] = {}]
  /\ \E l \in {"extract", "failed"} : Goto(c, l)
  /\ UNCHANGED <<dir, inst, op, at, buf, held, todo, auto, hist>>

\* extract_rootfs_asset: the files arrive one by one, and it may fail on any.
Extract(c) ==
  /\ pc[c] = "extract"
  /\ SetTemp(c, Temp(c) \union {c})
  /\ \E l \in {"install", "discard"} : Goto(c, l)
  /\ UNCHANGED <<dir, inst, self, buf, held, todo, auto, hist>>

\* Mutant of Install: a failed rename returns at once.
InstallNoDiscard(c) ==
  /\ pc[c] = "install"
  /\ IF dir[at[c]] \in {None, Bare}
     THEN /\ dir' = [dir EXCEPT ![at[c]] =
                       [rootfs |-> Temp(c), meta |-> c,
                        config |-> [of |-> c, net |-> TRUE, auto |-> FALSE]]]
          /\ SetTemp(c, None)
          /\ held' = {d \in held : at[d] # at[c]}
          /\ touched' = touched \ {at[c]}
          /\ raced' = IF Writers(at[c]) = {} THEN raced \ {at[c]} ELSE raced \union {at[c]}
          /\ gone' = gone \ {at[c]}
          /\ want' = [want EXCEPT ![at[c]] = FALSE]
          /\ Goto(c, "ok")
     ELSE Goto(c, "failed") /\ UNCHANGED <<disk, held, touched, raced, gone, want>>
  /\ UNCHANGED <<inst, self, buf, todo, auto, owed>>

\* Mutant of Install: what is in its place is removed first.
InstallOver(c) ==
  /\ pc[c] = "install"
  /\ dir' = [dir EXCEPT ![at[c]] =
               [rootfs |-> Temp(c), meta |-> c,
                config |-> [of |-> c, net |-> TRUE, auto |-> FALSE]]]
  /\ SetTemp(c, None)
  /\ held' = {d \in held : at[d] # at[c]}
  /\ touched' = touched \ {at[c]}
  /\ raced' = IF Writers(at[c]) = {} THEN raced \ {at[c]} ELSE raced \union {at[c]}
  /\ gone' = gone \ {at[c]}
  /\ want' = [want EXCEPT ![at[c]] = FALSE]
  /\ Goto(c, "ok")
  /\ UNCHANGED <<inst, self, buf, todo, auto, owed>>

\* config and metadata are written into the temporary tree, which rename
\* puts in place: over nothing or an empty directory, never over a full one.
Install(c) ==
  /\ pc[c] = "install"
  /\ IF dir[at[c]] \in {None, Bare}
     THEN /\ dir' = [dir EXCEPT ![at[c]] =
                       [rootfs |-> Temp(c), meta |-> c,
                        config |-> [of |-> c, net |-> TRUE, auto |-> FALSE]]]
          /\ SetTemp(c, None)
          /\ held' = {d \in held : at[d] # at[c]}
          /\ touched' = touched \ {at[c]}
          /\ raced' = IF Writers(at[c]) = {} THEN raced \ {at[c]} ELSE raced \union {at[c]}
          /\ gone' = gone \ {at[c]}
          /\ want' = [want EXCEPT ![at[c]] = FALSE]
          /\ Goto(c, "ok")
     ELSE Goto(c, "discard") /\ UNCHANGED <<disk, held, touched, raced, gone, want>>
  /\ UNCHANGED <<inst, self, buf, todo, auto, owed>>

Discard(c) ==
  /\ pc[c] = "discard" /\ SetTemp(c, None) /\ Goto(c, "failed")
  /\ UNCHANGED <<dir, inst, self, buf, held, todo, auto, hist>>

-----------------------------------------------------------------------------
(* What start, stop, destroy and set-autostart share.                      *)

\* Mutant of Validate: start does not see to the network.
ValidateNoNetwork(c) ==
  /\ pc[c] = "validate"
  /\ IF Exists(at[c])
     THEN /\ Goto(c, CASE op[c] = "stop" -> "stopped" [] op[c] = "destroy" -> "status"
                       [] op[c] \in {"on", "off"} -> "read" [] OTHER -> "info")
          /\ UNCHANGED auto
     ELSE Return(c, FALSE)
  /\ UNCHANGED <<disk, inst, self, buf, held, todo, hist>>

\* validate_existing_container.
Validate(c) ==
  /\ pc[c] = "validate"
  /\ IF Exists(at[c])
     THEN /\ Goto(c, CASE op[c] = "stop" -> "stopped" [] op[c] = "destroy" -> "status"
                       [] OTHER -> "read")
          /\ UNCHANGED auto
     ELSE Return(c, FALSE)
  /\ UNCHANGED <<disk, inst, self, buf, held, todo, hist>>

\* Mutant of Read: the error of reading a missing config is ignored.
ReadUnchecked(c) ==
  /\ pc[c] = "read"
  /\ IF Exists(at[c])
     THEN /\ buf' = [buf EXCEPT ![c] = dir[at[c]].config]
          /\ raced' = IF Writers(at[c]) # {} THEN raced \union {at[c]} ELSE raced
          /\ Goto(c, "truncate") /\ UNCHANGED auto
     ELSE Return(c, FALSE) /\ UNCHANGED <<buf, raced>>
  /\ UNCHANGED <<disk, inst, self, held, todo, touched, want, owed, gone>>

\* The config is read to be rewritten.
Read(c) ==
  /\ pc[c] = "read"
  /\ IF HasConfig(at[c])
     THEN /\ buf' = [buf EXCEPT ![c] = dir[at[c]].config]
          /\ raced' = IF Writers(at[c]) # {} THEN raced \union {at[c]} ELSE raced
          /\ Goto(c, "truncate") /\ UNCHANGED auto
     ELSE Return(c, FALSE) /\ UNCHANGED <<buf, raced>>
  /\ UNCHANGED <<disk, inst, self, held, todo, touched, want, owed, gone>>

\* fs::write opens, and so empties or creates, the file ...
Truncate(c) ==
  /\ pc[c] = "truncate"
  /\ IF Exists(at[c])
     THEN /\ dir' = [dir EXCEPT ![at[c]].config = Empty]
          /\ held' = held \union {c}
          /\ owed' = [d \in Cmds |-> IF d = c THEN owed[d] ELSE owed[d] \ {at[c]}]
          /\ Goto(c, "write") /\ UNCHANGED auto
     ELSE Return(c, FALSE) /\ UNCHANGED <<dir, held, owed>>
  /\ UNCHANGED <<temp, inst, self, buf, todo, touched, raced, want, gone>>

\* Mutant of Rewritten: start writes the config of a fresh import.
RewrittenAnew(c) == IF op[c] \in {"on", "off"} THEN [buf[c] EXCEPT !.auto = op[c] = "on"]
                                               ELSE [buf[c] EXCEPT !.net = TRUE, !.auto = FALSE]

\* The rewritten text: rewrite_lxc_start_auto, or the address upserted.
Rewritten(c) == IF op[c] \in {"on", "off"} THEN [buf[c] EXCEPT !.auto = op[c] = "on"]
                                           ELSE [buf[c] EXCEPT !.net = TRUE]

\* What is in a file that holds text old after new is written over its
\* beginning: perhaps the last lines of a longer old text.
Overwritten(old, new) ==
  {new, [new EXCEPT !.auto = old.auto], [new EXCEPT !.net = @ \/ old.net]}

\* ... and writes it, perhaps into a file that is no longer there.
Write(c) ==
  /\ pc[c] = "write"
  /\ IF c \in held
     THEN \E t \in IF dir[at[c]].config = Empty THEN {Rewritten(c)}
                   ELSE Overwritten(dir[at[c]].config, Rewritten(c)) :
            dir' = [dir EXCEPT ![at[c]].config = t]
     ELSE UNCHANGED dir
  /\ owed' = [d \in Cmds |-> IF d = c THEN owed[d] ELSE owed[d] \ {at[c]}]
  /\ held' = held \ {c} /\ buf' = [buf EXCEPT ![c] = Empty]
  /\ IF op[c] \in {"on", "off"}
     THEN Return(c, TRUE) /\ want' = [want EXCEPT ![at[c]] = op[c] = "on"]
     ELSE Goto(c, "guest") /\ UNCHANGED <<auto, want>>
  /\ UNCHANGED <<temp, inst, self, todo, touched, raced, gone>>

-----------------------------------------------------------------------------
(* start_container after its config is written.                            *)

\* ensure_guest_network_config makes every directory it misses, the
\* container's own one included.
Guest(c) ==
  /\ pc[c] = "guest"
  /\ dir' = [dir EXCEPT ![at[c]] =
               IF ~Exists(at[c]) THEN [Bare EXCEPT !.rootfs = {}]
               ELSE IF @.rootfs = None THEN [@ EXCEPT !.rootfs = {}] ELSE @]
  /\ Goto(c, "info")
  /\ UNCHANGED <<temp, inst, self, buf, held, todo, auto, hist>>

Info(c) ==
  /\ pc[c] = "info"
  /\ IF inst[at[c]] = "RUNNING" THEN Return(c, TRUE)
                                ELSE Goto(c, "bridge") /\ UNCHANGED auto
  /\ UNCHANGED <<disk, inst, self, buf, held, todo, hist>>

\* prepare-bridge may fail; the log is truncated.
Bridge(c) ==
  /\ pc[c] = "bridge"
  /\ \/ Return(c, FALSE)
     \/ Goto(c, "launch") /\ UNCHANGED auto
  /\ UNCHANGED <<disk, inst, self, buf, held, todo, hist>>

\* lxc-start -d: only a container that is defined and does not run starts.
Launch(c) ==
  /\ pc[c] = "launch"
  /\ \/ Return(c, FALSE) /\ UNCHANGED <<inst, owed>>
     \/ /\ HasConfig(at[c]) /\ inst[at[c]] = "STOPPED"
        /\ inst' = [inst EXCEPT ![at[c]] = "RUNNING"]
        /\ owed' = [d \in Cmds |-> owed[d] \ {at[c]}]
        /\ After(c, "await") /\ UNCHANGED auto
  /\ UNCHANGED <<disk, self, buf, held, todo, touched, raced, want, gone>>

Await(c) ==
  /\ pc[c] = "await" /\ Return(c, inst[at[c]] = "RUNNING")
  /\ UNCHANGED <<disk, inst, self, buf, held, todo, hist>>

-----------------------------------------------------------------------------
(* stop_container. Without a config and a running container lxc-info has   *)
(* no answer, which is never STOPPED.                                      *)

SeesStopped(n) == HasConfig(n) /\ inst[n] = "STOPPED"

Stopped(c) ==
  /\ pc[c] = "stopped"
  /\ IF SeesStopped(at[c]) THEN Return(c, TRUE)
                           ELSE Goto(c, "halt") /\ UNCHANGED auto
  /\ UNCHANGED <<disk, inst, self, buf, held, todo, hist>>

\* lxc-stop, of a container that runs; it may also fail.
Halt(c) ==
  /\ pc[c] = "halt"
  /\ \/ After(c, "halted") /\ UNCHANGED inst
     \/ /\ inst[at[c]] # "STOPPED" /\ After(c, "down")
        /\ inst' = [inst EXCEPT ![at[c]] = "STOPPING"]
  /\ UNCHANGED <<disk, self, buf, held, todo, auto, hist>>

\* After a failed lxc-stop the state is looked at once more; after a good
\* one it is waited for.
Down(c) ==
  /\ pc[c] \in {"halted", "down"}
  /\ Return(c, SeesStopped(at[c]))
  /\ UNCHANGED <<disk, inst, self, buf, held, todo, hist>>

-----------------------------------------------------------------------------
(* destroy_container.                                                      *)

Status(c) ==
  /\ pc[c] = "status"
  /\ Goto(c, IF Exists(at[c]) /\ inst[at[c]] = "RUNNING" THEN "stop" ELSE "lxc-destroy")
  /\ UNCHANGED <<disk, inst, self, buf, held, todo, auto, hist>>

\* stop_container validates the name again.
Stop(c) ==
  /\ pc[c] = "stop"
  /\ IF Exists(at[c]) THEN Goto(c, "stopped") /\ UNCHANGED auto ELSE Return(c, FALSE)
  /\ UNCHANGED <<disk, inst, self, buf, held, todo, hist>>

Without(t, es) == [rootfs |-> IF "rootfs" \in es THEN None ELSE t.rootfs,
                   meta   |-> IF "meta"   \in es THEN None ELSE t.meta,
                   config |-> IF "config" \in es THEN None ELSE t.config]

\* Entries of a container's directory go: the files that were opened in them
\* have no place any more, and nobody expects the container to start.
Lose(n, es) ==
  /\ dir' = [dir EXCEPT ![n] = Without(@, es)]
  /\ held' = IF "config" \in es THEN {d \in held : at[d] # n \/ pc[d] # "write"} ELSE held
  /\ touched' = touched \union {n}
  /\ owed' = [d \in Cmds |-> owed[d] \ {n}]

\* The directory goes, and with it what is open in it.
LoseAll(n) ==
  /\ dir' = [dir EXCEPT ![n] = None]
  /\ held' = {d \in held : at[d] # n}
  /\ touched' = touched \union {n}
  /\ owed' = [d \in Cmds |-> owed[d] \ {n}]

\* lxc-destroy of a stopped container deletes it, or what it can of it; its
\* result is ignored.
LxcDestroy(c) ==
  /\ pc[c] = "lxc-destroy"
  /\ After(c, "exists")
  /\ \/ UNCHANGED <<dir, held, touched, owed>>
     \/ /\ SeesStopped(at[c])
        /\ LoseAll(at[c]) \/ \E es \in SUBSET Entries : Lose(at[c], es)
  /\ UNCHANGED <<temp, inst, self, buf, todo, auto, raced, want, gone>>

\* What lxc-destroy left is opened to be deleted.
RemoveBegin(c) ==
  /\ pc[c] = "exists"
  /\ IF Exists(at[c])
     THEN /\ Goto(c, "remove")
          /\ todo' = [todo EXCEPT ![c] = {e \in Entries : dir[at[c]][e] # None}]
          /\ held' = held \union {c} /\ UNCHANGED gone
     ELSE Goto(c, "ok") /\ gone' = gone \union {at[c]} /\ UNCHANGED <<todo, held>>
  /\ UNCHANGED <<disk, inst, self, buf, auto, touched, raced, want, owed>>

\* remove_dir_all: the entries it listed, in any order ...
RemoveEntry(c) ==
  /\ pc[c] = "remove"
  /\ \E e \in todo[c] :
       /\ todo' = [todo EXCEPT ![c] = @ \ {e}]
       /\ IF c \in held THEN Lose(at[c], {e})
                        ELSE UNCHANGED <<dir, held, touched, owed>>
  /\ UNCHANGED <<temp, inst, self, pc, buf, auto, raced, want, gone>>

\* ... then the directory, which must be empty by now.
RemoveDir(c) ==
  /\ pc[c] = "remove" /\ todo[c] = {}
  /\ IF dir[at[c]] = Bare
     THEN LoseAll(at[c]) /\ Goto(c, "ok") /\ gone' = gone \union {at[c]}
     ELSE /\ Goto(c, "failed") /\ held' = held \ {c}
          /\ UNCHANGED <<dir, touched, owed, gone>>
  /\ UNCHANGED <<temp, inst, self, buf, todo, auto, raced, want>>

-----------------------------------------------------------------------------
(* autostart, run once by the boot script.                                 *)

\* list_containers takes the names ...
List(c) ==
  /\ pc[c] = "list" /\ Goto(c, "statuses")
  /\ names' = [names EXCEPT ![c] =
                 {n \in Names : HasConfig(n) \/ (Exists(n) /\ dir[n].meta # None)}]
  /\ owed' = [owed EXCEPT ![c] =
                {n \in Names : HasConfig(n) /\ dir[n].config.auto /\ inst[n] # "RUNNING"}]
  /\ UNCHANGED <<disk, inst, self, buf, held, todo, chosen, failures>>
  /\ UNCHANGED <<touched, raced, want, gone>>

\* ... then each one's status: a container that vanished fails the command.
Statuses(c) ==
  /\ pc[c] = "statuses"
  /\ \/ names[c] = {} /\ Goto(c, "next") /\ UNCHANGED auto
     \/ \E n \in names[c] :
          IF Exists(n)
          THEN /\ names' = [names EXCEPT ![c] = @ \ {n}]
               /\ chosen' = IF HasConfig(n) /\ dir[n].config.auto /\ inst[n] # "RUNNING"
                            THEN [chosen EXCEPT ![c] = @ \union {n}] ELSE chosen
               /\ UNCHANGED <<pc, failures>>
          ELSE Goto(c, "failed") /\ UNCHANGED auto
  /\ UNCHANGED <<disk, inst, self, buf, held, todo, hist>>

\* Those that were not running are started one after the other.
NextContainer(c) ==
  /\ pc[c] = "next"
  /\ \/ \E n \in chosen[c] :
          /\ chosen' = [chosen EXCEPT ![c] = @ \ {n}]
          /\ at' = [at EXCEPT ![c] = n] /\ Goto(c, "validate")
     \/ /\ chosen[c] = {}
        /\ Goto(c, IF failures[c] THEN "failed" ELSE "ok")
        /\ UNCHANGED <<chosen, at>>
  /\ UNCHANGED <<disk, inst, op, pid, buf, held, todo, names, failures, hist>>

-----------------------------------------------------------------------------
\* SIGKILL, after the WebUI's timeout. The child it waits for lives on, and
\* what it wrote half stays half.
Kill(c) ==
  /\ Live(c) /\ pc[c] # FirstPc(op[c]) /\ op[c] # "orphan"
  /\ kills < MaxKills /\ kills' = kills + 1
  /\ IF pc[c] \in {"launch", "halt", "lxc-destroy"}
     THEN op' = [op EXCEPT ![c] = "orphan"] /\ UNCHANGED pc
     ELSE Goto(c, "killed") /\ UNCHANGED op
  /\ held' = held \ {c}
  /\ raced' = IF pc[c] = "write" THEN raced \union {at[c]} ELSE raced
  /\ UNCHANGED <<disk, inst, at, pid, buf, todo, auto, touched, want, owed, gone>>

\* A guest shuts down by itself or because it was told to.
GuestEnds(n) ==
  /\ inst[n] # "STOPPED" /\ inst' = [inst EXCEPT ![n] = "STOPPED"]
  /\ UNCHANGED <<disk, self, pc, buf, held, todo, auto, kills, hist>>

ImportStep(c)    == ImportRefused(c) \/ ImportBegin(c) \/ Extract(c) \/ Install(c) \/ Discard(c)
RewriteStep(c)   == Validate(c) \/ Read(c) \/ Truncate(c) \/ Write(c)
StartStep(c)     == Guest(c) \/ Info(c) \/ Bridge(c) \/ Launch(c) \/ Await(c)
StopStep(c)      == Stopped(c) \/ Halt(c) \/ Down(c)
DestroyStep(c)   == Status(c) \/ Stop(c) \/ LxcDestroy(c) \/ RemoveBegin(c)
                    \/ RemoveEntry(c) \/ RemoveDir(c)
AutostartStep(c) == List(c) \/ Statuses(c) \/ NextContainer(c)

Next ==
  \/ \E c \in Cmds :
       \/ /\ ImportStep(c) \/ RewriteStep(c) \/ StartStep(c) \/ StopStep(c)
             \/ DestroyStep(c) \/ AutostartStep(c)
          /\ UNCHANGED kills
       \/ Kill(c)
  \/ \E n \in Names : GuestEnds(n)

Spec == Init /\ [][Next]_vars

-----------------------------------------------------------------------------
TypeOK ==
  /\ dir \in [Names -> Tree \union {None}]
  /\ temp \in [Names -> [Pids -> {None} \union SUBSET Cmds]]
  /\ inst \in [Names -> States]
  /\ op \in [Cmds -> AllOps \union {"orphan"}] /\ at \in [Cmds -> Names]
  /\ pid \in [Cmds -> Pids \union {None}]
  /\ pc \in [Cmds -> Pc]
  /\ buf \in [Cmds -> Config]
  /\ held \subseteq Cmds
  /\ todo \in [Cmds -> SUBSET Entries]
  /\ names \in [Cmds -> SUBSET Names] /\ chosen \in [Cmds -> SUBSET Names]
  /\ failures \in [Cmds -> BOOLEAN]
  /\ kills \in 0..MaxKills
  /\ touched \subseteq Names /\ raced \subseteq Names /\ gone \subseteq Names
  /\ want \in [Names -> BOOLEAN] /\ owed \in [Cmds -> SUBSET Names]

\* A container in its place is one import, whole: until a destroy begins on
\* it, its files are all there and no other import's files are among them,
\* although imports of the name race, fail, are killed and get the pid of a
\* killed one (import_rootfs: a temporary directory, then rename).
OneWholeImport ==
  \A n \in Names \ touched : Exists(n) =>
    \E o \in Origins : /\ dir[n].rootfs = {o} /\ HasConfig(n)
                       /\ dir[n].meta = o \/ (o = Prior /\ dir[n].meta = None)

\* An import leaves files in its temporary directory only when it is killed:
\* whatever fails after the first file removes them (import_rootfs).
NoTempLeft ==
  \A n \in Names, p \in Pids : temp[n][p] \notin {None, {}} =>
    \E c \in Cmds : at[c] = n /\ pid[c] = p /\ (Live(c) \/ pc[c] = "killed")

\* Rewriting a config keeps what is not rewritten: unless two commands had
\* the same config in hand at once, or one was killed while it wrote, the
\* config is the import's and says the autostart that was set last
\* (rewrite_lxc_start_auto, upsert_lxc_config_value).
ConfigKept ==
  \A n \in Names \ (touched \union raced) :
    Exists(n) /\ (\A c \in Writers(n) : pc[c] # "write") =>
      /\ dir[n].rootfs = {dir[n].config.of}
      /\ dir[n].config.auto = want[n]

\* A container is started with its own address, a container made by other
\* tools included, unless its config is being rewritten or was spoilt as
\* above (start_container writes the address first).
StartedWithAddress ==
  [][\A n \in Names :
       inst[n] = "STOPPED" /\ inst'[n] = "RUNNING"
       /\ n \notin touched \union raced /\ Writers(n) = {}
       => dir[n].config.net]_vars

\* An autostart that reports success has left no container stopped that was
\* to start when it began: each one was started, or set off, rewritten or
\* removed by another command meanwhile (autostart_containers).
AutostartOkCovers ==
  \A c \in Cmds : op[c] = "autostart" /\ pc[c] = "ok" => owed[c] = {}

-----------------------------------------------------------------------------
(* The refinement of ContainerLife: what there is of a container is gone   *)
(* as soon as its removal begins.                                          *)

AbsLife  == [n \in Names |-> IF n \in touched \/ ~Exists(n) THEN {} ELSE dir[n].rootfs]

Phase(l) == IF l \in EndPc THEN l
            ELSE IF l \in {"lxc-destroy", "exists", "remove"} THEN "removing" ELSE "working"
AbsPhase == [c \in Cmds |-> Phase(pc[c])]

Life == INSTANCE ContainerLife WITH life <- AbsLife, phase <- AbsPhase,
                                    importers <- {c \in Cmds : op[c] = "import"}

\* Whatever runs at the same time, fails or is killed, the commands keep
\* what ContainerLife promises: no container is replaced by another import,
\* none appears by halves or without an import that says ok, and none goes
\* but by a destroy (import_rootfs, destroy_container).
ImplementsContainerLife == Life!Spec

\* A container that destroy reported destroyed leaves no directory behind,
\* half or whole, once every command has ended (docs/device-compatibility.md:
\* destroy leaves no half container directory).
DestroyLeavesNothing == Quiet => \A n \in gone : ~Exists(n)
=============================================================================
