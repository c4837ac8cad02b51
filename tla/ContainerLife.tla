---------------------------- MODULE ContainerLife ----------------------------
(***************************************************************************)
(* What the commands of achost-lxc-runtime promise about a container,      *)
(* however many of them run at once, fail or are killed: an import puts a  *)
(* whole container in place in one step, where none was, exactly when it   *)
(* reports ok; from then on the container is that import's until a command *)
(* that was asked to destroy one takes it away.                            *)
(***************************************************************************)
CONSTANTS Cmds, Names, Prior

VARIABLES
  life,      \* the import each container is made of: {} or one
  importers, \* the commands that import
  phase      \* where each command is

vars == <<life, importers, phase>>

Over == {"ok", "failed", "killed"}

Init ==
  /\ life \in [Names -> {{}, {Prior}}]
  /\ importers \in SUBSET Cmds
  /\ phase = [c \in Cmds |-> "working"]

Goto(c, p) == phase' = [phase EXCEPT ![c] = p]

\* The one step of an import that anybody sees.
Import(c, n) ==
  /\ phase[c] = "working" /\ life[n] = {} /\ c \in importers /\ Goto(c, "ok")
  /\ life' = [life EXCEPT ![n] = {c}]
  /\ UNCHANGED importers

\* A destroy comes to the point from which it removes.
Turn(c) ==
  /\ c \notin importers /\ phase[c] = "working" /\ Goto(c, "removing")
  /\ UNCHANGED <<life, importers>>

\* It takes a container away, perhaps killed by then.
Remove(c, n) ==
  /\ phase[c] = "removing"
  /\ Goto(c, "removing") \/ Goto(c, "killed")
  /\ life' = [life EXCEPT ![n] = {}]
  /\ UNCHANGED importers

\* A command ends without doing anything more; no import says ok like that.
End(c) ==
  /\ phase[c] \notin Over /\ phase'[c] \in Over /\ Goto(c, phase'[c])
  /\ phase'[c] = "ok" => c \notin importers
  /\ UNCHANGED <<life, importers>>

\* A step is one that anybody sees.
Next ==
  /\ vars' # vars
  /\ \E c \in Cmds : Turn(c) \/ End(c) \/ \E n \in Names : Import(c, n) \/ Remove(c, n)

Spec == Init /\ [][Next]_vars
=============================================================================
