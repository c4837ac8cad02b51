---------------------------- MODULE CommandRunner ----------------------------
(***************************************************************************)
(* How achost-webui-api runs the programs behind the WebUI's buttons.      *)
(*                                                                         *)
(* One call is one achost-webui-api process. It runs one program, or for   *)
(* the checks one after the other, waits for it with a timeout, collects   *)
(* what it printed and answers. The pipes are not read while the program   *)
(* runs: a program that prints more than a pipe holds blocks. A program is *)
(* external: it prints, reports, leaves processes behind and ends as it    *)
(* likes. Time is abstracted to: the timeout may come whenever the         *)
(* program still runs.                                                     *)
(***************************************************************************)
EXTENDS Naturals

CONSTANTS
  Calls,       \* calls of the API, each made once
  JsonCalls,   \* answered from the JSON the program prints (run_lxc_json)
  InputCalls,  \* ... and given a password on stdin
  CheckCalls,  \* two programs one after the other (lxc-check, check)
  PipeSize,    \* what a pipe holds, in units of output
  Cap          \* MAX_COMMAND_OUTPUT_BYTES, in the same units

ASSUME RunnerAssumption ==
  /\ InputCalls \subseteq JsonCalls /\ JsonCalls \subseteq Calls
  /\ CheckCalls \subseteq Calls \ JsonCalls
  /\ PipeSize \in Nat \ {0} /\ Cap \in Nat

VARIABLES
  at,      \* where each call stands
  child,   \* its program
  said,    \* the report the program printed in full
  out,     \* what is in the program's two pipes
  held,    \* the program left a process behind that keeps the pipes open
  late,    \* the program was killed by the timeout
  todo,    \* programs still to run after this one
  sofar,   \* no program of the call failed so far
  reply,   \* the "ok" of the answer
  undone   \* history: calls one of whose programs did not do its work

runnerVars == <<at, child, said, out, held, late, todo, sofar, reply, undone>>

Streams == {"out", "err"}
Points  == {"idle", "feed", "wait", "collect", "replied"}
Ends    == {"good", "bad", "killed"}
Childs  == {"none", "running", "blocked"} \union Ends

Alive(c) == child[c] \in {"running", "blocked"}

RunnerInit ==
  /\ at = [c \in Calls |-> "idle"]
  /\ child = [c \in Calls |-> "none"]
  /\ said = [c \in Calls |-> "nothing"]
  /\ out = [c \in Calls |-> [s \in Streams |-> 0]]
  /\ held = [c \in Calls |-> FALSE]
  /\ late = [c \in Calls |-> FALSE]
  /\ todo = [c \in Calls |-> IF c \in CheckCalls THEN 1 ELSE 0]
  /\ sofar = [c \in Calls |-> TRUE]
  /\ reply = [c \in Calls |-> "none"]
  /\ undone = {}

-----------------------------------------------------------------------------
(* The API's side.                                                         *)

\* The program's pipes and its record go with the Child value.
Forget(c) ==
  /\ child' = [child EXCEPT ![c] = "none"]
  /\ said' = [said EXCEPT ![c] = "nothing"]
  /\ out' = [out EXCEPT ![c] = [s \in Streams |-> 0]]
  /\ held' = [held EXCEPT ![c] = FALSE]
  /\ late' = [late EXCEPT ![c] = FALSE]

\* Mutant of Result: the last program alone decides.
ResultOfLast(c, ok) ==
  /\ Forget(c)
  /\ sofar' = [sofar EXCEPT ![c] = ok]
  /\ IF todo[c] > 0
     THEN at' = [at EXCEPT ![c] = "idle"] /\ todo' = [todo EXCEPT ![c] = @ - 1]
          /\ UNCHANGED reply
     ELSE at' = [at EXCEPT ![c] = "replied"] /\ UNCHANGED todo
          /\ reply' = [reply EXCEPT ![c] = IF ok THEN "ok" ELSE "error"]

\* Mutant of Result: the check for the last program is off by one.
ResultRunsOn(c, ok) ==
  /\ Forget(c)
  /\ sofar' = [sofar EXCEPT ![c] = @ /\ ok]
  /\ IF todo[c] >= 0
     THEN at' = [at EXCEPT ![c] = "idle"] /\ todo' = [todo EXCEPT ![c] = @ - 1]
          /\ UNCHANGED reply
     ELSE at' = [at EXCEPT ![c] = "replied"] /\ UNCHANGED todo
          /\ reply' = [reply EXCEPT ![c] = IF sofar[c] /\ ok THEN "ok" ELSE "error"]

\* One program of the call is over: the next one, or the answer.
Result(c, ok) ==
  /\ Forget(c)
  /\ sofar' = [sofar EXCEPT ![c] = @ /\ ok]
  /\ IF todo[c] > 0
     THEN at' = [at EXCEPT ![c] = "idle"] /\ todo' = [todo EXCEPT ![c] = @ - 1]
          /\ UNCHANGED reply
     ELSE at' = [at EXCEPT ![c] = "replied"] /\ UNCHANGED todo
          /\ reply' = [reply EXCEPT ![c] = IF sofar[c] /\ ok THEN "ok" ELSE "error"]

\* spawn: the program runs with fresh pipes.
Begin(c) ==
  /\ at[c] = "idle"
  /\ at' = [at EXCEPT ![c] = IF c \in InputCalls THEN "feed" ELSE "wait"]
  /\ child' = [child EXCEPT ![c] = "running"]
  /\ UNCHANGED <<said, out, held, late, todo, sofar, reply, undone>>

\* spawn failed.
SpawnFails(c) ==
  /\ at[c] = "idle" /\ Result(c, FALSE)
  /\ undone' = undone \union {c}

\* write_all of the password, a line that any pipe holds, to a program that
\* may have ended without reading; stdin is closed with it.
Feed(c) ==
  /\ at[c] = "feed" /\ (Alive(c) \/ held[c])
  /\ at' = [at EXCEPT ![c] = "wait"]
  /\ UNCHANGED <<child, said, out, held, late, todo, sofar, reply, undone>>

FeedFails(c) ==
  /\ at[c] = "feed" /\ ~Alive(c) /\ ~held[c] /\ Result(c, FALSE)
  /\ undone' = undone \union {c}

\* try_wait every 100 ms: the program has ended.
Poll(c) ==
  /\ at[c] = "wait" /\ ~Alive(c)
  /\ at' = [at EXCEPT ![c] = "collect"]
  /\ UNCHANGED <<child, said, out, held, late, todo, sofar, reply, undone>>

\* Mutant of Timeout: the program is left running.
TimeoutWithoutKill(c) ==
  /\ at[c] = "wait" /\ Alive(c)
  /\ at' = [at EXCEPT ![c] = "collect"]
  /\ late' = [late EXCEPT ![c] = TRUE]
  /\ undone' = undone \union {c}
  /\ UNCHANGED <<child, said, out, held, todo, sofar, reply>>

\* ... or it has run for the timeout and is killed, not what it started.
Timeout(c) ==
  /\ at[c] = "wait" /\ Alive(c)
  /\ at' = [at EXCEPT ![c] = "collect"]
  /\ child' = [child EXCEPT ![c] = "killed"]
  /\ late' = [late EXCEPT ![c] = TRUE]
  /\ undone' = undone \union {c}
  /\ UNCHANGED <<said, out, held, todo, sofar, reply>>

\* ... or waiting itself failed: it is killed and not waited for.
WaitFails(c) ==
  /\ at[c] = "wait" /\ Alive(c) /\ Result(c, FALSE)
  /\ undone' = undone \union {c}

\* The collected text is JSON: the report, nothing on stderr behind it, not
\* cut off, and no note of a timeout after it.
Parses(c) ==
  /\ said[c] # "nothing" /\ out[c]["err"] = 0
  /\ out[c]["out"] + out[c]["err"] <= Cap /\ ~late[c]

\* action_json: the exit decides. parse_lxc_json_result: the report's own
\* "ok" decides where there is one, whatever the exit.
Success(c) == IF c \in JsonCalls THEN said[c] = "ok" /\ Parses(c)
                                 ELSE child[c] = "good" /\ ~late[c]

\* collect_child_output: wait_with_output reads both pipes to their end,
\* which comes when the last process that can write is gone.
Collect(c) ==
  /\ at[c] = "collect" /\ ~Alive(c) /\ ~held[c]
  /\ Result(c, Success(c)) /\ UNCHANGED undone

-----------------------------------------------------------------------------
(* The program's side.                                                     *)

\* A unit of output; a full pipe blocks the program, since nobody reads.
ChildPrint(c, s) ==
  /\ child[c] = "running" /\ (s = "out" => said[c] = "nothing")
  /\ IF out[c][s] < PipeSize
     THEN out' = [out EXCEPT ![c][s] = @ + 1] /\ UNCHANGED child
     ELSE child' = [child EXCEPT ![c] = "blocked"] /\ UNCHANGED out
  /\ UNCHANGED <<at, said, held, late, todo, sofar, reply, undone>>

\* The JSON report is complete with its last unit of output.
ChildReport(c, v) ==
  /\ child[c] = "running" /\ said[c] = "nothing" /\ out[c]["out"] < PipeSize
  /\ said' = [said EXCEPT ![c] = v]
  /\ out' = [out EXCEPT ![c]["out"] = @ + 1]
  /\ UNCHANGED <<at, child, held, late, todo, sofar, reply, undone>>

\* A process it started in the background inherits its pipes.
ChildLeaves(c) ==
  /\ child[c] = "running" /\ ~held[c]
  /\ held' = [held EXCEPT ![c] = TRUE]
  /\ UNCHANGED <<at, child, said, out, late, todo, sofar, reply, undone>>

HolderEnds(c) ==
  /\ held[c] /\ held' = [held EXCEPT ![c] = FALSE]
  /\ UNCHANGED <<at, child, said, out, late, todo, sofar, reply, undone>>

\* achost-lxc-runtime exits with 0 exactly when it reported ok.
ChildExit(c, e) ==
  /\ child[c] = "running" /\ e \in {"good", "bad"}
  /\ c \in JsonCalls => (e = "good" <=> said[c] = "ok")
  /\ child' = [child EXCEPT ![c] = e]
  /\ undone' = IF e = "bad" THEN undone \union {c} ELSE undone
  /\ UNCHANGED <<at, said, out, held, late, todo, sofar, reply>>

\* Android's low memory killer, or anybody.
ChildDies(c) ==
  /\ Alive(c) /\ child' = [child EXCEPT ![c] = "killed"]
  /\ undone' = IF said[c] = "ok" THEN undone ELSE undone \union {c}
  /\ UNCHANGED <<at, said, out, held, late, todo, sofar, reply>>

ApiStep(c) ==
  \/ Begin(c) \/ SpawnFails(c) \/ Feed(c) \/ FeedFails(c) \/ Poll(c)
  \/ Timeout(c) \/ WaitFails(c) \/ Collect(c)
ChildStep(c) ==
  \/ \E s \in Streams : ChildPrint(c, s)
  \/ c \in JsonCalls /\ \E v \in {"ok", "error"} : ChildReport(c, v)
  \/ ChildLeaves(c) \/ HolderEnds(c) \/ ChildDies(c)
  \/ \E e \in {"good", "bad"} : ChildExit(c, e)

RunnerNext == \E c \in Calls : ApiStep(c) \/ ChildStep(c)
RunnerSpec == RunnerInit /\ [][RunnerNext]_runnerVars

-----------------------------------------------------------------------------
RunnerTypeOK ==
  /\ at \in [Calls -> Points]
  /\ child \in [Calls -> Childs]
  /\ said \in [Calls -> {"nothing", "ok", "error"}]
  /\ out \in [Calls -> [Streams -> 0..PipeSize]]
  /\ held \in [Calls -> BOOLEAN]
  /\ late \in [Calls -> BOOLEAN]
  /\ todo \in [Calls -> {0, 1}]
  /\ sofar \in [Calls -> BOOLEAN]
  /\ reply \in [Calls -> {"none", "ok", "error"}]
  /\ undone \subseteq Calls

\* The API answers ok only when every program of the call did its work in
\* time: none failed to start, timed out, was killed or failed, whatever
\* its output looks like and whatever the later programs did. A program that
\* reports in JSON has done its work once it reported ok, also when
\* something kills it between that and its exit.
OkMeansDone == \A c \in Calls : reply[c] = "ok" => c \notin undone

\* An issued call goes on: fairness of the API's own process.
Issued(c) == at[c] # "idle" \/ (c \in CheckCalls /\ todo[c] = 0)

\* Every call is answered, also when its program never ends or blocks on a
\* full pipe, unless what it left behind keeps opening or holds the pipes.
EveryCallReturns ==
  \A c \in Calls : <>[]~held[c] => (Issued(c) ~> at[c] = "replied")
=============================================================================
