--------------------------- MODULE Supervise_proofs ---------------------------
(***************************************************************************)
(* Proofs about the supervisor server: its type invariant, the safety      *)
(* invariants of module Supervise, and that it implements the launch       *)
(* service, for every set of clients, pid files and pids and any number of *)
(* starts.                                                                 *)
(***************************************************************************)
EXTENDS Supervise, SequenceTheorems, TLAPS

Busy == {"read", "fork", "record", "reply"}

\* A request is queued at most once, and never while it is being served;
\* what is queued or served was not answered yet.
QueueSound ==
  /\ \A i, j \in 1..Len(backlog) : backlog[i] = backlog[j] => i = j
  /\ conn \notin Queued
  /\ \A c \in Queued \union ({conn} \ {NoClient}) :
       req[c].phase \in {"waiting", "dead"}

\* What the server holds in its hands at each point of handle_client.
ServerShape ==
  /\ conn # NoClient <=> pc \in Busy
  /\ child # NoPid => pc \in {"record", "reply"}
  /\ pc = "record" => child # NoPid
  /\ reply # "none" <=> pc = "reply"
  /\ reply = "OK" => child # NoPid

\* A pid nobody holds carries nothing of its last owner.
FreeIsBlank == \A p \in Pids : proc[p].st = "free" => proc[p] = FreeProc

\* No child exists for a request the server has not come to yet.
NotYetForked ==
  /\ \A c \in Clients : req[c].phase = "idle" => c \notin forked
  /\ \A c \in Queued : c \notin forked
  /\ pc \in Busy /\ child = NoPid => conn \notin forked

\* Every child's owner is remembered, and the request at hand has no other
\* child than the one the server knows.
OneChild ==
  /\ \A p \in Pids : proc[p].owner # NoClient => proc[p].owner \in forked
  /\ \A p \in Pids : conn # NoClient /\ proc[p].owner = conn => p = child

\* A child about to be refused was sent SIGTERM.
ToldBeforeReply ==
  pc = "reply" /\ reply = "ERR" /\ child # NoPid /\ proc[child].st \in {"forked", "live"} =>
    proc[child].term # "no"

Inv == /\ TypeOK /\ ServerShape /\ FreeIsBlank /\ QueueSound /\ NotYetForked
       /\ OneChild /\ ChildIsOurs /\ OkIsRecorded /\ ToldBeforeReply /\ RefusedChildTold

-----------------------------------------------------------------------------
(* The backlog as a set.                                                   *)

\* Appending a connection adds its client to the queued ones; a sequence
\* without repetitions stays one when the client is new (Connect).
LEMMA AppendQueue ==
  ASSUME NEW S, NEW s \in Seq(S), NEW e \in S
  PROVE  /\ {Append(s, e)[i] : i \in 1..Len(Append(s, e))} = {s[i] : i \in 1..Len(s)} \union {e}
         /\ (\A i, j \in 1..Len(s) : s[i] = s[j] => i = j) /\ e \notin {s[i] : i \in 1..Len(s)}
            => \A i, j \in 1..Len(Append(s, e)) : Append(s, e)[i] = Append(s, e)[j] => i = j
<1> DEFINE t == Append(s, e)
<1>1. /\ Len(t) = Len(s) + 1 /\ Len(s) \in Nat
      /\ \A i \in 1..Len(s) : t[i] = s[i]
      /\ t[Len(s) + 1] = e
  OBVIOUS
<1>2. ASSUME NEW i \in 1..Len(t) PROVE t[i] \in {s[k] : k \in 1..Len(s)} \union {e}
  <2>1. i \in 1..Len(s) \/ i = Len(s) + 1
    BY <1>1
  <2> QED BY <1>1, <2>1
<1>3. ASSUME NEW x \in {s[k] : k \in 1..Len(s)} \union {e} PROVE \E i \in 1..Len(t) : x = t[i]
  <2>1. CASE x = e
    BY <1>1, <2>1
  <2>2. CASE \E k \in 1..Len(s) : x = s[k]
    BY <1>1, <2>2
  <2> QED BY <2>1, <2>2
<1>4. {t[i] : i \in 1..Len(t)} = {s[i] : i \in 1..Len(s)} \union {e}
  BY <1>2, <1>3, Zenon
<1>5. ASSUME \A i, j \in 1..Len(s) : s[i] = s[j] => i = j, e \notin {s[i] : i \in 1..Len(s)},
             NEW i \in 1..Len(t), NEW j \in 1..Len(t), t[i] = t[j]
      PROVE  i = j
  <2>1. \A k \in 1..Len(t) : k \in 1..Len(s) \/ k = Len(s) + 1
    BY <1>1
  <2>2. \A k \in 1..Len(s) : t[k] = s[k] /\ s[k] # e
    BY <1>1, <1>5
  <2> QED BY <1>1, <1>5, <2>1, <2>2
<1> QED BY <1>4, <1>5

\* Accepting takes the head out of the backlog (Accept).
LEMMA TailQueue ==
  ASSUME NEW S, NEW s \in Seq(S), s # <<>>,
         \A i, j \in 1..Len(s) : s[i] = s[j] => i = j
  PROVE  /\ Head(s) \in {s[i] : i \in 1..Len(s)}
         /\ {Tail(s)[i] : i \in 1..Len(Tail(s))} = {s[i] : i \in 1..Len(s)} \ {Head(s)}
         /\ \A i, j \in 1..Len(Tail(s)) : Tail(s)[i] = Tail(s)[j] => i = j
<1> DEFINE t == Tail(s)
<1>1. /\ Len(s) \in Nat /\ Len(s) > 0 /\ Head(s) = s[1] /\ Len(t) = Len(s) - 1
      /\ \A i \in 1..Len(t) : t[i] = s[i + 1]
  OBVIOUS
<1>2. ASSUME NEW i \in 1..Len(t) PROVE t[i] \in {s[k] : k \in 1..Len(s)} \ {s[1]}
  <2>1. i + 1 \in 1..Len(s) /\ i + 1 # 1 /\ 1 \in 1..Len(s)
    BY <1>1
  <2> QED BY <1>1, <2>1
<1>3. ASSUME NEW x \in {s[k] : k \in 1..Len(s)} \ {s[1]} PROVE \E i \in 1..Len(t) : x = t[i]
  <2>1. PICK k \in 1..Len(s) : x = s[k]
    OBVIOUS
  <2>2. k - 1 \in 1..Len(t) /\ t[k - 1] = s[(k - 1) + 1] /\ (k - 1) + 1 = k
    BY <1>1, <2>1
  <2> QED BY <2>1, <2>2
<1>4. {t[i] : i \in 1..Len(t)} = {s[i] : i \in 1..Len(s)} \ {s[1]}
  <2> HIDE DEF t
  <2>1. \A x : x \in {t[i] : i \in 1..Len(t)} => x \in {s[i] : i \in 1..Len(s)} \ {s[1]}
    BY <1>2
  <2>2. \A x : x \in {s[i] : i \in 1..Len(s)} \ {s[1]} => x \in {t[i] : i \in 1..Len(t)}
    BY <1>3
  <2> QED BY <2>1, <2>2
<1>5. \A i, j \in 1..Len(t) : t[i] = t[j] => i = j
  BY <1>1
<1>6. s[1] \in {s[i] : i \in 1..Len(s)}
  BY <1>1
<1> QED BY <1>1, <1>4, <1>5, <1>6

-----------------------------------------------------------------------------
(* Types.                                                                  *)

USE DEF server, files

\* Closing connections and orphaning children keep the types.
LEMMA HelperTypes ==
  ASSUME TypeOK
  PROVE  /\ \A cs : Disconnect(cs) \in [Clients -> Request]
         /\ Orphans \in [Pids -> Process]
         /\ FreeProc \in Process
<1>1. \A cs : Disconnect(cs) \in [Clients -> Request]
  BY DEF TypeOK, Disconnect, Request, Phase
<1>2. Orphans \in [Pids -> Process]
  BY DEF TypeOK, Orphans, Process
<1>3. FreeProc \in Process
  BY DEF FreeProc, Process, ProcSt
<1> QED BY <1>1, <1>2, <1>3

\* Every step of the server, the clients and the kernel keeps the types and
\* what the server has in its hands (run_server, handle_client, fork_exec,
\* send_client_request).
LEMMA TypeStep ==
  ASSUME TypeOK, ServerShape, [Next]_vars
  PROVE  TypeOK' /\ ServerShape'
<1> USE ConstantsAssumption DEF TypeOK, ServerShape, Busy
<1> DEFINE Goal == TypeOK' /\ ServerShape'
<1>a. Disconnect(Queued) \in [Clients -> Request] /\ Disconnect(Queued \union {conn}) \in [Clients -> Request]
  BY HelperTypes
<1>b. Orphans \in [Pids -> Process] /\ FreeProc \in Process
  BY HelperTypes
<1>c. <<>> \in Seq(Clients) /\ \A c \in Clients : Append(backlog, c) \in Seq(Clients)
  OBVIOUS
<1>0. CASE UNCHANGED vars
  BY <1>0 DEF vars
<1>1. CASE Start
  BY <1>1 DEF Start, ServerPc
<1>2. CASE Bind
  BY <1>2 DEF Bind, ServerPc
<1>3. CASE WriteServerPid
  BY <1>3, <1>a, <1>c DEF WriteServerPid, ServerPc
<1>4. CASE LoopHead
  BY <1>4, <1>b DEF LoopHead, ServerPc
<1>5. CASE Accept
  <2>1. CASE backlog = <<>>
    BY <1>5, <2>1 DEF Accept, ServerPc
  <2>2. CASE backlog # <<>>
    <3>1. Head(backlog) \in Clients /\ Tail(backlog) \in Seq(Clients)
      BY <2>2
    <3> QED BY <1>5, <2>2, <3>1 DEF Accept, ServerPc
  <2> QED BY <2>1, <2>2
<1>6. CASE ReadRequest
  BY <1>6 DEF ReadRequest, ServerPc
<1>7. CASE ForkExec
  BY <1>7 DEF ForkExec, ServerPc, Process, ProcSt
<1>8. CASE RecordPid
  <2>1. child \in Pids /\ Terminate(child) \in [Pids -> Process]
    BY <1>8 DEF RecordPid, Terminate, Process
  <2>2. \A x \in Pids \union {NoPid} : \A f : [pidFile EXCEPT ![f] = x] \in [PidFiles -> Pids \union {NoPid}]
    OBVIOUS
  <2>3. pidFile' \in [PidFiles -> Pids \union {NoPid}]
    BY <1>8, <2>1, <2>2 DEF RecordPid
  <2> QED BY <1>8, <2>1, <2>3 DEF RecordPid, ServerPc
<1>9. CASE Reply
  <2>1. req' \in [Clients -> Request]
    BY <1>9 DEF Reply, Request, Phase
  <2> QED BY <1>9, <2>1 DEF Reply, ServerPc
<1>10. CASE DropListener
  BY <1>10, <1>a, <1>c DEF DropListener, ServerPc
<1>11. CASE RemoveServerPid
  BY <1>11, <1>b DEF RemoveServerPid, ServerPc
<1>12. CASE Signal
  BY <1>12 DEF Signal, ServerPc
<1>13. CASE Kill
  BY <1>13, <1>a, <1>b, <1>c DEF Kill, ServerPc
<1>14. ASSUME NEW c \in Clients, Connect(c) PROVE Goal
  <2>1. req' \in [Clients -> Request]
    BY <1>14 DEF Connect, Request, Phase
  <2> QED BY <1>14, <2>1, <1>c DEF Connect
<1>15. ASSUME NEW c \in Clients, Send(c) PROVE Goal
  <2>1. req' \in [Clients -> Request]
    BY <1>15 DEF Send, Request, Sent
  <2> QED BY <1>15, <2>1 DEF Send
<1>16. ASSUME NEW c \in Clients, ClientDies(c) PROVE Goal
  <2> DEFINE q == [req EXCEPT ![c].phase = "dead"]
  <2>1. q \in [Clients -> Request] /\ q[c].sent \in Sent
    BY DEF Request, Phase
  <2>2. req' = [q EXCEPT ![c].sent = IF @ = "partial" THEN "cut" ELSE @]
    BY <1>16 DEF ClientDies
  <2>3. req' \in [Clients -> Request]
    <3> HIDE DEF q
    <3> QED BY <2>1, <2>2 DEF Request, Sent
  <2> QED BY <1>16, <2>3 DEF ClientDies
<1>17. ASSUME NEW p \in Pids, ChildExec(p) PROVE Goal
  <2>1. proc[p] \in Process
    OBVIOUS
  <2>2. [proc[p] EXCEPT !.st = "live"] \in Process
    BY <2>1 DEF Process, ProcSt
  <2>3. proc' = [proc EXCEPT ![p] = [proc[p] EXCEPT !.st = "live"]]
    BY <1>17 DEF ChildExec
  <2>4. proc' \in [Pids -> Process]
    BY <2>2, <2>3
  <2> QED BY <1>17, <2>4 DEF ChildExec
<1>18. ASSUME NEW p \in Pids, ChildExit(p) PROVE Goal
  <2>1. proc[p] \in Process
    OBVIOUS
  <2>2. [proc[p] EXCEPT !.st = "zombie"] \in Process
    BY <2>1 DEF Process, ProcSt
  <2>3. proc' = [proc EXCEPT ![p] = [proc[p] EXCEPT !.st = "zombie"]]
    BY <1>18 DEF ChildExit
  <2>4. proc' \in [Pids -> Process]
    BY <2>2, <2>3
  <2> QED BY <1>18, <2>4 DEF ChildExit
<1>19. ASSUME NEW p \in Pids, InitReap(p) PROVE Goal
  BY <1>19, <1>b DEF InitReap
<1>20. ASSUME NEW p \in Pids, ForeignStart(p) PROVE Goal
  <2>1. proc[p] \in Process
    OBVIOUS
  <2>2. [proc[p] EXCEPT !.st = "live"] \in Process
    BY <2>1 DEF Process, ProcSt
  <2>3. proc' = [proc EXCEPT ![p] = [proc[p] EXCEPT !.st = "live"]]
    BY <1>20 DEF ForeignStart
  <2>4. proc' \in [Pids -> Process]
    BY <2>2, <2>3
  <2> QED BY <1>20, <2>4 DEF ForeignStart
<1>21. ASSUME NEW p \in Pids, ForeignEnd(p) PROVE Goal
  BY <1>21, <1>b DEF ForeignEnd
<1> QED
  BY <1>0, <1>1, <1>2, <1>3, <1>4, <1>5, <1>6, <1>7, <1>8, <1>9, <1>10, <1>11, <1>12, <1>13,
     <1>14, <1>15, <1>16, <1>17, <1>18, <1>19, <1>20, <1>21 DEF Next, ServerStep

\* The program starts well typed, with nothing in the server's hands.
LEMMA InitShape ==
  ASSUME Init
  PROVE  TypeOK /\ ServerShape
<1>1. req \in [Clients -> Request]
  BY DEF Init, Request, Phase, Sent
<1>2. proc \in [Pids -> Process]
  BY DEF Init, FreeProc, Process, ProcSt
<1>3. backlog \in Seq(Clients)
  BY DEF Init
<1>4. starts \in 0..MaxStarts /\ forked \subseteq Clients
  BY ConstantsAssumption DEF Init
<1>5. ServerShape
  BY DEF Init, ServerShape, Busy
<1> QED BY <1>1, <1>2, <1>3, <1>4, <1>5 DEF Init, TypeOK, ServerPc

\* The model is well typed in every reachable state.
THEOREM TypeCorrect == Spec => []TypeOK
<1>1. Init => TypeOK /\ ServerShape
  BY InitShape
<1>2. TypeOK /\ ServerShape /\ [Next]_vars => (TypeOK /\ ServerShape)'
  BY TypeStep
<1> QED BY <1>1, <1>2, PTL DEF Spec

-----------------------------------------------------------------------------
(* Safety.                                                                 *)

\* Sending SIGTERM changes nothing but what the process was sent, and a
\* process that runs was sent it afterwards (the kill in handle_client).
LEMMA TerminateEffect ==
  ASSUME TypeOK, NEW q \in Pids, NEW p \in Pids
  PROVE  /\ Terminate(q)[p].st = proc[p].st
         /\ Terminate(q)[p].owner = proc[p].owner
         /\ Terminate(q)[p].parent = proc[p].parent
         /\ proc[p].term # "no" => Terminate(q)[p].term # "no"
         /\ proc[p].st = "free" => Terminate(q)[p] = proc[p]
         /\ proc[q].st \in {"forked", "live"} => Terminate(q)[q].term # "no"
<1>1. proc \in [Pids -> Process]
  BY DEF TypeOK
<1> QED BY <1>1 DEF Terminate, Process

\* A child left behind keeps everything but its parent.
LEMMA OrphansEffect ==
  ASSUME TypeOK, FreeIsBlank, NEW p \in Pids
  PROVE  /\ Orphans[p].st = proc[p].st
         /\ Orphans[p].owner = proc[p].owner
         /\ Orphans[p].parent = "init"
         /\ proc[p].st = "free" => Orphans[p] = FreeProc
<1>1. proc \in [Pids -> Process]
  BY DEF TypeOK
<1> QED BY <1>1 DEF Orphans, Process, FreeIsBlank, FreeProc

\* TailQueue for the backlog, in the form SafeStep needs it.
LEMMA BacklogTail ==
  ASSUME backlog \in Seq(Clients), backlog # <<>>,
         \A i, j \in 1..Len(backlog) : backlog[i] = backlog[j] => i = j
  PROVE  /\ Head(backlog) \in {backlog[i] : i \in 1..Len(backlog)}
         /\ {Tail(backlog)[i] : i \in 1..Len(Tail(backlog))}
              = {backlog[i] : i \in 1..Len(backlog)} \ {Head(backlog)}
         /\ \A i, j \in 1..Len(Tail(backlog)) : Tail(backlog)[i] = Tail(backlog)[j] => i = j
  BY TailQueue

\* Every step keeps the inductive invariant.
LEMMA SafeStep ==
  ASSUME Inv, [Next]_vars, TypeOK', ServerShape'
  PROVE  Inv'
<1> USE ConstantsAssumption DEF Inv, TypeOK, ServerShape, Busy
<1> USE DEF FreeIsBlank, QueueSound, NotYetForked, OneChild, ChildIsOurs, OkIsRecorded,
            ToldBeforeReply, RefusedChildTold
<1>0. CASE UNCHANGED vars
  BY <1>0 DEF vars, Queued
<1>1. CASE Start
  BY <1>1 DEF Start, Queued
<1>2. CASE Bind
  BY <1>2 DEF Bind, Queued
<1>3. CASE WriteServerPid
  BY <1>3 DEF WriteServerPid, Disconnect, Queued
<1>4. CASE LoopHead
  BY <1>4 DEF LoopHead, FreeProc, Queued
<1>5. CASE Accept
  <2>1. CASE backlog = <<>>
    BY <1>5, <2>1 DEF Accept, Queued
  <2>2. CASE backlog # <<>>
    <3>1. /\ conn' \in Queued /\ Queued' = Queued \ {conn'}
          /\ \A i, j \in 1..Len(backlog') : backlog'[i] = backlog'[j] => i = j
      <4>1. conn' = Head(backlog) /\ backlog' = Tail(backlog)
        BY <1>5, <2>2 DEF Accept
      <4>2. \A i, j \in 1..Len(backlog) : backlog[i] = backlog[j] => i = j
        OBVIOUS
      <4>3. /\ Head(backlog) \in {backlog[i] : i \in 1..Len(backlog)}
            /\ {Tail(backlog)[i] : i \in 1..Len(Tail(backlog))}
                 = {backlog[i] : i \in 1..Len(backlog)} \ {Head(backlog)}
            /\ \A i, j \in 1..Len(Tail(backlog)) : Tail(backlog)[i] = Tail(backlog)[j] => i = j
        <5>1. backlog \in Seq(Clients)
          OBVIOUS
        <5> QED BY <5>1, <2>2, <4>2, BacklogTail
      <4>4. Queued' = {backlog'[i] : i \in 1..Len(backlog')}
        BY DEF Queued
      <4>5. Queued' = {Tail(backlog)[i] : i \in 1..Len(Tail(backlog))}
        BY <4>1, <4>4, Zenon
      <4> QED BY <4>1, <4>3, <4>5 DEF Queued
    <3> QED BY <1>5, <2>2, <3>1 DEF Accept
  <2> QED BY <2>1, <2>2
<1>6. CASE ReadRequest
  BY <1>6 DEF ReadRequest, Queued
<1>7. CASE ForkExec
  BY <1>7 DEF ForkExec, Queued
<1>8. CASE RecordPid
  <2>1. \A p \in Pids :
           /\ proc'[p].st = proc[p].st /\ proc'[p].owner = proc[p].owner
           /\ proc'[p].parent = proc[p].parent
           /\ proc[p].term # "no" => proc'[p].term # "no"
           /\ proc[p].st = "free" => proc'[p] = proc[p]
    BY <1>8, TerminateEffect DEF RecordPid
  <2>2. reply' = "ERR" /\ proc[child].st \in {"forked", "live"} => proc'[child].term # "no"
    BY <1>8, TerminateEffect DEF RecordPid
  <2>3. reply' = "OK" => pidFile'[req[conn].file] = child
    <3>1. req[conn].file \in PidFiles
      BY <1>8 DEF RecordPid, Request
    <3> QED BY <1>8, <3>1 DEF RecordPid
  <2> QED BY <1>8, <2>1, <2>2, <2>3 DEF RecordPid, Queued
<1>9. CASE Reply
  BY <1>9 DEF Reply, Queued
<1>10. CASE DropListener
  BY <1>10 DEF DropListener, Disconnect, Queued
<1>11. CASE RemoveServerPid
  <2>1. \A p \in Pids :
           /\ proc'[p].st = proc[p].st /\ proc'[p].owner = proc[p].owner
           /\ proc'[p].parent = "init"
           /\ proc[p].st = "free" => proc'[p] = FreeProc
    BY <1>11, OrphansEffect DEF RemoveServerPid
  <2> QED BY <1>11, <2>1 DEF RemoveServerPid, Queued
<1>12. CASE Signal
  BY <1>12 DEF Signal, Queued
<1>13. CASE Kill
  <2>1. \A p \in Pids :
           /\ proc'[p].st = proc[p].st /\ proc'[p].owner = proc[p].owner
           /\ proc'[p].parent = "init"
           /\ proc[p].st = "free" => proc'[p] = FreeProc
    BY <1>13, OrphansEffect DEF Kill
  <2>2. Queued' = {}
    BY <1>13 DEF Kill, Queued
  <2> QED BY <1>13, <2>1, <2>2 DEF Kill, Disconnect
<1>14. ASSUME NEW c \in Clients, Connect(c) PROVE Inv'
  <2>1. CASE sock # "live"
    <3>1. /\ c \notin Queued /\ c # conn /\ proc' = proc /\ forked' = forked
          /\ c \notin forked /\ Queued' = Queued
      BY <1>14, <2>1 DEF Connect, Queued
    <3>2. req' = [req EXCEPT ![c].phase = "failed"] /\ pidFile' = pidFile
      BY <1>14, <2>1 DEF Connect
    <3>3. FreeIsBlank' /\ NotYetForked' /\ OneChild'
      BY <1>14, <3>1, <3>2 DEF Connect
    <3>4. QueueSound'
      BY <1>14, <2>1, <3>1, <3>2 DEF Connect
    <3>5. RefusedChildTold'
      <4>1. \A p \in Pids : proc[p].owner # c
        BY <3>1
      <4>2. \A d \in Clients : d # c => req'[d] = req[d]
        BY <3>2
      <4> QED BY <3>1, <4>1, <4>2 DEF Process
    <3>6. ChildIsOurs' /\ OkIsRecorded' /\ ToldBeforeReply'
      BY <1>14, <3>1, <3>2 DEF Connect
    <3> QED BY <3>3, <3>4, <3>5, <3>6
  <2>2. CASE sock = "live"
    <3>1. c \notin Queued /\ c # conn
      BY <1>14 DEF Connect
    <3>2. /\ Queued' = Queued \union {c}
          /\ \A i, j \in 1..Len(backlog') : backlog'[i] = backlog'[j] => i = j
      <4>1. backlog' = Append(backlog, c) /\ backlog \in Seq(Clients)
        BY <1>14, <2>2 DEF Connect
      <4>2. c \notin {backlog[i] : i \in 1..Len(backlog)}
        BY <3>1 DEF Queued
      <4>3. \A i, j \in 1..Len(backlog) : backlog[i] = backlog[j] => i = j
        OBVIOUS
      <4>4. /\ {Append(backlog, c)[i] : i \in 1..Len(Append(backlog, c))}
                 = {backlog[i] : i \in 1..Len(backlog)} \union {c}
            /\ \A i, j \in 1..Len(Append(backlog, c)) :
                 Append(backlog, c)[i] = Append(backlog, c)[j] => i = j
        BY <4>1, <4>2, <4>3, AppendQueue
      <4> QED BY <4>1, <4>4 DEF Queued
    <3>3. /\ req' = [req EXCEPT ![c].phase = "waiting"]
          /\ proc' = proc /\ forked' = forked /\ c \notin forked
          /\ pidFile' = pidFile
      BY <1>14, <2>2 DEF Connect
    <3>4. FreeIsBlank' /\ NotYetForked' /\ OneChild'
      BY <1>14, <3>2, <3>3 DEF Connect
    <3>5. QueueSound'
      BY <1>14, <3>1, <3>2, <3>3 DEF Connect
    <3>6. ChildIsOurs' /\ OkIsRecorded' /\ ToldBeforeReply' /\ RefusedChildTold'
      BY <1>14, <3>1, <3>3 DEF Connect
    <3> QED BY <3>4, <3>5, <3>6
  <2> QED BY <2>1, <2>2
<1>15. ASSUME NEW c \in Clients, Send(c) PROVE Inv'
  BY <1>15 DEF Send, Queued
<1>16. ASSUME NEW c \in Clients, ClientDies(c) PROVE Inv'
  BY <1>16 DEF ClientDies, Queued
<1>17. ASSUME NEW p \in Pids, ChildExec(p) PROVE Inv'
  BY <1>17 DEF ChildExec, FreeProc, Queued
<1>18. ASSUME NEW p \in Pids, ChildExit(p) PROVE Inv'
  BY <1>18 DEF ChildExit, FreeProc, Queued
<1>19. ASSUME NEW p \in Pids, InitReap(p) PROVE Inv'
  BY <1>19 DEF InitReap, FreeProc, Queued
<1>20. ASSUME NEW p \in Pids, ForeignStart(p) PROVE Inv'
  BY <1>20 DEF ForeignStart, FreeProc, Queued
<1>21. ASSUME NEW p \in Pids, ForeignEnd(p) PROVE Inv'
  BY <1>21 DEF ForeignEnd, FreeProc, Queued
<1> QED
  BY <1>0, <1>1, <1>2, <1>3, <1>4, <1>5, <1>6, <1>7, <1>8, <1>9, <1>10, <1>11, <1>12,
     <1>13, <1>14, <1>15, <1>16, <1>17, <1>18, <1>19, <1>20, <1>21 DEF Next, ServerStep

\* The inductive invariant holds initially and is kept by every step.
LEMMA Inductive == Spec => []Inv
<1>1. Init => Inv
  <2> SUFFICES ASSUME Init PROVE Inv
    OBVIOUS
  <2>1. TypeOK /\ ServerShape
    BY InitShape
  <2>2. Queued = {} /\ Len(backlog) = 0
    BY DEF Init, Queued
  <2> QED BY <2>1, <2>2 DEF Init, Inv, FreeIsBlank, FreeProc, QueueSound, NotYetForked,
             OneChild, ChildIsOurs, OkIsRecorded, ToldBeforeReply, RefusedChildTold
<1>2. Inv /\ [Next]_vars => Inv'
  BY TypeStep, SafeStep DEF Inv
<1> QED BY <1>1, <1>2, PTL DEF Spec

\* The pid the server holds between fork_exec and its answer is its own
\* unreaped child: pids are recycled, but never this one.
THEOREM PidsAreNotRecycled == Spec => []ChildIsOurs
<1>1. Inv => ChildIsOurs
  BY DEF Inv
<1> QED BY <1>1, Inductive, PTL

\* An OK is only sent while the pid file holds the child's pid.
THEOREM OkMeansRecorded == Spec => []OkIsRecorded
<1>1. Inv => OkIsRecorded
  BY DEF Inv
<1> QED BY <1>1, Inductive, PTL

\* A refused client has no child of the present server that was not sent
\* SIGTERM.
THEOREM RefusalsAreTold == Spec => []RefusedChildTold
<1>1. Inv => RefusedChildTold
  BY DEF Inv
<1> QED BY <1>1, Inductive, PTL

-----------------------------------------------------------------------------
(* The server implements the launch service.                               *)

AbstractPhase == [c \in Clients |-> AbsPhase[req[c].phase]]

\* A step that keeps the phases and launches nothing is a stuttering step.
LEMMA SamePhases ==
  ASSUME TypeOK, \A c \in Clients : req'[c].phase = req[c].phase, forked' = forked
  PROVE  UNCHANGED Service!vars
<1>1. AbstractPhase' = AbstractPhase
  BY DEF AbstractPhase
<1> QED BY <1>1 DEF AbstractPhase, Service!vars

\* Disconnecting clients refuses those of them that wait, if there are any.
LEMMA DisconnectRefuses ==
  ASSUME TypeOK, NEW cs, req' = Disconnect(cs), forked' = forked
  PROVE  [Service!Next]_(Service!vars)
<1> DEFINE waiting == {c \in Clients : c \in cs /\ req[c].phase = "waiting"}
<1>1. \A c \in Clients : req'[c].phase = IF c \in waiting THEN "failed" ELSE req[c].phase
  BY DEF Disconnect, TypeOK, Request
<1>2. CASE waiting = {}
  BY <1>1, <1>2, SamePhases DEF TypeOK
<1>3. CASE waiting # {}
  <2>1. \A c \in waiting : AbstractPhase[c] = "pending"
    BY DEF AbstractPhase, AbsPhase
  <2>2. AbstractPhase' = [c \in Clients |-> IF c \in waiting THEN "refused" ELSE AbstractPhase[c]]
    BY <1>1 DEF AbstractPhase, AbsPhase
  <2>3. PICK ws \in SUBSET Clients : ws = waiting
    OBVIOUS
  <2>4. Service!Refuse(ws)
    BY <1>3, <2>1, <2>2, <2>3 DEF AbstractPhase, Service!Refuse
  <2> QED BY <2>4 DEF Service!Next
<1> QED BY <1>2, <1>3

\* A client's phase moves as the service's does.
LEMMA OnePhase ==
  ASSUME TypeOK, NEW c \in Clients, NEW x \in Phase,
         req'[c].phase = x, \A d \in Clients \ {c} : req'[d].phase = req[d].phase
  PROVE  AbstractPhase' = [AbstractPhase EXCEPT ![c] = AbsPhase[x]]
BY DEF AbstractPhase

\* Every step of the server and its clients is a step of the service or
\* leaves it alone.
LEMMA RefineStep ==
  ASSUME Inv, [Next]_vars
  PROVE  [Service!Next]_(Service!vars)
<1> USE DEF Inv
<1> DEFINE Goal == [Service!Next]_(Service!vars)
<1>0. CASE UNCHANGED vars
  BY <1>0, SamePhases DEF vars
<1>1. CASE \/ Start \/ Bind \/ LoopHead \/ Accept \/ ReadRequest \/ RecordPid \/ RemoveServerPid \/ Signal
  <2>1. req' = req /\ forked' = forked
    BY <1>1 DEF Start, Bind, LoopHead, Accept, ReadRequest, RecordPid, RemoveServerPid, Signal
  <2> QED BY <2>1, SamePhases
<1>2. CASE WriteServerPid
  <2>1. forked' = forked /\ (req' = req \/ req' = Disconnect(Queued))
    BY <1>2 DEF WriteServerPid
  <2> QED BY <2>1, SamePhases, DisconnectRefuses
<1>3. CASE ForkExec
  <2>1. CASE forked' = forked
    BY <1>3, <2>1, SamePhases DEF ForkExec
  <2>2. CASE forked' # forked
    <3>1. /\ conn \in Clients /\ conn \notin forked /\ forked' = forked \union {conn}
          /\ req[conn].phase \in {"waiting", "dead"}
      BY <1>3, <2>2 DEF ForkExec, TypeOK, ServerShape, Busy, NotYetForked, QueueSound
    <3>2. AbstractPhase' = AbstractPhase
      BY <1>3 DEF ForkExec, AbstractPhase
    <3>3. AbstractPhase[conn] \in {"pending", "gone"}
      BY <3>1 DEF AbstractPhase, AbsPhase
    <3>4. Service!Launch(conn)
      BY <3>1, <3>2, <3>3 DEF AbstractPhase, Service!Launch
    <3> QED BY <3>1, <3>4 DEF Service!Next
  <2> QED BY <2>1, <2>2
<1>4. CASE Reply
  <2>1. conn \in Clients /\ forked' = forked
    BY <1>4 DEF Reply, TypeOK, ServerShape, Busy
  <2>2. \A d \in Clients \ {conn} : req'[d].phase = req[d].phase
    BY <1>4 DEF Reply, TypeOK
  <2>3. CASE req[conn].phase # "waiting"
    <3>1. req'[conn].phase = req[conn].phase
      BY <1>4, <2>1, <2>3 DEF Reply, TypeOK, Request
    <3> QED BY <2>1, <2>2, <3>1, SamePhases
  <2>4. CASE req[conn].phase = "waiting" /\ reply = "OK"
    <3>1. req'[conn].phase = "ok"
      BY <1>4, <2>1, <2>4 DEF Reply, TypeOK, Request
    <3>2. AbstractPhase' = [AbstractPhase EXCEPT ![conn] = "granted"]
      BY <2>1, <2>2, <3>1, OnePhase DEF Phase, AbsPhase
    <3>3. AbstractPhase[conn] = "pending"
      BY <2>1, <2>4 DEF AbstractPhase, AbsPhase
    <3>4. conn \in forked
      BY <1>4, <2>1, <2>4, ConstantsAssumption DEF Reply, OkIsRecorded, OneChild, TypeOK
    <3>5. PICK c \in Clients : c = conn
      BY <2>1
    <3>6. Service!Grant(c)
      BY <2>1, <3>2, <3>3, <3>4, <3>5 DEF AbstractPhase, Service!Grant
    <3> QED BY <3>6 DEF Service!Next
  <2>5. CASE req[conn].phase = "waiting" /\ reply # "OK"
    <3>1. req'[conn].phase = "failed"
      BY <1>4, <2>1, <2>5 DEF Reply, TypeOK, Request
    <3>2. AbstractPhase' = [AbstractPhase EXCEPT ![conn] = "refused"]
      BY <2>1, <2>2, <3>1, OnePhase DEF Phase, AbsPhase
    <3>3. AbstractPhase[conn] = "pending"
      BY <2>1, <2>5 DEF AbstractPhase, AbsPhase
    <3>4. AbstractPhase' = [c \in Clients |-> IF c \in {conn} THEN "refused" ELSE AbstractPhase[c]]
      BY <3>2 DEF AbstractPhase
    <3>5. PICK cs \in SUBSET Clients : cs = {conn}
      BY <2>1
    <3>6. Service!Refuse(cs)
      BY <2>1, <3>3, <3>4, <3>5 DEF AbstractPhase, Service!Refuse
    <3> QED BY <3>6 DEF Service!Next
  <2> QED BY <2>3, <2>4, <2>5
<1>5. CASE DropListener
  <2>1. forked' = forked /\ req' = Disconnect(Queued)
    BY <1>5 DEF DropListener
  <2> QED BY <2>1, DisconnectRefuses
<1>6. CASE Kill
  <2>1. forked' = forked /\ req' = Disconnect(Queued \union {conn})
    BY <1>6 DEF Kill
  <2> QED BY <2>1, DisconnectRefuses
<1>7. ASSUME NEW c \in Clients, Connect(c) PROVE Goal
  <2>1. PICK x \in {"waiting", "failed"} :
          /\ req'[c].phase = x /\ \A d \in Clients \ {c} : req'[d].phase = req[d].phase
    BY <1>7 DEF Connect, TypeOK, Request
  <2>2. AbstractPhase' = [AbstractPhase EXCEPT ![c] = AbsPhase[x]]
    BY <2>1, OnePhase DEF Phase
  <2>3. AbstractPhase[c] = "idle" /\ AbsPhase[x] \in {"pending", "refused"} /\ forked' = forked
    BY <1>7 DEF Connect, AbstractPhase, AbsPhase
  <2>4. Service!Ask(c)
    BY <2>2, <2>3 DEF AbstractPhase, Service!Ask
  <2> QED BY <2>4 DEF Service!Next
<1>8. ASSUME NEW c \in Clients, Send(c) PROVE Goal
  <2>1. \A d \in Clients : req'[d].phase = req[d].phase
    BY <1>8 DEF Send, TypeOK, Request
  <2> QED BY <1>8, <2>1, SamePhases DEF Send
<1>9. ASSUME NEW c \in Clients, ClientDies(c) PROVE Goal
  <2>1. req'[c].phase = "dead" /\ \A d \in Clients \ {c} : req'[d].phase = req[d].phase
    BY <1>9 DEF ClientDies, TypeOK, Request
  <2>2. AbstractPhase' = [AbstractPhase EXCEPT ![c] = "gone"]
    BY <2>1, OnePhase DEF Phase, AbsPhase
  <2>3. AbstractPhase[c] = "pending" /\ forked' = forked
    BY <1>9 DEF ClientDies, AbstractPhase, AbsPhase
  <2>4. Service!Abandon(c)
    BY <2>2, <2>3 DEF AbstractPhase, Service!Abandon
  <2> QED BY <2>4 DEF Service!Next
<1>10. ASSUME NEW p \in Pids,
              ChildExec(p) \/ ChildExit(p) \/ InitReap(p) \/ ForeignStart(p) \/ ForeignEnd(p)
       PROVE  Goal
  <2>1. req' = req /\ forked' = forked
    BY <1>10 DEF ChildExec, ChildExit, InitReap, ForeignStart, ForeignEnd
  <2> QED BY <2>1, SamePhases
<1> QED
  BY <1>0, <1>1, <1>2, <1>3, <1>4, <1>5, <1>6, <1>7, <1>8, <1>9, <1>10 DEF Next, ServerStep

\* Every behaviour of the server, its clients and the kernel is a behaviour
\* of the launch service.
THEOREM Refinement == Spec => ImplementsLaunchService
<1>1. Init => Service!Init
  BY DEF Init, AbsPhase, Service!Init
<1>2. Inv /\ [Next]_vars => [Service!Next]_(Service!vars)
  BY RefineStep
<1> QED BY <1>1, <1>2, Inductive, PTL DEF Spec, Service!Spec, ImplementsLaunchService
=============================================================================
