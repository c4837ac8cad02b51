------------------------ MODULE CommandRunner_proofs ------------------------
(***************************************************************************)
(* Theorems about CommandRunner, for any calls and any pipe and output     *)
(* limits: the types of its state, and that no call is answered with ok    *)
(* when one of its programs did not do its work.                           *)
(***************************************************************************)
EXTENDS CommandRunner, TLAPS

\* The program of the call at hand will be found to have failed.
Doomed(c) == \/ late[c]
             \/ /\ child[c] \in {"bad", "killed"}
                /\ c \in JsonCalls => said[c] # "ok"

\* A call has a program exactly between its start and its result, and an
\* answer exactly at its end.
CallShape ==
  \A c \in Calls : /\ child[c] = "none" <=> at[c] \in {"idle", "replied"}
                   /\ reply[c] # "none" <=> at[c] = "replied"

\* What went wrong is remembered until the answer, which tells it.
FailureKept ==
  \A c \in undone : IF at[c] = "replied" THEN reply[c] # "ok"
                                         ELSE ~sofar[c] \/ Doomed(c)

CInv == RunnerTypeOK /\ CallShape /\ FailureKept

-----------------------------------------------------------------------------
\* The result of a program, good or bad, keeps the invariant when good
\* results come from programs that did their work.
LEMMA ResultKeeps ==
  ASSUME CInv, NEW c \in Calls, NEW ok \in BOOLEAN, Result(c, ok), at[c] # "replied",
         \/ ~ok /\ undone' = undone \union {c}
         \/ undone' = undone /\ (Doomed(c) => ~ok)
  PROVE  CInv'
<1>1. RunnerTypeOK'
  <2>1. todo' \in [Calls -> {0, 1}]
    BY DEF CInv, RunnerTypeOK, Result
  <2>2. /\ said' \in [Calls -> {"nothing", "ok", "error"}] /\ held' \in [Calls -> BOOLEAN]
        /\ out' \in [Calls -> [Streams -> 0..PipeSize]] /\ late' \in [Calls -> BOOLEAN]
        /\ child' \in [Calls -> Childs]
    BY RunnerAssumption DEF CInv, RunnerTypeOK, Result, Forget, Childs
  <2>3. /\ at' \in [Calls -> Points] /\ reply' \in [Calls -> {"none", "ok", "error"}]
        /\ sofar' \in [Calls -> BOOLEAN]
    BY DEF CInv, RunnerTypeOK, Result, Points
  <2>. QED BY <2>1, <2>2, <2>3 DEF CInv, RunnerTypeOK
<1>2. /\ \A d \in Calls : d # c => /\ at'[d] = at[d] /\ child'[d] = child[d] /\ said'[d] = said[d]
                                   /\ late'[d] = late[d] /\ sofar'[d] = sofar[d] /\ reply'[d] = reply[d]
      /\ child'[c] = "none" /\ sofar'[c] = (sofar[c] /\ ok)
      /\ \/ at'[c] = "idle" /\ reply'[c] = reply[c]
         \/ at'[c] = "replied" /\ reply'[c] = IF sofar[c] /\ ok THEN "ok" ELSE "error"
  BY DEF CInv, RunnerTypeOK, Result, Forget
<1>3. CallShape'
  BY <1>2 DEF CInv, CallShape
<1>4. FailureKept'
  <2>1. ASSUME NEW d \in undone', d # c
        PROVE  IF at'[d] = "replied" THEN reply'[d] # "ok" ELSE ~sofar'[d] \/ Doomed(d)'
    <3>1. d \in undone /\ d \in Calls
      BY <2>1 DEF CInv, RunnerTypeOK
    <3>. QED BY <1>2, <2>1, <3>1 DEF CInv, FailureKept, Doomed
  <2>2. c \in undone' => ~(sofar[c] /\ ok)
    BY DEF CInv, FailureKept
  <2>. QED BY <1>2, <2>1, <2>2 DEF FailureKept
<1>. QED BY <1>1, <1>3, <1>4 DEF CInv

LEMMA ApiKeeps ==
  ASSUME CInv, NEW c \in Calls, ApiStep(c)
  PROVE  CInv'
<1>1. CASE Begin(c)
  <2>1. RunnerTypeOK'
    BY <1>1 DEF Begin, CInv, RunnerTypeOK, Points, Childs
  <2>2. CallShape'
    BY <1>1 DEF Begin, CInv, RunnerTypeOK, CallShape
  <2>3. FailureKept'
    BY <1>1 DEF Begin, CInv, RunnerTypeOK, CallShape, FailureKept, Doomed
  <2>. QED BY <2>1, <2>2, <2>3 DEF CInv
<1>2. CASE SpawnFails(c) \/ FeedFails(c) \/ WaitFails(c)
  <2>1. Result(c, FALSE) /\ at[c] # "replied" /\ undone' = undone \union {c}
    BY <1>2 DEF SpawnFails, FeedFails, WaitFails
  <2>. QED BY <2>1, ResultKeeps
<1>3. CASE Feed(c) \/ Poll(c)
  <2>1. \E l \in {"wait", "collect"} : at' = [at EXCEPT ![c] = l]
    BY <1>3 DEF Feed, Poll
  <2>2. UNCHANGED <<child, said, out, held, late, todo, sofar, reply, undone>>
        /\ at[c] \in {"feed", "wait"}
    BY <1>3 DEF Feed, Poll
  <2>3. RunnerTypeOK'
    BY <2>1, <2>2 DEF CInv, RunnerTypeOK, Points
  <2>4. CallShape'
    BY <2>1, <2>2 DEF CInv, RunnerTypeOK, CallShape
  <2>5. FailureKept'
    BY <2>1, <2>2 DEF CInv, RunnerTypeOK, FailureKept, Doomed
  <2>. QED BY <2>3, <2>4, <2>5 DEF CInv
<1>4. CASE Timeout(c)
  <2>1. RunnerTypeOK'
    BY <1>4 DEF Timeout, CInv, RunnerTypeOK, Points, Childs, Ends
  <2>2. CallShape'
    BY <1>4 DEF Timeout, CInv, RunnerTypeOK, CallShape, Alive
  <2>3. FailureKept'
    BY <1>4 DEF Timeout, CInv, RunnerTypeOK, FailureKept, Doomed
  <2>. QED BY <2>1, <2>2, <2>3 DEF CInv
<1>5. CASE Collect(c)
  <2>1. Success(c) \in BOOLEAN
    BY DEF Success, Parses, CInv, RunnerTypeOK
  <2>2. Doomed(c) => ~Success(c)
    BY DEF Doomed, Success, Parses
  <2>3. Result(c, Success(c)) /\ undone' = undone /\ at[c] # "replied"
    BY <1>5 DEF Collect
  <2>. QED BY <2>1, <2>2, <2>3, ResultKeeps
<1>. QED BY <1>1, <1>2, <1>3, <1>4, <1>5 DEF ApiStep

LEMMA ChildKeeps ==
  ASSUME CInv, NEW c \in Calls, ChildStep(c)
  PROVE  CInv'
<1>1. CASE \E s \in Streams : ChildPrint(c, s)
  <2>1. RunnerTypeOK'
    <3>1. PICK s \in Streams : ChildPrint(c, s)
      BY <1>1
    <3>2. out[c] \in [Streams -> 0..PipeSize] /\ out \in [Calls -> [Streams -> 0..PipeSize]]
      BY DEF CInv, RunnerTypeOK
    <3>3. CASE out[c][s] < PipeSize
      <4>1. out[c][s] + 1 \in 0..PipeSize
        BY <3>2, <3>3, RunnerAssumption
      <4>2. [out[c] EXCEPT ![s] = out[c][s] + 1] \in [Streams -> 0..PipeSize]
        BY <3>2, <4>1
      <4>3. out' = [out EXCEPT ![c] = [out[c] EXCEPT ![s] = out[c][s] + 1]]
        BY <3>1, <3>2, <3>3 DEF ChildPrint
      <4>4. out' \in [Calls -> [Streams -> 0..PipeSize]]
        BY <3>2, <4>2, <4>3
      <4>. QED BY <3>1, <3>3, <4>4 DEF ChildPrint, CInv, RunnerTypeOK
    <3>4. CASE ~(out[c][s] < PipeSize)
      BY <3>1, <3>4 DEF ChildPrint, CInv, RunnerTypeOK, Childs
    <3>. QED BY <3>3, <3>4
  <2>2. CallShape'
    BY <1>1 DEF ChildPrint, CInv, RunnerTypeOK, CallShape
  <2>3. FailureKept'
    BY <1>1 DEF ChildPrint, CInv, RunnerTypeOK, FailureKept, Doomed
  <2>. QED BY <2>1, <2>2, <2>3 DEF CInv
<1>2. CASE c \in JsonCalls /\ \E v \in {"ok", "error"} : ChildReport(c, v)
  <2>1. RunnerTypeOK'
    BY <1>2, RunnerAssumption DEF ChildReport, CInv, RunnerTypeOK, Streams
  <2>2. CallShape'
    BY <1>2 DEF ChildReport, CInv, CallShape
  <2>3. FailureKept'
    BY <1>2 DEF ChildReport, CInv, RunnerTypeOK, FailureKept, Doomed
  <2>. QED BY <2>1, <2>2, <2>3 DEF CInv
<1>3. CASE ChildLeaves(c) \/ HolderEnds(c)
  <2>1. /\ UNCHANGED <<at, child, said, out, late, todo, sofar, reply, undone>>
        /\ held' \in [Calls -> BOOLEAN]
    BY <1>3 DEF ChildLeaves, HolderEnds, CInv, RunnerTypeOK
  <2>2. RunnerTypeOK' /\ CallShape'
    BY <2>1 DEF CInv, RunnerTypeOK, CallShape
  <2>3. FailureKept'
    BY <2>1 DEF CInv, FailureKept, Doomed
  <2>. QED BY <2>2, <2>3 DEF CInv
<1>4. CASE ChildDies(c)
  <2>1. RunnerTypeOK'
    BY <1>4 DEF ChildDies, CInv, RunnerTypeOK, Childs, Ends
  <2>2. CallShape'
    BY <1>4 DEF ChildDies, CInv, RunnerTypeOK, CallShape, Alive
  <2>3. FailureKept'
    BY <1>4 DEF ChildDies, CInv, RunnerTypeOK, CallShape, FailureKept, Doomed, Alive
  <2>. QED BY <2>1, <2>2, <2>3 DEF CInv
<1>5. CASE \E e \in {"good", "bad"} : ChildExit(c, e)
  <2>1. PICK e \in {"good", "bad"} : ChildExit(c, e)
    BY <1>5
  <2>2. RunnerTypeOK'
    BY <2>1 DEF ChildExit, CInv, RunnerTypeOK, Childs, Ends
  <2>3. CallShape'
    BY <2>1 DEF ChildExit, CInv, RunnerTypeOK, CallShape
  <2>4. FailureKept'
    BY <2>1 DEF ChildExit, CInv, RunnerTypeOK, CallShape, FailureKept, Doomed
  <2>. QED BY <2>2, <2>3, <2>4 DEF CInv
<1>. QED BY <1>1, <1>2, <1>3, <1>4, <1>5 DEF ChildStep

-----------------------------------------------------------------------------
LEMMA InitCInv == RunnerInit => CInv
<1> SUFFICES ASSUME RunnerInit PROVE CInv
  OBVIOUS
<1>1. RunnerTypeOK
  BY RunnerAssumption DEF RunnerInit, RunnerTypeOK, Points, Childs
<1>2. CallShape /\ FailureKept
  BY DEF RunnerInit, CallShape, FailureKept
<1>. QED BY <1>1, <1>2 DEF CInv

LEMMA NextCInv == CInv /\ [RunnerNext]_runnerVars => CInv'
<1> SUFFICES ASSUME CInv, [RunnerNext]_runnerVars PROVE CInv'
  OBVIOUS
<1>1. CASE \E c \in Calls : ApiStep(c) \/ ChildStep(c)
  BY <1>1, ApiKeeps, ChildKeeps
<1>2. CASE UNCHANGED runnerVars
  BY <1>2 DEF runnerVars, CInv, RunnerTypeOK, CallShape, FailureKept, Doomed
<1>. QED BY <1>1, <1>2 DEF RunnerNext

LEMMA SpecCInv == RunnerSpec => []CInv
<1>. QED BY InitCInv, NextCInv, PTL DEF RunnerSpec

\* The types of a call's state, whatever its programs print, leave and do.
THEOREM RunnerTypeCorrect == RunnerSpec => []RunnerTypeOK
<1>1. CInv => RunnerTypeOK
  BY DEF CInv
<1>. QED BY <1>1, SpecCInv, PTL

\* No call of the API is answered with ok when one of its programs failed
\* to start, ran into the timeout, was killed or failed.
THEOREM RunnerOkMeansDone == RunnerSpec => []OkMeansDone
<1>1. CInv => OkMeansDone
  BY DEF CInv, CallShape, FailureKept, OkMeansDone
<1>. QED BY <1>1, SpecCInv, PTL
=============================================================================
