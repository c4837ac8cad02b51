-------------------------- MODULE NetPolicy_proofs --------------------------
(***************************************************************************)
(* Theorems about NetPolicy, for any one-shots, uplinks, repair interval   *)
(* and number of events: the types of its state and, when no uplink's name *)
(* begins another's, that the watchdog repairs a switch of the uplink in   *)
(* one whole cycle and what netd, dockerd or a one-shot did within the     *)
(* repair interval, and does not reconcile more often than that needs.     *)
(***************************************************************************)
EXTENDS NetPolicy, FiniteSetTheorems, TLAPS

SourceSteps == {RuleStep.check.source, RuleStep.delete.source, RuleStep.add.source}

\* A reconciler past its resolve has an uplink.
SeenSet == \A a \in Actors : pc[a] \in SourceSteps \union {"cleanup", "accept"} => seen[a] \in Uplinks

TInv == TypeOK /\ SeenSet

-----------------------------------------------------------------------------
(* Types.                                                                  *)

LEMMA PcFacts ==
  /\ FirstStep \in {"check return", "resolve"}
  /\ \A p \in {"idle", "done", "sleep", "inspect", "resolve", "cleanup", "accept"} : p \in Pc
  /\ \A p \in {"check return", "delete return", "add return", "check source", "delete source", "add source"} : p \in Pc
  /\ SourceSteps = {"check source", "delete source", "add source"}
  /\ RuleStep.check["return"] = "check return" /\ RuleStep.check["source"] = "check source"
  /\ RuleStep.delete["return"] = "delete return" /\ RuleStep.delete["source"] = "delete source"
  /\ RuleStep.add["return"] = "add return" /\ RuleStep.add["source"] = "add source"
  /\ Priorities = {"return", "source"}
<1>1. /\ RuleStep.check["return"] = "check return" /\ RuleStep.check["source"] = "check source"
      /\ RuleStep.delete["return"] = "delete return" /\ RuleStep.delete["source"] = "delete source"
      /\ RuleStep.add["return"] = "add return" /\ RuleStep.add["source"] = "add source"
  BY DEF RuleStep
<1>2. Priorities = {"return", "source"}
  BY DEF Priorities
<1>3. FirstStep \in {"check return", "resolve"}
  BY <1>1 DEF FirstStep
<1>4. \A p \in {"idle", "done", "sleep", "inspect", "resolve", "cleanup", "accept"} : p \in Pc
  BY DEF Pc
<1>5. \A l \in {"check", "delete", "add"}, k \in Priorities : RuleStep[l][k] \in Pc
  BY DEF Pc
<1>6. \A p \in {"check return", "delete return", "add return", "check source", "delete source", "add source"} : p \in Pc
  <2>1. RuleStep["check"]["return"] \in Pc /\ RuleStep["delete"]["return"] \in Pc /\ RuleStep["add"]["return"] \in Pc
    BY <1>5, <1>2
  <2>2. RuleStep["check"]["source"] \in Pc /\ RuleStep["delete"]["source"] \in Pc /\ RuleStep["add"]["source"] \in Pc
    BY <1>5, <1>2
  <2>. QED BY <2>1, <2>2, <1>1
<1>7. SourceSteps = {"check source", "delete source", "add source"}
  BY <1>1 DEF SourceSteps
<1>. QED BY <1>1, <1>2, <1>3, <1>4, <1>6, <1>7

\* What a step on the rules leaves of the history.
LEMMA TouchTypes ==
  ASSUME TypeOK, NEW a \in Actors, Touch(a)
  PROVE  calm' \in -1..(RepairEvery + 1) /\ disturbed' \in BOOLEAN /\ current' \subseteq Jobs
<1>1. RepairEvery \in Nat \ {0}
  BY NetAssumption
<1>2. CASE UNCHANGED hist
  BY <1>2 DEF TypeOK, hist
<1>3. CASE disturbed' = TRUE /\ calm' = Since /\ UNCHANGED current
  BY <1>1, <1>3 DEF Since, TypeOK
<1>. QED BY <1>2, <1>3 DEF Touch

\* A reconcile's return keeps the loop's counters in their ranges.
LEMMA FinishTypes ==
  ASSUME TypeOK, NEW a \in Actors, Finish(a)
  PROVE  /\ Goto(a, "sleep") \/ Goto(a, "done")
         /\ lastState' \in Uplinks \union {NoUplink, "none"}
         /\ cycles' \in 0..RepairEvery /\ calm' \in -1..(RepairEvery + 1)
         /\ disturbed' \in BOOLEAN /\ current' \subseteq Jobs
<1>1. RepairEvery \in Nat \ {0}
  BY NetAssumption
<1>2. CASE a = Watchdog
  <2>1. Goto(a, "sleep") /\ cycles' = 1 /\ lastState' = lastState /\ current' = current
        /\ calm' = (IF calm > RepairEvery THEN calm ELSE calm + 1)
        /\ disturbed' = (disturbed /\ calm < 0)
    BY <1>2 DEF Finish
  <2>2. calm \in -1..(RepairEvery + 1) /\ lastState \in Uplinks \union {NoUplink, "none"} /\ current \subseteq Jobs
    BY DEF TypeOK
  <2>3. calm' \in -1..(RepairEvery + 1) /\ cycles' \in 0..RepairEvery
    BY <1>1, <2>1, <2>2
  <2>4. disturbed' \in BOOLEAN
    BY <2>1
  <2>. QED BY <2>1, <2>2, <2>3, <2>4
<1>3. CASE a # Watchdog
  <2>1. Goto(a, "done") /\ Touch(a) /\ UNCHANGED loop
    BY <1>3 DEF Finish
  <2>. QED BY <2>1, TouchTypes DEF TypeOK, loop
<1>. QED BY <1>2, <1>3

LEMMA ReconcileTypes ==
  ASSUME TInv, NEW a \in Actors, ReconcileStep(a)
  PROVE  TInv'
<1>1. TypeOK /\ SeenSet /\ pc \in [Actors -> Pc] /\ on[a] \in Bridges
  BY DEF TInv, TypeOK
<1>2. ASSUME NEW l \in Pc, Goto(a, l), UNCHANGED seen,
             l \in SourceSteps \union {"cleanup", "accept"} => seen[a] \in Uplinks
      PROVE  pc' \in [Actors -> Pc] /\ SeenSet'
  BY <1>1, <1>2 DEF Goto, SeenSet
<1>3. ASSUME NEW k \in Priorities, Check(a, k) \/ Delete(a, k) \/ Add(a, k) PROVE TInv'
  <2>1. k = "return" \/ (k = "source" /\ seen[a] \in Uplinks)
    BY <1>1, <1>3, PcFacts DEF SeenSet, Check, Delete, Add, Actors
  <2>2. Wanted(a, k) \in Rule
    BY <1>1, <2>1, PcFacts DEF Wanted, Rule
  <2>3. rules' \subseteq Rule
    BY <1>1, <1>3, <2>2 DEF TypeOK, Check, Delete, Add, kern
  <2>4. pc' \in [Actors -> Pc] /\ SeenSet'
    <3>1. UNCHANGED seen
      BY <1>3 DEF Check, Delete, Add, who
    <3>2. CASE UNCHANGED pc
      BY <1>1, <3>1, <3>2 DEF SeenSet
    <3>3. CASE ~UNCHANGED pc
      <4>1. PICK l \in {IF k = "return" THEN "resolve" ELSE "cleanup", RuleStep.delete[k], RuleStep.add[k]} :
               Goto(a, l)
        BY <1>3, <3>3 DEF Check, Delete, Add
      <4>2. l \in Pc /\ (l \in SourceSteps \union {"cleanup", "accept"} => seen[a] \in Uplinks)
        BY <2>1, <4>1, PcFacts
      <4>. QED BY <1>2, <3>1, <4>1, <4>2
    <3>. QED BY <3>2, <3>3
  <2>5. calm' \in -1..(RepairEvery + 1) /\ disturbed' \in BOOLEAN /\ current' \subseteq Jobs
    <3>1. UNCHANGED hist \/ Touch(a)
      BY <1>3 DEF Check, Delete, Add
    <3>. QED BY <1>1, <3>1, TouchTypes DEF TypeOK, hist
  <2>6. /\ UNCHANGED <<uplink, bridges, events, accepts, masq, on, lastState, cycles>>
        /\ seen' \in [Actors -> Uplinks \union {NoUplink}]
    BY <1>1, <1>3 DEF TypeOK, Check, Delete, Add, env, kern, who, loop
  <2>. QED BY <1>1, <2>3, <2>4, <2>5, <2>6 DEF TInv, TypeOK
<1>4. CASE Resolve(a)
  <2> DEFINE up == IF seen[a] = NoUplink THEN uplink ELSE seen[a]
  <2>1. CASE up = NoUplink
    <3>1. Finish(a) /\ UNCHANGED <<env, kern, who>>
      BY <1>4, <2>1 DEF Resolve
    <3>2. pc' \in [Actors -> Pc] /\ SeenSet'
      BY <1>2, <3>1, <1>1, FinishTypes, PcFacts DEF who
    <3>. QED BY <1>1, <3>1, <3>2, FinishTypes DEF TInv, TypeOK, env, kern, who
  <2>2. CASE up # NoUplink
    <3>1. /\ seen' = [seen EXCEPT ![a] = up]
          /\ Goto(a, IF PolicyRules THEN RuleStep.check.source ELSE "cleanup")
          /\ UNCHANGED <<on, loop, hist, env, kern>>
      BY <1>4, <2>2 DEF Resolve
    <3>2. up \in Uplinks
      BY <1>1, <2>2 DEF TypeOK
    <3>3. pc' \in [Actors -> Pc] /\ seen' \in [Actors -> Uplinks \union {NoUplink}] /\ SeenSet'
      BY <1>1, <3>1, <3>2, PcFacts DEF TypeOK, Goto, SeenSet
    <3>. QED BY <1>1, <3>1, <3>3 DEF TInv, TypeOK, env, kern, loop, hist
  <2>. QED BY <2>1, <2>2
<1>5. CASE Cleanup(a)
  <2>1. Goto(a, "accept") /\ Touch(a) /\ UNCHANGED <<env, rules, masq, who, loop>>
        /\ accepts' = {x \in accepts : x[1] # on[a]} /\ pc[a] = "cleanup"
    BY <1>5 DEF Cleanup
  <2>2. pc' \in [Actors -> Pc] /\ SeenSet'
    BY <1>1, <1>2, <2>1, PcFacts DEF SeenSet, who
  <2>. QED BY <1>1, <2>1, <2>2, TouchTypes DEF TInv, TypeOK, env, who, loop
<1>6. CASE Accept(a)
  <2>1. Finish(a) /\ UNCHANGED <<env, rules, who>> /\ pc[a] = "accept"
        /\ accepts' = accepts \union {<<on[a], seen[a]>>} /\ masq' = masq \union {on[a]}
    BY <1>6 DEF Accept
  <2>2. seen[a] \in Uplinks
    BY <1>1, <2>1 DEF SeenSet
  <2>3. pc' \in [Actors -> Pc] /\ SeenSet'
    BY <1>2, <2>1, <1>1, FinishTypes, PcFacts DEF who
  <2>. QED BY <1>1, <2>1, <2>2, <2>3, FinishTypes DEF TInv, TypeOK, env, who
<1>. QED BY <1>3, <1>4, <1>5, <1>6 DEF ReconcileStep

LEMMA WatchdogIsActor == Watchdog \in Actors /\ (\A j \in Jobs : j \in Actors /\ j # Watchdog)
BY NetAssumption DEF Actors

LEMMA InitTypes == Init => TInv
<1>. SUFFICES ASSUME Init PROVE TInv
  OBVIOUS
<1>1. RepairEvery \in Nat \ {0} /\ MaxEvents \in Nat
  BY NetAssumption
<1>2. pc \in [Actors -> Pc] /\ on \in [Actors -> Bridges] /\ seen \in [Actors -> Uplinks \union {NoUplink}]
  BY PcFacts DEF Init, Bridges
<1>3. SeenSet
  BY PcFacts DEF Init, SeenSet
<1>4. /\ uplink \in Uplinks \union {NoUplink} /\ bridges \subseteq Bridges /\ events \in 0..MaxEvents
      /\ rules \subseteq Rule /\ accepts \subseteq Bridges \X Uplinks /\ masq \subseteq Bridges
  BY <1>1 DEF Init, Bridges
<1>5. /\ lastState \in Uplinks \union {NoUplink, "none"} /\ cycles \in 0..RepairEvery
      /\ calm \in -1..(RepairEvery + 1) /\ disturbed \in BOOLEAN /\ current \subseteq Jobs
  <2>1. lastState = "none" /\ cycles = RepairEvery /\ calm = 0 /\ disturbed = FALSE /\ current = {}
    BY DEF Init
  <2>2. lastState \in Uplinks \union {NoUplink, "none"} /\ disturbed \in BOOLEAN /\ current \subseteq Jobs
    BY <2>1
  <2>3. cycles \in 0..RepairEvery
    BY <1>1, <2>1
  <2>4. calm \in -1..(RepairEvery + 1)
    BY <1>1, <2>1
  <2>. QED BY <2>2, <2>3, <2>4
<1>. QED BY <1>2, <1>3, <1>4, <1>5 DEF TInv, TypeOK

LEMMA BeginTypes ==
  ASSUME TInv, NEW j \in Jobs, StartDockerJob(j) \/ StartLxcJob(j)
  PROVE  TInv'
<1>1. PICK b \in Bridges : Begin(j, b) /\ uplink' = uplink /\ events' = events /\ bridges' \subseteq Bridges
  BY DEF StartDockerJob, StartLxcJob, env, TInv, TypeOK, Bridges
<1>2. pc' \in [Actors -> Pc] /\ on' \in [Actors -> Bridges] /\ current' \subseteq Jobs
  BY <1>1, PcFacts, WatchdogIsActor DEF Begin, Goto, TInv, TypeOK
<1>3. SeenSet'
  BY <1>1, PcFacts, WatchdogIsActor DEF Begin, Goto, TInv, TypeOK, SeenSet
<1>. QED BY <1>1, <1>2, <1>3 DEF Begin, TInv, TypeOK, kern, loop

LEMMA WatchdogTypes ==
  ASSUME TInv, Wake \/ Inspect
  PROVE  TInv'
<1>1. RepairEvery \in Nat \ {0} /\ TypeOK /\ SeenSet
  BY NetAssumption DEF TInv
<1>2. CASE Wake
  <2>1. pc' \in [Actors -> Pc] /\ seen' \in [Actors -> Uplinks \union {NoUplink}] /\ SeenSet'
    BY <1>1, <1>2, PcFacts, WatchdogIsActor DEF Wake, Goto, TypeOK, SeenSet
  <2>. QED BY <1>1, <1>2, <2>1 DEF Wake, TInv, TypeOK, env, kern, loop, hist
<1>3. CASE Inspect
  <2>1. pc' \in [Actors -> Pc] /\ SeenSet'
    <3>1. PICK l \in {FirstStep, "sleep"} : Goto(Watchdog, l)
      BY <1>3 DEF Inspect
    <3>2. UNCHANGED seen /\ l \in Pc /\ l \notin SourceSteps \union {"cleanup", "accept"}
      BY <1>3, <3>1, PcFacts DEF Inspect, who
    <3>. QED BY <1>1, <3>1, <3>2, WatchdogIsActor DEF Goto, TypeOK, SeenSet
  <2>2. cycles' \in 0..RepairEvery /\ calm' \in -1..(RepairEvery + 1)
    <3>1. calm \in -1..(RepairEvery + 1) /\ cycles \in 0..RepairEvery
      BY <1>1 DEF TypeOK
    <3>2. \/ UNCHANGED <<cycles, calm>>
          \/ cycles' = 1 /\ calm' = 0
          \/ ~Due /\ cycles' = cycles + 1 /\ calm' = (IF calm > RepairEvery THEN calm ELSE calm + 1)
      BY <1>3 DEF Inspect
    <3>. QED BY <1>1, <3>1, <3>2 DEF Due
  <2>3. lastState' \in Uplinks \union {NoUplink, "none"}
    BY <1>1, <1>3, WatchdogIsActor DEF Inspect, TypeOK
  <2>. QED BY <1>1, <1>3, <2>1, <2>2, <2>3 DEF Inspect, TInv, TypeOK, env, kern, who
<1>. QED BY <1>2, <1>3

LEMMA EventTypes ==
  ASSUME TInv, SwitchUplink \/ NetdRewrites \/ DockerBridge
  PROVE  TInv'
<1>1. RepairEvery \in Nat \ {0} /\ MaxEvents \in Nat
  BY NetAssumption
<1>2. /\ Event /\ disturbed' \in BOOLEAN /\ rules' \subseteq Rule /\ accepts' \subseteq Bridges \X Uplinks
      /\ masq' \subseteq Bridges /\ bridges' \subseteq Bridges /\ uplink' \in Uplinks \union {NoUplink}
  BY DEF SwitchUplink, NetdRewrites, DockerBridge, kern, TInv, TypeOK, Bridges
<1>3. calm' \in -1..(RepairEvery + 1) /\ events' \in 0..MaxEvents /\ current' \subseteq Jobs
  BY <1>1, <1>2 DEF Event, Since, TInv, TypeOK
<1>. QED BY <1>2, <1>3 DEF Event, TInv, TypeOK, SeenSet, who, loop

\* Every step keeps the types.
LEMMA NextTypes == TInv /\ [Next]_vars => TInv'
<1>. SUFFICES ASSUME TInv, [Next]_vars PROVE TInv'
  OBVIOUS
<1>1. CASE Next
  BY <1>1, ReconcileTypes, BeginTypes, WatchdogTypes, EventTypes, WatchdogIsActor DEF Next, WatchdogStep
<1>2. CASE UNCHANGED vars
  BY <1>2 DEF vars, env, kern, who, loop, hist, TInv, TypeOK, SeenSet
<1>. QED BY <1>1, <1>2

\* Every reachable state of the rules, reconcilers, watchdog counters and
\* histories has its type; in particular a reconciler past resolve_uplink
\* has an uplink to write into the source rule and the accept rule.
THEOREM NetTypeCorrect == Spec => []TypeOK
<1>1. Spec => []TInv
  BY InitTypes, NextTypes, PTL DEF Spec
<1>. QED BY <1>1, PTL DEF TInv

-----------------------------------------------------------------------------
(* The repairs. A cycle starts with Wake and ends with the next sleep;     *)
(* calm >= 0 says that nothing has changed since it started.               *)

Resting  == pc[Watchdog] \in {"sleep", "inspect"}

ReturnRule    == [prio |-> "return", net |-> "docker0", table |-> "main"]
SourceRule(u) == [prio |-> "source", net |-> "docker0", table |-> u]
DockerAccepts == {x \in accepts : x[1] = "docker0"}
RoutedBy(u) ==
  /\ PolicyRules => ReturnRule \in rules /\ SourceRule(u) \in rules
  /\ DockerAccepts = {<<"docker0", u>>}
  /\ "docker0" \in masq

\* The watchdog works for docker0 for ever.
WatchesDocker == on[Watchdog] = "docker0" /\ pc[Watchdog] \notin {"idle", "done"}

\* In a cycle nothing disturbed, what it saw is what is.
SawUplink == pc[Watchdog] # "sleep" /\ calm >= 0 => seen[Watchdog] = uplink

\* last_state is the uplink the rules are written for, or no uplink when
\* there was none at the head of the cycle; after a calm cycle it is true.
LastState ==
  /\ ~Resting => lastState \in {seen[Watchdog], NoUplink}
  /\ ~Resting /\ calm >= 0 => lastState = uplink
  /\ Resting /\ calm >= 1 => lastState = uplink

\* The repair interval runs out before RepairEvery calm cycles are over, if
\* there is something to repair.
RepairsInTime ==
  /\ cycles >= 1
  /\ disturbed /\ Resting /\ calm >= 0 => cycles >= calm + 1

\* The bridge was there when the cycle started.
BridgeWasThere == pc[Watchdog] = "inspect" /\ "docker0" \notin bridges => disturbed

\* Between two cycles docker0 is routed by last_state, and has its return
\* rule even while there is no uplink.
RestRouted ==
  ~disturbed /\ Resting =>
    /\ lastState \in Uplinks => RoutedBy(lastState)
    /\ PolicyRules /\ lastState # "none" => ReturnRule \in rules

\* While it works, what it has done so far stays, unless somebody changed
\* the rules since the cycle started.
WorkRouted ==
  ~disturbed \/ calm >= 0 =>
    /\ PolicyRules /\ pc[Watchdog] \in {"resolve", "cleanup", "accept"} \union SourceSteps
       => ReturnRule \in rules
    /\ PolicyRules /\ pc[Watchdog] \in {"cleanup", "accept"} => SourceRule(seen[Watchdog]) \in rules
    /\ pc[Watchdog] = "accept" => DockerAccepts = {}

RInv == /\ TInv /\ WatchesDocker /\ SawUplink /\ LastState /\ RepairsInTime
        /\ BridgeWasThere /\ RestRouted /\ WorkRouted

LEMMA InitRepairs == Init => RInv
<1>. SUFFICES ASSUME Init PROVE RInv
  OBVIOUS
<1>1. /\ pc[Watchdog] = "sleep" /\ on[Watchdog] = "docker0" /\ cycles = RepairEvery
      /\ calm = 0 /\ disturbed = FALSE /\ lastState = "none"
  BY WatchdogIsActor DEF Init
<1>2. RepairEvery \in Nat \ {0} /\ "none" \notin Uplinks
  BY NetAssumption
<1>3. cycles >= 1
  BY <1>1, <1>2
<1>4. WatchesDocker /\ SawUplink /\ BridgeWasThere /\ RestRouted
  BY <1>1, <1>2 DEF WatchesDocker, SawUplink, BridgeWasThere, RestRouted
<1>5. LastState
  BY <1>1 DEF LastState, Resting
<1>6. RepairsInTime
  BY <1>1, <1>3 DEF RepairsInTime
<1>7. WorkRouted
  BY <1>1, PcFacts DEF WorkRouted
<1>. QED BY <1>4, <1>5, <1>6, <1>7, InitTypes DEF RInv

\* A change: what is done beside the watchdog, when it disturbs or leaves
\* the rules alone.
LEMMA ChangeRepairs ==
  ASSUME RInv, TInv', pc'[Watchdog] = pc[Watchdog], on'[Watchdog] = on[Watchdog],
         seen'[Watchdog] = seen[Watchdog], UNCHANGED <<lastState, cycles>>, calm' = Since,
         disturbed' \/ UNCHANGED <<bridges, rules, accepts, masq, disturbed>>
  PROVE  RInv'
<1>1. calm' = (IF pc[Watchdog] = "sleep" THEN 0 ELSE -1)
  BY DEF Since
<1>2. cycles \in Int /\ cycles >= 1
  BY NetAssumption DEF RInv, RepairsInTime, TInv, TypeOK
<1>3. WatchesDocker' /\ SawUplink' /\ LastState'
  BY <1>1 DEF RInv, WatchesDocker, SawUplink, LastState, Resting
<1>4. RepairsInTime'
  BY <1>1, <1>2 DEF RepairsInTime
<1>5. BridgeWasThere' /\ RestRouted'
  BY <1>1 DEF RInv, BridgeWasThere, RestRouted, RoutedBy, DockerAccepts, Resting
<1>6. WorkRouted'
  <2>1. CASE pc[Watchdog] = "sleep"
    BY <1>1, <2>1, PcFacts DEF WorkRouted
  <2>2. CASE pc[Watchdog] # "sleep" /\ disturbed'
    <3>1. calm' = -1
      BY <1>1, <2>2
    <3>. QED BY <2>2, <3>1 DEF WorkRouted
  <2>3. CASE pc[Watchdog] # "sleep" /\ ~disturbed'
    BY <1>1, <2>3 DEF RInv, WorkRouted, DockerAccepts
  <2>. QED BY <2>1, <2>2, <2>3
<1>. QED BY <1>3, <1>4, <1>5, <1>6 DEF RInv

\* A one-shot's step leaves the watchdog and what it knows alone; it touches
\* the rules, which disturbs, or changes none.
LEMMA JobLeavesWatchdog ==
  ASSUME RInv, NEW j \in Jobs, StartDockerJob(j) \/ StartLxcJob(j) \/ ReconcileStep(j)
  PROVE  /\ pc'[Watchdog] = pc[Watchdog] /\ on'[Watchdog] = on[Watchdog]
         /\ seen'[Watchdog] = seen[Watchdog] /\ UNCHANGED <<uplink, lastState, cycles>>
         /\ "docker0" \in bridges => "docker0" \in bridges'
         /\ \/ UNCHANGED <<kern, calm, disturbed>>
            \/ disturbed' /\ calm' = Since
<1>1. j \in Actors /\ j # Watchdog /\ pc \in [Actors -> Pc] /\ Watchdog \in Actors
      /\ on \in [Actors -> Bridges] /\ seen \in [Actors -> Uplinks \union {NoUplink}]
  BY WatchdogIsActor DEF RInv, TInv, TypeOK
<1>2. CASE StartDockerJob(j) \/ StartLxcJob(j)
  <2>1. PICK b \in Bridges : Begin(j, b) /\ uplink' = uplink /\ ("docker0" \in bridges => "docker0" \in bridges')
    BY <1>2 DEF StartDockerJob, StartLxcJob, env, Bridges
  <2>. QED BY <1>1, <2>1 DEF Begin, Goto, loop
<1>3. CASE ReconcileStep(j)
  <2>1. UNCHANGED env
    BY <1>3 DEF ReconcileStep, Check, Delete, Add, Resolve, Cleanup, Accept
  <2>2. UNCHANGED loop
    BY <1>1, <1>3 DEF ReconcileStep, Check, Delete, Add, Resolve, Cleanup, Accept, Finish
  <2>3. on' = on /\ seen'[Watchdog] = seen[Watchdog]
    BY <1>1, <1>3 DEF ReconcileStep, Check, Delete, Add, Resolve, Cleanup, Accept, who
  <2>4. pc'[Watchdog] = pc[Watchdog]
    BY <1>1, <1>3 DEF ReconcileStep, Check, Delete, Add, Resolve, Cleanup, Accept, Finish, Goto
  <2>5. UNCHANGED <<kern, hist>> \/ Touch(j)
    BY <1>1, <1>3 DEF ReconcileStep, Check, Delete, Add, Resolve, Cleanup, Accept, Finish
  <2>6. Touch(j) => disturbed' /\ calm' = Since
    BY <1>1 DEF Touch
  <2>. QED BY <2>1, <2>2, <2>3, <2>4, <2>5, <2>6 DEF env, loop, hist
<1>. QED BY <1>2, <1>3

LEMMA JobRepairs ==
  ASSUME RInv, TInv', NEW j \in Jobs, StartDockerJob(j) \/ StartLxcJob(j) \/ ReconcileStep(j)
  PROVE  RInv'
<1>1. CASE UNCHANGED <<kern, calm, disturbed>>
  BY <1>1, JobLeavesWatchdog DEF RInv, WatchesDocker, SawUplink, LastState, RepairsInTime,
     BridgeWasThere, RestRouted, WorkRouted, RoutedBy, DockerAccepts, Resting, kern
<1>2. CASE disturbed' /\ calm' = Since
  BY <1>2, JobLeavesWatchdog, ChangeRepairs
<1>. QED BY <1>1, <1>2, JobLeavesWatchdog

\* What netd and dockerd do to rules and bridges disturbs.
LEMMA EventRepairs ==
  ASSUME RInv, TInv', SwitchUplink \/ NetdRewrites \/ DockerBridge
  PROVE  RInv'
<1>1. /\ pc' = pc /\ on' = on /\ seen' = seen /\ UNCHANGED <<lastState, cycles>> /\ calm' = Since
  BY DEF SwitchUplink, NetdRewrites, DockerBridge, Event, who, loop
<1>2. disturbed' \/ UNCHANGED <<bridges, rules, accepts, masq, disturbed>>
  BY DEF SwitchUplink, NetdRewrites, DockerBridge, kern
<1>. QED BY <1>1, <1>2, ChangeRepairs

\* Without look-alike names, the rule that ensure_ip_rule accepts is the
\* wanted one.
LEMMA AcceptedIsWanted ==
  ASSUME LongNames = {}, rules \subseteq Rule, NEW a, NEW k \in Priorities,
         Cardinality(At(k)) = 1, \A r \in At(k) : Shows(r, Wanted(a, k))
  PROVE  Wanted(a, k) \in rules
<1>1. At(k) # {}
  <2>. SUFFICES ASSUME At(k) = {} PROVE FALSE
    OBVIOUS
  <2>. QED BY FS_EmptySet
<1>2. PICK r \in At(k) : Shows(r, Wanted(a, k))
  BY <1>1
<1>3. r \in rules /\ r \in Rule
  BY <1>2 DEF At
<1>4. r.prio = Wanted(a, k).prio /\ r.net = Wanted(a, k).net /\ r.table = Wanted(a, k).table
  BY <1>2 DEF Shows
<1>5. r = [prio |-> r.prio, net |-> r.net, table |-> r.table]
  BY <1>3 DEF Rule
<1>6. r = Wanted(a, k)
  BY <1>4, <1>5 DEF Wanted
<1>. QED BY <1>3, <1>6

\* The rules the watchdog wants.
LEMMA WatchdogWants ==
  ASSUME on[Watchdog] = "docker0"
  PROVE  /\ Wanted(Watchdog, "return") = ReturnRule
         /\ Wanted(Watchdog, "source") = SourceRule(seen[Watchdog])
BY DEF Wanted, ReturnRule, SourceRule

\* A step on the rules keeps the return rule once it is done, and leaves the
\* source rule for the uplink it saw.
LEMMA RuleStepRepairs ==
  ASSUME LongNames = {}, RInv, TInv', NEW k \in Priorities,
         Check(Watchdog, k) \/ Delete(Watchdog, k) \/ Add(Watchdog, k)
  PROVE  RInv'
<1> DEFINE W == Watchdog
           next == IF k = "return" THEN "resolve" ELSE "cleanup"
<1>1. W \in Actors /\ pc \in [Actors -> Pc] /\ rules \subseteq Rule /\ on[W] = "docker0"
  BY WatchdogIsActor DEF RInv, TInv, TypeOK, WatchesDocker
<1>2. UNCHANGED <<env, accepts, masq, on, seen, loop, hist>>
  BY DEF Check, Delete, Add, Touch, kern, who
<1>3. pc[W] \in {RuleStep.check[k], RuleStep.delete[k], RuleStep.add[k]}
  BY DEF Check, Delete, Add
<1>4. \/ pc' = pc /\ pc[W] = RuleStep.delete[k]
      \/ pc' = [pc EXCEPT ![W] = RuleStep.delete[k]]
      \/ pc' = [pc EXCEPT ![W] = RuleStep.add[k]]
      \/ pc' = [pc EXCEPT ![W] = next] /\ Wanted(W, k) \in rules'
  <2>1. CASE Check(W, k)
    BY <1>1, <2>1, AcceptedIsWanted DEF Check, Goto, kern
  <2>2. CASE Delete(W, k)
    BY <2>2 DEF Delete, Goto
  <2>3. CASE Add(W, k)
    BY <2>3 DEF Add, Goto
  <2>. QED BY <2>1, <2>2, <2>3
<1>5. \A r \in rules : r.prio # k => r \in rules'
  BY DEF Check, Delete, Add, At, kern
<1>6. pc'[W] \in {RuleStep.delete[k], RuleStep.add[k], next}
  BY <1>1, <1>4
<1>7. ~Resting /\ ~Resting' /\ pc'[W] \notin {"idle", "done", "accept", "sleep", "inspect"}
  <2>1. ~Resting /\ pc'[W] \notin {"idle", "done", "accept", "sleep", "inspect"}
    BY <1>3, <1>6, PcFacts DEF Resting
  <2>. QED BY <2>1 DEF Resting
<1>8. WatchesDocker' /\ SawUplink' /\ LastState' /\ RepairsInTime' /\ BridgeWasThere' /\ RestRouted'
  BY <1>2, <1>3, <1>7, PcFacts DEF RInv, WatchesDocker, SawUplink, LastState, RepairsInTime, BridgeWasThere,
     RestRouted, env, loop, hist, Resting
<1>9. WorkRouted'
  <2>. SUFFICES ASSUME PolicyRules, ~disturbed \/ calm >= 0
                PROVE  /\ pc'[W] \in {"resolve", "cleanup", "accept"} \union SourceSteps => ReturnRule \in rules'
                       /\ pc'[W] \in {"cleanup", "accept"} => SourceRule(seen[W]) \in rules'
    BY <1>2, <1>7, PcFacts DEF WorkRouted, hist
  <2>1. CASE k = "return"
    <3>1. pc'[W] = "resolve" => Wanted(W, k) \in rules'
      BY <1>1, <1>3, <1>4, <2>1, PcFacts
    <3>2. pc'[W] \in {"delete return", "add return", "resolve"}
      BY <1>6, <2>1, PcFacts
    <3>. QED BY <1>1, <2>1, <3>1, <3>2, PcFacts, WatchdogWants
  <2>2. CASE k = "source"
    <3>1. ReturnRule \in rules
      BY <1>3, <2>2, PcFacts DEF RInv, WorkRouted
    <3>2. ReturnRule \in rules'
      BY <1>5, <2>2, <3>1 DEF ReturnRule
    <3>3. pc'[W] = "cleanup" => Wanted(W, k) \in rules'
      BY <1>1, <1>3, <1>4, <2>2, PcFacts
    <3>4. pc'[W] # "accept"
      BY <1>7
    <3>. QED BY <1>1, <2>2, <3>2, <3>3, <3>4, WatchdogWants
  <2>. QED BY <2>1, <2>2, PcFacts
<1>. QED BY <1>8, <1>9 DEF RInv

\* The end of a cycle in which net_reconcile ran.
LEMMA FinishRepairs ==
  ASSUME RInv, TInv', Finish(Watchdog), UNCHANGED <<env, who>>, ~Resting,
         (~disturbed \/ calm >= 0) /\ lastState \in Uplinks => RoutedBy(lastState)',
         (~disturbed \/ calm >= 0) /\ PolicyRules => ReturnRule \in rules'
  PROVE  RInv'
<1>1. /\ pc' = [pc EXCEPT ![Watchdog] = "sleep"] /\ cycles' = 1 /\ lastState' = lastState
      /\ calm' = (IF calm > RepairEvery THEN calm ELSE calm + 1)
      /\ disturbed' = (disturbed /\ calm < 0) /\ UNCHANGED <<uplink, bridges, on, seen>>
  BY DEF Finish, Goto, env, who
<1>2. /\ pc \in [Actors -> Pc] /\ Watchdog \in Actors /\ calm \in -1..(RepairEvery + 1) /\ disturbed \in BOOLEAN
      /\ RepairEvery \in Nat \ {0}
  BY WatchdogIsActor, NetAssumption DEF RInv, TInv, TypeOK
<1>3. pc'[Watchdog] = "sleep" /\ Resting'
  BY <1>1, <1>2 DEF Resting
<1>4. WatchesDocker' /\ SawUplink' /\ BridgeWasThere' /\ WorkRouted'
  <2>1. WatchesDocker' /\ SawUplink' /\ BridgeWasThere'
    BY <1>1, <1>3 DEF RInv, WatchesDocker, SawUplink, BridgeWasThere
  <2>2. WorkRouted'
    BY <1>3, PcFacts DEF WorkRouted
  <2>. QED BY <2>1, <2>2
<1>5. LastState'
  <2>1. calm' >= 1 => calm >= 0
    BY <1>1, <1>2
  <2>. QED BY <1>1, <1>3, <2>1 DEF RInv, LastState
<1>6. RepairsInTime'
  <2>1. ASSUME disturbed' PROVE calm' = 0
    <3>1. calm < 0
      BY <1>1, <2>1
    <3>. QED BY <1>1, <1>2, <3>1
  <2>. QED BY <1>1, <2>1 DEF RepairsInTime
<1>7. RestRouted'
  <2>1. ~disturbed' => ~disturbed \/ calm >= 0
    BY <1>1, <1>2
  <2>. QED BY <1>1, <1>3, <2>1 DEF RestRouted
<1>. QED BY <1>4, <1>5, <1>6, <1>7 DEF RInv

LEMMA ResolveRepairs ==
  ASSUME RInv, TInv', Resolve(Watchdog)
  PROVE  RInv'
<1> DEFINE W == Watchdog
           up == IF seen[W] = NoUplink THEN uplink ELSE seen[W]
<1>1. /\ W \in Actors /\ pc \in [Actors -> Pc] /\ seen \in [Actors -> Uplinks \union {NoUplink}]
      /\ pc[W] = "resolve" /\ ~Resting /\ lastState \in {seen[W], NoUplink} /\ NoUplink \notin Uplinks
  BY WatchdogIsActor, NetAssumption DEF RInv, TInv, TypeOK, Resolve, Resting, LastState
<1>2. CASE up = NoUplink
  <2>1. Finish(W) /\ UNCHANGED <<env, who>>
    BY <1>2 DEF Resolve
  <2>2. lastState \notin Uplinks
    BY <1>1, <1>2
  <2>3. (~disturbed \/ calm >= 0) /\ PolicyRules => ReturnRule \in rules'
    BY <1>1, <1>2 DEF RInv, WorkRouted, Resolve, kern
  <2>. QED BY <1>1, <2>1, <2>2, <2>3, FinishRepairs
<1>3. CASE up # NoUplink
  <2>1. /\ seen' = [seen EXCEPT ![W] = up]
        /\ pc' = [pc EXCEPT ![W] = IF PolicyRules THEN RuleStep.check.source ELSE "cleanup"]
        /\ UNCHANGED <<on, loop, hist, env, kern>>
    BY <1>3 DEF Resolve, Goto
  <2>2. pc'[W] \in {"check source", "cleanup"} /\ (PolicyRules => pc'[W] = "check source") /\ seen'[W] = up
    BY <1>1, <2>1, PcFacts
  <2>3. ~Resting'
    BY <2>2 DEF Resting
  <2>4. calm >= 0 => up = uplink
    BY <1>1 DEF RInv, SawUplink, Resting
  <2>5. WatchesDocker' /\ BridgeWasThere' /\ RepairsInTime' /\ RestRouted'
    BY <2>1, <2>2, <2>3 DEF RInv, WatchesDocker, BridgeWasThere, RepairsInTime, RestRouted, loop, hist, Resting
  <2>6. SawUplink' /\ LastState'
    BY <1>1, <2>1, <2>2, <2>3, <2>4 DEF RInv, SawUplink, LastState, loop, hist, env
  <2>7. WorkRouted'
    BY <1>1, <2>1, <2>2, <2>3 DEF RInv, WorkRouted, hist, kern
  <2>. QED BY <2>5, <2>6, <2>7 DEF RInv
<1>. QED BY <1>2, <1>3

LEMMA CleanupRepairs ==
  ASSUME RInv, TInv', Cleanup(Watchdog)
  PROVE  RInv'
<1> DEFINE W == Watchdog
<1>1. /\ W \in Actors /\ pc \in [Actors -> Pc] /\ pc[W] = "cleanup" /\ on[W] = "docker0" /\ ~Resting
  BY WatchdogIsActor DEF RInv, TInv, TypeOK, WatchesDocker, Cleanup, Resting
<1>2. /\ pc' = [pc EXCEPT ![W] = "accept"] /\ accepts' = {x \in accepts : x[1] # "docker0"}
      /\ UNCHANGED <<env, rules, who, loop, hist>>
  BY <1>1 DEF Cleanup, Goto, Touch
<1>3. pc'[W] = "accept" /\ ~Resting'
  BY <1>1, <1>2 DEF Resting
<1>4. DockerAccepts' = {}
  BY <1>2 DEF DockerAccepts
<1>5. WatchesDocker' /\ BridgeWasThere' /\ RepairsInTime' /\ RestRouted'
  BY <1>2, <1>3 DEF RInv, WatchesDocker, BridgeWasThere, RepairsInTime, RestRouted, loop, hist, Resting, who
<1>6. SawUplink' /\ LastState'
  BY <1>1, <1>2, <1>3 DEF RInv, SawUplink, LastState, loop, hist, env, who
<1>7. WorkRouted'
  BY <1>1, <1>2, <1>3, <1>4 DEF RInv, WorkRouted, hist, who
<1>. QED BY <1>5, <1>6, <1>7 DEF RInv

LEMMA AcceptRepairs ==
  ASSUME RInv, TInv', Accept(Watchdog)
  PROVE  RInv'
<1> DEFINE W == Watchdog
<1>1. /\ W \in Actors /\ pc[W] = "accept" /\ on[W] = "docker0" /\ ~Resting
      /\ lastState \in {seen[W], NoUplink} /\ NoUplink \notin Uplinks
  BY WatchdogIsActor, NetAssumption DEF RInv, WatchesDocker, Accept, Resting, LastState
<1>2. /\ accepts' = accepts \union {<<"docker0", seen[W]>>} /\ masq' = masq \union {"docker0"}
      /\ Finish(W) /\ UNCHANGED <<env, rules, who>>
  BY <1>1 DEF Accept
<1>3. (~disturbed \/ calm >= 0) /\ lastState \in Uplinks => RoutedBy(lastState)'
  <2>. SUFFICES ASSUME ~disturbed \/ calm >= 0, lastState \in Uplinks
                PROVE  RoutedBy(lastState)'
    OBVIOUS
  <2>1. lastState = seen[W] /\ lastState' = lastState
    BY <1>1, <1>2 DEF Finish
  <2>2. DockerAccepts = {} /\ (PolicyRules => ReturnRule \in rules /\ SourceRule(seen[W]) \in rules)
    BY <1>1 DEF RInv, WorkRouted
  <2>3. DockerAccepts' = {<<"docker0", seen[W]>>}
    BY <1>2, <2>2 DEF DockerAccepts
  <2>. QED BY <1>2, <2>1, <2>2, <2>3 DEF RoutedBy
<1>4. (~disturbed \/ calm >= 0) /\ PolicyRules => ReturnRule \in rules'
  BY <1>1, <1>2 DEF RInv, WorkRouted
<1>. QED BY <1>1, <1>2, <1>3, <1>4, FinishRepairs

LEMMA WakeRepairs ==
  ASSUME RInv, TInv', Wake
  PROVE  RInv'
<1> DEFINE W == Watchdog
<1>1. /\ W \in Actors /\ pc \in [Actors -> Pc] /\ seen \in [Actors -> Uplinks \union {NoUplink}]
      /\ pc[W] = "sleep" /\ "docker0" \in bridges
      /\ seen' = [seen EXCEPT ![W] = uplink] /\ pc' = [pc EXCEPT ![W] = "inspect"]
      /\ UNCHANGED <<env, kern, on, loop, hist>>
  BY WatchdogIsActor DEF RInv, TInv, TypeOK, Wake, Goto
<1>2. pc'[W] = "inspect" /\ seen'[W] = uplink /\ Resting /\ Resting'
  BY <1>1 DEF Resting
<1>3. WatchesDocker' /\ SawUplink' /\ LastState'
  BY <1>1, <1>2 DEF RInv, WatchesDocker, SawUplink, LastState, loop, hist, env
<1>4. BridgeWasThere' /\ RepairsInTime' /\ RestRouted'
  BY <1>1, <1>2 DEF RInv, BridgeWasThere, RepairsInTime, RestRouted, RoutedBy, DockerAccepts, loop, hist, env, kern
<1>5. WorkRouted'
  BY <1>2, PcFacts DEF WorkRouted
<1>. QED BY <1>3, <1>4, <1>5 DEF RInv

LEMMA InspectRepairs ==
  ASSUME RInv, TInv', Inspect
  PROVE  RInv'
<1> DEFINE W == Watchdog
<1>1. /\ W \in Actors /\ pc \in [Actors -> Pc] /\ pc[W] = "inspect" /\ Resting
      /\ lastState' = seen[W] /\ UNCHANGED <<env, kern, who, disturbed, current>>
      /\ calm \in -1..(RepairEvery + 1) /\ cycles \in 0..RepairEvery /\ RepairEvery \in Nat \ {0}
  BY WatchdogIsActor, NetAssumption DEF RInv, TInv, TypeOK, Inspect, Resting
<1>2. calm >= 0 => seen[W] = uplink
  BY <1>1 DEF RInv, SawUplink
<1>3. CASE (Missing \/ Changed \/ Due) /\ "docker0" \in bridges
  <2>1. pc' = [pc EXCEPT ![W] = FirstStep] /\ UNCHANGED <<cycles, calm>>
    BY <1>3 DEF Inspect, Goto
  <2>2. pc'[W] = FirstStep /\ (PolicyRules => FirstStep = "check return")
        /\ (~PolicyRules => FirstStep = "resolve") /\ ~Resting'
    BY <1>1, <2>1, PcFacts DEF FirstStep, Resting
  <2>3. WatchesDocker' /\ SawUplink' /\ LastState'
    BY <1>1, <1>2, <2>1, <2>2, PcFacts DEF RInv, WatchesDocker, SawUplink, LastState, env, who
  <2>4. BridgeWasThere' /\ RepairsInTime' /\ RestRouted'
    BY <1>1, <2>1, <2>2, PcFacts DEF RInv, BridgeWasThere, RepairsInTime, RestRouted
  <2>5. WorkRouted'
    BY <2>2, PcFacts DEF WorkRouted
  <2>. QED BY <2>3, <2>4, <2>5 DEF RInv
<1>4. CASE (Missing \/ Changed \/ Due) /\ "docker0" \notin bridges
  <2>1. pc' = [pc EXCEPT ![W] = "sleep"] /\ cycles' = 1 /\ calm' = 0
    BY <1>4 DEF Inspect, Goto
  <2>2. pc'[W] = "sleep" /\ disturbed'
    BY <1>1, <1>4, <2>1 DEF RInv, BridgeWasThere
  <2>3. WatchesDocker' /\ SawUplink' /\ LastState'
    BY <1>1, <1>2, <2>1, <2>2 DEF RInv, WatchesDocker, SawUplink, LastState, Resting, env, who
  <2>4. BridgeWasThere' /\ RepairsInTime' /\ RestRouted'
    BY <2>1, <2>2 DEF BridgeWasThere, RepairsInTime, RestRouted
  <2>5. WorkRouted'
    BY <2>2, PcFacts DEF WorkRouted
  <2>. QED BY <2>3, <2>4, <2>5 DEF RInv
<1>5. CASE ~(Missing \/ Changed \/ Due)
  <2>1. pc' = [pc EXCEPT ![W] = "sleep"] /\ cycles' = cycles + 1
        /\ calm' = (IF calm > RepairEvery THEN calm ELSE calm + 1)
    BY <1>5 DEF Inspect, Goto
  <2>2. pc'[W] = "sleep" /\ Resting' /\ lastState' = lastState
    BY <1>1, <1>5, <2>1 DEF Resting, Changed
  <2>3. calm' >= 1 => calm >= 0
    BY <1>1, <2>1
  <2>4. WatchesDocker' /\ SawUplink' /\ LastState'
    BY <1>1, <1>2, <2>2, <2>3 DEF RInv, WatchesDocker, SawUplink, LastState, env, who
  <2>5. RepairsInTime'
    <3>1. cycles >= 1 /\ (disturbed /\ calm >= 0 => cycles >= calm + 1)
      BY <1>1 DEF RInv, RepairsInTime
    <3>2. cycles' >= 1
      BY <1>1, <2>1, <3>1
    <3>3. ASSUME disturbed PROVE cycles' >= calm' + 1
      <4>1. calm >= 0 => cycles >= calm + 1
        BY <3>1, <3>3
      <4>. QED BY <1>1, <2>1, <3>1, <4>1
    <3>. QED BY <1>1, <3>2, <3>3 DEF RepairsInTime
  <2>6. BridgeWasThere' /\ RestRouted'
    BY <1>1, <2>1, <2>2 DEF RInv, BridgeWasThere, RestRouted, RoutedBy, DockerAccepts, kern
  <2>7. WorkRouted'
    BY <2>2, PcFacts DEF WorkRouted
  <2>. QED BY <2>4, <2>5, <2>6, <2>7 DEF RInv
<1>. QED BY <1>3, <1>4, <1>5

LEMMA NextRepairs ==
  ASSUME LongNames = {}, RInv, [Next]_vars
  PROVE  RInv'
<1>1. TInv'
  BY NextTypes DEF RInv
<1>2. CASE WatchdogStep
  BY <1>1, <1>2, WakeRepairs, InspectRepairs, RuleStepRepairs, ResolveRepairs, CleanupRepairs, AcceptRepairs
     DEF WatchdogStep, ReconcileStep
<1>3. ASSUME NEW j \in Jobs, StartDockerJob(j) \/ StartLxcJob(j) \/ ReconcileStep(j) PROVE RInv'
  BY <1>1, <1>3, JobRepairs
<1>4. CASE SwitchUplink \/ NetdRewrites \/ DockerBridge
  BY <1>1, <1>4, EventRepairs
<1>5. CASE UNCHANGED vars
  BY <1>1, <1>5 DEF vars, env, kern, who, loop, hist, RInv, WatchesDocker, SawUplink, LastState,
     RepairsInTime, BridgeWasThere, RestRouted, WorkRouted, RoutedBy, DockerAccepts, Resting
<1>. QED BY <1>2, <1>3, <1>4, <1>5 DEF Next

LEMMA RInvIsSafe ==
  ASSUME RInv
  PROVE  SwitchRepairedInOneCycle /\ RepairedWithinInterval
<1>1. calm \in Int /\ cycles \in 0..RepairEvery /\ RepairEvery \in Nat \ {0} /\ uplink \in Uplinks \union {NoUplink}
  BY NetAssumption DEF RInv, TInv, TypeOK
<1>2. ASSUME pc[Watchdog] = "sleep", calm >= 1, ~disturbed, uplink # NoUplink
      PROVE  Routed("docker0")
  <2>1. lastState = uplink /\ uplink \in Uplinks
    BY <1>1, <1>2 DEF RInv, LastState, Resting
  <2>2. RoutedBy(uplink)
    BY <1>2, <2>1 DEF RInv, RestRouted, Resting
  <2>. QED BY <2>2 DEF RoutedBy, Routed, PolicyOf, DockerAccepts, ReturnRule, SourceRule
<1>3. pc[Watchdog] = "sleep" /\ calm >= RepairEvery => ~disturbed
  <2>. SUFFICES ASSUME pc[Watchdog] = "sleep", calm >= RepairEvery, disturbed PROVE FALSE
    OBVIOUS
  <2>1. calm >= 0
    BY <1>1
  <2>2. cycles >= calm + 1
    BY <2>1 DEF RInv, RepairsInTime, Resting
  <2>. QED BY <1>1, <2>2
<1>4. calm >= RepairEvery => calm >= 1
  BY <1>1
<1>. QED BY <1>2, <1>3, <1>4 DEF SwitchRepairedInOneCycle, RepairedWithinInterval

\* With no uplink whose name begins another's (the case NetNames refutes), a
\* switch of the uplink is repaired in the next whole cycle of net_watchdog,
\* for any repair interval, set of uplinks and number of changes.
THEOREM SwitchesAreRepaired ==
  ASSUME LongNames = {}
  PROVE  Spec => []SwitchRepairedInOneCycle
<1>1. Spec => []RInv
  BY InitRepairs, NextRepairs, PTL DEF Spec
<1>. QED BY <1>1, RInvIsSafe, PTL

\* Likewise, whatever netd, dockerd or any number of one-shot reconciles of
\* either bridge did to rules and bridges is repaired within the repair
\* interval, counted from the last of it.
THEOREM EverythingIsRepaired ==
  ASSUME LongNames = {}
  PROVE  Spec => []RepairedWithinInterval
<1>1. Spec => []RInv
  BY InitRepairs, NextRepairs, PTL DEF Spec
<1>. QED BY <1>1, RInvIsSafe, PTL

\* With the policy rules enabled the watchdog reconciles only for a change,
\* at the end of its interval, or after somebody touched the rules. With
\* them disabled it finds the return rule missing in every cycle.
THEOREM ReconcilesAreRare ==
  ASSUME LongNames = {}, PolicyRules
  PROVE  Spec => ReconcilesOncePerInterval
<1> DEFINE Rare == pc[Watchdog] = "inspect" /\ pc'[Watchdog] = FirstStep
                     => Changed \/ Due \/ disturbed
<1>1. ASSUME RInv, pc[Watchdog] = "inspect", ~Changed, ~disturbed
      PROVE  ~Missing
  <2>1. seen[Watchdog] \in Uplinks \union {NoUplink} /\ lastState = seen[Watchdog]
    BY <1>1, WatchdogIsActor DEF RInv, TInv, TypeOK, Changed
  <2>2. lastState # "none"
    BY <2>1, NetAssumption
  <2>3. ReturnRule \in rules
    BY <1>1, <2>2 DEF RInv, RestRouted, Resting
  <2>. QED BY <1>1, <2>3, WatchdogWants DEF Missing, RInv, WatchesDocker
<1>2. ASSUME RInv, Next PROVE Rare
  <2>. SUFFICES ASSUME pc[Watchdog] = "inspect", ~Changed, ~Due, ~disturbed
                PROVE  pc'[Watchdog] # FirstStep
    OBVIOUS
  <2>1. ~Missing
    BY <1>1, <1>2
  <2>2. Watchdog \in Actors /\ pc \in [Actors -> Pc]
    BY <1>2, WatchdogIsActor DEF RInv, TInv, TypeOK
  <2>3. CASE WatchdogStep
    <3>1. Inspect
      BY <2>3, PcFacts DEF WatchdogStep, Wake, ReconcileStep, Check, Delete, Add, Resolve, Cleanup, Accept
    <3>. QED BY <2>1, <2>2, <3>1, PcFacts DEF Inspect, Goto
  <2>4. ASSUME NEW j \in Jobs, StartDockerJob(j) \/ StartLxcJob(j) \/ ReconcileStep(j)
        PROVE  pc'[Watchdog] = "inspect"
    BY <1>2, <2>4, JobLeavesWatchdog
  <2>5. CASE SwitchUplink \/ NetdRewrites \/ DockerBridge
    BY <2>5, PcFacts DEF SwitchUplink, NetdRewrites, DockerBridge, Event
  <2>. QED BY <1>2, <2>3, <2>4, <2>5, PcFacts DEF Next
<1>3. RInv /\ [Next]_vars => [Rare]_vars
  BY <1>2
<1>4. Spec => []RInv
  BY InitRepairs, NextRepairs, PTL DEF Spec
<1>. QED BY <1>3, <1>4, PTL DEF Spec, ReconcilesOncePerInterval
=============================================================================
