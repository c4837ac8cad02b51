------------------------------ MODULE NetPolicy ------------------------------
(***************************************************************************)
(* achost-runtime-core: the network watchdog and the one-shot reconciles   *)
(* of docker start and of every LXC container start, all working on the    *)
(* phone's ip rules and iptables while the default uplink changes and      *)
(* Android's netd rewrites what it likes.                                  *)
(*                                                                         *)
(* A bridge stands for its subnet too. The kernel keeps an ip rule once    *)
(* (a second add of the same rule fails), so the rules are a set; the      *)
(* accept rules of a bridge are a set as well, although iptables would     *)
(* keep duplicates, because every repair deletes all copies first.         *)
(* Time is counted in watch intervals.                                     *)
(***************************************************************************)
EXTENDS Integers, FiniteSets

CONSTANTS
  Jobs,         \* one-shots: a docker start's reconcile of docker0, or an LXC
                \*   container start's bridge-reconcile of lxcbr0
  Watchdog,     \* net-watchdog, for docker0
  Uplinks,      \* interfaces the default route may use
  NoUplink,     \* no default route, or its link is down
  ShortName,    \* an uplink whose name begins the names of LongNames, as
  LongNames,    \*   rmnet_data1 begins rmnet_data10
  PolicyRules,  \* ACHOST_CONTAINER_POLICY_RULES is "1"
  RepairEvery,  \* repair interval in watch intervals (30 s / 5 s)
  MaxEvents     \* bound: changes of the environment

ASSUME NetAssumption ==
  /\ Watchdog \notin Jobs
  /\ NoUplink \notin Uplinks /\ "none" \notin Uplinks \union {NoUplink}
  /\ LongNames \subseteq Uplinks \ {ShortName}
  /\ PolicyRules \in BOOLEAN /\ RepairEvery \in Nat \ {0} /\ MaxEvents \in Nat

VARIABLES
  uplink,    \* what ip route get answers now
  bridges,   \* the bridges that exist
  rules,     \* the ip rules at ACHost's two priorities
  accepts,   \* FORWARD rules: traffic of a bridge may leave by a device
  masq,      \* bridges with their RELATED,ESTABLISHED and MASQUERADE rules
  pc,        \* where each reconciler stands
  on,        \* the bridge each reconciler works for
  seen,      \* the uplink each reconciler works with
  lastState, \* watchdog: the uplink of its last_state, "none" at first
  cycles,    \* watchdog: watch intervals since its last reconcile
  events,    \* changes of the environment so far
  calm,      \* history: whole watchdog cycles since the last change, -1 while
             \*   the cycle the change fell into lasts
  disturbed, \* history: rules or bridges changed, other than by the watchdog,
             \*   which did no whole reconcile since
  current    \* history: one-shots that began and saw no change since

env  == <<uplink, bridges, events>>
kern == <<rules, accepts, masq>>
loop == <<lastState, cycles>>
hist == <<calm, disturbed, current>>
who  == <<on, seen>>
vars == <<env, kern, pc, who, loop, hist>>

Actors  == Jobs \union {Watchdog}
Bridges == {"docker0", "lxcbr0"}

\* return: traffic to the subnet is looked up in main (priority 11999);
\* source: traffic from it in the uplink's table (priority 12000). The
\* priorities are the same for every bridge.
Priorities == {"return", "source"}
Rule == [prio : Priorities, net : Bridges, table : Uplinks \union {"main"}]
At(k) == {r \in rules : r.prio = k}
Wanted(a, k) == [prio |-> k, net |-> on[a],
                 table |-> IF k = "return" THEN "main" ELSE seen[a]]
\* count_ip_rules_at_priority: the rule's line contains the wanted text.
Shows(r, w) == /\ r.prio = w.prio /\ r.net = w.net
               /\ r.table = w.table \/ (w.table = ShortName /\ r.table \in LongNames)

\* idle and done are the one-shots', sleep and inspect the watchdog's.
RuleStep == [check  |-> [return |-> "check return", source |-> "check source"],
             delete |-> [return |-> "delete return", source |-> "delete source"],
             add    |-> [return |-> "add return", source |-> "add source"]]
Pc == {"idle", "done", "sleep", "inspect", "resolve", "cleanup", "accept"}
      \union {RuleStep[l][k] : l \in {"check", "delete", "add"}, k \in Priorities}

Init ==
  /\ uplink \in Uplinks \union {NoUplink} /\ events = 0
  /\ bridges \in SUBSET {"docker0"}
  /\ rules = {} /\ accepts = {} /\ masq = {}
  /\ pc = [a \in Actors |-> IF a = Watchdog THEN "sleep" ELSE "idle"]
  /\ on = [a \in Actors |-> "docker0"]
  /\ seen = [a \in Actors |-> NoUplink]
  /\ lastState = "none" /\ cycles = RepairEvery
  /\ calm = 0 /\ disturbed = FALSE /\ current = {}

Goto(a, l) == pc' = [pc EXCEPT ![a] = l]

\* A change now: the present cycle of the watchdog is no calm one.
Since == IF pc[Watchdog] = "sleep" THEN 0 ELSE -1
\* A step on the rules. To the watchdog those of a one-shot are changes like
\* netd's.
Touch(a) ==
  IF a = Watchdog THEN UNCHANGED hist
                  ELSE disturbed' = TRUE /\ calm' = Since /\ UNCHANGED current

\* net_reconcile returns. The watchdog clears cycles and sleeps, which
\* counts one interval; a cycle no change fell into was a calm one. The
\* end of a one-shot counts as its last touch.
Finish(a) ==
  IF a = Watchdog
  THEN /\ Goto(a, "sleep") /\ cycles' = 1
       /\ calm' = IF calm > RepairEvery THEN calm ELSE calm + 1
       /\ disturbed' = (disturbed /\ calm < 0)
       /\ UNCHANGED <<lastState, current>>
  ELSE Goto(a, "done") /\ Touch(a) /\ UNCHANGED loop

-----------------------------------------------------------------------------
(* net_reconcile, for any reconciler.                                      *)

\* Where it starts: the policy rules are skipped when they are disabled.
FirstStep == IF PolicyRules THEN RuleStep.check.return ELSE "resolve"

\* Mutant of Check: content with any rule at the priority.
CheckAny(a, k) ==
  /\ pc[a] = RuleStep.check[k]
  /\ IF Cardinality(At(k)) = 1
     THEN Goto(a, IF k = "return" THEN "resolve" ELSE "cleanup")
     ELSE Goto(a, RuleStep.delete[k])
  /\ UNCHANGED <<env, kern, who, loop, hist>>

\* ensure_ip_rule: nothing to do when the rule is there and is alone at its
\* priority, otherwise everything at the priority is deleted, one by one,
\* whosever it is, and the rule is added.
Check(a, k) ==
  /\ pc[a] = RuleStep.check[k]
  /\ IF Cardinality(At(k)) = 1 /\ \A r \in At(k) : Shows(r, Wanted(a, k))
     THEN Goto(a, IF k = "return" THEN "resolve" ELSE "cleanup")
     ELSE Goto(a, RuleStep.delete[k])
  /\ UNCHANGED <<env, kern, who, loop, hist>>

Delete(a, k) ==
  /\ pc[a] = RuleStep.delete[k]
  /\ IF At(k) = {}
     THEN Goto(a, RuleStep.add[k]) /\ UNCHANGED rules
     ELSE /\ \E r \in At(k) : rules' = rules \ {r}
          /\ UNCHANGED pc
  /\ Touch(a) /\ UNCHANGED <<env, accepts, masq, who, loop>>

Add(a, k) ==
  /\ pc[a] = RuleStep.add[k]
  /\ rules' = rules \union {Wanted(a, k)}
  /\ Goto(a, IF k = "return" THEN "resolve" ELSE "cleanup")
  /\ Touch(a) /\ UNCHANGED <<env, accepts, masq, who, loop>>

\* Mutant of Resolve: the reconcile goes on without an uplink.
ResolveNothing(a) ==
  /\ pc[a] = "resolve"
  /\ seen' = [seen EXCEPT ![a] = IF @ = NoUplink THEN uplink ELSE @]
  /\ Goto(a, IF PolicyRules THEN RuleStep.check.source ELSE "cleanup")
  /\ UNCHANGED <<env, kern, on, loop, hist>>

\* resolve_uplink: a one-shot asks now, the watchdog keeps what it found at
\* the head of its cycle unless that was nothing. Without an uplink the
\* reconcile ends here.
Resolve(a) ==
  LET up == IF seen[a] = NoUplink THEN uplink ELSE seen[a] IN
  /\ pc[a] = "resolve"
  /\ IF up = NoUplink
     THEN Finish(a) /\ UNCHANGED who
     ELSE /\ seen' = [seen EXCEPT ![a] = up]
          /\ Goto(a, IF PolicyRules THEN RuleStep.check.source ELSE "cleanup")
          /\ UNCHANGED <<on, loop, hist>>
  /\ UNCHANGED <<env, kern>>

\* cleanup_bridge_forward_rules: the bridge's accept rules for any device.
Cleanup(a) ==
  /\ pc[a] = "cleanup"
  /\ accepts' = {x \in accepts : x[1] # on[a]}
  /\ Goto(a, "accept")
  /\ Touch(a) /\ UNCHANGED <<env, rules, masq, who, loop>>

\* The three ensure_rule calls.
Accept(a) ==
  /\ pc[a] = "accept"
  /\ accepts' = accepts \union {<<on[a], seen[a]>>}
  /\ masq' = masq \union {on[a]}
  /\ Finish(a)
  /\ UNCHANGED <<env, rules, who>>

ReconcileStep(a) ==
  \/ \E k \in Priorities : Check(a, k) \/ Delete(a, k) \/ Add(a, k)
  \/ Resolve(a) \/ Cleanup(a) \/ Accept(a)

-----------------------------------------------------------------------------
(* The one-shots.                                                          *)

Begin(j, b) ==
  /\ pc[j] = "idle" /\ Goto(j, FirstStep)
  /\ on' = [on EXCEPT ![j] = b]
  /\ current' = current \union {j}
  /\ UNCHANGED <<kern, seen, loop, calm, disturbed>>

\* docker start's reconcile_network_once: only with the bridge there.
StartDockerJob(j) ==
  /\ Begin(j, "docker0") /\ "docker0" \in bridges
  /\ UNCHANGED env

\* prepare-bridge of an LXC start: bridge-reconcile creates the bridge, or
\* finds it, and reconciles.
StartLxcJob(j) ==
  /\ Begin(j, "lxcbr0")
  /\ bridges' = bridges \union {"lxcbr0"}
  /\ UNCHANGED <<uplink, events>>

-----------------------------------------------------------------------------
(* The watchdog.                                                           *)

\* The head of the loop: without the bridge it only waits, and does not
\* count the interval; otherwise it resolves the uplink.
Wake ==
  /\ pc[Watchdog] = "sleep" /\ "docker0" \in bridges
  /\ seen' = [seen EXCEPT ![Watchdog] = uplink]
  /\ Goto(Watchdog, "inspect")
  /\ UNCHANGED <<env, kern, on, loop, hist>>

\* Mutants: the source rule is looked for instead; only a lost uplink is a
\* change; the interval is over one sleep late.
MissingSource == Wanted(Watchdog, "source") \notin rules
ChangedToNone == seen[Watchdog] = NoUplink /\ lastState # NoUplink
DueLate       == cycles > RepairEvery

\* The three reasons to reconcile: the return rule is missing, the state
\* changed, or the repair interval is over. If the bridge went away since,
\* net_reconcile fails at once, which counts as a repair.
Missing == Wanted(Watchdog, "return") \notin rules
Changed == seen[Watchdog] # lastState
Due     == cycles >= RepairEvery

Inspect ==
  /\ pc[Watchdog] = "inspect"
  /\ lastState' = seen[Watchdog]
  /\ IF Missing \/ Changed \/ Due
     THEN IF "docker0" \in bridges
          THEN Goto(Watchdog, FirstStep) /\ UNCHANGED <<cycles, calm>>
          ELSE Goto(Watchdog, "sleep") /\ cycles' = 1 /\ calm' = 0
     ELSE /\ Goto(Watchdog, "sleep")
          /\ cycles' = cycles + 1
          /\ calm' = IF calm > RepairEvery THEN calm ELSE calm + 1
  /\ UNCHANGED <<env, kern, who, disturbed, current>>

WatchdogStep == Wake \/ Inspect \/ ReconcileStep(Watchdog)

-----------------------------------------------------------------------------
(* The environment.                                                        *)

Event ==
  /\ events < MaxEvents /\ events' = events + 1
  /\ calm' = Since /\ current' = {}
  /\ UNCHANGED <<pc, who, loop>>

\* Wi-Fi to mobile and back, or no network.
SwitchUplink ==
  /\ Event
  /\ \E u \in (Uplinks \union {NoUplink}) \ {uplink} : uplink' = u
  /\ UNCHANGED <<bridges, kern, disturbed>>

\* netd drops an ip rule, or rewrites iptables.
NetdRewrites ==
  /\ Event /\ disturbed' = TRUE
  /\ \/ \E r \in rules : rules' = rules \ {r} /\ UNCHANGED <<accepts, masq>>
     \/ /\ accepts # {} /\ accepts' = {} /\ masq' = {}
        /\ UNCHANGED rules
  /\ UNCHANGED <<uplink, bridges>>

\* dockerd creates docker0; it disappears when dockerd recreates it.
DockerBridge ==
  /\ Event /\ disturbed' = TRUE
  /\ bridges' = IF "docker0" \in bridges THEN bridges \ {"docker0"} ELSE bridges \union {"docker0"}
  /\ UNCHANGED <<uplink, kern>>

Next ==
  \/ WatchdogStep
  \/ \E j \in Jobs : StartDockerJob(j) \/ StartLxcJob(j) \/ ReconcileStep(j)
  \/ SwitchUplink \/ NetdRewrites \/ DockerBridge

Spec == Init /\ [][Next]_vars

\* The watchdog keeps running. Nobody has to start a container, and the
\* environment may stand still.
FairSpec == Spec /\ WF_vars(WatchdogStep)

-----------------------------------------------------------------------------
TypeOK ==
  /\ uplink \in Uplinks \union {NoUplink}
  /\ bridges \subseteq Bridges
  /\ events \in 0..MaxEvents
  /\ rules \subseteq Rule
  /\ accepts \subseteq Bridges \X Uplinks
  /\ masq \subseteq Bridges
  /\ pc \in [Actors -> Pc]
  /\ on \in [Actors -> Bridges]
  /\ seen \in [Actors -> Uplinks \union {NoUplink}]
  /\ lastState \in Uplinks \union {NoUplink, "none"}
  /\ cycles \in 0..RepairEvery
  /\ calm \in -1..(RepairEvery + 1)
  /\ disturbed \in BOOLEAN
  /\ current \subseteq Jobs

\* A bridge's traffic leaves by the current uplink, and by no other.
PolicyOf(b) ==
  {[prio |-> "return", net |-> b, table |-> "main"],
   [prio |-> "source", net |-> b, table |-> uplink]}
Routed(b) ==
  /\ PolicyRules => PolicyOf(b) \subseteq rules
  /\ {x \in accepts : x[1] = b} = {<<b, uplink>>}
  /\ b \in masq

\* A switch of the uplink is repaired in the next whole cycle of the
\* watchdog, as long as only the uplink changed since its last reconcile: no
\* rule or bridge did, and no one-shot worked on them (SPEC.md 9.4.1: traffic
\* recovers within the poll period).
SwitchRepairedInOneCycle ==
  /\ pc[Watchdog] = "sleep" /\ calm >= 1 /\ ~disturbed
  /\ "docker0" \in bridges /\ uplink # NoUplink
  => Routed("docker0")

\* Whatever else was done to rules and bridges is repaired within the repair
\* interval from the last of it, whether netd did it, docker, or a one-shot
\* reconcile of either bridge that worked beside the watchdog and may still
\* be half done.
RepairedWithinInterval ==
  /\ pc[Watchdog] = "sleep" /\ calm >= RepairEvery
  /\ "docker0" \in bridges /\ uplink # NoUplink
  => Routed("docker0")

\* Once no one-shot is under way any more and the environment stands
\* still, docker0 is routed for good whenever the watchdog rests, whatever
\* docker's and LXC's one-shots did to the two priorities they share.
DockerRoutedInTheEnd ==
  <>[](\A j \in Jobs : pc[j] \in {"idle", "done"})
  => <>[](pc[Watchdog] = "sleep" /\ "docker0" \in bridges /\ uplink # NoUplink
            => Routed("docker0"))

\* What an LXC start set up for its bridge stays until something changes
\* (README.md: Docker and LXC do not depend on each other).
LxcStaysRouted ==
  \A j \in current :
    PolicyRules /\ on[j] = "lxcbr0" /\ pc[j] = "done" /\ uplink # NoUplink => PolicyOf("lxcbr0") \subseteq rules

\* While the state does not change and nobody else touches the rules, the
\* watchdog reconciles once per repair interval (SPEC.md 9.4.1).
ReconcilesOncePerInterval ==
  [][pc[Watchdog] = "inspect" /\ pc'[Watchdog] = FirstStep
       => Changed \/ Due \/ disturbed]_vars
=============================================================================
