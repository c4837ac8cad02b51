---------------------------- MODULE LaunchService ----------------------------
(***************************************************************************)
(* What achost-supervise --server promises its clients: every request      *)
(* starts at most one process, an OK is given only to a request whose      *)
(* process was started, nothing is started for a request that was already  *)
(* refused, and an answer is final.                                        *)
(***************************************************************************)
CONSTANT Clients

VARIABLES
  phase,     \* idle, pending, granted, refused, or gone (the client died)
  launched   \* the requests a process was started for

vars == <<phase, launched>>

Init == phase = [c \in Clients |-> "idle"] /\ launched = {}

\* A request reaches the service, or is refused because nobody listens.
Ask(c) ==
  /\ phase[c] = "idle"
  /\ \E a \in {"pending", "refused"} : phase' = [phase EXCEPT ![c] = a]
  /\ UNCHANGED launched

Abandon(c) ==
  /\ phase[c] = "pending" /\ phase' = [phase EXCEPT ![c] = "gone"]
  /\ UNCHANGED launched

Launch(c) ==
  /\ phase[c] \in {"pending", "gone"} /\ c \notin launched
  /\ launched' = launched \union {c}
  /\ UNCHANGED phase

Grant(c) ==
  /\ phase[c] = "pending" /\ c \in launched
  /\ phase' = [phase EXCEPT ![c] = "granted"]
  /\ UNCHANGED launched

\* The service ends or dies: it refuses whatever was pending, all at once;
\* an error answer refuses one request.
Refuse(cs) ==
  /\ cs # {} /\ \A c \in cs : phase[c] = "pending"
  /\ phase' = [c \in Clients |-> IF c \in cs THEN "refused" ELSE phase[c]]
  /\ UNCHANGED launched

Next ==
  \/ \E c \in Clients : Ask(c) \/ Abandon(c) \/ Launch(c) \/ Grant(c)
  \/ \E cs \in SUBSET Clients : Refuse(cs)

Spec == Init /\ [][Next]_vars
=============================================================================
