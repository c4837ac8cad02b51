----------------------------- MODULE RuntimeLife -----------------------------
(***************************************************************************)
(* What start and stop of achost-docker-runtime promise about the          *)
(* supervisor, containerd and dockerd, while commands follow each other:   *)
(* each comes up only during a start and in this order, a start leaves     *)
(* nothing on its way when it ends, only a stop takes down what serves,    *)
(* the supervisor after its daemons, and nothing is left after a stop.     *)
(* A launch that is refused after its fork leaves a daemon nobody knows    *)
(* of: from then to the next stop a daemon may come up after the start     *)
(* that launched it, and another may stand behind one that serves.         *)
(***************************************************************************)
CONSTANTS
  Starters, Stoppers,
  Crashes   \* daemons may crash

VARIABLES
  life,     \* of the supervisor and each daemon: "down", "coming" or "up"
  phase,    \* of each command: "idle", "busy", "ok", or "over" without success
  torn,     \* containerd crashed under a start that had seen it serve
  stray     \* a launch was refused after its fork, since the last stop or boot

vars == <<life, phase, torn, stray>>

Commands == Starters \union Stoppers
Kinds    == {"server", "ctd", "dkd"}
AllDown  == [k \in Kinds |-> "down"]

Init == life = AllDown /\ phase = [c \in Commands |-> "idle"]
        /\ torn = FALSE /\ stray = FALSE

Busy(cs)   == \E c \in cs : phase[c] = "busy"
Goto(c, p) == phase' = [phase EXCEPT ![c] = p]
Turn(k, l) == life' = [life EXCEPT ![k] = l] /\ UNCHANGED <<phase, stray>>

Begin(c) ==
  /\ phase[c] = "idle" /\ ~Busy(Commands)
  /\ Goto(c, "busy") /\ UNCHANGED <<life, torn, stray>>

\* A start brings up what is down, on top of what it needs.
Come(k) ==
  /\ Busy(Starters) /\ life[k] = "down" /\ Turn(k, "coming") /\ UNCHANGED torn
  /\ k # "server" => life["server"] = "up"
  /\ k = "dkd" => life["ctd"] = "up" \/ torn

Serve(k) ==
  /\ Busy(Starters) \/ (stray /\ k # "server")
  /\ life[k] = "coming" /\ Turn(k, "up")
  /\ k = "dkd" => life["ctd"] = "up"
  /\ UNCHANGED torn \/ (stray /\ k = "ctd" /\ torn' = FALSE)

\* A daemon ends, and another one may have waited for that. One that serves
\* does so for a stop, or crashes.
Fall(k) ==
  /\ k # "server" /\ life[k] # "down"
  /\ Turn(k, "down") \/ (stray /\ Turn(k, "coming"))
  /\ life[k] = "up" => Busy(Stoppers) \/ Crashes
  /\ \/ UNCHANGED torn
     \/ k = "ctd" /\ life[k] = "up" /\ Busy(Starters) /\ torn' = TRUE

\* The supervisor goes last, or its daemons would have nobody to reap them.
ServerFalls ==
  /\ Busy(Stoppers) /\ life["ctd"] = "down" /\ life["dkd"] = "down"
  /\ Turn("server", "down") /\ UNCHANGED torn

\* Success means that everything serves, or that containerd crashed during
\* this very start.
EndStart(s, p) ==
  /\ phase[s] = "busy" /\ Goto(s, p) /\ UNCHANGED <<life, stray>> /\ torn' = FALSE
  /\ stray \/ \A k \in Kinds : life[k] # "coming"
  /\ p = "ok" => /\ life["server"] = "up" /\ life["dkd"] = "up"
                 /\ life["ctd"] = "up" \/ torn

\* The launch of a daemon is refused, and yet there is a process of it: the
\* one way in which a start may end with something on its way.
EndRefused(s, k) ==
  /\ phase[s] = "busy" /\ Goto(s, "over") /\ torn' = FALSE /\ stray' = TRUE
  /\ k # "server" /\ life["server"] = "up"
  /\ k = "dkd" => life["ctd"] = "up" \/ torn
  /\ stray \/ \A j \in Kinds : life[j] # "coming"
  /\ life' = [life EXCEPT ![k] = IF @ = "up" THEN "up" ELSE "coming"]

EndStop(t) ==
  /\ phase[t] = "busy" /\ Goto(t, "ok")
  /\ life = AllDown /\ stray' = FALSE /\ UNCHANGED <<life, torn>>

Reboot ==
  /\ life' = AllDown
  /\ phase' = [c \in Commands |-> IF phase[c] = "busy" THEN "over" ELSE phase[c]]
  /\ torn' = FALSE /\ stray' = FALSE

Next ==
  \/ \E c \in Commands : Begin(c)
  \/ \E k \in Kinds : Come(k) \/ Serve(k) \/ Fall(k)
  \/ \E s \in Starters, p \in {"ok", "over"} : EndStart(s, p)
  \/ \E s \in Starters, k \in Kinds : EndRefused(s, k)
  \/ \E t \in Stoppers : EndStop(t)
  \/ ServerFalls \/ Reboot

Spec == Init /\ [][Next]_vars
=============================================================================
