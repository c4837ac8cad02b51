---------------------------- MODULE PasswordStore ----------------------------
(***************************************************************************)
(* What set-password and generate-password of the WebUI promise about a    *)
(* container's passwords: each call changes the file once or not at all,   *)
(* from what the file held when the call read it to what the call made of  *)
(* it, and says ok only afterwards. There are no halves, wherever a call   *)
(* fails or is killed, and nothing of one call is found by the next.       *)
(***************************************************************************)
CONSTANTS
  Setters,     \* the calls
  Users, GuestUsers,
  NoDraft

VARIABLES
  pw,      \* who set the password of each user
  draft,   \* what each call is about to put in place, or NoDraft
  phase,   \* of each call: "idle", "busy", or its answer
  done     \* calls that put their draft in place

vars == <<pw, draft, phase, done>>

Init ==
  /\ pw = [u \in Users |-> "old"]
  /\ draft = [c \in Setters |-> NoDraft]
  /\ phase = [c \in Setters |-> "idle"] /\ done = {}

Keep(c, d) == draft' = [draft EXCEPT ![c] = d]

Begin(c) ==
  /\ phase[c] = "idle" /\ \A d \in Setters : phase[d] # "busy"
  /\ phase' = [phase EXCEPT ![c] = "busy"] /\ UNCHANGED <<pw, draft, done>>

\* The call makes its own hash the one of user u, in a copy.
Read(c, u) ==
  /\ phase[c] = "busy" /\ c \notin done
  /\ Keep(c, [pw EXCEPT ![u] = c]) /\ UNCHANGED <<pw, phase, done>>

\* The copy takes the place of the file: what the guest changed since the
\* call read it is lost, nothing else.
Set(c) ==
  /\ phase[c] = "busy" /\ draft[c] # NoDraft /\ c \notin done
  /\ pw' = draft[c] /\ done' = done \union {c}
  /\ Keep(c, NoDraft) /\ UNCHANGED phase

\* The call fails or is killed.
Drop(c) == phase[c] = "busy" /\ Keep(c, NoDraft) /\ UNCHANGED <<pw, phase, done>>

\* passwd in the guest.
GuestSets(u) ==
  /\ u \in GuestUsers /\ pw' = [pw EXCEPT ![u] = "guest"]
  /\ UNCHANGED <<draft, phase, done>>

\* A call that could not even begin is answered with an error.
End(c, a) ==
  /\ phase[c] \in {"idle", "busy"} /\ phase' = [phase EXCEPT ![c] = a]
  /\ a = "ok" => c \in done
  /\ Keep(c, NoDraft) /\ UNCHANGED <<pw, done>>

Next ==
  \/ \E c \in Setters : Begin(c) \/ Set(c) \/ Drop(c) \/ \E u \in Users : Read(c, u)
  \/ \E c \in Setters, a \in {"ok", "error"} : End(c, a)
  \/ \E u \in Users : GuestSets(u)

Spec == Init /\ [][Next]_vars
=============================================================================
