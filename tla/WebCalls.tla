------------------------------- MODULE WebCalls -------------------------------
(***************************************************************************)
(* The WebUI's calls at work: achost-webui-api (CommandRunner) running any *)
(* command, and running the set-password and generate-password of          *)
(* achost-lxc-runtime (ShadowPassword), whose process the API feeds, times *)
(* out and kills wherever it happens to be.                                *)
(***************************************************************************)
EXTENDS CommandRunner, ShadowPassword

CONSTANT Overlap  \* calls may overlap (WebUI and shell)

ASSUME WebAssumption ==
  /\ Setters \subseteq JsonCalls /\ Readers = InputCalls
  /\ Overlap \in BOOLEAN

Others == Calls \ Setters
vars   == <<runnerVars, shadowVars>>

Init == RunnerInit /\ ShadowInit

\* The WebUI disables its buttons while a call is on its way. Without
\* Overlap nobody else calls at the same time.
MayBegin(c) ==
  Overlap \/ \A d \in Calls \ {c} : at[d] = "replied" \/ ~Issued(d)

-----------------------------------------------------------------------------
(* A password call: the program is the setter's process.                   *)

BeginSetter(c)  == MayBegin(c) /\ Begin(c) /\ SetterStarts(c)
NoSetter(c)     == MayBegin(c) /\ SpawnFails(c) /\ UNCHANGED shadowVars
FeedSetter(c)   == Feed(c) /\ UNCHANGED shadowVars
\* set-password sees the end of its stdin once the API has closed it.
InputEnds(c)    == Alive(c) /\ at[c] # "feed" /\ SetterReads(c) /\ UNCHANGED runnerVars
SetterWorks(c)  == Alive(c) /\ Working(c) /\ UNCHANGED runnerVars
SetterTells(c)  == SetterReports(c) /\ ChildReport(c, "ok")
SetterRefuses(c) == step[c] = "failed" /\ ChildReport(c, "error") /\ UNCHANGED shadowVars
SetterExits(c)  ==
  /\ \/ step[c] = "reported" /\ ChildExit(c, "good")
     \/ step[c] = "failed" /\ said[c] = "error" /\ ChildExit(c, "bad")
  /\ SetterEnds(c)
SetterDies(c)   == ChildDies(c) /\ SetterEnds(c)
SetterLate(c)   == Timeout(c) /\ SetterEnds(c)
SetterLost(c)   == WaitFails(c) /\ SetterEnds(c)
ApiHears(c)     == (FeedFails(c) \/ Poll(c) \/ Collect(c)) /\ UNCHANGED shadowVars

SetterApi(c) == \/ FeedSetter(c) \/ SetterLate(c) \/ SetterLost(c) \/ ApiHears(c)
SetterStep(c) ==
  \/ BeginSetter(c) \/ NoSetter(c) \/ SetterApi(c)
  \/ InputEnds(c) \/ SetterWorks(c) \/ SetterTells(c) \/ SetterRefuses(c)
  \/ SetterExits(c) \/ SetterDies(c)

OtherStep(c) ==
  (Issued(c) \/ MayBegin(c)) /\ (ApiStep(c) \/ ChildStep(c)) /\ UNCHANGED shadowVars

Next ==
  \/ \E c \in Setters : SetterStep(c)
  \/ \E c \in Others : OtherStep(c)
  \/ \E u \in Users : GuestChanges(u) /\ UNCHANGED runnerVars

\* The API's process goes on once it was called; no program has to end.
Fairness ==
  /\ \A c \in Setters : WF_vars(SetterApi(c))
  /\ \A c \in Others : WF_vars(Issued(c) /\ ApiStep(c) /\ UNCHANGED shadowVars)

Spec == Init /\ [][Next]_vars
FairSpec == Spec /\ Fairness

-----------------------------------------------------------------------------
TypeOK == RunnerTypeOK /\ ShadowTypeOK

\* When the WebUI says the password was set, the shadow file was replaced by
\* one that holds it, beside everybody else's.
OkMeansStored == \A c \in Setters : reply[c] = "ok" => c \in stored
-----------------------------------------------------------------------------
(* The refinement of PasswordStore.                                        *)

\* A text that the setter has made and not put in place.
Drafts == {"open", "write", "attrs", "rename"}
AbsDraft == [c \in Setters |-> IF step[c] \in Drafts THEN text[c] ELSE Empty]
AbsPhase == [c \in Setters |-> IF at[c] = "idle" THEN "idle"
                               ELSE IF at[c] = "replied" THEN reply[c] ELSE "busy"]

Passwords == INSTANCE PasswordStore WITH pw <- disk[shadow].text, draft <- AbsDraft,
               phase <- AbsPhase, done <- stored, NoDraft <- Empty

\* As long as one call runs at a time, set_container_password works as one
\* read and one replacement of the file: a setter that is killed, fails or
\* is given up leaves the passwords as they were or as it was to set them,
\* and the temporary file it leaves behind is never seen.
ImplementsPasswordStore == Passwords!Spec

\* Whose hash a user has.
Entry(u) == IF disk[shadow].text = Empty THEN "nobody" ELSE disk[shadow].text[u]

\* A user's password changes by the guest's own passwd or by a setter that
\* was called for this user. A setter called for another user may take a
\* passwd of the guest back, when it read the file before, and never what
\* another setter stored.
OnlyOwnEntry ==
  [][\A u \in Users : Entry(u)' # Entry(u) =>
       \/ Entry(u)' = "guest" /\ u \in GuestUsers
       \/ \E c \in Setters : step[c] = "rename" /\ (user[c] = u \/ Entry(u) = "guest")
                             /\ Entry(u)' = text[c][u]]_vars
=============================================================================
