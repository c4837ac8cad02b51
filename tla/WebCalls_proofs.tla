--------------------------- MODULE WebCalls_proofs ---------------------------
(***************************************************************************)
(* Theorems about WebCalls, for any calls, users and inodes: the password  *)
(* calls are calls of the runner, so that what is proved of it holds of    *)
(* them; the types of the shadow file's state; and, as long as one call    *)
(* runs at a time, that the shadow file stays whole wherever a setter is   *)
(* killed and that ok means the password is stored.                        *)
(***************************************************************************)
EXTENDS WebCalls, CommandRunner_proofs

-----------------------------------------------------------------------------
(* The calls as calls of the runner.                                       *)

LEMMA SettersAreCalls ==
  Setters \subseteq Calls /\ Setters \subseteq JsonCalls /\ Setters \intersect CheckCalls = {}
BY WebAssumption, RunnerAssumption

\* Every step of the composition is a step of the runner or none of it.
LEMMA NextIsRunner == Next => RunnerNext \/ UNCHANGED runnerVars
<1> SUFFICES ASSUME Next PROVE RunnerNext \/ UNCHANGED runnerVars
  OBVIOUS
<1>1. ASSUME NEW c \in Setters, SetterStep(c) PROVE RunnerNext \/ UNCHANGED runnerVars
  <2>1. c \in Calls /\ c \in JsonCalls
    BY SettersAreCalls
  <2>2. CASE BeginSetter(c) \/ NoSetter(c)
    BY <2>1, <2>2 DEF BeginSetter, NoSetter, RunnerNext, ApiStep
  <2>3. CASE SetterApi(c)
    BY <2>1, <2>3
       DEF SetterApi, FeedSetter, SetterLate, SetterLost, ApiHears, RunnerNext, ApiStep
  <2>4. CASE InputEnds(c) \/ SetterWorks(c)
    BY <2>4 DEF InputEnds, SetterWorks
  <2>5. CASE SetterTells(c) \/ SetterRefuses(c)
    <3>1. \E v \in {"ok", "error"} : ChildReport(c, v)
      BY <2>5 DEF SetterTells, SetterRefuses
    <3>. QED BY <2>1, <3>1 DEF RunnerNext, ChildStep
  <2>6. CASE SetterExits(c)
    <3>1. \E e \in {"good", "bad"} : ChildExit(c, e)
      BY <2>6 DEF SetterExits
    <3>. QED BY <2>1, <3>1 DEF RunnerNext, ChildStep
  <2>7. CASE SetterDies(c)
    BY <2>1, <2>7 DEF SetterDies, RunnerNext, ChildStep
  <2>. QED BY <1>1, <2>2, <2>3, <2>4, <2>5, <2>6, <2>7 DEF SetterStep
<1>2. ASSUME NEW c \in Others, OtherStep(c) PROVE RunnerNext \/ UNCHANGED runnerVars
  BY <1>2 DEF OtherStep, RunnerNext, Others
<1>. QED BY <1>1, <1>2 DEF Next

\* The composition implements the runner.
LEMMA WebIsRunner == Spec => RunnerSpec
<1>1. Init => RunnerInit
  BY DEF Init
<1>2. [Next]_vars => [RunnerNext]_runnerVars
  BY NextIsRunner DEF vars
<1>. QED BY <1>1, <1>2, PTL DEF Spec, RunnerSpec

LEMMA WebCInv == Spec => []CInv
<1>. QED BY WebIsRunner, SpecCInv, PTL

\* No call is answered with ok when one of its programs did not do its work,
\* also a password call whose setter was killed anywhere.
THEOREM WebOkMeansDone == Spec => []OkMeansDone
<1>. QED BY WebIsRunner, RunnerOkMeansDone, PTL

-----------------------------------------------------------------------------
(* The types of the shadow file's state.                                   *)

\* A whole text is not an empty file, and a changed entry keeps it whole.
LEMMA TextFacts ==
  /\ Empty \notin Texts
  /\ \A t \in Texts : \A u \in Users : \A h \in Hashes : [t EXCEPT ![u] = h] \in Texts
  /\ OldText \in Texts
<1>1. Empty \notin Texts
  BY ShadowAssumption DEF Empty, Texts
<1>. QED BY <1>1 DEF Texts, OldText, Hashes

LEMMA FileFacts ==
  /\ Blank \in File
  /\ \A r \in File : /\ r.text \in Texts \union {Empty}
                     /\ [r EXCEPT !.text = Empty] \in File
                     /\ [r EXCEPT !.mode = "original"] \in File
                     /\ \A t \in Texts \union {Empty} : [r EXCEPT !.text = t] \in File
  /\ \A t \in Texts : [text |-> t, mode |-> "original"] \in File
BY DEF Blank, File

\* The step of a setter, or of the guest, as the composition takes it.
FileStep ==
  \/ \E c \in Setters : \/ SetterStarts(c) \/ SetterReads(c) \/ Working(c)
                        \/ SetterReports(c) \/ SetterEnds(c)
  \/ \E u \in Users : GuestChanges(u)

\* A free inode is one, and nobody's.
LEMMA NewIsFree == Free # {} => NewInode \in Free
BY DEF NewInode

LEMMA ReplacedTypes ==
  ASSUME ShadowTypeOK
  PROVE  /\ Replaced \in [Inodes -> File]
         /\ \A i \in Inodes : i # shadow => Replaced[i] = disk[i]
BY FileFacts DEF Replaced, ShadowTypeOK

LEMMA FileTypes ==
  ASSUME ShadowTypeOK, FileStep
  PROVE  ShadowTypeOK'
<1>1. /\ step \in [Setters -> Steps] /\ user \in [Setters -> Users \union {Stranger}]
      /\ text \in [Setters -> Texts \union {Empty}] /\ fd \in [Setters -> Inodes \union {NoFile}]
      /\ disk \in [Inodes -> File] /\ shadow \in Inodes /\ temp \in Inodes \union {NoFile}
      /\ stored \subseteq Setters
  BY DEF ShadowTypeOK
<1>2. ASSUME NEW c \in Setters, NEW s \in Steps, Goto(c, s) PROVE step' \in [Setters -> Steps]
  BY <1>1, <1>2 DEF Goto
<1>3. ASSUME NEW c \in Setters, SetterStarts(c) PROVE ShadowTypeOK'
  <2>1. {"input", "check"} \subseteq Steps
    BY DEF Steps
  <2>. QED BY <1>1, <1>2, <1>3, <2>1 DEF SetterStarts, ShadowTypeOK
<1>4. ASSUME NEW c \in Setters, SetterReads(c) \/ SetterChecks(c) \/ SetterReports(c)
      PROVE  ShadowTypeOK'
  <2>1. {"check", "read", "reported"} \subseteq Steps
    BY DEF Steps
  <2>. QED BY <1>1, <1>2, <1>4, <2>1 DEF SetterReads, SetterChecks, SetterReports, ShadowTypeOK
<1>5. ASSUME NEW c \in Setters, SetterLooks(c) PROVE ShadowTypeOK'
  <2>1. {"open", "failed"} \subseteq Steps /\ c \in Hashes
    BY DEF Steps, Hashes
  <2>2. disk[shadow].text # Empty => disk[shadow].text \in Texts
    BY <1>1, FileFacts
  <2>3. text' \in [Setters -> Texts \union {Empty}]
    BY <1>1, <1>5, <2>1, <2>2, TextFacts DEF SetterLooks
  <2>. QED BY <1>1, <1>2, <1>5, <2>1, <2>3 DEF SetterLooks, ShadowTypeOK
<1>6. ASSUME NEW c \in Setters, SetterOpens(c) PROVE ShadowTypeOK'
  <2>1. "write" \in Steps
    BY DEF Steps
  <2>2. CASE temp = NoFile
    <3>1. NewInode \in Inodes
      BY <1>6, <2>2, NewIsFree DEF SetterOpens, Free
    <3>2. /\ disk' = [disk EXCEPT ![NewInode] = Blank]
          /\ fd' = [fd EXCEPT ![c] = NewInode] /\ temp' = NewInode
      BY <1>6, <2>2 DEF SetterOpens
    <3>3. disk' \in [Inodes -> File] /\ fd' \in [Setters -> Inodes \union {NoFile}]
      BY <1>1, <3>1, <3>2, FileFacts
    <3>. QED BY <1>1, <1>2, <1>6, <2>1, <3>1, <3>2, <3>3 DEF SetterOpens, ShadowTypeOK
  <2>3. CASE temp # NoFile
    <3>1. /\ disk' = [disk EXCEPT ![temp] = [disk[temp] EXCEPT !.text = Empty]]
          /\ fd' = [fd EXCEPT ![c] = temp] /\ temp' = temp
      BY <1>6, <2>3 DEF SetterOpens
    <3>2. disk' \in [Inodes -> File] /\ fd' \in [Setters -> Inodes \union {NoFile}]
      BY <1>1, <2>3, <3>1, FileFacts
    <3>. QED BY <1>1, <1>2, <1>6, <2>1, <3>1, <3>2 DEF SetterOpens, ShadowTypeOK
  <2>. QED BY <2>2, <2>3
<1>7. ASSUME NEW c \in Setters, SetterWrites(c) PROVE ShadowTypeOK'
  <2>1. "attrs" \in Steps
    BY DEF Steps
  <2>2. disk' = [disk EXCEPT ![fd[c]] = [disk[fd[c]] EXCEPT !.text = text[c]]]
    BY <1>7 DEF SetterWrites
  <2>3. disk' \in [Inodes -> File]
    <3>1. CASE fd[c] \in Inodes
      BY <1>1, <2>2, <3>1, FileFacts
    <3>2. CASE fd[c] \notin Inodes
      BY <1>1, <2>2, <3>2
    <3>. QED BY <3>1, <3>2
  <2>. QED BY <1>1, <1>2, <1>7, <2>1, <2>3 DEF SetterWrites, ShadowTypeOK
<1>8. ASSUME NEW c \in Setters, SetterAttrs(c) PROVE ShadowTypeOK'
  <2>1. {"failed", "rename"} \subseteq Steps
    BY DEF Steps
  <2>2. disk' \in [Inodes -> File]
    <3>1. CASE temp = NoFile
      BY <1>1, <1>8, <3>1 DEF SetterAttrs
    <3>2. CASE temp # NoFile
      <4>1. disk' = [disk EXCEPT ![temp] = [disk[temp] EXCEPT !.mode = "original"]]
        BY <1>8, <3>2 DEF SetterAttrs
      <4>. QED BY <1>1, <3>2, <4>1, FileFacts
    <3>. QED BY <3>1, <3>2
  <2>. QED BY <1>1, <1>2, <1>8, <2>1, <2>2 DEF SetterAttrs, ShadowTypeOK
<1>9. ASSUME NEW c \in Setters, SetterRenames(c) PROVE ShadowTypeOK'
  <2>1. {"failed", "report"} \subseteq Steps
    BY DEF Steps
  <2>2. /\ disk' \in [Inodes -> File] /\ shadow' \in Inodes /\ temp' \in Inodes \union {NoFile}
        /\ stored' \subseteq Setters
    BY <1>1, <1>9, ReplacedTypes DEF SetterRenames
  <2>. QED BY <1>1, <1>2, <1>9, <2>1, <2>2 DEF SetterRenames, ShadowTypeOK
<1>10. ASSUME NEW c \in Setters, SetterFails(c) \/ SetterEnds(c) PROVE ShadowTypeOK'
  <2>1. {"failed", "gone"} \subseteq Steps
    BY DEF Steps
  <2>. QED BY <1>1, <1>2, <1>10, <2>1 DEF SetterFails, SetterEnds, ShadowTypeOK
<1>11. ASSUME NEW u \in Users, GuestChanges(u) PROVE ShadowTypeOK'
  <2>1. NewInode \in Inodes
    BY <1>11, NewIsFree DEF GuestChanges, Free
  <2>2. disk[shadow].text \in Texts /\ "guest" \in Hashes
    BY <1>1, <1>11, FileFacts DEF GuestChanges, Hashes
  <2>3. [text |-> [disk[shadow].text EXCEPT ![u] = "guest"], mode |-> "original"] \in File
    BY <2>2, TextFacts, FileFacts
  <2>4. disk' \in [Inodes -> File] /\ shadow' \in Inodes
    BY <1>11, <2>1, <2>3, ReplacedTypes DEF GuestChanges
  <2>. QED BY <1>1, <1>11, <2>4 DEF GuestChanges, ShadowTypeOK
<1>. QED BY <1>3, <1>4, <1>5, <1>6, <1>7, <1>8, <1>9, <1>10, <1>11 DEF FileStep, Working

-----------------------------------------------------------------------------
(* One setter at a time and the shadow file.                               *)

Off == {"off", "gone"}

\* Two setters are never at work together.
OneAtWork == \A c, d \in Setters : c # d => step[c] \in Off \/ step[d] \in Off

\* What a setter has in its hands: a whole text, then the temporary file
\* open, then written with its text, then with its mode, then in place.
Work(c) ==
  /\ step[c] \in {"open", "write", "attrs", "rename"} => text[c] \in Texts /\ user[c] \in Users
  /\ step[c] = "write" => temp # NoFile /\ fd[c] = temp
  /\ step[c] \in {"attrs", "rename"} => temp # NoFile /\ disk[temp].text = text[c]
  /\ step[c] = "rename" => disk[temp].mode = "original"
  /\ fd[c] # NoFile => step[c] = "write"
  /\ step[c] \in {"report", "reported"} => c \in stored

FInv == ShadowTypeOK /\ ShadowWhole /\ temp # shadow /\ \A c \in Setters : Work(c)

\* What a setter that is not at work has in its hands: nothing.
LEMMA OffIsIdle ==
  ASSUME FInv, NEW c \in Setters, step[c] \in Off, step'[c] = step[c], fd'[c] = fd[c]
  PROVE  Work(c)'
BY DEF FInv, Work, Off

\* A step of the only setter at work keeps the file.
LEMMA SetterKeeps ==
  ASSUME FInv, NEW c \in Setters, \A d \in Setters : d # c => step[d] \in Off,
         SetterStarts(c) \/ SetterReads(c) \/ Working(c) \/ SetterReports(c) \/ SetterEnds(c)
  PROVE  FInv'
<1>1. ShadowTypeOK'
  BY FileTypes DEF FInv, FileStep
<1>2. /\ step \in [Setters -> Steps] /\ user \in [Setters -> Users \union {Stranger}]
      /\ text \in [Setters -> Texts \union {Empty}] /\ fd \in [Setters -> Inodes \union {NoFile}]
      /\ disk \in [Inodes -> File] /\ shadow \in Inodes /\ temp \in Inodes \union {NoFile}
      /\ stored \subseteq Setters /\ temp # shadow /\ NoFile \notin Inodes
  BY ShadowAssumption DEF FInv, ShadowTypeOK
<1>3. disk[shadow].text # Empty /\ disk[shadow].mode = "original" /\ Work(c)
  BY DEF FInv, ShadowWhole
<1>4. \A d \in Setters : d # c => step'[d] = step[d] /\ fd'[d] = fd[d]
  BY <1>2 DEF SetterStarts, SetterReads, Working, SetterReports, SetterEnds, SetterChecks,
              SetterLooks, SetterOpens, SetterWrites, SetterAttrs, SetterRenames, SetterFails, Goto
<1>5. \A d \in Setters : d # c => Work(d)'
  BY <1>4, OffIsIdle
<1>6. SUFFICES ShadowWhole' /\ temp' # shadow' /\ Work(c)'
  BY <1>1, <1>5 DEF FInv
<1>7. CASE SetterStarts(c) \/ SetterReads(c) \/ SetterReports(c) \/ SetterChecks(c)
  <2>1. UNCHANGED <<text, fd, disk, shadow, temp, stored>>
    BY <1>7 DEF SetterStarts, SetterReads, SetterReports, SetterChecks
  <2>2. /\ step'[c] \in {"input", "check", "read", "reported"}
        /\ step'[c] = "reported" => step[c] = "report"
        /\ step[c] # "write"
    BY <1>2, <1>7 DEF SetterStarts, SetterReads, SetterReports, SetterChecks, Goto
  <2>3. Work(c)'
    BY <1>3, <2>1, <2>2 DEF Work
  <2>. QED BY <1>2, <1>3, <2>1, <2>3 DEF ShadowWhole
<1>8. CASE SetterLooks(c)
  <2>1. UNCHANGED <<user, fd, disk, shadow, temp, stored>> /\ step[c] = "read"
    BY <1>8 DEF SetterLooks
  <2>2. CASE user[c] \in Users
    <3>1. step'[c] = "open" /\ text' = [text EXCEPT ![c] = [disk[shadow].text EXCEPT ![user[c]] = c]]
      BY <1>2, <1>3, <1>8, <2>2 DEF SetterLooks, Goto
    <3>2. disk[shadow].text \in Texts /\ c \in Hashes
      BY <1>2, <1>3, FileFacts DEF Hashes
    <3>3. text'[c] \in Texts
      BY <1>2, <2>2, <3>1, <3>2, TextFacts
    <3>4. Work(c)'
      BY <1>3, <2>1, <2>2, <3>1, <3>3 DEF Work
    <3>. QED BY <1>2, <1>3, <2>1, <3>4 DEF ShadowWhole
  <2>3. CASE user[c] \notin Users
    <3>1. step'[c] = "failed"
      BY <1>2, <1>8, <2>3 DEF SetterLooks, Goto
    <3>2. Work(c)'
      BY <1>3, <2>1, <3>1 DEF Work
    <3>. QED BY <1>2, <1>3, <2>1, <3>2 DEF ShadowWhole
  <2>. QED BY <2>2, <2>3
<1>9. CASE SetterOpens(c)
  <2>1. step[c] = "open" /\ step'[c] = "write" /\ UNCHANGED <<user, text, shadow, stored>>
    BY <1>2, <1>9 DEF SetterOpens, Goto
  <2>2. temp' # NoFile /\ temp' # shadow /\ fd'[c] = temp' /\ disk'[shadow] = disk[shadow]
    <3>1. CASE temp = NoFile
      <4>1. NewInode \in Inodes /\ NewInode # shadow
        BY <1>9, <3>1, NewIsFree DEF SetterOpens, Free
      <4>. QED BY <1>2, <1>9, <3>1, <4>1 DEF SetterOpens
    <3>2. CASE temp # NoFile
      <4>1. /\ disk' = [disk EXCEPT ![temp] = [disk[temp] EXCEPT !.text = Empty]]
            /\ fd' = [fd EXCEPT ![c] = temp] /\ temp' = temp
        BY <1>9, <3>2 DEF SetterOpens
      <4>. QED BY <1>2, <3>2, <4>1
    <3>. QED BY <3>1, <3>2
  <2>3. Work(c)'
    BY <1>3, <2>1, <2>2 DEF Work
  <2>. QED BY <1>3, <2>1, <2>2, <2>3 DEF ShadowWhole
<1>10. CASE SetterWrites(c)
  <2>1. /\ step[c] = "write" /\ step'[c] = "attrs" /\ UNCHANGED <<user, text, shadow, temp, stored>>
        /\ disk' = [disk EXCEPT ![fd[c]] = [disk[fd[c]] EXCEPT !.text = text[c]]]
        /\ fd'[c] = NoFile
    BY <1>2, <1>10 DEF SetterWrites, Goto
  <2>2. temp # NoFile /\ fd[c] = temp /\ text[c] \in Texts
    BY <1>3, <2>1 DEF Work
  <2>3. disk'[shadow] = disk[shadow] /\ disk'[temp].text = text[c]
    <3>1. disk'[temp] = [disk[temp] EXCEPT !.text = text[c]] /\ disk[temp] \in File
      BY <1>2, <2>1, <2>2
    <3>2. disk'[temp].text = text[c]
      BY <3>1 DEF File
    <3>. QED BY <1>2, <2>1, <2>2, <3>2
  <2>4. Work(c)'
    BY <1>3, <2>1, <2>2, <2>3 DEF Work
  <2>. QED BY <1>2, <1>3, <2>1, <2>3, <2>4 DEF ShadowWhole
<1>11. CASE SetterAttrs(c)
  <2>1. temp # NoFile /\ disk[temp].text = text[c] /\ text[c] \in Texts /\ step[c] = "attrs"
    BY <1>3, <1>11 DEF Work, SetterAttrs
  <2>2. /\ step'[c] = "rename" /\ UNCHANGED <<user, text, fd, shadow, temp, stored>>
        /\ disk' = [disk EXCEPT ![temp] = [disk[temp] EXCEPT !.mode = "original"]]
    BY <1>2, <1>11, <2>1 DEF SetterAttrs, Goto
  <2>3. /\ disk'[shadow] = disk[shadow]
        /\ disk'[temp].text = text[c] /\ disk'[temp].mode = "original"
    <3>1. disk'[temp] = [disk[temp] EXCEPT !.mode = "original"] /\ disk[temp] \in File
      BY <1>2, <2>1, <2>2
    <3>2. disk'[temp].text = text[c] /\ disk'[temp].mode = "original"
      BY <2>1, <3>1 DEF File
    <3>. QED BY <1>2, <2>1, <2>2, <3>2
  <2>4. Work(c)'
    BY <1>3, <2>1, <2>2, <2>3 DEF Work
  <2>. QED BY <1>2, <1>3, <2>2, <2>3, <2>4 DEF ShadowWhole
<1>12. CASE SetterRenames(c)
  <2>1. /\ temp # NoFile /\ disk[temp].text = text[c] /\ disk[temp].mode = "original"
        /\ text[c] \in Texts /\ user[c] \in Users /\ step[c] = "rename"
    BY <1>3, <1>12 DEF Work, SetterRenames
  <2>2. /\ step'[c] = "report" /\ shadow' = temp /\ temp' = NoFile /\ disk' = Replaced
        /\ stored' = stored \union {c} /\ UNCHANGED <<user, text, fd>>
    BY <1>2, <1>12, <2>1 DEF SetterRenames, Goto
  <2>3. disk'[temp] = disk[temp]
    BY <1>2, <2>1, <2>2, ReplacedTypes DEF FInv
  <2>4. Work(c)'
    BY <1>3, <2>1, <2>2 DEF Work
  <2>. QED BY <1>2, <2>1, <2>2, <2>3, <2>4, TextFacts DEF ShadowWhole
<1>13. CASE SetterFails(c) \/ SetterEnds(c)
  <2>1. step'[c] \in {"failed", "gone"} /\ fd'[c] = NoFile /\ UNCHANGED <<disk, shadow, temp, stored>>
    BY <1>2, <1>13 DEF SetterFails, SetterEnds, Goto
  <2>2. Work(c)'
    BY <2>1 DEF Work
  <2>. QED BY <1>2, <1>3, <2>1, <2>2 DEF ShadowWhole
<1>. QED BY <1>7, <1>8, <1>9, <1>10, <1>11, <1>12, <1>13 DEF Working

\* The guest's own change keeps what the setters have in their hands.
LEMMA GuestKeeps ==
  ASSUME FInv, NEW u \in Users, GuestChanges(u)
  PROVE  FInv'
<1>1. ShadowTypeOK'
  BY FileTypes DEF FInv, FileStep
<1>2. /\ disk \in [Inodes -> File] /\ shadow \in Inodes /\ temp \in Inodes \union {NoFile}
      /\ temp # shadow
  BY DEF FInv, ShadowTypeOK
<1>3. NewInode \in Inodes /\ NewInode # shadow /\ NewInode # temp
  BY NewIsFree DEF GuestChanges, Free
<1>4. Replaced \in [Inodes -> File] /\ \A i \in Inodes : i # shadow => Replaced[i] = disk[i]
  BY ReplacedTypes DEF FInv
<1> DEFINE new == [disk[shadow].text EXCEPT ![u] = "guest"]
<1>5. /\ disk' = [Replaced EXCEPT ![NewInode] = [text |-> new, mode |-> "original"]]
      /\ shadow' = NewInode /\ UNCHANGED <<step, user, text, fd, temp, stored>>
  BY DEF GuestChanges
<1>6. new \in Texts
  <2>1. disk[shadow].text \in Texts /\ "guest" \in Hashes
    BY <1>2, FileFacts DEF GuestChanges, Hashes
  <2>. QED BY <2>1, TextFacts
<1>. HIDE DEF new
<1>7. ShadowWhole'
  BY <1>3, <1>4, <1>5, <1>6, TextFacts DEF ShadowWhole
<1>8. temp # NoFile => disk'[temp] = disk[temp]
  BY <1>2, <1>3, <1>4, <1>5
<1>9. ASSUME NEW c \in Setters PROVE Work(c)'
  BY <1>5, <1>8 DEF FInv, Work
<1>. QED BY <1>1, <1>3, <1>5, <1>7, <1>9 DEF FInv

-----------------------------------------------------------------------------
(* The calls and the file together, one call at a time.                    *)

\* The program of a password call runs exactly while its setter is at work.
Link == \A c \in Setters : Alive(c) <=> step[c] \notin Off

\* What was said or answered is true.
Told == \A c \in Setters : said[c] = "ok" \/ reply[c] = "ok" => c \in stored

WInv == FInv /\ OneAtWork /\ Link /\ Told

\* A result is told only when it was reported.
LEMMA ResultTells ==
  ASSUME CInv, Told, NEW c \in Calls, NEW ok \in BOOLEAN, Result(c, ok),
         c \in Setters /\ ok => said[c] = "ok"
  PROVE  /\ \A d \in Setters : said'[d] = "ok" \/ reply'[d] = "ok" => d \in stored
         /\ \A d \in Calls : child'[d] = IF d = c THEN "none" ELSE child[d]
<1>1. /\ \A d \in Calls : d # c => said'[d] = said[d] /\ reply'[d] = reply[d] /\ child'[d] = child[d]
      /\ said'[c] = "nothing" /\ child'[c] = "none"
      /\ reply'[c] = "ok" => reply[c] = "ok" \/ ok
  BY DEF Result, Forget, CInv, RunnerTypeOK
<1>. QED BY <1>1, SettersAreCalls DEF Told

\* A step of the API for a call whose setter, if it has one, is left alone.
LEMMA ApiTells ==
  ASSUME CInv, Told, NEW c \in Calls,
         SpawnFails(c) \/ FeedFails(c) \/ WaitFails(c) \/ Collect(c)
  PROVE  /\ \A d \in Setters : said'[d] = "ok" \/ reply'[d] = "ok" => d \in stored
         /\ \A d \in Calls : child'[d] = IF d = c THEN "none" ELSE child[d]
<1>1. Success(c) \in BOOLEAN
  BY DEF Success, Parses, CInv, RunnerTypeOK
<1>2. CASE Collect(c)
  <2>1. c \in Setters /\ Success(c) => said[c] = "ok"
    BY SettersAreCalls DEF Success
  <2>. QED BY <1>1, <1>2, <2>1, ResultTells DEF Collect
<1>3. CASE SpawnFails(c) \/ FeedFails(c) \/ WaitFails(c)
  <2>1. Result(c, FALSE)
    BY <1>3 DEF SpawnFails, FeedFails, WaitFails
  <2>. QED BY <2>1, ResultTells
<1>. QED BY <1>2, <1>3

\* A setter's own step changes its own place alone, and stored only grows.
LEMMA SetterMoves ==
  ASSUME ShadowTypeOK, NEW c \in Setters,
         SetterStarts(c) \/ SetterReads(c) \/ Working(c) \/ SetterReports(c) \/ SetterEnds(c)
  PROVE  /\ \A d \in Setters : d # c => step'[d] = step[d]
         /\ stored \subseteq stored'
         /\ step'[c] \in Off <=> SetterEnds(c)
         /\ step[c] \in Off <=> SetterStarts(c)
<1>1. step \in [Setters -> Steps]
  BY DEF ShadowTypeOK
<1>2. CASE SetterStarts(c)
  BY <1>1, <1>2 DEF SetterStarts, SetterEnds, Goto, Off
<1>3. CASE SetterEnds(c)
  BY <1>1, <1>3 DEF SetterStarts, SetterEnds, Goto, Off
<1>4. CASE SetterReads(c) \/ SetterReports(c)
  BY <1>1, <1>4 DEF SetterReads, SetterReports, SetterStarts, SetterEnds, Goto, Off
<1>5. CASE Working(c)
  <2>1. step[c] \in {"input", "check", "read", "open", "write", "attrs", "rename"}
    BY <1>5 DEF Working, SetterChecks, SetterLooks, SetterOpens, SetterWrites, SetterAttrs,
                SetterRenames, SetterFails
  <2>2. \E s \in {"read", "open", "write", "attrs", "rename", "report", "failed"} : Goto(c, s)
    BY <1>5 DEF Working, SetterChecks, SetterLooks, SetterOpens, SetterWrites, SetterAttrs,
                SetterRenames, SetterFails
  <2>3. stored \subseteq stored'
    BY <1>5 DEF Working, SetterChecks, SetterLooks, SetterOpens, SetterWrites, SetterAttrs,
                SetterRenames, SetterFails
  <2>. QED BY <1>1, <2>1, <2>2, <2>3 DEF SetterStarts, SetterEnds, Goto, Off
<1>. QED BY <1>2, <1>3, <1>4, <1>5

\* When a setter is started, no other one is at work.
LEMMA StartsAlone ==
  ASSUME CInv, Link, ~Overlap, NEW c \in Setters, MayBegin(c), NEW d \in Setters, d # c
  PROVE  step[d] \in Off
<1>1. d \in Calls \ {c}
  BY SettersAreCalls
<1>2. at[d] \in {"replied", "idle"}
  BY <1>1 DEF MayBegin, Issued
<1>3. child[d] = "none"
  BY <1>1, <1>2 DEF CInv, CallShape
<1>. QED BY <1>3 DEF Link, Alive

LEMMA SetterStepKeeps ==
  ASSUME CInv, WInv, ~Overlap, NEW c \in Setters, SetterStep(c)
  PROVE  WInv'
<1>1. /\ c \in Calls /\ \A d \in Setters : d \in Calls
      /\ FInv /\ ShadowTypeOK /\ OneAtWork /\ Link /\ Told
      /\ child \in [Calls -> Childs] /\ said \in [Calls -> {"nothing", "ok", "error"}]
  BY SettersAreCalls DEF WInv, FInv, CInv, RunnerTypeOK
<1> DEFINE Own == SetterStarts(c) \/ SetterReads(c) \/ Working(c) \/ SetterReports(c) \/ SetterEnds(c)
           Tells == \A d \in Setters : said'[d] = "ok" \/ reply'[d] = "ok" => d \in stored'
\* A step of the setter: what is to be shown of the call's side.
<1>2. ASSUME Own, \A d \in Setters : d # c => step[d] \in Off,
             \A d \in Setters : d # c => child'[d] = child[d],
             Alive(c)' <=> ~SetterEnds(c), Tells
      PROVE  WInv'
  <2>1. FInv'
    BY <1>1, <1>2, SetterKeeps
  <2>2. /\ \A d \in Setters : d # c => step'[d] = step[d]
        /\ step'[c] \in Off <=> SetterEnds(c)
    BY <1>1, <1>2, SetterMoves
  <2>3. OneAtWork'
    BY <1>2, <2>2 DEF OneAtWork
  <2>4. Link'
    BY <1>1, <1>2, <2>2 DEF Link, Alive
  <2>. QED BY <1>2, <2>1, <2>3, <2>4 DEF WInv, Told
<1>3. ASSUME step[c] \notin Off PROVE \A d \in Setters : d # c => step[d] \in Off
  BY <1>1, <1>3 DEF OneAtWork
\* A step of the call alone: the file stays as it is.
<1>4. ASSUME UNCHANGED shadowVars, \A d \in Setters : Alive(d)' <=> Alive(d), Tells
      PROVE  WInv'
  <2>1. FInv'
    BY <1>1, <1>4 DEF FInv, ShadowTypeOK, ShadowWhole, Work, shadowVars
  <2>. QED BY <1>1, <1>4, <2>1 DEF WInv, OneAtWork, Link, Told, shadowVars
<1>5. ASSUME UNCHANGED <<said, reply>>, stored \subseteq stored' PROVE Tells
  BY <1>1, <1>5 DEF Told
<1>. HIDE DEF Tells
<1>6. CASE BeginSetter(c)
  <2>1. /\ Own /\ SetterStarts(c) /\ MayBegin(c) /\ UNCHANGED <<said, reply>>
        /\ child' = [child EXCEPT ![c] = "running"] /\ step[c] = "off"
    BY <1>6 DEF BeginSetter, Begin, SetterStarts
  <2>2. stored \subseteq stored' /\ ~SetterEnds(c)
    BY <2>1 DEF SetterStarts, SetterEnds
  <2>3. \A d \in Setters : d # c => step[d] \in Off
    BY <1>1, <2>1, StartsAlone
  <2>. QED BY <1>1, <1>2, <1>5, <2>1, <2>2, <2>3 DEF Alive
<1>7. CASE NoSetter(c)
  <2>1. /\ SpawnFails(c) /\ UNCHANGED shadowVars /\ at[c] = "idle"
    BY <1>7 DEF NoSetter, SpawnFails
  <2>2. child[c] = "none"
    BY <1>1, <2>1 DEF CInv, CallShape
  <2>3. Tells /\ \A d \in Calls : child'[d] = child[d]
    BY <1>1, <2>1, <2>2, ApiTells DEF Tells, shadowVars
  <2>. QED BY <1>1, <1>4, <2>1, <2>3 DEF Alive
<1>8. CASE FeedSetter(c)
  <2>1. UNCHANGED <<shadowVars, child, said, reply>>
    BY <1>8 DEF FeedSetter, Feed
  <2>. QED BY <1>4, <1>5, <2>1 DEF Alive, shadowVars
<1>9. CASE ApiHears(c)
  <2>1. UNCHANGED shadowVars /\ ~Alive(c)
    BY <1>9 DEF ApiHears, FeedFails, Poll, Collect
  <2>2. CASE Poll(c)
    <3>1. UNCHANGED <<child, said, reply>>
      BY <2>2 DEF Poll
    <3>. QED BY <1>4, <1>5, <2>1, <3>1 DEF Alive, shadowVars
  <2>3. CASE FeedFails(c) \/ Collect(c)
    <3>1. Tells /\ \A d \in Calls : child'[d] = IF d = c THEN "none" ELSE child[d]
      BY <1>1, <2>1, <2>3, ApiTells DEF Tells, shadowVars
    <3>. QED BY <1>1, <1>4, <2>1, <3>1 DEF Alive
  <2>. QED BY <1>9, <2>2, <2>3 DEF ApiHears
<1>10. CASE SetterLate(c) \/ SetterDies(c)
  <2>1. /\ Own /\ SetterEnds(c) /\ UNCHANGED <<said, reply, stored>>
        /\ child' = [child EXCEPT ![c] = "killed"] /\ step[c] \notin Off
    BY <1>10 DEF SetterLate, SetterDies, Timeout, ChildDies, SetterEnds, Off
  <2>. QED BY <1>1, <1>2, <1>3, <1>5, <2>1 DEF Alive
<1>11. CASE SetterLost(c)
  <2>1. /\ Own /\ SetterEnds(c) /\ WaitFails(c) /\ UNCHANGED stored /\ step[c] \notin Off
    BY <1>11 DEF SetterLost, SetterEnds, Off
  <2>2. Tells /\ \A d \in Calls : child'[d] = IF d = c THEN "none" ELSE child[d]
    BY <1>1, <2>1, ApiTells DEF Tells
  <2>. QED BY <1>1, <1>2, <1>3, <2>1, <2>2 DEF Alive
<1>12. CASE InputEnds(c) \/ SetterWorks(c)
  <2>1. Own /\ Alive(c) /\ UNCHANGED runnerVars
    BY <1>12 DEF InputEnds, SetterWorks
  <2>2. step[c] \notin Off
    BY <1>1, <2>1 DEF Link
  <2>3. ~SetterEnds(c) /\ stored \subseteq stored'
    <3>1. step'[c] # "gone"
      BY <1>1, <1>12 DEF InputEnds, SetterWorks, SetterReads, Working, SetterChecks, SetterLooks,
         SetterOpens, SetterWrites, SetterAttrs, SetterRenames, SetterFails, Goto, ShadowTypeOK
    <3>2. ~SetterEnds(c)
      BY <1>1, <3>1 DEF SetterEnds, Goto, ShadowTypeOK
    <3>. QED BY <1>1, <2>1, <3>2, SetterMoves
  <2>. QED BY <1>1, <1>2, <1>3, <1>5, <2>1, <2>2, <2>3 DEF Alive, runnerVars
<1>13. CASE SetterTells(c)
  <2>1. /\ Own /\ SetterReports(c) /\ step[c] = "report" /\ UNCHANGED <<child, reply, stored>>
        /\ said' = [said EXCEPT ![c] = "ok"] /\ child[c] = "running"
    BY <1>13 DEF SetterTells, SetterReports, ChildReport
  <2>2. c \in stored
    BY <1>1, <2>1 DEF FInv, Work
  <2>3. Tells
    BY <1>1, <2>1, <2>2 DEF Tells, Told
  <2>4. ~SetterEnds(c)
    BY <1>1, <2>1 DEF SetterReports, SetterEnds, Goto, ShadowTypeOK
  <2>5. step[c] \notin Off
    BY <2>1 DEF Off
  <2>. QED BY <1>1, <1>2, <1>3, <2>1, <2>3, <2>4, <2>5 DEF Alive
<1>14. CASE SetterRefuses(c)
  <2>1. UNCHANGED <<shadowVars, child, reply>> /\ said' = [said EXCEPT ![c] = "error"]
    BY <1>14 DEF SetterRefuses, ChildReport
  <2>2. Tells
    BY <1>1, <2>1 DEF Tells, Told, shadowVars
  <2>. QED BY <1>4, <2>1, <2>2 DEF Alive
<1>15. CASE SetterExits(c)
  <2>1. /\ Own /\ SetterEnds(c) /\ UNCHANGED <<said, reply, stored>> /\ step[c] \notin Off
        /\ \E e \in {"good", "bad"} : child' = [child EXCEPT ![c] = e]
    BY <1>15 DEF SetterExits, ChildExit, SetterEnds, Off
  <2>. QED BY <1>1, <1>2, <1>3, <1>5, <2>1 DEF Alive
<1>. QED BY <1>6, <1>7, <1>8, <1>9, <1>10, <1>11, <1>12, <1>13, <1>14, <1>15
         DEF SetterStep, SetterApi

\* Another call has no setter, and leaves the ones there are alone.
LEMMA OtherStepKeeps ==
  ASSUME CInv, WInv, NEW c \in Others, OtherStep(c)
  PROVE  WInv'
<1>1. /\ c \in Calls /\ c \notin Setters /\ \A d \in Setters : d \in Calls /\ d # c
      /\ FInv /\ ShadowTypeOK /\ OneAtWork /\ Link /\ Told /\ UNCHANGED shadowVars
      /\ child \in [Calls -> Childs] /\ said \in [Calls -> {"nothing", "ok", "error"}]
  BY SettersAreCalls DEF WInv, FInv, CInv, RunnerTypeOK, Others, OtherStep
<1>2. /\ \A d \in Setters : child'[d] = child[d]
      /\ \A d \in Setters : said'[d] = "ok" \/ reply'[d] = "ok" => d \in stored
  <2>1. CASE SpawnFails(c) \/ FeedFails(c) \/ WaitFails(c) \/ Collect(c)
    BY <1>1, <2>1, ApiTells
  <2>2. CASE Begin(c) \/ Feed(c) \/ Poll(c) \/ Timeout(c)
    BY <1>1, <2>2 DEF Begin, Feed, Poll, Timeout, Told
  <2>3. CASE ChildStep(c)
    <3>1. UNCHANGED reply /\ \A d \in Setters : said'[d] = said[d] /\ child'[d] = child[d]
      BY <1>1, <2>3 DEF ChildStep, ChildPrint, ChildReport, ChildLeaves, HolderEnds, ChildDies, ChildExit
    <3>. QED BY <1>1, <3>1 DEF Told
  <2>. QED BY <2>1, <2>2, <2>3 DEF OtherStep, ApiStep
<1>3. FInv'
  BY <1>1 DEF FInv, ShadowTypeOK, ShadowWhole, Work, shadowVars
<1>. QED BY <1>1, <1>2, <1>3 DEF WInv, OneAtWork, Link, Told, Alive, shadowVars

LEMMA InitWInv == Init => WInv
<1> SUFFICES ASSUME Init PROVE WInv
  OBVIOUS
<1>1. shadow \in Inodes
  BY ShadowAssumption DEF Init, ShadowInit
<1>2. [text |-> OldText, mode |-> "original"] \in File /\ Blank \in File
  BY TextFacts, FileFacts
<1>3. ShadowTypeOK
  BY <1>1, <1>2 DEF Init, ShadowInit, ShadowTypeOK, Steps
<1>4. ShadowWhole /\ temp # shadow /\ \A c \in Setters : Work(c)
  BY <1>1, TextFacts, ShadowAssumption DEF Init, ShadowInit, ShadowWhole, Work
<1>5. OneAtWork /\ Link /\ Told
  BY SettersAreCalls DEF Init, ShadowInit, RunnerInit, OneAtWork, Link, Told, Off, Alive
<1>. QED BY <1>3, <1>4, <1>5 DEF WInv, FInv

LEMMA NextWInv == ~Overlap /\ CInv /\ WInv /\ [Next]_vars => WInv'
<1> SUFFICES ASSUME ~Overlap, CInv, WInv, [Next]_vars PROVE WInv'
  OBVIOUS
<1>1. ASSUME NEW c \in Setters, SetterStep(c) PROVE WInv'
  BY <1>1, SetterStepKeeps
<1>2. ASSUME NEW c \in Others, OtherStep(c) PROVE WInv'
  BY <1>2, OtherStepKeeps
<1>3. ASSUME NEW u \in Users, GuestChanges(u), UNCHANGED runnerVars PROVE WInv'
  <2>1. FInv'
    BY <1>3, GuestKeeps DEF WInv
  <2>2. UNCHANGED <<step, stored, child, said, reply>>
    BY <1>3 DEF GuestChanges, runnerVars
  <2>. QED BY <2>1, <2>2 DEF WInv, OneAtWork, Link, Told, Alive
<1>4. CASE UNCHANGED vars
  BY <1>4 DEF vars, runnerVars, shadowVars, WInv, FInv, ShadowTypeOK, ShadowWhole, Work,
              OneAtWork, Link, Told, Alive
<1>. QED BY <1>1, <1>2, <1>3, <1>4 DEF Next

-----------------------------------------------------------------------------
\* The types of the whole state, calls that overlap included.
THEOREM WebTypeCorrect == Spec => []TypeOK
<1>1. Init => ShadowTypeOK
  BY InitWInv DEF WInv, FInv
<1>2. ShadowTypeOK /\ [Next]_vars => ShadowTypeOK'
  <2> SUFFICES ASSUME ShadowTypeOK, [Next]_vars PROVE ShadowTypeOK'
    OBVIOUS
  <2>1. CASE FileStep
    BY <2>1, FileTypes
  <2>2. CASE UNCHANGED shadowVars
    BY <2>2 DEF shadowVars, ShadowTypeOK
  <2>3. ASSUME NEW c \in Setters, SetterStep(c) PROVE FileStep \/ UNCHANGED shadowVars
    BY <2>3 DEF SetterStep, SetterApi, BeginSetter, NoSetter, FeedSetter, SetterLate, SetterLost,
                ApiHears, InputEnds, SetterWorks, SetterTells, SetterRefuses, SetterExits, SetterDies,
                FileStep
  <2>4. ASSUME NEW c \in Others, OtherStep(c) PROVE UNCHANGED shadowVars
    BY <2>4 DEF OtherStep
  <2>. QED BY <2>1, <2>2, <2>3, <2>4 DEF Next, vars, FileStep
<1>3. Spec => []ShadowTypeOK
  BY <1>1, <1>2, PTL DEF Spec
<1>4. Spec => []RunnerTypeOK
  BY WebIsRunner, RunnerTypeCorrect, PTL
<1>. QED BY <1>3, <1>4, PTL DEF TypeOK

LEMMA WebWInv == ASSUME ~Overlap PROVE Spec => []WInv
<1>1. CInv /\ WInv /\ [Next]_vars => WInv'
  BY NextWInv
<1>. QED BY <1>1, InitWInv, WebCInv, PTL DEF Spec

\* As long as one call runs at a time, the container has a whole shadow file
\* with its mode, wherever a setter fails or is killed.
THEOREM WebShadowWhole == ASSUME ~Overlap PROVE Spec => []ShadowWhole
<1>1. WInv => ShadowWhole
  BY DEF WInv, FInv
<1>. QED BY <1>1, WebWInv, PTL

\* ... and a password call answered with ok has put its own text in place.
THEOREM WebOkMeansStored == ASSUME ~Overlap PROVE Spec => []OkMeansStored
<1>1. WInv => OkMeansStored
  BY DEF WInv, Told, OkMeansStored
<1>. QED BY <1>1, WebWInv, PTL
-----------------------------------------------------------------------------
(* The passwords themselves: the refinement of PasswordStore.              *)

\* A setter stores its text once, and what it is about to store is what the
\* file holds, but for its own user and for what the guest changed since.
Once(c)  == step[c] \in {"off", "input", "check", "read"} \union Drafts => c \notin stored
Close(c) == step[c] \in Drafts =>
              \A v \in Users : \/ v = user[c] \/ text[c][v] = disk[shadow].text[v]
                               \/ disk[shadow].text[v] = "guest"
PInv == \A c \in Setters : Once(c) /\ Close(c)

\* What a setter's step does to the file in place.
LEMMA FileStays ==
  ASSUME FInv, NEW c \in Setters, ~SetterRenames(c),
         SetterStarts(c) \/ SetterReads(c) \/ Working(c) \/ SetterReports(c) \/ SetterEnds(c)
  PROVE  shadow' = shadow /\ disk'[shadow] = disk[shadow] /\ stored' = stored
<1>1. /\ fd \in [Setters -> Inodes \union {NoFile}] /\ disk \in [Inodes -> File]
      /\ shadow \in Inodes /\ temp \in Inodes \union {NoFile} /\ temp # shadow /\ Work(c)
  BY DEF FInv, ShadowTypeOK
<1>2. CASE SetterOpens(c)
  <2>1. CASE temp = NoFile
    <3>1. NewInode # shadow
      BY <1>2, <2>1, NewIsFree DEF SetterOpens, Free
    <3>. QED BY <1>1, <1>2, <2>1, <3>1 DEF SetterOpens
  <2>2. CASE temp # NoFile
    BY <1>1, <1>2, <2>2 DEF SetterOpens
  <2>. QED BY <2>1, <2>2
<1>3. CASE SetterWrites(c)
  <2>1. fd[c] = temp
    BY <1>1, <1>3 DEF SetterWrites, Work
  <2>. QED BY <1>1, <1>3, <2>1 DEF SetterWrites
<1>4. CASE SetterAttrs(c)
  BY <1>1, <1>4 DEF SetterAttrs
<1>5. CASE SetterStarts(c) \/ SetterReads(c) \/ SetterReports(c) \/ SetterEnds(c)
           \/ SetterChecks(c) \/ SetterLooks(c) \/ SetterFails(c)
  BY <1>5 DEF SetterStarts, SetterReads, SetterReports, SetterEnds, SetterChecks, SetterLooks, SetterFails
<1>. QED BY <1>2, <1>3, <1>4, <1>5 DEF Working

LEMMA RenameSets ==
  ASSUME FInv, NEW c \in Setters, SetterRenames(c)
  PROVE  /\ disk'[shadow'].text = text[c] /\ stored' = stored \union {c}
         /\ text[c] \in Texts /\ user[c] \in Users
         /\ step[c] = "rename" /\ step'[c] = "report" /\ UNCHANGED <<user, text>>
<1>1. /\ step \in [Setters -> Steps] /\ disk \in [Inodes -> File] /\ shadow \in Inodes
      /\ temp \in Inodes \union {NoFile} /\ temp # shadow
      /\ temp # NoFile /\ disk[temp].text = text[c] /\ text[c] \in Texts /\ user[c] \in Users
  BY DEF FInv, ShadowTypeOK, Work, SetterRenames
<1>2. shadow' = temp /\ disk' = Replaced /\ Goto(c, "report")
  BY <1>1 DEF SetterRenames
<1>3. disk'[temp] = disk[temp]
  BY <1>1, <1>2, ReplacedTypes DEF FInv
<1>. QED BY <1>1, <1>2, <1>3 DEF SetterRenames, Goto

LEMMA GuestSets ==
  ASSUME FInv, NEW u \in Users, GuestChanges(u)
  PROVE  disk'[shadow'].text = [disk[shadow].text EXCEPT ![u] = "guest"]
<1>1. disk \in [Inodes -> File] /\ shadow \in Inodes /\ NewInode \in Inodes
  BY NewIsFree DEF FInv, ShadowTypeOK, GuestChanges, Free
<1>2. Replaced \in [Inodes -> File]
  BY ReplacedTypes DEF FInv
<1>. QED BY <1>1, <1>2 DEF GuestChanges

\* The setters' own hands: who else is there keeps what it has.
LEMMA OthersRest ==
  ASSUME ShadowTypeOK, NEW c \in Setters,
         SetterStarts(c) \/ SetterReads(c) \/ Working(c) \/ SetterReports(c) \/ SetterEnds(c)
  PROVE  \A d \in Setters : d # c => step'[d] = step[d] /\ text'[d] = text[d] /\ user'[d] = user[d]
BY DEF ShadowTypeOK, SetterStarts, SetterReads, Working, SetterReports, SetterEnds, SetterChecks,
       SetterLooks, SetterOpens, SetterWrites, SetterAttrs, SetterRenames, SetterFails, Goto

\* Where a setter's step leads.
LEMMA OwnPlace ==
  ASSUME ShadowTypeOK, NEW c \in Setters
  PROVE  /\ SetterStarts(c) => step[c] = "off" /\ step'[c] \in {"input", "check"}
         /\ SetterReads(c) => step[c] = "input" /\ step'[c] = "check"
         /\ SetterChecks(c) => step[c] = "check" /\ step'[c] = "read"
         /\ SetterReports(c) => step[c] = "report" /\ step'[c] = "reported"
         /\ SetterEnds(c) => step[c] \notin Off /\ step'[c] = "gone"
         /\ SetterFails(c) => step'[c] = "failed"
         /\ SetterOpens(c) \/ SetterWrites(c) => step[c] \in Drafts /\ step'[c] \in Drafts
                                                 /\ UNCHANGED <<user, text>>
BY DEF ShadowTypeOK, SetterStarts, SetterReads, SetterChecks, SetterReports, SetterEnds, SetterFails,
       SetterOpens, SetterWrites, Goto, Off, Drafts

LEMMA AttrsPlace ==
  ASSUME FInv, NEW c \in Setters, SetterAttrs(c)
  PROVE  step[c] = "attrs" /\ step'[c] = "rename" /\ UNCHANGED <<user, text>>
<1>1. temp # NoFile
  BY DEF FInv, Work, SetterAttrs
<1>. QED BY <1>1 DEF SetterAttrs, Goto, FInv, ShadowTypeOK

\* The new text, or none for a user without an entry.
LEMMA LooksMake ==
  ASSUME FInv, NEW c \in Setters, SetterLooks(c)
  PROVE  /\ step[c] = "read" /\ UNCHANGED user
         /\ \/ /\ step'[c] = "open" /\ user[c] \in Users
               /\ text'[c] = [disk[shadow].text EXCEPT ![user[c]] = c]
            \/ step'[c] = "failed"
<1>1. step \in [Setters -> Steps] /\ text \in [Setters -> Texts \union {Empty}]
  BY DEF FInv, ShadowTypeOK
<1>. QED BY <1>1 DEF SetterLooks, Goto

LEMMA SetterKeepsText ==
  ASSUME FInv, PInv, NEW c \in Setters, \A d \in Setters : d # c => step[d] \in Off,
         SetterStarts(c) \/ SetterReads(c) \/ Working(c) \/ SetterReports(c) \/ SetterEnds(c)
  PROVE  PInv'
<1>1. ShadowTypeOK /\ disk[shadow].text \in Texts
  BY FileFacts DEF FInv, ShadowTypeOK, ShadowWhole
<1>2. stored' \subseteq stored \union {c}
  BY FileStays, RenameSets
<1>3. ASSUME NEW d \in Setters, d # c PROVE Once(d)' /\ Close(d)'
  <2>1. step'[d] = step[d] /\ step[d] \in {"off", "gone"}
    BY <1>1, <1>3, OthersRest DEF Off
  <2>. QED BY <1>2, <1>3, <2>1 DEF PInv, Once, Close, Drafts
<1>4. Once(c)' /\ Close(c)'
  <2>0. Once(c) /\ Close(c)
    BY DEF PInv
  <2>1. CASE SetterRenames(c)
    BY <2>1, RenameSets DEF Once, Close, Drafts
  <2>2. CASE SetterLooks(c)
    <3>1. shadow' = shadow /\ disk'[shadow] = disk[shadow] /\ stored' = stored
      BY <2>2 DEF SetterLooks
    <3>2. step[c] = "read" /\ UNCHANGED user
      BY <2>2, LooksMake
    <3>3. Once(c)'
      BY <2>0, <3>1, <3>2 DEF Once
    <3>4. ASSUME step'[c] \in Drafts, NEW v \in Users, v # user[c]
          PROVE  text'[c][v] = disk[shadow].text[v]
      <4>1. text'[c] = [disk[shadow].text EXCEPT ![user[c]] = c]
        BY <2>2, <3>4, LooksMake DEF Drafts
      <4>. QED BY <1>1, <3>4, <4>1 DEF Texts
    <3>. QED BY <3>1, <3>2, <3>3, <3>4 DEF Close
  <2>3. CASE ~SetterRenames(c) /\ ~SetterLooks(c)
    <3>1. shadow' = shadow /\ disk'[shadow] = disk[shadow] /\ stored' = stored
      BY <2>3, FileStays
    <3>2. CASE SetterOpens(c) \/ SetterWrites(c) \/ SetterAttrs(c)
      <4>1. step[c] \in Drafts /\ step'[c] \in Drafts /\ UNCHANGED <<user, text>>
        BY <1>1, <3>2, OwnPlace, AttrsPlace DEF Drafts
      <4>. QED BY <2>0, <3>1, <4>1 DEF Once, Close
    <3>3. CASE SetterStarts(c) \/ SetterReads(c) \/ SetterChecks(c)
      BY <1>1, <2>0, <3>1, <3>3, OwnPlace DEF Once, Close, Drafts
    <3>4. CASE SetterReports(c) \/ SetterEnds(c) \/ SetterFails(c)
      BY <1>1, <3>4, OwnPlace DEF Once, Close, Drafts
    <3>. QED BY <2>3, <3>2, <3>3, <3>4 DEF Working
  <2>. QED BY <2>1, <2>2, <2>3
<1>. QED BY <1>3, <1>4 DEF PInv

LEMMA GuestKeepsText ==
  ASSUME FInv, PInv, NEW u \in Users, GuestChanges(u)
  PROVE  PInv'
<1>1. UNCHANGED <<step, user, text, stored>>
  BY DEF GuestChanges
<1>2. disk[shadow].text \in Texts
  BY FileFacts DEF FInv, ShadowTypeOK, ShadowWhole
<1>3. disk'[shadow'].text = [disk[shadow].text EXCEPT ![u] = "guest"]
  BY GuestSets
<1>4. \A v \in Users : disk'[shadow'].text[v] = IF v = u THEN "guest" ELSE disk[shadow].text[v]
  BY <1>2, <1>3 DEF Texts
<1>. QED BY <1>1, <1>4 DEF PInv, Once, Close

\* The setter's part in a step of the composition.
Own(c) == SetterStarts(c) \/ SetterReads(c) \/ Working(c) \/ SetterReports(c) \/ SetterEnds(c)

LEMMA StepParts ==
  ASSUME CInv, WInv, ~Overlap, NEW c \in Setters, SetterStep(c)
  PROVE  \/ UNCHANGED shadowVars
         \/ Own(c) /\ \A d \in Setters : d # c => step[d] \in Off
<1>1. CASE NoSetter(c) \/ FeedSetter(c) \/ ApiHears(c) \/ SetterRefuses(c)
  BY <1>1 DEF NoSetter, FeedSetter, ApiHears, SetterRefuses
<1>2. CASE BeginSetter(c)
  BY <1>2, StartsAlone DEF BeginSetter, Own, WInv
<1>3. CASE SetterLate(c) \/ SetterLost(c) \/ InputEnds(c) \/ SetterWorks(c) \/ SetterTells(c)
           \/ SetterExits(c) \/ SetterDies(c)
  <2>1. Own(c)
    BY <1>3 DEF SetterLate, SetterLost, InputEnds, SetterWorks, SetterTells, SetterExits, SetterDies, Own
  <2>2. step[c] \notin Off
    <3>1. CASE SetterLate(c) \/ SetterLost(c) \/ SetterExits(c) \/ SetterDies(c)
      BY <3>1 DEF SetterLate, SetterLost, SetterExits, SetterDies, SetterEnds, Off
    <3>2. CASE InputEnds(c) \/ SetterWorks(c)
      BY <3>2 DEF InputEnds, SetterWorks, WInv, Link
    <3>3. CASE SetterTells(c)
      BY <3>3 DEF SetterTells, SetterReports, Off
    <3>. QED BY <1>3, <3>1, <3>2, <3>3
  <2>. QED BY <2>1, <2>2 DEF WInv, OneAtWork
<1>. QED BY <1>1, <1>2, <1>3 DEF SetterStep, SetterApi

LEMMA NextPInv == ~Overlap /\ CInv /\ WInv /\ PInv /\ [Next]_vars => PInv'
<1> SUFFICES ASSUME ~Overlap, CInv, WInv, PInv, [Next]_vars PROVE PInv'
  OBVIOUS
<1>0. FInv
  BY DEF WInv
<1>1. CASE UNCHANGED shadowVars
  BY <1>1 DEF shadowVars, PInv, Once, Close
<1>2. ASSUME NEW c \in Setters, SetterStep(c) PROVE PInv'
  BY <1>0, <1>1, <1>2, StepParts, SetterKeepsText DEF Own
<1>3. ASSUME NEW c \in Others, OtherStep(c) PROVE PInv'
  BY <1>1, <1>3 DEF OtherStep
<1>4. ASSUME NEW u \in Users, GuestChanges(u) PROVE PInv'
  BY <1>0, <1>4, GuestKeepsText
<1>. QED BY <1>1, <1>2, <1>3, <1>4 DEF Next, vars

LEMMA WebPInv == ASSUME ~Overlap PROVE Spec => [](CInv /\ WInv /\ PInv)
<1>1. Init => PInv
  BY DEF Init, ShadowInit, PInv, Once, Close, Drafts
<1>2. CInv /\ WInv /\ PInv /\ [Next]_vars => PInv'
  BY NextPInv
<1>. QED BY <1>1, <1>2, WebWInv, WebCInv, PTL DEF Spec

\* As long as one call runs at a time, a user's password changes only by the
\* guest or by a setter called for this user; another setter may take back a
\* guest's own passwd, never what a setter stored.
THEOREM WebOnlyOwnEntry == ASSUME ~Overlap PROVE Spec => OnlyOwnEntry
<1>1. CInv /\ WInv /\ PInv /\ [Next]_vars =>
        [\A u \in Users : Entry(u)' # Entry(u) =>
           \/ Entry(u)' = "guest" /\ u \in GuestUsers
           \/ \E c \in Setters : step[c] = "rename" /\ (user[c] = u \/ Entry(u) = "guest")
                                 /\ Entry(u)' = text[c][u]]_vars
  <2> SUFFICES ASSUME CInv, WInv, PInv, Next, NEW u \in Users, Entry(u)' # Entry(u)
               PROVE  \/ Entry(u)' = "guest" /\ u \in GuestUsers
                      \/ \E c \in Setters : step[c] = "rename" /\ (user[c] = u \/ Entry(u) = "guest")
                                            /\ Entry(u)' = text[c][u]
    OBVIOUS
  <2>0. FInv /\ disk[shadow].text \in Texts /\ Empty \notin Texts
    BY FileFacts, TextFacts DEF WInv, FInv, ShadowTypeOK, ShadowWhole
  <2>1. Entry(u) = disk[shadow].text[u]
    BY <2>0 DEF Entry
  <2>2. disk'[shadow'].text # disk[shadow].text
    BY DEF Entry
  <2>3. ~UNCHANGED shadowVars
    BY <2>2 DEF shadowVars
  <2>4. ASSUME NEW c \in Setters, SetterStep(c)
        PROVE  step[c] = "rename" /\ (user[c] = u \/ Entry(u) = "guest") /\ Entry(u)' = text[c][u]
    <3>1. SetterRenames(c)
      BY <2>0, <2>2, <2>3, <2>4, StepParts, FileStays DEF Own
    <3>2. disk'[shadow'].text = text[c] /\ text[c] \in Texts /\ step[c] = "rename"
      BY <2>0, <3>1, RenameSets
    <3>3. Entry(u)' = text[c][u]
      BY <2>0, <3>2 DEF Entry
    <3>4. Close(c)
      BY DEF PInv
    <3>. QED BY <2>1, <3>2, <3>3, <3>4 DEF Close, Drafts
  <2>5. ASSUME NEW v \in Users, GuestChanges(v) PROVE Entry(u)' = "guest" /\ u \in GuestUsers
    <3>1. disk'[shadow'].text = [disk[shadow].text EXCEPT ![v] = "guest"]
      BY <2>0, <2>5, GuestSets
    <3>2. disk'[shadow'].text \in Texts
      BY <2>0, <3>1, TextFacts DEF Hashes
    <3>3. Entry(u)' = disk'[shadow'].text[u]
      BY <2>0, <3>2 DEF Entry
    <3>4. u = v
      BY <2>0, <2>1, <3>1, <3>3 DEF Texts
    <3>. QED BY <2>0, <2>5, <3>1, <3>3, <3>4 DEF GuestChanges, Texts
  <2>. QED BY <2>3, <2>4, <2>5 DEF Next, OtherStep
<1>. QED BY <1>1, WebPInv, PTL DEF Spec, OnlyOwnEntry

\* How the abstract state reads and moves.
LEMMA PhaseFacts ==
  ASSUME CInv, NEW c \in Setters
  PROVE  /\ Alive(c) => AbsPhase[c] = "busy"
         /\ at[c] = "idle" => AbsPhase[c] = "idle"
         /\ at[c] \notin {"idle", "replied"} => AbsPhase[c] = "busy"
<1>1. c \in Calls
  BY SettersAreCalls
<1>2. child[c] = "none" <=> at[c] \in {"idle", "replied"}
  BY <1>1 DEF CInv, CallShape
<1>. QED BY <1>2 DEF AbsPhase, Alive

LEMMA PhaseStays ==
  ASSUME CInv, \A d \in Setters : /\ reply'[d] = reply[d]
                                  /\ at'[d] = at[d] \/ {at[d], at'[d]} \subseteq {"feed", "wait", "collect"}
  PROVE  UNCHANGED AbsPhase
<1>1. \A d \in Setters : AbsPhase'[d] = AbsPhase[d]
  BY DEF AbsPhase
<1>. QED BY <1>1 DEF AbsPhase

LEMMA PhaseMoves ==
  ASSUME NEW c \in Setters, \A d \in Setters : d # c => at'[d] = at[d] /\ reply'[d] = reply[d]
  PROVE  AbsPhase' = [AbsPhase EXCEPT ![c] = AbsPhase'[c]]
<1>1. \A d \in Setters : d # c => AbsPhase'[d] = AbsPhase[d]
  BY DEF AbsPhase
<1>. QED BY <1>1 DEF AbsPhase

LEMMA DraftStays ==
  ASSUME \A d \in Setters : \/ step[d] \notin Drafts /\ step'[d] \notin Drafts
                            \/ step[d] \in Drafts /\ step'[d] \in Drafts /\ text'[d] = text[d]
  PROVE  UNCHANGED AbsDraft
<1>1. \A d \in Setters : AbsDraft'[d] = AbsDraft[d]
  BY DEF AbsDraft
<1>. QED BY <1>1 DEF AbsDraft

LEMMA DraftMoves ==
  ASSUME NEW c \in Setters, \A d \in Setters : d # c => step'[d] = step[d] /\ text'[d] = text[d],
         NEW x, x = IF step'[c] \in Drafts THEN text'[c] ELSE Empty
  PROVE  AbsDraft' = [AbsDraft EXCEPT ![c] = x]
<1>1. \A d \in Setters : AbsDraft'[d] = IF d = c THEN x ELSE AbsDraft[d]
  BY DEF AbsDraft
<1>. QED BY <1>1 DEF AbsDraft

PMaps == [Passwords!Next]_(Passwords!vars)

LEMMA NothingChanges ==
  ASSUME UNCHANGED <<AbsDraft, AbsPhase, stored>>, disk'[shadow'].text = disk[shadow].text
  PROVE  PMaps
BY DEF PMaps, Passwords!vars

\* A setter's own step, while its call goes on.
LEMMA OwnMaps ==
  ASSUME FInv, PInv, NEW c \in Setters, SetterReads(c) \/ Working(c) \/ SetterReports(c) \/ SetterEnds(c),
         UNCHANGED AbsPhase, AbsPhase[c] = "busy"
  PROVE  PMaps
<1>1. /\ ShadowTypeOK /\ Own(c) /\ disk[shadow].text \in Texts /\ Empty \notin Texts
      /\ Once(c) /\ c \in Setters
  BY FileFacts, TextFacts DEF FInv, ShadowTypeOK, ShadowWhole, Own, PInv
<1>2. \A d \in Setters : d # c => step'[d] = step[d] /\ text'[d] = text[d]
  BY <1>1, OthersRest DEF Own
<1>3. CASE SetterRenames(c)
  <2>1. /\ disk'[shadow'].text = text[c] /\ stored' = stored \union {c} /\ text[c] \in Texts
        /\ step[c] = "rename" /\ step'[c] = "report"
    BY <1>3, RenameSets
  <2>2. AbsDraft[c] = text[c]
    BY <2>1 DEF AbsDraft, Drafts
  <2>3. AbsDraft' = [AbsDraft EXCEPT ![c] = Empty]
    BY <1>2, <2>1, DraftMoves DEF Drafts
  <2>4. c \notin stored
    BY <1>1, <2>1 DEF Once, Drafts
  <2>5. Passwords!Set(c)
    BY <1>1, <2>1, <2>2, <2>3, <2>4 DEF Passwords!Set, Passwords!Keep
  <2>. QED BY <2>5 DEF PMaps, Passwords!Next
<1>4. CASE SetterLooks(c)
  <2>1. shadow' = shadow /\ disk'[shadow] = disk[shadow] /\ stored' = stored
    BY <1>4 DEF SetterLooks
  <2>2. step[c] = "read"
    BY <1>4, LooksMake
  <2>3. CASE step'[c] = "failed"
    <3>1. UNCHANGED AbsDraft
      BY <1>2, <2>2, <2>3, DraftStays DEF Drafts
    <3>. QED BY <2>1, <3>1, NothingChanges
  <2>4. CASE step'[c] # "failed"
    <3>1. /\ step'[c] = "open" /\ user[c] \in Users
          /\ text'[c] = [disk[shadow].text EXCEPT ![user[c]] = c]
      BY <1>4, <2>4, LooksMake
    <3>2. AbsDraft' = [AbsDraft EXCEPT ![c] = [disk[shadow].text EXCEPT ![user[c]] = c]]
      BY <1>2, <3>1, DraftMoves DEF Drafts
    <3>3. c \notin stored
      BY <1>1, <2>2 DEF Once
    <3>4. Passwords!Read(c, user[c])
      BY <2>1, <3>2, <3>3 DEF Passwords!Read, Passwords!Keep
    <3>. QED BY <3>1, <3>4 DEF PMaps, Passwords!Next
  <2>. QED BY <2>3, <2>4
<1>5. CASE ~SetterRenames(c) /\ ~SetterLooks(c)
  <2>1. shadow' = shadow /\ disk'[shadow] = disk[shadow] /\ stored' = stored
    BY <1>1, <1>5, FileStays DEF Own
  <2>2. CASE SetterReads(c) \/ SetterChecks(c) \/ SetterReports(c)
    <3>1. step[c] \notin Drafts /\ step'[c] \notin Drafts
      BY <1>1, <2>2, OwnPlace DEF Drafts
    <3>2. UNCHANGED AbsDraft
      BY <1>2, <3>1, DraftStays
    <3>. QED BY <2>1, <3>2, NothingChanges
  <2>3. CASE SetterOpens(c) \/ SetterWrites(c) \/ SetterAttrs(c)
    <3>1. step[c] \in Drafts /\ step'[c] \in Drafts /\ UNCHANGED text
      BY <1>1, <2>3, OwnPlace, AttrsPlace DEF Drafts
    <3>2. UNCHANGED AbsDraft
      BY <1>2, <3>1, DraftStays
    <3>. QED BY <2>1, <3>2, NothingChanges
  <2>4. CASE SetterFails(c) \/ SetterEnds(c)
    <3>1. step'[c] \notin Drafts
      BY <1>1, <2>4, OwnPlace DEF Drafts
    <3>2. AbsDraft' = [AbsDraft EXCEPT ![c] = Empty]
      BY <1>2, <3>1, DraftMoves
    <3>3. Passwords!Drop(c)
      BY <2>1, <3>2 DEF Passwords!Drop, Passwords!Keep
    <3>. QED BY <3>3 DEF PMaps, Passwords!Next
  <2>. QED BY <1>1, <1>5, <2>2, <2>3, <2>4 DEF Own, Working
<1>. QED BY <1>3, <1>4, <1>5

\* The call is answered, and its setter, if there was one, is no more.
LEMMA EndMaps ==
  ASSUME CInv, CInv', WInv, WInv', NEW c \in Setters, UNCHANGED shadowVars \/ SetterEnds(c),
         \E ok \in BOOLEAN : Result(c, ok), at[c] # "replied", todo[c] = 0
  PROVE  PMaps
<1>1. /\ c \in Calls /\ FInv /\ ShadowTypeOK /\ Link' /\ Told'
      /\ at \in [Calls -> Points] /\ reply \in [Calls -> {"none", "ok", "error"}]
      /\ child' \in [Calls -> Childs]
  BY SettersAreCalls DEF WInv, FInv, CInv, RunnerTypeOK
<1>2. /\ at'[c] = "replied" /\ reply'[c] \in {"ok", "error"} /\ child'[c] = "none"
      /\ \A d \in Setters : d # c => at'[d] = at[d] /\ reply'[d] = reply[d]
  BY <1>1, SettersAreCalls DEF Result, Forget, CInv, RunnerTypeOK
<1>3. AbsPhase'[c] = reply'[c] /\ AbsPhase[c] \in {"idle", "busy"}
  BY <1>2 DEF AbsPhase
<1>4. AbsPhase' = [AbsPhase EXCEPT ![c] = reply'[c]]
  BY <1>2, <1>3, PhaseMoves
<1>5. /\ \A d \in Setters : d # c => step'[d] = step[d] /\ text'[d] = text[d]
      /\ disk'[shadow'].text = disk[shadow].text /\ stored' = stored
  <2>1. CASE UNCHANGED shadowVars
    BY <2>1 DEF shadowVars
  <2>2. CASE SetterEnds(c)
    BY <1>1, <2>2, OthersRest DEF SetterEnds
  <2>. QED BY <2>1, <2>2
<1>6. step'[c] \notin Drafts
  BY <1>1, <1>2 DEF Link, Alive, Off, Drafts
<1>7. AbsDraft' = [AbsDraft EXCEPT ![c] = Empty]
  BY <1>5, <1>6, DraftMoves
<1>8. reply'[c] = "ok" => c \in stored
  BY <1>1, <1>5 DEF Told
<1>9. Passwords!End(c, reply'[c])
  BY <1>3, <1>4, <1>5, <1>7, <1>8 DEF Passwords!End, Passwords!Keep
<1>. QED BY <1>2, <1>9 DEF PMaps, Passwords!Next

\* A setter's call is one program.
OneProgram == \A c \in Setters : todo[c] = 0

LEMMA OneProgramStays == CInv /\ OneProgram /\ [Next]_vars => OneProgram'
<1> SUFFICES ASSUME CInv, OneProgram, [Next]_vars, NEW c \in Setters PROVE todo'[c] = 0
  BY DEF OneProgram
<1>1. c \in Calls /\ todo[c] = 0 /\ todo \in [Calls -> {0, 1}]
  BY SettersAreCalls DEF OneProgram, CInv, RunnerTypeOK
<1>2. ASSUME NEW d \in Calls, ApiStep(d) PROVE todo'[c] = 0
  <2>1. CASE \E ok \in BOOLEAN : Result(d, ok)
    BY <1>1, <2>1 DEF Result
  <2>2. CASE Begin(d) \/ Feed(d) \/ Poll(d) \/ Timeout(d)
    BY <1>1, <2>2 DEF Begin, Feed, Poll, Timeout
  <2>3. CASE SpawnFails(d) \/ FeedFails(d) \/ WaitFails(d) \/ Collect(d)
    <3>1. Success(d) \in BOOLEAN
      BY DEF Success, Parses, CInv, RunnerTypeOK
    <3>. QED BY <2>1, <2>3, <3>1 DEF SpawnFails, FeedFails, WaitFails, Collect
  <2>. QED BY <1>2, <2>2, <2>3 DEF ApiStep
<1>3. ASSUME NEW d \in Calls, ChildStep(d) PROVE todo'[c] = 0
  BY <1>1, <1>3 DEF ChildStep, ChildPrint, ChildReport, ChildLeaves, HolderEnds, ChildDies, ChildExit
<1>4. CASE UNCHANGED runnerVars
  BY <1>1, <1>4 DEF runnerVars
<1>. QED BY <1>2, <1>3, <1>4, NextIsRunner DEF RunnerNext, vars

LEMMA SetterMaps ==
  ASSUME CInv, CInv', WInv, WInv', PInv, OneProgram, ~Overlap, NEW c \in Setters, SetterStep(c)
  PROVE  PMaps
<1>1. /\ c \in Calls /\ FInv /\ ShadowTypeOK /\ Link /\ todo[c] = 0
      /\ at \in [Calls -> Points] /\ \A d \in Setters : d \in Calls
  BY SettersAreCalls DEF WInv, FInv, CInv, RunnerTypeOK, OneProgram
<1>2. CASE BeginSetter(c)
  <2>1. /\ at[c] = "idle" /\ MayBegin(c) /\ SetterStarts(c) /\ reply' = reply
        /\ at' = [at EXCEPT ![c] = IF c \in InputCalls THEN "feed" ELSE "wait"]
    BY <1>2 DEF BeginSetter, Begin
  <2>2. AbsPhase[c] = "idle" /\ AbsPhase'[c] = "busy"
    BY <1>1, <2>1 DEF AbsPhase
  <2>3. AbsPhase' = [AbsPhase EXCEPT ![c] = "busy"]
    BY <1>1, <2>1, <2>2, PhaseMoves
  <2>4. ASSUME NEW d \in Setters PROVE AbsPhase[d] # "busy"
    <3>1. d # c => at[d] \in {"idle", "replied"}
      BY <1>1, <2>1, <2>4 DEF MayBegin, Issued
    <3>2. reply[d] # "busy"
      BY <1>1, <2>4 DEF CInv, RunnerTypeOK
    <3>. QED BY <2>2, <2>4, <3>1, <3>2 DEF AbsPhase
  <2>5. UNCHANGED AbsDraft /\ disk'[shadow'].text = disk[shadow].text /\ stored' = stored
    <3>1. step[c] \notin Drafts /\ step'[c] \notin Drafts
      BY <1>1, <2>1, OwnPlace DEF Drafts
    <3>2. \A d \in Setters : d # c => step'[d] = step[d] /\ text'[d] = text[d]
      BY <1>1, <2>1, OthersRest
    <3>. QED BY <2>1, <3>1, <3>2, DraftStays DEF SetterStarts
  <2>6. Passwords!Begin(c)
    BY <2>2, <2>3, <2>4, <2>5 DEF Passwords!Begin
  <2>. QED BY <2>6 DEF PMaps, Passwords!Next
<1>3. ASSUME UNCHANGED shadowVars, UNCHANGED AbsPhase PROVE PMaps
  <2>1. UNCHANGED AbsDraft
    BY <1>3, DraftStays DEF shadowVars
  <2>. QED BY <1>3, <2>1, NothingChanges DEF shadowVars
<1>4. CASE FeedSetter(c) \/ SetterRefuses(c)
  <2>1. UNCHANGED shadowVars /\ UNCHANGED reply
        /\ (UNCHANGED at \/ (at[c] = "feed" /\ at' = [at EXCEPT ![c] = "wait"]))
    BY <1>4 DEF FeedSetter, Feed, SetterRefuses, ChildReport
  <2>2. UNCHANGED AbsPhase
    BY <1>1, <2>1, PhaseStays
  <2>. QED BY <1>3, <2>1, <2>2
<1>5. CASE NoSetter(c)
  BY <1>1, <1>5, EndMaps DEF NoSetter, SpawnFails
<1>6. CASE ApiHears(c)
  <2>1. CASE Poll(c)
    <3>1. at[c] = "wait" /\ at' = [at EXCEPT ![c] = "collect"] /\ UNCHANGED reply
      BY <2>1 DEF Poll
    <3>2. UNCHANGED AbsPhase
      BY <1>1, <3>1, PhaseStays
    <3>. QED BY <1>3, <1>6, <3>2 DEF ApiHears
  <2>2. CASE FeedFails(c) \/ Collect(c)
    <3>1. Success(c) \in BOOLEAN
      BY DEF Success, Parses, CInv, RunnerTypeOK
    <3>2. at[c] # "replied" /\ \E ok \in BOOLEAN : Result(c, ok)
      BY <2>2, <3>1 DEF FeedFails, Collect
    <3>. QED BY <1>1, <1>6, <3>2, EndMaps DEF ApiHears
  <2>. QED BY <1>6, <2>1, <2>2 DEF ApiHears
<1>7. CASE SetterLost(c)
  BY <1>1, <1>7, EndMaps DEF SetterLost, WaitFails
<1>8. CASE InputEnds(c) \/ SetterWorks(c)
  <2>1. UNCHANGED AbsPhase /\ AbsPhase[c] = "busy"
    BY <1>8, PhaseFacts DEF InputEnds, SetterWorks, runnerVars, AbsPhase
  <2>. QED BY <1>1, <1>8, <2>1, OwnMaps DEF InputEnds, SetterWorks
<1>9. CASE SetterTells(c) \/ SetterExits(c) \/ SetterDies(c)
  <2>1. UNCHANGED <<at, reply>> /\ Alive(c)
    BY <1>9 DEF SetterTells, SetterExits, SetterDies, ChildReport, ChildExit, ChildDies, Alive
  <2>2. UNCHANGED AbsPhase /\ AbsPhase[c] = "busy"
    BY <2>1, PhaseFacts DEF AbsPhase
  <2>. QED BY <1>1, <1>9, <2>2, OwnMaps DEF SetterTells, SetterExits, SetterDies
<1>10. CASE SetterLate(c)
  <2>1. Alive(c) /\ at[c] = "wait" /\ at' = [at EXCEPT ![c] = "collect"] /\ UNCHANGED reply
    BY <1>10 DEF SetterLate, Timeout
  <2>2. UNCHANGED AbsPhase
    BY <1>1, <2>1, PhaseStays
  <2>3. AbsPhase[c] = "busy"
    BY <2>1, PhaseFacts
  <2>. QED BY <1>1, <1>10, <2>2, <2>3, OwnMaps DEF SetterLate
<1>. QED BY <1>2, <1>4, <1>5, <1>6, <1>7, <1>8, <1>9, <1>10 DEF SetterStep, SetterApi

\* A call that is no setter's is not to be seen.
LEMMA OtherMaps ==
  ASSUME CInv, NEW c \in Others, OtherStep(c)
  PROVE  PMaps
<1>1. UNCHANGED shadowVars /\ c \in Calls /\ \A d \in Setters : d \in Calls /\ d # c
  BY SettersAreCalls DEF OtherStep, Others
<1>2. \A d \in Setters : at'[d] = at[d] /\ reply'[d] = reply[d]
  <2>1. at \in [Calls -> Points] /\ reply \in [Calls -> {"none", "ok", "error"}]
    BY DEF CInv, RunnerTypeOK
  <2>2. CASE \E ok : Result(c, ok)
    BY <1>1, <2>1, <2>2 DEF Result
  <2>3. CASE Begin(c) \/ Feed(c) \/ Poll(c) \/ Timeout(c)
    BY <1>1, <2>1, <2>3 DEF Begin, Feed, Poll, Timeout
  <2>4. CASE SpawnFails(c) \/ FeedFails(c) \/ WaitFails(c) \/ Collect(c)
    BY <2>2, <2>4 DEF SpawnFails, FeedFails, WaitFails, Collect
  <2>5. CASE ChildStep(c)
    BY <2>5 DEF ChildStep, ChildPrint, ChildReport, ChildLeaves, HolderEnds, ChildDies, ChildExit
  <2>. QED BY <2>3, <2>4, <2>5 DEF OtherStep, ApiStep
<1>3. UNCHANGED AbsPhase
  BY <1>2 DEF AbsPhase
<1>4. UNCHANGED AbsDraft
  BY <1>1, DraftStays DEF shadowVars
<1>. QED BY <1>1, <1>3, <1>4, NothingChanges DEF shadowVars

LEMMA GuestMaps ==
  ASSUME FInv, NEW u \in Users, GuestChanges(u), UNCHANGED runnerVars
  PROVE  PMaps
<1>1. UNCHANGED <<step, text, stored>> /\ u \in GuestUsers
  BY DEF GuestChanges
<1>2. UNCHANGED AbsDraft
  BY <1>1, DraftStays
<1>3. UNCHANGED AbsPhase
  BY DEF runnerVars, AbsPhase
<1>4. Passwords!GuestSets(u)
  BY <1>1, <1>2, <1>3, GuestSets DEF Passwords!GuestSets
<1>. QED BY <1>4 DEF PMaps, Passwords!Next

\* As long as one call runs at a time, the password calls implement
\* PasswordStore: one read and one replacement of the whole file for each,
\* wherever setters fail, are killed or are given up, whatever temporary
\* file they leave, and whatever their programs print.
THEOREM PasswordRefinement == ASSUME ~Overlap PROVE Spec => ImplementsPasswordStore
<1>1. Init => Passwords!Init /\ OneProgram
  <2> SUFFICES ASSUME Init PROVE Passwords!Init /\ OneProgram
    OBVIOUS
  <2>1. disk[shadow].text = OldText /\ stored = {} /\ \A c \in Setters : step[c] = "off"
    BY ShadowAssumption DEF Init, ShadowInit
  <2>2. \A c \in Setters : at[c] = "idle" /\ todo[c] = 0
    BY SettersAreCalls DEF Init, RunnerInit
  <2>3. AbsDraft = [c \in Setters |-> Empty]
    BY <2>1 DEF AbsDraft, Drafts
  <2>4. AbsPhase = [c \in Setters |-> "idle"]
    BY <2>2 DEF AbsPhase
  <2>. QED BY <2>1, <2>2, <2>3, <2>4 DEF Passwords!Init, OldText, OneProgram
<1>2. CInv /\ WInv /\ PInv /\ CInv' /\ WInv' /\ OneProgram /\ [Next]_vars
        => [Passwords!Next]_(Passwords!vars)
  <2> SUFFICES ASSUME CInv, WInv, PInv, CInv', WInv', OneProgram, [Next]_vars PROVE PMaps
    BY DEF PMaps
  <2>1. CASE UNCHANGED vars
    BY <2>1, NothingChanges DEF vars, shadowVars, runnerVars, AbsDraft, AbsPhase
  <2>2. ASSUME NEW c \in Setters, SetterStep(c) PROVE PMaps
    BY <2>2, SetterMaps
  <2>3. ASSUME NEW c \in Others, OtherStep(c) PROVE PMaps
    BY <2>3, OtherMaps
  <2>4. ASSUME NEW u \in Users, GuestChanges(u), UNCHANGED runnerVars PROVE PMaps
    BY <2>4, GuestMaps DEF WInv
  <2>. QED BY <2>1, <2>2, <2>3, <2>4 DEF Next
<1>3. CInv /\ OneProgram /\ [Next]_vars => OneProgram'
  BY OneProgramStays
<1>4. Spec => Passwords!Spec
  BY <1>1, <1>2, <1>3, WebPInv, PTL DEF Spec, Passwords!Spec
<1>. QED BY <1>4 DEF ImplementsPasswordStore
=============================================================================
