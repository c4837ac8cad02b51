---------------------------- MODULE ShadowPassword ----------------------------
(***************************************************************************)
(* set_container_password of achost-lxc-runtime: how set-password and      *)
(* generate-password replace one user's hash in a container's /etc/shadow. *)
(*                                                                         *)
(* The file is read, a temporary file of a fixed name is truncated,        *)
(* written, given the mode and owner of the original and renamed over it.  *)
(* Each step can fail, and the process can be killed between any two.      *)
(* Meanwhile programs in the guest change their own entries. Files are     *)
(* inodes: a rename moves the name, who has the file open writes on.       *)
(***************************************************************************)
EXTENDS Naturals

CONSTANTS
  Setters,    \* processes that set a password, each runs once
  Readers,    \* those that read it from stdin (set-password)
  Users,      \* users with an entry in the file
  Stranger,   \* a user without one
  GuestUsers, \* users whose password the guest itself changes, once
  Inodes, NoFile

ASSUME ShadowAssumption ==
  /\ Readers \subseteq Setters /\ GuestUsers \subseteq Users
  /\ Users # {} /\ Stranger \notin Users
  /\ Inodes # {} /\ NoFile \notin Inodes

VARIABLES
  step,    \* where each setter stands
  user,    \* whose password it sets
  text,    \* what it will write
  fd,      \* the inode it has open for writing
  disk,    \* the content and the mode of each inode
  shadow,  \* the inode named etc/shadow
  temp,    \* the inode named etc/shadow.shadow.achost-tmp, or NoFile
  stored   \* history: setters whose own text was put in place

shadowVars == <<step, user, text, fd, disk, shadow, temp, stored>>

\* A hash is named by who made it. A file is a whole text or still empty.
Hashes == {"old", "guest"} \union Setters
Texts  == [Users -> Hashes]
Empty  == << >>
File   == [text : Texts \union {Empty}, mode : {"original", "default"}]
Blank == [text |-> Empty, mode |-> "default"]
OldText == [u \in Users |-> "old"]

Steps == {"off", "input", "check", "read", "open", "write", "attrs", "rename",
          "report", "reported", "failed", "gone"}
Over  == {"failed", "gone"}

ShadowInit ==
  /\ step = [c \in Setters |-> "off"]
  /\ user = [c \in Setters |-> Stranger]
  /\ text = [c \in Setters |-> Empty]
  /\ fd = [c \in Setters |-> NoFile]
  /\ shadow = CHOOSE i \in Inodes : TRUE
  /\ disk = [i \in Inodes |-> IF i = shadow THEN [text |-> OldText, mode |-> "original"]
                                           ELSE Blank]
  /\ temp = NoFile /\ stored = {}

Free == {i \in Inodes : i # shadow /\ i # temp /\ \A c \in Setters : fd[c] # i}
NewInode == CHOOSE i \in Free : TRUE
\* The old shadow file is gone once nobody has it open.
Replaced == IF \E c \in Setters : fd[c] = shadow THEN disk
            ELSE [disk EXCEPT ![shadow] = Blank]
Goto(c, s) == step' = [step EXCEPT ![c] = s]

-----------------------------------------------------------------------------
\* The process is there; set-password first reads stdin to its end.
SetterStarts(c) ==
  /\ step[c] = "off"
  /\ Goto(c, IF c \in Readers THEN "input" ELSE "check")
  /\ \E u \in Users \union {Stranger} : user' = [user EXCEPT ![c] = u]
  /\ UNCHANGED <<text, fd, disk, shadow, temp, stored>>

\* stdin was closed behind the password, and the password is a valid one.
SetterReads(c) ==
  /\ step[c] = "input" /\ Goto(c, "check")
  /\ UNCHANGED <<user, text, fd, disk, shadow, temp, stored>>

\* The container exists, the names are valid, the random salt is there.
SetterChecks(c) ==
  /\ step[c] = "check" /\ Goto(c, "read")
  /\ UNCHANGED <<user, text, fd, disk, shadow, temp, stored>>

\* Mutant of SetterLooks: every line gets the new hash.
SetterLooksAtAll(c) ==
  /\ step[c] = "read"
  /\ IF user[c] \in Users /\ disk[shadow].text # Empty
     THEN Goto(c, "open") /\ text' = [text EXCEPT ![c] = [u \in Users |-> c]]
     ELSE Goto(c, "failed") /\ UNCHANGED text
  /\ UNCHANGED <<user, fd, disk, shadow, temp, stored>>

\* The new text is made from the old one, for a user that has an entry.
SetterLooks(c) ==
  /\ step[c] = "read"
  /\ IF user[c] \in Users /\ disk[shadow].text # Empty
     THEN /\ Goto(c, "open")
          /\ text' = [text EXCEPT ![c] = [disk[shadow].text EXCEPT ![user[c]] = c]]
     ELSE Goto(c, "failed") /\ UNCHANGED text
  /\ UNCHANGED <<user, fd, disk, shadow, temp, stored>>

\* Mutant of SetterOpens: a temporary file that is there is taken as written.
SetterReuses(c) ==
  /\ step[c] = "open" /\ (temp = NoFile => Free # {})
  /\ IF temp = NoFile
     THEN /\ disk' = [disk EXCEPT ![NewInode] = Blank]
          /\ fd' = [fd EXCEPT ![c] = NewInode] /\ temp' = NewInode /\ Goto(c, "write")
     ELSE Goto(c, "attrs") /\ UNCHANGED <<disk, fd, temp>>
  /\ UNCHANGED <<user, text, shadow, stored>>

\* fs::write opens the temporary file: a new one, or the one that is there,
\* cut to nothing.
SetterOpens(c) ==
  /\ step[c] = "open" /\ Goto(c, "write") /\ (temp = NoFile => Free # {})
  /\ IF temp = NoFile
     THEN /\ disk' = [disk EXCEPT ![NewInode] = Blank]
          /\ fd' = [fd EXCEPT ![c] = NewInode] /\ temp' = NewInode
     ELSE /\ disk' = [disk EXCEPT ![temp].text = Empty]
          /\ fd' = [fd EXCEPT ![c] = temp] /\ UNCHANGED temp
  /\ UNCHANGED <<user, text, shadow, stored>>

\* ... and writes into the inode it opened, whatever its name is by now.
SetterWrites(c) ==
  /\ step[c] = "write" /\ Goto(c, "attrs")
  /\ disk' = [disk EXCEPT ![fd[c]].text = text[c]]
  /\ fd' = [fd EXCEPT ![c] = NoFile]
  /\ UNCHANGED <<user, text, shadow, temp, stored>>

\* Mutant of SetterAttrs: the mode is set by a later step that never comes.
SetterAttrsForgotten(c) ==
  /\ step[c] = "attrs" /\ Goto(c, IF temp = NoFile THEN "failed" ELSE "rename")
  /\ UNCHANGED <<user, text, fd, disk, shadow, temp, stored>>

\* set_permissions and chown go by name: they fail when the name is gone.
SetterAttrs(c) ==
  /\ step[c] = "attrs"
  /\ IF temp = NoFile
     THEN Goto(c, "failed") /\ UNCHANGED disk
     ELSE Goto(c, "rename") /\ disk' = [disk EXCEPT ![temp].mode = "original"]
  /\ UNCHANGED <<user, text, fd, shadow, temp, stored>>

\* So does the rename. Only then ok is reported.
SetterRenames(c) ==
  /\ step[c] = "rename"
  /\ IF temp = NoFile
     THEN Goto(c, "failed") /\ UNCHANGED <<disk, shadow, temp, stored>>
     ELSE /\ Goto(c, "report") /\ shadow' = temp /\ temp' = NoFile /\ disk' = Replaced
          /\ stored' = IF user[c] \in Users /\ disk[temp].text = text[c]
                      THEN stored \union {c} ELSE stored
  /\ UNCHANGED <<user, text, fd>>

SetterReports(c) ==
  /\ step[c] = "report" /\ Goto(c, "reported")
  /\ UNCHANGED <<user, text, fd, disk, shadow, temp, stored>>

\* Any step before the rename may fail for a reason of its own; the
\* temporary file stays.
SetterFails(c) ==
  /\ step[c] \in {"input", "check", "read", "open", "write", "attrs", "rename"}
  /\ Goto(c, "failed") /\ fd' = [fd EXCEPT ![c] = NoFile]
  /\ UNCHANGED <<user, text, disk, shadow, temp, stored>>

\* The process is gone: it exited, or it was killed wherever it was.
SetterEnds(c) ==
  /\ step[c] \notin {"off", "gone"} /\ Goto(c, "gone")
  /\ fd' = [fd EXCEPT ![c] = NoFile]
  /\ user' = [user EXCEPT ![c] = Stranger] /\ text' = [text EXCEPT ![c] = Empty]
  /\ UNCHANGED <<disk, shadow, temp, stored>>

\* passwd in the guest puts a whole new file in place.
GuestChanges(u) ==
  /\ u \in GuestUsers /\ disk[shadow].text # Empty
  /\ disk[shadow].text[u] # "guest"
  /\ Free # {} /\ shadow' = NewInode
  /\ disk' = [Replaced EXCEPT ![NewInode] = [text |-> [disk[shadow].text EXCEPT ![u] = "guest"],
                                             mode |-> "original"]]
  /\ UNCHANGED <<step, user, text, fd, temp, stored>>

\* What a setter does by itself, up to its report.
Working(c) ==
  \/ SetterChecks(c) \/ SetterLooks(c) \/ SetterOpens(c) \/ SetterWrites(c)
  \/ SetterAttrs(c) \/ SetterRenames(c) \/ SetterFails(c)

-----------------------------------------------------------------------------
ShadowTypeOK ==
  /\ step \in [Setters -> Steps]
  /\ user \in [Setters -> Users \union {Stranger}]
  /\ text \in [Setters -> Texts \union {Empty}]
  /\ fd \in [Setters -> Inodes \union {NoFile}]
  /\ disk \in [Inodes -> File]
  /\ shadow \in Inodes /\ temp \in Inodes \union {NoFile}
  /\ stored \subseteq Setters

\* Whatever setter is killed or fails wherever, the container always has a
\* whole shadow file with every user's entry, its mode and its owner.
ShadowWhole == disk[shadow].text # Empty /\ disk[shadow].mode = "original"
=============================================================================
