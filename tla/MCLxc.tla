------------------------------- MODULE MCLxc -------------------------------
(* LxcContainers on small instances. Commands and pids are interchangeable. *)
EXTENDS LxcContainers, TLC

Symmetry == Permutations(Cmds) \union Permutations(Pids)
=============================================================================
