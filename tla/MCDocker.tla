------------------------------ MODULE MCDocker ------------------------------
(* DockerRuntime on small instances. Pids and commands are interchangeable. *)
EXTENDS DockerRuntime, TLC

Symmetry == Permutations(Pids) \union Permutations(Starters) \union Permutations(Stoppers)
=============================================================================
