----------------------------- MODULE MCMeshCommit -----------------------------
(* Instances of MeshCommit for TLC: what a policy may ask for in a           *)
(* repository of at most two files.                                          *)
EXTENDS MeshCommit, TLC

CONSTANTS tests, guarded, src, new

\* One repository-wide obligation with a command.
ScopeTests == [n \in {tests} |-> {}]

\* A command obligation for the whole repository and one a rule on src requires.
ScopeRule == [n \in {tests, guarded} |-> IF n = guarded THEN {src} ELSE {}]

\* The contents of a file are interchangeable, and so are processes and changes.
Symmetry == Permutations(Versions) \cup Permutations(Procs) \cup Permutations(Changes)

\* A bound on the search: once a process has died operations overlap no longer.
SerialAfterCrash == crashes > 0 => Cardinality({p \in Procs : op[p] # Idle}) <= 1
===============================================================================
