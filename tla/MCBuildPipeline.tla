-------------------------- MODULE MCBuildPipeline --------------------------
(* Two revisions of the repository, and the constants of the runs.         *)
EXTENDS BuildPipeline, TLC

CONSTANTS r1, r2

const_Revisions == {r1, r2}

\* Both revisions carry one version: their wheels share a file name.
const_SameVersion == [r \in const_Revisions |-> 1]

\* r2's wheel file sorts after r1's.
const_VersionBump == (r1 :> 1) @@ (r2 :> 2)
=============================================================================
