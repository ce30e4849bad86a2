----------------------------- MODULE MCPipeline -----------------------------
(* Instances of Pipeline for TLC: which processes run what.                  *)
EXTENDS Pipeline, TLC

CONSTANTS b1, b2, b3, r1

\* Builds only: the deployment the lock was written for.
AllBuilds == [p \in Procs |-> "build"]

\* A refresh beside the builds.
WithRefresh == [p \in Procs |-> IF p = r1 THEN "refresh" ELSE "build"]

\* Every place but the fetch, where a kill orphans slackdump.
OutsideFetch == (Stops \cup Steps) \ {"fetch"}
Anywhere == Stops \cup Steps
DuringFetch == {"fetch"}

BuildSymmetry == Permutations({b1, b2, b3} \cap Procs)
=============================================================================
