--------------------------- MODULE MCS2Provision ---------------------------
(* Two tasks and two registrations; the second has another asset, with a  *)
(* smaller test patch for one task and another base commit for the other. *)
EXTENDS S2Provision, TLC

CONSTANTS p1, p2

Record(commit, patch) == [base_commit |-> commit, test_patch |-> patch]
Registration(v, path, d) == [version |-> v, asset_path |-> path, asset_sha256 |-> d]

MCTaskIds == <<"t1", "t2">>
MCContent == [d \in {"a1", "a2"} |->
    IF d = "a1" THEN [t1 |-> Record("b1", {"old", "new"}), t2 |-> Record("b1", {})]
                ELSE [t1 |-> Record("b1", {"old"}), t2 |-> Record("b2", {})]]
MCRegistrations == <<Registration("v1", "x", "a1"), Registration("v2", "y", "a2")>>
MCPaths == {"old", "new", "other"}
MCCreated == {"new"}

(* The hypotheses of the theorems hold of this instance.                   *)
ASSUME MCHypotheses == RegistrationsMoveOn /\ PatchesAgree

Symmetry == Permutations({p1, p2})
=============================================================================
