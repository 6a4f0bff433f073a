------------------------ MODULE MCEmpiricalExecutor ------------------------
(* EmpiricalExecutor on a small instance: three runs, of which two have    *)
(* been given one name and one goes through a transport that does not look *)
(* for the commands of its turn.                                           *)
EXTENDS EmpiricalExecutor, TLC

CONSTANTS r1, r2, r3, n1, n2

MixedNames == (r1 :> n1) @@ (r2 :> n1) @@ (r3 :> n2)
=============================================================================
