-------------------------- MODULE MCS3Coordination --------------------------
(* S3Coordination on a small instance: each worker owns one of two files,  *)
(* and may edit and delete both.                                           *)
EXTENDS S3Coordination, TLC

CONSTANTS p, q, n1, n2

OwnScopes == ("worker-a" :> {p}) @@ ("worker-b" :> {q})

OwnNames == ("worker-a" :> n1) @@ ("worker-b" :> n2)
=============================================================================
