------------------------- MODULE RequestAttribution -------------------------
(***************************************************************************)
(* What request-level telemetry promises, whatever the transport: the      *)
(* provider serves inference requests one after the other, and the harness *)
(* attributes them one by one, in the order they were served, each once,   *)
(* until it stops reading ("closed") or refuses to guess ("failed").       *)
(* UsageStream and AppServer implement this module.                        *)
(***************************************************************************)
EXTENDS Naturals, Sequences

CONSTANT Requests      \* the requests a provider may serve

VARIABLES
  served,              \* every request served so far, in order
  attributed,          \* the requests the harness has recorded
  status               \* "open", "closed" or "failed"

vars == <<served, attributed, status>>

Init ==
  /\ served = <<>>
  /\ attributed = <<>>
  /\ status = "open"

(* One more request; written over served' itself, so that TLC can check it  *)
(* of an implementation without enumerating Requests.                       *)
Serve ==
  /\ Len(served') = Len(served) + 1
  /\ served'[Len(served')] \in Requests
  /\ served' = Append(served, served'[Len(served')])
  /\ UNCHANGED <<attributed, status>>

Attribute ==
  /\ status = "open"
  /\ Len(attributed) < Len(served)
  /\ attributed' = Append(attributed, served[Len(attributed) + 1])
  /\ UNCHANGED <<served, status>>

Stop ==
  /\ status = "open"
  /\ status' \in {"closed", "failed"}
  /\ UNCHANGED <<served, attributed>>

Next == Serve \/ Attribute \/ Stop

Spec == Init /\ [][Next]_vars
=============================================================================
