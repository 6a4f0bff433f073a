---------------------------- MODULE MCAppServer ----------------------------
(* AppServer on small instances; each server opens one side of the protocol. *)
EXTENDS AppServer, TLC

CONSTANTS p1, p2, m1, m2

Usage(input, cached, output) ==
  [f \in Fields |->
     CASE f = "inputTokens"       -> input
       [] f = "cachedInputTokens" -> cached
       [] f = "outputTokens"      -> output
       [] f = "totalTokens"       -> input + output
       [] OTHER                   -> 0]

MCLasts == {Usage(1, 0, 1), Usage(2, 1, 0)}

MCLast == {Usage(2, 1, 1)}

Silent == [items |-> {}, pids |-> {}, asks |-> {}, stderrOutlives |-> FALSE,
           messages |-> 5, requests |-> 0, pieces |-> 0]

Infers == [Silent EXCEPT !.messages = 6, !.requests = 2]

Streams == [Silent EXCEPT !.messages = 8, !.items = {m1, m2}, !.pieces = 1]

Commands == [Silent EXCEPT !.messages = 6, !.pids = {p1, p2}, !.stderrOutlives = TRUE]

Asks == [Silent EXCEPT !.messages = 6, !.asks = {0, 1}]

Mixed == [Silent EXCEPT !.pids = {p1}, !.asks = {2}, !.requests = 1,
                        !.stderrOutlives = TRUE]

MCSides == {Infers, Streams, Commands, Asks}

MCMixed == {Mixed}

Symmetry == Permutations({p1, p2}) \cup Permutations({m1, m2})
=============================================================================
