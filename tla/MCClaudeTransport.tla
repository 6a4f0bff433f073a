------------------------- MODULE MCClaudeTransport -------------------------
(* ClaudeTransport on small instances: a plain response, one that reads    *)
(* the cache and has a cost of its own, one with fewer input tokens than   *)
(* the prompt, and one without an input count.                             *)
EXTENDS ClaudeTransport

Plain == [input |-> {2}, output |-> {1}, cacheRead |-> {}, cacheWrite |-> {0},
          cost |-> {}]

Cached == [input |-> {0}, output |-> {2}, cacheRead |-> {1}, cacheWrite |-> {1},
           cost |-> {1}]

Short == [input |-> {1}, output |-> {1}, cacheRead |-> {0}, cacheWrite |-> {},
          cost |-> {2}]

Uncounted == [input |-> {}, output |-> {1}, cacheRead |-> {}, cacheWrite |-> {},
              cost |-> {}]

MCUsages == {Plain, Cached, Short, Uncounted}

MCTotalCosts == {{}, {3}}
=============================================================================
