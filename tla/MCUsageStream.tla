--------------------------- MODULE MCUsageStream ---------------------------
(* UsageStream on small instances: two different request sizes, four    *)
(* requests, one malformed breakdown of each kind the parser refuses.       *)
EXTENDS UsageStream

Usage(input, cached, output) ==
  [f \in Fields |->
     CASE f = "inputTokens"       -> input
       [] f = "cachedInputTokens" -> cached
       [] f = "outputTokens"      -> output
       [] f = "totalTokens"       -> input + output
       [] OTHER                   -> 0]

MCLasts == {Usage(1, 0, 1), Usage(2, 1, 0)}

MCMalformedRaws ==
  {Usage(1, 2, 0),                                        \* cached > input
   [Usage(1, 0, 1) EXCEPT !["outputTokens"] = -1],        \* negative
   [f \in Fields \ {"totalTokens"} |-> 1],                \* missing counter
   <<>>}                                                  \* not a breakdown
=============================================================================
