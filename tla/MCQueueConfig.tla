--------------------------- MODULE MCQueueConfig ---------------------------
EXTENDS QueueConfig, TLC

CONSTANTS u1, u2, p1, p2, r1

P(s, b, m) == [strategy |-> s, base |-> b, max |-> m]

MCPolicies == {P("exponential", 60, 0), P("linear", 180, 4), P("fixed", 7, 2)}
MCAskedFor == u1 :> P("linear", 180, 4) @@ u2 :> P("fixed", 7, 2)

\* Nothing; a policy of its own that goes on until the doubling overflows; a part
\* of one; what the service does not check.
MCOverrides ==
    {<<>>, P("exponential", 1440, 20), P("exponential", 1, 30), P("linear", 0, 3),
     "max" :> 5, "strategy" :> "exponential" @@ "max" :> 9,
     "base" :> -5 @@ "max" :> 6, "strategy" :> ""}
=============================================================================
