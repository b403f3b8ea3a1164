----------------------------- MODULE MCSendLane -----------------------------
EXTENDS SendLane, TLC

CONSTANTS a, b, c, u1, u2

\* Two calls of one user, who share the limiter with a disowned one of another.
MCUserOf  == (a :> u1) @@ (b :> u1) @@ (c :> u2)
MCPurpose == (a :> "approval") @@ (b :> "trade") @@ (c :> "fast")
=============================================================================
