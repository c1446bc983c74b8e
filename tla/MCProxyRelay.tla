---------------------------- MODULE MCProxyRelay ----------------------------
(* Model-checking instance of ProxyRelay.                                  *)
EXTENDS ProxyRelay, FiniteSets

\* Bound: at most two of a shutdown, a kick, a peer that hangs up and a
\* blacklist in force.
Events == Cardinality(gone) + Cardinality(black)
          + Cardinality({x \in {"stop", "kick"} : IF x = "stop" THEN ctxDone ELSE kicked})
BoundedSpec == Init /\ [][Next /\ Events' <= 2]_vars /\ Fairness
=============================================================================
