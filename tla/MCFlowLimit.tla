---------------------------- MODULE MCFlowLimit ----------------------------
(* Model-checking instance of FlowLimit.                                   *)
EXTENDS FlowLimit, TLC

\* The two directions of a session run the same code.
Symmetry == Permutations(Readers)

RateParams == {<<1, 4>>, <<3, 4>>}
\* The burst differs, the rate does not; 0 selects the default.  A burst of 1 is
\* below the number of shards: slimitMaxFlow is zero.
BurstParams == {<<2, 1>>, <<2, 2>>, <<2, 0>>}

\* Bounds on the updates: one, between the two larger bursts.  After it what
\* remains of a burst grows with a new second only.
OneUpdate ==
    \/ steady'
    \/ steady /\ readBurst > 1 /\ readBurst' \notin {1, readBurst}
    \/ /\ ~steady /\ UNCHANGED readBurst
       /\ resid' <= resid \/ nowTimeUnix' # nowTimeUnix
BurstSpec == Init /\ [][Next /\ OneUpdate]_vars /\ Fairness
=============================================================================
