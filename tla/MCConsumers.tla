---------------------------- MODULE MCConsumers ----------------------------
(* Model-checking instance of Consumers.                                   *)
EXTENDS Consumers

\* A message that is requeued for ever, or dropped, before one with addresses;
\* either of the two that take effect may replace the other.
OddFirst == {<<b, "good">> : b \in {"empty", "bad"}}

\* Bound: Redis loses its scripts only while there is no kick, whose consumer
\* does not use it.
KicksOrNoScript == script' \/ published'[Kick] = 0
BoundedSpec == Init /\ [][Next /\ KicksOrNoScript]_vars /\ Fairness

OneGood == {<<"good">>}
=============================================================================
