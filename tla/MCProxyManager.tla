--------------------------- MODULE MCProxyManager ---------------------------
(* Model-checking instance of ProxyManager.                                *)
EXTENDS ProxyManager, TLC

\* Sessions and addresses are interchangeable: no action or property orders them.
Symmetry == Permutations(Sessions) \cup Permutations(Ips)

\* The two names used: one is the other's first field.
FieldsOfUsers == [u \in Users |-> IF u = "u:x" THEN "u" ELSE u]

\* Every user may be given every address again, or be left without any.
DeliveredUpdates == Users \X {{}, Ips}

Used == {keyOf(s) : s \in Sessions}

\* Bound on the clients of a run: they use one address of "u", two addresses of
\* "u", or one address as "u" and as "u:x".
FewClients ==
    /\ Cardinality(Used) <= 2
    /\ \E k \in Used : k[1] = "u" /\ \A l \in Used : l[1] = k[1] \/ l[2] = k[2]

\* Bounds on the kicks of a run: while sessions use two keys, accounts stay as
\* they are and Disconnect is alone; both consumers kick at the same time, with
\* accounts deleted and set again, when the sessions share one key.  A message
\* names a user whose keys may match, and no address that is not used; a walk
\* reads the keys nobody ever registers before anything else happens.
OneWalk ==
    /\ Cardinality(Used) > 1 => accounts' = accounts /\ \A k \in Kickers : kpc'[k] # "del"
    /\ \A k \in Kickers :
         /\ named'[k] \in {NoUser} \cup UNION {{key[1], FirstField[key[1]]} : key \in Used}
         /\ todo'[k] \subseteq Used
         /\ scan[k] \subseteq Used \/ scan'[k] \subseteq Used

\* Bound on the kicks of the liveness run: messages name no addresses, so that
\* every kick walks.  It cuts steps that no fairness is asked of, and no other.
WalksOnly == \A k \in Kickers : kpc'[k] # "pops"
=============================================================================
