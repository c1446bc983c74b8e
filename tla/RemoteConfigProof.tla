-------------------------- MODULE RemoteConfigProof --------------------------
(***************************************************************************)
(* Proof about RemoteConfig for any sessions, keys, shards and parameters. *)
(* The invariant says where a limiter with old parameters may still be:    *)
(* in a shard the walk has not copied yet, or in a tuple it has not taken. *)
(***************************************************************************)
EXTENDS RemoteConfig, TLAPS

\* Every key has a shard; NoCtx is nobody's context.
Setting == NoCtx \notin Sessions /\ \A k \in Keys : ShardOf(k) \in Shards

TypeInv ==
    /\ key \in [Sessions -> Keys]
    /\ userCtxMap \in [Keys -> Sessions \cup {NoCtx}]
    /\ DOMAIN param = Sessions
    /\ pc \in [Sessions -> {"out", "upsert", "in", "left"}]
    /\ DOMAIN unread = Walkers /\ DOMAIN chans = Walkers

\* An entry belongs to its own key, and its session has registered it.
Owned ==
    \A k \in Keys : userCtxMap[k] # NoCtx =>
        key[userCtxMap[k]] = k /\ pc[userCtxMap[k]] \in {"in", "left"}

\* The walk of the configuration loop has still to come to the context c of k.
Ahead(k, c) ==
    /\ "config" \in walking
    /\ ShardOf(k) \in unread["config"] \/ <<k, c>> \in chans["config"]

Current ==
    /\ \A k \in Keys : userCtxMap[k] # NoCtx =>
           param[userCtxMap[k]] = nacosConfig \/ Ahead(k, userCtxMap[k])
    /\ \A s \in Sessions : pc[s] = "upsert" =>
           \/ param[s] = nacosConfig
           \/ "config" \in walking /\ ShardOf(key[s]) \in unread["config"]

IInv == TypeInv /\ Owned /\ Current

LEMMA InitInv == Init => IInv
  BY DEF Init, IInv, TypeInv, Owned, Current

-----------------------------------------------------------------------------
(* Handlers                                                                *)

LEMMA UpsertNewInv == ASSUME Setting, IInv, NEW s \in Sessions, UpsertNew(s) PROVE IInv'
  <1> USE DEF IInv, TypeInv, UpsertNew, Handler, walks, Setting
  <1>1. TypeInv'
    OBVIOUS
  <1>2. \A k \in Keys : userCtxMap[k] # s
    BY DEF Owned
  <1>3. Owned'
    BY <1>2 DEF Owned
  <1>4. Current'
    BY <1>2 DEF Current, Ahead
  <1> QED BY <1>1, <1>3, <1>4

\* The lock was held since UpsertNew, so no walk has copied the shard since.
LEMMA UpsertInsertInv == ASSUME Setting, IInv, NEW s \in Sessions, UpsertInsert(s) PROVE IInv'
  <1> USE DEF IInv, TypeInv, UpsertInsert, Handler, walks, Setting
  <1>1. TypeInv'
    OBVIOUS
  <1>2. Owned'
    BY DEF Owned
  <1>3. Current'
    BY DEF Current, Ahead
  <1> QED BY <1>1, <1>2, <1>3

LEMMA UpsertJoinInv == ASSUME Setting, IInv, NEW s \in Sessions, UpsertJoin(s) PROVE IInv'
  <1> USE DEF IInv, TypeInv, UpsertJoin, Handler, walks, Setting
  <1>1. TypeInv'
    OBVIOUS
  <1>2. Owned'
    BY DEF Owned
  <1>3. Current'
    BY DEF Current, Ahead
  <1> QED BY <1>1, <1>2, <1>3

\* Taking an entry out disturbs no other context.
LEMMA UnregisterKeeps ==
    ASSUME Setting, IInv, NEW k \in Keys, userCtxMap[k] # NoCtx, Unregister(k),
           UNCHANGED <<key, nacosConfig, walking, unread>>,
           chans'["config"] = chans["config"],
           pc' \in [Sessions -> {"out", "upsert", "in", "left"}],
           \A s \in Sessions : pc'[s] = pc[s] \/ (pc[s] = "in" /\ pc'[s] = "left"),
           DOMAIN chans' = Walkers
    PROVE  IInv'
  <1> USE DEF IInv, TypeInv, Unregister, Setting
  <1>1. TypeInv'
    OBVIOUS
  <1>2. \A j \in Keys \ {k} : userCtxMap[j] # userCtxMap[k]
    BY DEF Owned
  <1>3. Owned'
    BY DEF Owned
  <1>4. Current'
    <2>1. \A j \in Keys : userCtxMap'[j] # NoCtx =>
              j # k /\ userCtxMap'[j] = userCtxMap[j] /\ param'[userCtxMap[j]] = param[userCtxMap[j]]
      BY <1>2
    <2>2. \A s \in Sessions : pc'[s] = "upsert" => pc[s] = "upsert" /\ param'[s] = param[s]
      BY DEF Owned
    <2> QED BY <2>1, <2>2 DEF Current, Ahead
  <1> QED BY <1>1, <1>3, <1>4

LEMMA RemoveCbInv == ASSUME Setting, IInv, NEW s \in Sessions, RemoveCb(s) PROVE IInv'
  <1> USE DEF IInv, TypeInv, RemoveCb, Handler, walks
  <1>1. /\ pc' \in [Sessions -> {"out", "upsert", "in", "left"}]
        /\ \A t \in Sessions : pc'[t] = pc[t] \/ (pc[t] = "in" /\ pc'[t] = "left")
    OBVIOUS
  <1>2. CASE UNCHANGED <<param, userCtxMap>>
    BY <1>1, <1>2 DEF Owned, Current, Ahead
  <1>3. CASE userCtxMap[key[s]] = ctx[s] /\ Unregister(key[s])
    <2>1. CASE userCtxMap[key[s]] # NoCtx
      BY <1>1, <1>3, <2>1, UnregisterKeeps
    <2>2. CASE userCtxMap[key[s]] = NoCtx
      BY <1>1, <1>3, <2>2 DEF Unregister, Owned, Current, Ahead, Setting
    <2> QED BY <2>1, <2>2
  <1> QED BY <1>2, <1>3

-----------------------------------------------------------------------------
(* Walks                                                                   *)

LEMMA RefreshInv == ASSUME Setting, IInv, Refresh PROVE IInv'
  BY DEF Setting, IInv, TypeInv, Owned, Current, Ahead, Refresh, Iter, handlers, Walkers

LEMMA KickInv == ASSUME IInv, Kick PROVE IInv'
  BY DEF IInv, TypeInv, Owned, Current, Ahead, Kick, Iter, handlers, Walkers

LEMMA SnapshotInv ==
    ASSUME IInv, NEW w \in Walkers, NEW h \in Shards, Snapshot(w, h) PROVE IInv'
  <1> USE DEF IInv, TypeInv, Snapshot, handlers
  <1>1. TypeInv' /\ Owned'
    BY DEF Owned
  <1>2. CASE w # "config"
    BY <1>1, <1>2 DEF Current, Ahead, Walkers
  <1>3. CASE w = "config"
    <2>1. \A s \in Sessions : pc[s] = "upsert" => ShardOf(key[s]) # h
      BY DEF MayRLock, Locked
    <2>2. \A k \in Keys : userCtxMap[k] # NoCtx /\ ShardOf(k) = h
              => <<k, userCtxMap[k]>> \in chans'["config"]
      BY <1>3 DEF Entries
    <2>3. /\ \A g \in Shards \ {h} : g \in unread["config"] => g \in unread'["config"]
          /\ chans["config"] \subseteq chans'["config"]
      BY <1>3
    <2>4. \A k \in Keys : userCtxMap[k] # NoCtx /\ Ahead(k, userCtxMap[k])
              => Ahead(k, userCtxMap[k])'
      BY <1>3, <2>2, <2>3 DEF Ahead
    <2>5. \A s \in Sessions : pc[s] = "upsert" /\ ShardOf(key[s]) \in unread["config"]
              => ShardOf(key[s]) \in unread'["config"]
      BY <1>3, <2>1
    <2>6. Current'
      BY <2>4, <2>5 DEF Current
    <2> QED BY <1>1, <2>6
  <1> QED BY <1>2, <1>3

LEMMA UpdateInv ==
    ASSUME Setting, IInv, NEW k \in Keys, NEW c \in Sessions, Update(k, c) PROVE IInv'
  <1> USE DEF IInv, TypeInv, Update, TakeTuple, handlers, Setting
  <1>1. TypeInv' /\ Owned'
    BY DEF Owned
  <1>2. chans'["config"] = chans["config"] \ {<<k, c>>}
    BY DEF Walkers
  <1>3. CASE userCtxMap[k] = c
    <2>1. \A s \in Sessions : param'[s] = IF s = c THEN nacosConfig ELSE param[s]
      BY <1>3
    <2>2. \A j \in Keys : userCtxMap[j] = c => j = k
      BY <1>3 DEF Owned
    <2>3. pc[c] # "upsert"
      BY <1>3 DEF Owned
    <2> QED BY <1>1, <1>2, <2>1, <2>2, <2>3 DEF Current, Ahead
  <1>4. CASE userCtxMap[k] # c
    BY <1>1, <1>2, <1>4 DEF Current, Ahead
  <1> QED BY <1>3, <1>4

LEMMA PopInv ==
    ASSUME Setting, IInv, NEW k \in Keys, NEW c \in Sessions, Pop(k, c) PROVE IInv'
  <1> USE DEF IInv, TypeInv, Pop, TakeTuple, handlers
  <1>1. chans'["config"] = chans["config"] /\ DOMAIN chans' = Walkers
    BY DEF Walkers
  <1>2. CASE userCtxMap[k] # NoCtx
    BY <1>1, <1>2, UnregisterKeeps
  <1>3. CASE userCtxMap[k] = NoCtx
    BY <1>1, <1>3 DEF Owned, Current, Ahead
  <1> QED BY <1>2, <1>3

LEMMA WalkReturnsInv == ASSUME IInv, NEW w \in Walkers, WalkReturns(w) PROVE IInv'
  BY DEF IInv, TypeInv, Owned, Current, Ahead, WalkReturns, handlers, Walkers

-----------------------------------------------------------------------------
LEMMA NextInv == ASSUME Setting, IInv, [Next]_vars PROVE IInv'
  <1>1. CASE Begin \/ NacosChange \/ UNCHANGED vars
    BY <1>1 DEF Begin, NacosChange, vars, handlers, walks, IInv, TypeInv, Owned, Current, Ahead
  <1>2. ASSUME NEW s \in Sessions, HandlerSteps(s) PROVE IInv'
    BY <1>2, UpsertNewInv, UpsertInsertInv, UpsertJoinInv, RemoveCbInv DEF HandlerSteps
  <1>3. CASE Config \/ Kicker
    BY <1>3, RefreshInv, WalkReturnsInv, UpdateInv, PopInv DEF Config, Kicker, Walkers
  <1> QED BY <1>1, <1>2, <1>3, KickInv, SnapshotInv DEF Next

\* When no walk of the configuration loop is under way every registered limiter
\* has the stored configuration, however handlers, kicks and the walk met.
THEOREM ConfigArrives == ASSUME Setting PROVE Spec => []ConfigReachesAll
  <1>1. Init => IInv
    BY InitInv
  <1>2. IInv /\ [Next]_vars => IInv'
    BY Setting, NextInv
  <1>3. IInv => ConfigReachesAll
    BY DEF IInv, Current, Ahead, ConfigReachesAll
  <1> QED BY <1>1, <1>2, <1>3, PTL DEF Spec
=============================================================================
