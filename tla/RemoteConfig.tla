---------------------------- MODULE RemoteConfig ----------------------------
(***************************************************************************)
(* The configuration loop and the map it walks: runNacosConfServer stores  *)
(* what Nacos serves and gives it to every limiter registered in           *)
(* userCtxMap, while handlers register and leave and a kick walks the same *)
(* map and pops from it.  The map has one lock per shard; Iter copies each *)
(* shard, under its lock, into a channel with room for all of it, and the  *)
(* loop over Iter takes from all channels.                                 *)
(*                                                                         *)
(* A connContext is named by the session that created it, as in            *)
(* ProxyManager, whose IterRead is the locked look at a shard here.  The   *)
(* goroutines of fanIn only carry tuples from the channels to the loop.    *)
(* A session connects once.                                                *)
(***************************************************************************)
CONSTANTS
    Sessions, Keys, Shards,
    ShardOf(_),     \* the shard of a key
    Confs,          \* the limiter parameters Nacos may serve
    NoCtx,          \* a key without entry
    NoConf          \* no parameters, or nobody's any more

Walkers == {"config", "kick"}

VARIABLES
    running,    \* the task manager has started runNacosConfServer
    key,        \* input: the "user:ip" of each session
    served,     \* what Nacos serves
    nacosConfig,
    param,      \* the parameters in the limiter of each context
    userCtxMap,
    pc,         \* handlers: "out", "upsert" (in the callback), "in", "left"
    ctx,        \* the context a handler was given
    walking,    \* the walks under way
    unread,     \* shards snapshot has still to copy for a walk
    chans       \* tuples in the channels of a walk

handlers == <<pc, ctx>>
walks == <<walking, unread, chans>>
vars == <<running, key, served, nacosConfig, param, userCtxMap, handlers, walks>>

Init ==
    /\ running = FALSE
    /\ key \in [Sessions -> Keys]
    /\ served \in Confs /\ nacosConfig = served
    /\ param = [s \in Sessions |-> NoConf]
    /\ userCtxMap = [k \in Keys |-> NoCtx]
    /\ pc = [s \in Sessions |-> "out"] /\ ctx = [s \in Sessions |-> NoCtx]
    /\ walking = {}
    /\ unread = [w \in Walkers |-> {}] /\ chans = [w \in Walkers |-> {}]

Entries(h) == {k \in Keys : ShardOf(k) = h /\ userCtxMap[k] # NoCtx}

-----------------------------------------------------------------------------
(* The lock of a shard.  It is held for the whole of an action, and by a   *)
(* callback of Upsert for two.                                             *)

Locked(h) == \E s \in Sessions : pc[s] = "upsert" /\ ShardOf(key[s]) = h

MayRLock_Unasked(h) == TRUE
MayRLock(h) == ~Locked(h)
MayLock_NotInLoop(h) == ~Locked(h) /\ \A w \in Walkers, k \in Entries(h) :
                                          <<k, userCtxMap[k]>> \notin chans[w]
MayLock(h) == ~Locked(h)

-----------------------------------------------------------------------------
(* Handlers: addUserConnection and deleteUserConnection.                   *)

Handler(s, l) ==
    /\ pc' = [pc EXCEPT ![s] = l]
    /\ UNCHANGED <<running, key, served, nacosConfig, walks>>

\* Upsert's callback for a key without entry reads the configuration,
UpsertNew(s) ==
    /\ pc[s] = "out" /\ MayLock(ShardOf(key[s])) /\ userCtxMap[key[s]] = NoCtx
    /\ Handler(s, "upsert")
    /\ param' = [param EXCEPT ![s] = nacosConfig]
    /\ UNCHANGED <<userCtxMap, ctx>>

\* and the entry is there before the lock is given back.
UpsertInsert(s) ==
    /\ pc[s] = "upsert"
    /\ Handler(s, "in")
    /\ userCtxMap' = [userCtxMap EXCEPT ![key[s]] = s]
    /\ ctx' = [ctx EXCEPT ![s] = s]
    /\ UNCHANGED param

UpsertJoin(s) ==
    /\ pc[s] = "out" /\ MayLock(ShardOf(key[s])) /\ userCtxMap[key[s]] # NoCtx
    /\ Handler(s, "in")
    /\ ctx' = [ctx EXCEPT ![s] = userCtxMap[key[s]]]
    /\ UNCHANGED <<param, userCtxMap>>

LastOf(s) == \A t \in Sessions \ {s} : ctx[t] # ctx[s]

\* What leaves the map is out of reach of a walk, except as a tuple in a channel.
Unregister(k) ==
    /\ userCtxMap' = [userCtxMap EXCEPT ![k] = NoCtx]
    /\ param' = [param EXCEPT ![userCtxMap[k]] = NoConf]

\* RemoveCb: the entry of another context is left alone.
RemoveCb(s) ==
    /\ pc[s] = "in" /\ MayLock(ShardOf(key[s]))
    /\ Handler(s, "left")
    /\ ctx' = [ctx EXCEPT ![s] = NoCtx]
    /\ IF userCtxMap[key[s]] = ctx[s] /\ LastOf(s)
       THEN Unregister(key[s]) ELSE UNCHANGED <<param, userCtxMap>>

HandlerSteps(s) == UpsertNew(s) \/ UpsertInsert(s) \/ UpsertJoin(s) \/ RemoveCb(s)

-----------------------------------------------------------------------------
(* Iter and the loop over it.                                              *)

Iter(w) ==
    /\ w \notin walking
    /\ walking' = walking \cup {w}
    /\ unread' = [unread EXCEPT ![w] = Shards]
    /\ UNCHANGED <<running, key, param, userCtxMap, handlers, chans>>

\* A goroutine of snapshot: RLock, the channel, every item, RUnlock.  One step,
\* because the channel is made as large as the shard: filling it never waits, and
\* the shard does not change under the read lock.
Snapshot(w, h) ==
    /\ h \in unread[w] /\ MayRLock(h)
    /\ unread' = [unread EXCEPT ![w] = @ \ {h}]
    /\ chans' = [chans EXCEPT ![w] = @ \cup {<<k, userCtxMap[k]>> : k \in Entries(h)}]
    /\ UNCHANGED <<running, key, served, nacosConfig, param, userCtxMap, handlers, walking>>

\* for v := range Iter(): snapshot has returned, a tuple of any channel is next.
TakeTuple(w, k, c) ==
    /\ unread[w] = {} /\ <<k, c>> \in chans[w]
    /\ chans' = [chans EXCEPT ![w] = @ \ {<<k, c>>}]
    /\ UNCHANGED <<running, key, served, nacosConfig, handlers, walking, unread>>

\* updateLimitedReaderAction's body: UpdateParameter with the configuration read
\* before the walk, which nobody else stores.
Update(k, c) ==
    /\ TakeTuple("config", k, c)
    /\ param' = IF userCtxMap[k] = c THEN [param EXCEPT ![c] = nacosConfig] ELSE param
    /\ UNCHANGED userCtxMap

\* The body of a kick's walk: CloseUserConnections pops from the map it walks.
Pop(k, c) ==
    /\ TakeTuple("kick", k, c)
    /\ MayLock(ShardOf(k))
    /\ IF userCtxMap[k] # NoCtx THEN Unregister(k) ELSE UNCHANGED <<param, userCtxMap>>

WalkReturns(w) ==
    /\ w \in walking /\ unread[w] = {} /\ chans[w] = {}
    /\ walking' = walking \ {w}
    /\ UNCHANGED <<running, key, served, nacosConfig, param, userCtxMap, handlers, unread, chans>>

-----------------------------------------------------------------------------
(* runNacosConfServer, and what happens around it.                         *)

\* From here on; its return, when its context is done, leaves the map as it is.
Begin ==
    /\ ~running /\ running' = TRUE
    /\ UNCHANGED <<key, served, nacosConfig, param, userCtxMap, handlers, walks>>

NacosChange ==
    /\ served' \in Confs \ {served}
    /\ UNCHANGED <<running, key, nacosConfig, param, userCtxMap, handlers, walks>>

\* nacosRespChan or the ticker; setNacosConf, then updateLimitedReaderAction.  A
\* fetch or an Unmarshal that fails changes nothing.
Refresh ==
    /\ running /\ Iter("config")
    /\ nacosConfig' = served /\ UNCHANGED served

Kick == Iter("kick") /\ UNCHANGED <<served, nacosConfig>>

Config == Refresh \/ WalkReturns("config") \/ \E k \in Keys, c \in Sessions : Update(k, c)
Kicker == WalkReturns("kick") \/ \E k \in Keys, c \in Sessions : Pop(k, c)

Next ==
    \/ Begin
    \/ running /\ \/ \E s \in Sessions : HandlerSteps(s)
                  \/ \E w \in Walkers, h \in Shards : Snapshot(w, h)
                  \/ NacosChange \/ Config \/ Kick \/ Kicker

Spec == Init /\ [][Next]_vars

\* Goroutines are scheduled and the ticker ticks.
Fairness ==
    /\ \A s \in Sessions : WF_vars(UpsertInsert(s))
    /\ \A w \in Walkers, h \in Shards : WF_vars(Snapshot(w, h))
    /\ WF_vars(Config) /\ WF_vars(Kicker)
FairSpec == Spec /\ Fairness

-----------------------------------------------------------------------------
(* Properties                                                              *)

\* When a walk of the configuration loop is over every registered limiter has
\* the stored configuration, also one whose context was being registered while
\* the configuration was stored and the map was walked.
ConfigReachesAll ==
    "config" \notin walking =>
        \A k \in Keys : userCtxMap[k] # NoCtx => param[userCtxMap[k]] = nacosConfig

\* Walks end, although a kick pops from the map it walks, and both walks and
\* every handler want the same locks.
WalksEnd == \A w \in Walkers : w \in walking ~> w \notin walking
=============================================================================
