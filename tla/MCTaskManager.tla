--------------------------- MODULE MCTaskManager ---------------------------
(* Model-checking instance of TaskManager and of the walks of the task it  *)
(* keeps running for Nacos: an accept group of two copies, a single-copy   *)
(* group and one more worker than may ever run; two sessions, two keys     *)
(* in shards of their own.  A behaviour is one of the first or, with no    *)
(* task added yet, one of the second.                                      *)
EXTENDS TaskManager

CONSTANTS Sessions, Keys, Shards, ShardOf(_), Confs, NoCtx, NoConf
VARIABLES running, key, served, nacosConfig, param, userCtxMap, pc, ctx,
          walking, unread, chans

CopyCount(g) == IF g = "accept" THEN 2 ELSE 1

OwnShard(k) == k

Config == INSTANCE RemoteConfig

configVars == <<running, key, served, nacosConfig, param, userCtxMap, pc, ctx,
                walking, unread, chans>>

Added == done \/ \E g \in Groups : runner[g] # "none"

\* The first instance starts from one of the initial states of the second, and
\* the other way round.
OneConfig == /\ ~running
             /\ \E k \in Keys : key = [s \in Sessions |-> k] /\ k = CHOOSE j \in Keys : TRUE
             /\ served = CHOOSE c \in Confs : TRUE
OneGroup == ~Added /\ \A w \in Workers : group[w] = CHOOSE g \in Groups : TRUE

TasksInit == Init /\ Config!Init

TasksSpec ==
    /\ TasksInit
    /\ [][\/ OneConfig /\ Next /\ UNCHANGED configVars
          \/ OneGroup /\ Config!Next /\ UNCHANGED vars]_<<vars, configVars>>
    /\ Fairness /\ Config!Fairness

ConfigReachesAll == Config!ConfigReachesAll
WalksEnd == Config!WalksEnd
=============================================================================
