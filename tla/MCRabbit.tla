------------------------------ MODULE MCRabbit ------------------------------
(* Model-checking instance of both halves of the RabbitMQ pool.  A pool is *)
(* a producer's or a consumer's (clientType): one that has pushed never    *)
(* runs consumers, one that runs consumers never pushes.                   *)
EXTENDS RabbitPool, Sequences

CONSTANTS consumeMaxConnection, consumeMaxChannel, MaxReTry, Callback, MaxFaults

ASSUME ConsumerSettings ==
    /\ consumeMaxChannel \in Nat /\ MaxReTry \in Nat
    /\ Callback \subseteq {"true", "false", "push"}

VARIABLES connections, alive, made, nextConn, tasks, tconn, chOpen, e,
          status, statusLock, monitor, panicked, faults, msg, holder, retryNums, retries

\* The consumers' pool has settings of its own; in the run they share one
\* connection, so that what one task does to it reaches the others.
Consumer == INSTANCE ConsumePool
    WITH maxConnection <- consumeMaxConnection, connectionIndex <- nextConn

\* Bounds: a second failure comes once the first has been reconnected from and no
\* message is left to lose; tasks, which share the connection, start in order, and
\* those of a third round once the others have ended.
Bounded ==
    /\ (faults = 1 /\ faults' = 2) => (msg = "gone" /\ Len(tasks) > consumeMaxChannel)
    /\ \A t, u \in Consumer!Started :
           (u < t /\ (tasks[u] = "start" \/ (tasks[u] # "end" /\ t > 2 * consumeMaxChannel)))
               => tasks'[t] = tasks[t]

consumerVars == <<connections, alive, made, nextConn, tasks, tconn, chOpen, e,
                  status, statusLock, monitor, panicked, faults, msg, holder,
                  retryNums, retries>>

\* Of the initial states, which differ in what nobody reads before a Push, one.
NotPushed ==
    /\ Init
    /\ LET q == CHOOSE q \in Queues : TRUE
       IN  queue = [w \in Workers |-> q] /\ redialer = [i \in Conns |-> q]

NextProducer == Next /\ monitor = "off" /\ UNCHANGED consumerVars
NextConsumer == NotPushed /\ Consumer!Next /\ Bounded /\ UNCHANGED vars

PoolInit == NotPushed /\ Consumer!Init

PoolSpec ==
    /\ PoolInit
    /\ [][NextProducer \/ NextConsumer]_<<vars, consumerVars>>
    /\ Fairness /\ Consumer!Fairness

LockReleased == Consumer!LockReleased
RetriesBelowMax == Consumer!RetriesBelowMax
=============================================================================
