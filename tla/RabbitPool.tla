----------------------------- MODULE RabbitPool -----------------------------
(***************************************************************************)
(* The RabbitMQ producer pool behind the send queues: a fixed ring of      *)
(* connections, the channels cached per connection and queue, and rPush    *)
(* with its reconnection and retries, called by the handler goroutines of  *)
(* the send queues.                                                        *)
(*                                                                         *)
(* A channel dies with the connection it was created on.  So a cached      *)
(* channel is "none", "open" or "closed", and what matters about a         *)
(* connection is whether rc.conn is non-nil and not closed.                *)
(* Nothing else closes a channel here: Publish uses the default exchange,  *)
(* without the mandatory flag, and declares nothing, which gives a healthy *)
(* broker no cause to close one.  ConsumePool and Consumers, which declare *)
(* queues and acknowledge, have channels that die alone.                   *)
(***************************************************************************)
EXTENDS Integers

CONSTANTS
    Workers,        \* handler goroutines that call Push
    Queues,         \* queue names of the messages
    maxConnection,  \* connections of the pool
    pushMaxTime,    \* publish attempts of one Push
    NoWorker        \* channelLock is free

ASSUME MaxConnectionPositive == maxConnection \in Nat \ {0}
ASSUME PushMaxTimePositive == pushMaxTime \in Nat \ {0}
ASSUME NoWorkerFresh == NoWorker \notin Workers

Conns == 0 .. maxConnection - 1

VARIABLES
    connUp,           \* rc.conn is set and not closed
    channelPool,      \* the cached channel of each connection and queue
    connectionIndex,  \* the connection used last
    channelLock,      \* the worker that holds the pool's lock
    wpc,              \* where each worker stands in rPush
    queue,            \* queue of the message a worker pushes
    sendTime,         \* failed attempts of the current Push
    idx,              \* the connection the current attempt uses
    ch,               \* the channel the current attempt publishes on
    result,           \* what the last Push returned ("none" while it runs)
    loss,             \* history: a connection was lost since this Push began
    redialer          \* history: queue of the message that last dialled

poolVars == <<connUp, channelPool, connectionIndex>>
pushVars == <<queue, sendTime, result, loss>>
vars == <<poolVars, channelLock, wpc, pushVars, idx, ch, redialer>>

Locked == {"dial", "backoff", "channel"}
Key(w) == <<idx[w], queue[w]>>
Goto(w, l) == wpc' = [wpc EXCEPT ![w] = l]

\* Push returns r and its locals are gone.
Return(w, r) ==
    /\ Goto(w, "idle")
    /\ result' = [result EXCEPT ![w] = r]
    /\ sendTime' = [sendTime EXCEPT ![w] = 0]
    /\ idx' = [idx EXCEPT ![w] = 0]
    /\ loss' = [loss EXCEPT ![w] = FALSE]

\* NewProductPool and ConnectVirtualHost: every connection dialled, or panic.
Init ==
    /\ connUp = [i \in Conns |-> TRUE]
    /\ channelPool = [k \in Conns \X Queues |-> "none"]
    /\ connectionIndex = 0
    /\ channelLock = NoWorker
    /\ wpc = [w \in Workers |-> "idle"]
    /\ queue \in [Workers -> Queues]
    /\ sendTime = [w \in Workers |-> 0]
    /\ idx = [w \in Workers |-> 0]
    /\ ch = [w \in Workers |-> "none"]
    /\ result = [w \in Workers |-> "nil"]
    /\ loss = [w \in Workers |-> FALSE]
    /\ redialer \in [Conns -> Queues]

-----------------------------------------------------------------------------
(* rPush                                                                   *)

\* processFunc hands a dequeued message to Push.
Push(w, q) ==
    /\ wpc[w] = "idle"
    /\ Goto(w, "push")
    /\ queue' = [queue EXCEPT ![w] = q]
    /\ result' = [result EXCEPT ![w] = "none"]
    /\ UNCHANGED <<poolVars, channelLock, sendTime, loss, idx, ch, redialer>>

MayTry_OneMore(w) == sendTime[w] <= pushMaxTime
MayTry(w) == sendTime[w] < pushMaxTime

\* RCODE_PUSH_MAX_ERROR; the caller logs it and the message is gone.
PushMaxError(w) ==
    /\ wpc[w] = "push" /\ ~MayTry(w)
    /\ Return(w, "error")
    /\ UNCHANGED <<poolVars, channelLock, queue, ch, redialer>>

RoundRobin(c) == (c + 1) % maxConnection

NeedsDial_Never(i) == FALSE
NeedsDial(i) == ~connUp[i]

\* What tryConn removes before it dials connection i for a message of queue q.
WithoutChannel_Kept(i, q) == channelPool
WithoutChannel(i, q) == [channelPool EXCEPT ![<<i, q>>] = "none"]

\* channelLock.Lock, getConnection, the test of tryConn and, for a closed
\* connection, deleteChannel.
LockPool(w) ==
    LET i == RoundRobin(connectionIndex)
    IN  /\ wpc[w] = "push" /\ MayTry(w)
        /\ channelLock = NoWorker
        /\ channelLock' = w
        /\ connectionIndex' = i
        /\ idx' = [idx EXCEPT ![w] = i]
        /\ \/ /\ NeedsDial(i)
              /\ Goto(w, "dial")
              /\ channelPool' = WithoutChannel(i, queue[w])
           \/ /\ ~NeedsDial(i)
              /\ Goto(w, "channel")
              /\ UNCHANGED channelPool
        /\ UNCHANGED <<connUp, pushVars, ch, redialer>>

DialOk(w) ==
    /\ wpc[w] = "dial"
    /\ connUp' = [connUp EXCEPT ![idx[w]] = TRUE]
    /\ redialer' = [redialer EXCEPT ![idx[w]] = queue[w]]
    /\ Goto(w, "channel")
    /\ UNCHANGED <<channelPool, connectionIndex, channelLock, pushVars, idx, ch>>

\* tryConn calls itself, sleeps 2s and dials again, with the lock held.
DialError(w) ==
    /\ wpc[w] = "dial"
    /\ Goto(w, "backoff")
    /\ UNCHANGED <<poolVars, channelLock, pushVars, idx, ch, redialer>>

DialAgain(w) ==
    /\ wpc[w] = "backoff"
    /\ channelPool' = WithoutChannel(idx[w], queue[w])
    /\ Goto(w, "dial")
    /\ UNCHANGED <<connUp, connectionIndex, channelLock, pushVars, idx, ch, redialer>>

\* getChannelQueueReset (isReset is FALSE on every path: the outermost tryConn
\* returns its own tryStatus), then Unlock.  A cached channel is used as it is.
GetChannel(w) ==
    /\ wpc[w] = "channel"
    /\ \/ /\ channelPool[Key(w)] # "none"
          /\ UNCHANGED channelPool
       \/ /\ channelPool[Key(w)] = "none" /\ connUp[idx[w]]
          /\ channelPool' = [channelPool EXCEPT ![Key(w)] = "open"]
    /\ ch' = [ch EXCEPT ![w] = channelPool'[Key(w)]]
    /\ channelLock' = NoWorker
    /\ Goto(w, "publish")
    /\ UNCHANGED <<connUp, connectionIndex, pushVars, idx, redialer>>

\* The connection died since it was tested: Channel() fails, RCODE_GET_CHANNEL_ERROR.
ChannelError(w) ==
    /\ wpc[w] = "channel" /\ channelPool[Key(w)] = "none" /\ ~connUp[idx[w]]
    /\ channelLock' = NoWorker
    /\ Return(w, "error")
    /\ UNCHANGED <<poolVars, queue, ch, redialer>>

Publish(w) ==
    /\ wpc[w] = "publish" /\ ch[w] = "open"
    /\ ch' = [ch EXCEPT ![w] = "none"]
    /\ Return(w, "nil")
    /\ UNCHANGED <<poolVars, channelLock, queue, redialer>>

AfterFailure_Uncounted(n) == n
AfterFailure(n) == n + 1

\* Publish on a closed channel fails: sleep 2s, sendTime++, rPush again.
PublishError(w) ==
    /\ wpc[w] = "publish" /\ ch[w] = "closed"
    /\ ch' = [ch EXCEPT ![w] = "none"]
    /\ sendTime' = [sendTime EXCEPT ![w] = AfterFailure(@)]
    /\ idx' = [idx EXCEPT ![w] = 0]
    /\ Goto(w, "push")
    /\ UNCHANGED <<poolVars, channelLock, queue, result, loss, redialer>>

-----------------------------------------------------------------------------
(* The broker and the network (external).  While the broker is unreachable *)
(* dials fail; it may be so at any time.                                   *)

\* Connection i ends, and with it every channel created on it.  (A broker that
\* goes down ends them all, one by one: each has its own reader.)
ConnLost(i) ==
    /\ connUp[i]
    /\ connUp' = [connUp EXCEPT ![i] = FALSE]
    /\ channelPool' = [k \in Conns \X Queues |->
           IF k[1] = i /\ channelPool[k] = "open" THEN "closed" ELSE channelPool[k]]
    /\ ch' = [w \in Workers |-> IF idx[w] = i /\ ch[w] = "open" THEN "closed" ELSE ch[w]]
    /\ loss' = [w \in Workers |-> loss[w] \/ wpc[w] # "idle"]
    /\ UNCHANGED <<connectionIndex, channelLock, wpc, queue, sendTime, idx, result, redialer>>

-----------------------------------------------------------------------------
Step(w) ==
    \/ PushMaxError(w) \/ LockPool(w) \/ DialOk(w) \/ DialError(w) \/ DialAgain(w)
    \/ GetChannel(w) \/ ChannelError(w) \/ Publish(w) \/ PublishError(w)

Next ==
    \/ \E w \in Workers, q \in Queues : Push(w, q)
    \/ \E w \in Workers : Step(w)
    \/ \E i \in Conns : ConnLost(i)

Spec == Init /\ [][Next]_vars

\* Workers run; Go's mutex serves a waiter that starves; the broker is not
\* unreachable for ever: a dial repeated again and again succeeds.
Fairness ==
    \A w \in Workers :
        WF_vars(Step(w)) /\ SF_vars(LockPool(w) \/ DialOk(w))

FairSpec == Spec /\ Fairness

-----------------------------------------------------------------------------
(* Properties                                                              *)

\* Type correctness of the pool's state; sendTime never passes pushMaxTime.
TypeOK ==
    /\ connUp \in [Conns -> BOOLEAN]
    /\ channelPool \in [Conns \X Queues -> {"none", "open", "closed"}]
    /\ connectionIndex \in Conns
    /\ channelLock \in Workers \cup {NoWorker}
    /\ wpc \in [Workers -> Locked \cup {"idle", "push", "publish"}]
    /\ queue \in [Workers -> Queues]
    /\ sendTime \in [Workers -> 0 .. pushMaxTime]
    /\ idx \in [Workers -> Conns]
    /\ ch \in [Workers -> {"none", "open", "closed"}]
    /\ result \in [Workers -> {"none", "nil", "error"}]
    /\ loss \in [Workers -> BOOLEAN]
    /\ redialer \in [Conns -> Queues]

\* A connection that is up has a dead channel cached for this queue.
Stale(i, q) == connUp[i] /\ channelPool[<<i, q>>] = "closed"

\* tryConn drops the channel of the queue it reconnects for: while a connection
\* is up, a dead channel is cached only for queues other than the one whose
\* message dialled it last, whatever is lost before, during and after the dial.
ReconnectFreshForOwnQueue ==
    \A i \in Conns : ~Stale(i, redialer[i])

\* Push returns an error for a message only if a connection was lost while it
\* ran or a connection that is up holds a dead channel for the message's queue:
\* an unreachable broker alone delays messages and drops none.
DropHasCause ==
    [][\A w \in Workers :
         (result[w] = "none" /\ result'[w] = "error") =>
             loss[w] \/ \E i \in Conns : Stale(i, queue[w])]_vars

\* Every Push returns, given a broker that accepts connections again, although
\* connections come and go and whatever other workers run into: no path leaves
\* channelLock held, and the retries end.
PushReturns ==
    \A w \in Workers : (wpc[w] = "push") ~> (wpc[w] = "idle")

\* The comment on getChannelQueue: "every connection of the pool maintains a set
\* of channels".  So the channels cached for a connection that is up are alive.
ChannelsOfTheirConnection ==
    \A i \in Conns, q \in Queues : ~Stale(i, q)
=============================================================================
