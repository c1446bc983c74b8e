-------------------------- MODULE RabbitPoolProof ---------------------------
(***************************************************************************)
(* Theorems about both halves of the RabbitMQ pool: about RabbitPool, for  *)
(* any number of workers, queues, connections and attempts, and about the  *)
(* ConsumePool of MCRabbit, for any tasks, connections, failures and       *)
(* MaxReTry.                                                               *)
(*                                                                         *)
(* Why the producers' invariant is inductive: the worker that dials holds  *)
(* the lock, so nobody fills the cache entry it has emptied; and a dead    *)
(* channel of a live connection goes away only when that connection is     *)
(* lost, which every Push then running remembers in loss.                  *)
(***************************************************************************)
EXTENDS MCRabbit, TLAPS

\* A worker between Lock and Unlock is the one that holds the lock.
LockInv == \A w \in Workers : wpc[w] \in Locked => channelLock = w

\* An idle worker has no locals, only a publishing one has a channel, and an
\* attempt begins only while the Push may still try.
LocalInv ==
    \A w \in Workers :
        /\ wpc[w] = "idle" => sendTime[w] = 0 /\ ~loss[w]
        /\ wpc[w] # "publish" => ch[w] = "none"
        /\ wpc[w] \in Locked \cup {"publish"} => sendTime[w] < pushMaxTime

\* The worker that dials has removed the channel cached under its key.
DialInv ==
    \A w \in Workers : wpc[w] \in {"dial", "backoff"} => channelPool[Key(w)] = "none"

\* While a Push has lost no connection, the one it uses is up, and a failed
\* attempt or a dead channel in hand comes from a stale entry still there.
CauseInv ==
    \A w \in Workers : ~loss[w] =>
        /\ wpc[w] = "channel" => connUp[idx[w]]
        /\ (sendTime[w] > 0 \/ ch[w] = "closed") => \E i \in Conns : Stale(i, queue[w])

IInv == TypeOK /\ LockInv /\ LocalInv /\ DialInv /\ ReconnectFreshForOwnQueue /\ CauseInv

\* The round robin stays within the ring.
LEMMA RoundRobinInRing ==
    ASSUME NEW c \in Conns
    PROVE  RoundRobin(c) \in Conns
  BY MaxConnectionPositive DEF RoundRobin, Conns

LEMMA ZeroInRing == 0 \in Conns
  BY MaxConnectionPositive DEF Conns

LEMMA InitInv == Init => IInv
  <1> SUFFICES ASSUME Init PROVE IInv
    OBVIOUS
  <1>1. TypeOK
    BY ZeroInRing, PushMaxTimePositive DEF Init, TypeOK
  <1>2. LockInv /\ LocalInv /\ DialInv /\ CauseInv
    BY DEF Init, LockInv, LocalInv, DialInv, CauseInv, Locked
  <1>3. ReconnectFreshForOwnQueue
    BY DEF Init, ReconnectFreshForOwnQueue, Stale
  <1> QED BY <1>1, <1>2, <1>3 DEF IInv

LEMMA PushStep ==
    ASSUME IInv, NEW w \in Workers, NEW q \in Queues, Push(w, q)
    PROVE  IInv'
  <1> USE DEF IInv, Push, Goto, poolVars
  <1>1. TypeOK'
    BY DEF TypeOK
  <1>2. LockInv' /\ LocalInv'
    BY DEF TypeOK, LockInv, LocalInv, Locked
  <1>3. DialInv'
    BY DEF TypeOK, DialInv, Key
  <1>4. ReconnectFreshForOwnQueue'
    BY DEF ReconnectFreshForOwnQueue, Stale
  <1>5. CauseInv'
    <2> SUFFICES ASSUME NEW v \in Workers, ~loss'[v]
                 PROVE  /\ wpc'[v] = "channel" => connUp'[idx'[v]]
                        /\ (sendTime'[v] > 0 \/ ch'[v] = "closed") =>
                               \E i \in Conns : Stale(i, queue[v])'
      BY DEF CauseInv
    <2>1. CASE v = w
      BY <2>1 DEF TypeOK, LocalInv
    <2>2. CASE v # w
      BY <2>2 DEF TypeOK, CauseInv, Stale
    <2> QED BY <2>1, <2>2
  <1> QED BY <1>1, <1>2, <1>3, <1>4, <1>5

\* A Push that returns, with or without having held the lock, clears its locals.
LEMMA ReturnStep ==
    ASSUME IInv, NEW w \in Workers, PushMaxError(w) \/ ChannelError(w) \/ Publish(w)
    PROVE  IInv'
  <1>1. /\ wpc' = [wpc EXCEPT ![w] = "idle"] /\ sendTime' = [sendTime EXCEPT ![w] = 0]
        /\ idx' = [idx EXCEPT ![w] = 0] /\ loss' = [loss EXCEPT ![w] = FALSE]
        /\ result' \in {[result EXCEPT ![w] = r] : r \in {"nil", "error"}}
        /\ ch' \in {ch, [ch EXCEPT ![w] = "none"]} /\ ch'[w] = "none"
        /\ UNCHANGED <<connUp, channelPool, connectionIndex, queue, redialer>>
    <2>1. CASE PushMaxError(w)
      BY <2>1 DEF PushMaxError, Return, Goto, poolVars, IInv, LocalInv
    <2>2. CASE ChannelError(w)
      BY <2>2 DEF ChannelError, Return, Goto, poolVars, IInv, LocalInv
    <2>3. CASE Publish(w)
      BY <2>3 DEF Publish, Return, Goto, poolVars, IInv, TypeOK
    <2> QED BY <2>1, <2>2, <2>3
  <1>2. channelLock' \in {channelLock, NoWorker}
        /\ (channelLock' # channelLock => wpc[w] \in Locked)
    BY DEF PushMaxError, ChannelError, Publish, Locked
  <1>3. TypeOK'
    BY <1>1, <1>2, ZeroInRing, PushMaxTimePositive DEF IInv, TypeOK
  <1>4. LockInv'
    BY <1>1, <1>2 DEF IInv, LockInv, TypeOK, Locked
  <1>5. LocalInv'
    BY <1>1 DEF IInv, LocalInv, TypeOK, Locked
  <1>6. DialInv'
    BY <1>1 DEF IInv, DialInv, TypeOK, Key
  <1>7. ReconnectFreshForOwnQueue'
    BY <1>1 DEF IInv, ReconnectFreshForOwnQueue, Stale
  <1>8. CauseInv'
    <2> SUFFICES ASSUME NEW v \in Workers, ~loss'[v]
                 PROVE  /\ wpc'[v] = "channel" => connUp'[idx'[v]]
                        /\ (sendTime'[v] > 0 \/ ch'[v] = "closed") =>
                               \E i \in Conns : Stale(i, queue[v])'
      BY DEF CauseInv
    <2>1. CASE v = w
      BY <1>1, <2>1 DEF IInv, TypeOK
    <2>2. CASE v # w
      <3>1. wpc'[v] = wpc[v] /\ idx'[v] = idx[v] /\ sendTime'[v] = sendTime[v]
            /\ ch'[v] = ch[v] /\ ~loss[v]
        BY <1>1, <2>2 DEF IInv, TypeOK
      <3> QED BY <1>1, <3>1 DEF IInv, CauseInv, Stale
    <2> QED BY <2>1, <2>2
  <1> QED BY <1>3, <1>4, <1>5, <1>6, <1>7, <1>8 DEF IInv

\* A dead connection is the only one whose cache entry is emptied, so no stale
\* entry of a live one disappears.
LEMMA LockPoolStep ==
    ASSUME IInv, NEW w \in Workers, LockPool(w)
    PROVE  IInv'
  <1> DEFINE i == RoundRobin(connectionIndex)
  <1>1. i \in Conns
    BY RoundRobinInRing DEF IInv, TypeOK
  <1>2. /\ wpc[w] = "push" /\ channelLock = NoWorker /\ channelLock' = w
        /\ connectionIndex' = i /\ idx' = [idx EXCEPT ![w] = i]
        /\ \/ ~connUp[i] /\ wpc' = [wpc EXCEPT ![w] = "dial"]
              /\ channelPool' = [channelPool EXCEPT ![<<i, queue[w]>>] = "none"]
           \/ connUp[i] /\ wpc' = [wpc EXCEPT ![w] = "channel"] /\ channelPool' = channelPool
        /\ UNCHANGED <<connUp, queue, sendTime, result, loss, ch, redialer>>
    BY DEF LockPool, NeedsDial, WithoutChannel, Goto, pushVars
  <1>0. sendTime[w] < pushMaxTime
    BY DEF LockPool, MayTry
  <1> HIDE DEF i
  <1>3. TypeOK'
    BY <1>1, <1>2 DEF IInv, TypeOK, Locked
  <1>4. \A v \in Workers : v # w => wpc[v] \notin Locked
    BY <1>2, NoWorkerFresh DEF IInv, LockInv
  <1>5. LockInv' /\ LocalInv'
    BY <1>0, <1>2, <1>4 DEF IInv, TypeOK, LockInv, LocalInv, Locked
  <1>6. DialInv'
    <2> SUFFICES ASSUME NEW v \in Workers, wpc'[v] \in {"dial", "backoff"}
                 PROVE  channelPool'[<<idx'[v], queue'[v]>>] = "none"
      BY DEF DialInv, Key
    <2>1. v = w /\ wpc'[w] = "dial"
      BY <1>2, <1>4 DEF IInv, TypeOK, Locked
    <2>2. <<i, queue[w]>> \in Conns \X Queues /\ idx'[w] = i
      BY <1>1, <1>2 DEF IInv, TypeOK
    <2> QED BY <1>2, <2>1, <2>2 DEF IInv, TypeOK
  <1>7. \A j \in Conns, q \in Queues : Stale(j, q)' <=> Stale(j, q)
    BY <1>1, <1>2 DEF IInv, TypeOK, Stale
  <1>8. ReconnectFreshForOwnQueue'
    BY <1>2, <1>7 DEF IInv, TypeOK, ReconnectFreshForOwnQueue
  <1>9. CauseInv'
    BY <1>1, <1>2, <1>4, <1>7 DEF IInv, TypeOK, CauseInv, Locked
  <1> QED BY <1>3, <1>5, <1>6, <1>8, <1>9 DEF IInv

LEMMA DialStep ==
    ASSUME IInv, NEW w \in Workers, DialOk(w) \/ DialError(w) \/ DialAgain(w)
    PROVE  IInv'
  <1>1. wpc[w] \in {"dial", "backoff"} /\ channelPool[Key(w)] = "none" /\ Key(w) \in Conns \X Queues
    BY DEF DialOk, DialError, DialAgain, IInv, TypeOK, DialInv, Key
  <1>2. UNCHANGED <<channelPool, connectionIndex, channelLock, queue, sendTime, result, loss, idx, ch>>
    <2>1. CASE DialOk(w)
      BY <2>1 DEF DialOk, pushVars
    <2>2. CASE DialError(w)
      BY <2>2 DEF DialError, pushVars, poolVars
    <2>3. CASE DialAgain(w)
      <3>1. [channelPool EXCEPT ![<<idx[w], queue[w]>>] = "none"] = channelPool
        BY <1>1 DEF Key, IInv, TypeOK
      <3> QED BY <2>3, <3>1 DEF DialAgain, WithoutChannel, pushVars
    <2> QED BY <2>1, <2>2, <2>3
  <1>3. \/ /\ connUp' = [connUp EXCEPT ![idx[w]] = TRUE]
           /\ redialer' = [redialer EXCEPT ![idx[w]] = queue[w]]
           /\ wpc' = [wpc EXCEPT ![w] = "channel"]
        \/ /\ UNCHANGED <<connUp, redialer>>
           /\ wpc' \in {[wpc EXCEPT ![w] = l] : l \in {"dial", "backoff"}}
    <2>1. CASE DialOk(w)
      BY <2>1 DEF DialOk, Goto
    <2>2. CASE DialError(w)
      BY <2>2 DEF DialError, Goto, poolVars
    <2>3. CASE DialAgain(w)
      BY <2>3 DEF DialAgain, Goto
    <2> QED BY <2>1, <2>2, <2>3
  <1>4. TypeOK'
    <2>1. wpc' \in [Workers -> Locked \cup {"idle", "push", "publish"}]
      BY <1>3 DEF IInv, TypeOK, Locked
    <2>2. connUp' \in [Conns -> BOOLEAN]
      <3>1. \A b \in BOOLEAN : [connUp EXCEPT ![idx[w]] = b] \in [Conns -> BOOLEAN]
        BY Zenon DEF IInv, TypeOK
      <3>2. connUp' = [connUp EXCEPT ![idx[w]] = TRUE] \/ connUp' = connUp
        BY <1>3
      <3> QED BY <3>1, <3>2, Zenon DEF IInv, TypeOK
    <2>3. redialer' \in [Conns -> Queues]
      BY <1>3 DEF IInv, TypeOK
    <2> QED BY <1>2, <2>1, <2>2, <2>3 DEF IInv, TypeOK
  <1>5. LockInv' /\ LocalInv' /\ DialInv'
    BY <1>1, <1>2, <1>3 DEF IInv, TypeOK, LockInv, LocalInv, DialInv, Locked, Key
  <1>6. ReconnectFreshForOwnQueue'
    BY <1>1, <1>2, <1>3 DEF IInv, TypeOK, ReconnectFreshForOwnQueue, Stale, Key
  <1>7. \A j \in Conns, q \in Queues : Stale(j, q) => Stale(j, q)'
    BY <1>2, <1>3 DEF IInv, TypeOK, Stale
  <1>8. CauseInv'
    BY <1>2, <1>3, <1>7 DEF IInv, TypeOK, CauseInv
  <1> QED BY <1>4, <1>5, <1>6, <1>8 DEF IInv

\* A dead channel taken from the cache of a live connection is a stale entry.
LEMMA GetChannelStep ==
    ASSUME IInv, NEW w \in Workers, GetChannel(w)
    PROVE  IInv'
  <1>1. Key(w) \in Conns \X Queues /\ Key(w) = <<idx[w], queue[w]>>
    BY DEF IInv, TypeOK, Key
  <1>2. /\ wpc[w] = "channel" /\ wpc' = [wpc EXCEPT ![w] = "publish"]
        /\ channelLock' = NoWorker
        /\ ch' = [ch EXCEPT ![w] = channelPool'[Key(w)]]
        /\ \/ channelPool[Key(w)] # "none" /\ channelPool' = channelPool
           \/ channelPool[Key(w)] = "none" /\ channelPool' = [channelPool EXCEPT ![Key(w)] = "open"]
        /\ UNCHANGED <<connUp, connectionIndex, queue, sendTime, result, loss, idx, redialer>>
    BY DEF GetChannel, Goto, pushVars
  <1>3. TypeOK'
    BY <1>1, <1>2 DEF IInv, TypeOK
  <1>4. \A v \in Workers : v # w => wpc[v] \notin Locked
    BY <1>2 DEF IInv, LockInv, Locked
  <1>5. LockInv' /\ LocalInv' /\ DialInv'
    BY <1>2, <1>4 DEF IInv, TypeOK, LockInv, LocalInv, DialInv, Locked
  <1>6. \A j \in Conns, q \in Queues : Stale(j, q)' <=> Stale(j, q)
    BY <1>1, <1>2 DEF IInv, TypeOK, Stale
  <1>7. ReconnectFreshForOwnQueue'
    BY <1>2, <1>6 DEF IInv, TypeOK, ReconnectFreshForOwnQueue
  <1>8. ~loss[w] /\ ch'[w] = "closed" => Stale(idx[w], queue[w])
    BY <1>1, <1>2 DEF IInv, TypeOK, CauseInv, Stale
  <1>9. CauseInv'
    BY <1>2, <1>4, <1>6, <1>8 DEF IInv, TypeOK, CauseInv, Locked
  <1> QED BY <1>3, <1>5, <1>7, <1>9 DEF IInv

\* The failed attempt counts, and the dead channel it used is a cause.
LEMMA PublishErrorStep ==
    ASSUME IInv, NEW w \in Workers, PublishError(w)
    PROVE  IInv'
  <1>1. /\ wpc[w] = "publish" /\ ch[w] = "closed" /\ wpc' = [wpc EXCEPT ![w] = "push"]
        /\ ch' = [ch EXCEPT ![w] = "none"] /\ idx' = [idx EXCEPT ![w] = 0]
        /\ sendTime' = [sendTime EXCEPT ![w] = sendTime[w] + 1]
        /\ UNCHANGED <<connUp, channelPool, connectionIndex, channelLock, queue, result, loss, redialer>>
    BY DEF PublishError, AfterFailure, Goto, poolVars
  <1>2. sendTime[w] \in Nat /\ sendTime[w] < pushMaxTime
    BY <1>1 DEF IInv, TypeOK, LocalInv
  <1>3. TypeOK'
    <2>1. sendTime' \in [Workers -> 0 .. pushMaxTime]
      BY <1>1, <1>2, PushMaxTimePositive DEF IInv, TypeOK
    <2> QED BY <1>1, <2>1, ZeroInRing DEF IInv, TypeOK
  <1>4. LockInv' /\ LocalInv' /\ DialInv'
    BY <1>1 DEF IInv, TypeOK, LockInv, LocalInv, DialInv, Locked, Key
  <1>5. ReconnectFreshForOwnQueue'
    BY <1>1 DEF IInv, ReconnectFreshForOwnQueue, Stale
  <1>6. CauseInv'
    BY <1>1 DEF IInv, TypeOK, CauseInv, Stale
  <1> QED BY <1>3, <1>4, <1>5, <1>6 DEF IInv

LEMMA ConnLostStep ==
    ASSUME IInv, NEW i \in Conns, ConnLost(i)
    PROVE  IInv'
  <1> USE DEF IInv, ConnLost
  <1>1. TypeOK'
    BY DEF TypeOK
  <1>2. LockInv'
    BY DEF LockInv
  <1>3. LocalInv'
    BY DEF TypeOK, LocalInv
  <1>4. DialInv'
    BY DEF TypeOK, DialInv, Key
  <1>5. ReconnectFreshForOwnQueue'
    BY DEF TypeOK, ReconnectFreshForOwnQueue, Stale
  <1>6. CauseInv'
    BY DEF TypeOK, CauseInv, LocalInv
  <1> QED BY <1>1, <1>2, <1>3, <1>4, <1>5, <1>6

-----------------------------------------------------------------------------
LEMMA NextInv == IInv /\ [Next]_vars => IInv'
  <1> SUFFICES ASSUME IInv, [Next]_vars PROVE IInv'
    OBVIOUS
  <1>1. CASE UNCHANGED vars
    BY <1>1 DEF IInv, vars, poolVars, pushVars, TypeOK, LockInv, LocalInv, DialInv,
                Key, ReconnectFreshForOwnQueue, CauseInv, Stale
  <1>2. ASSUME NEW w \in Workers, NEW q \in Queues, Push(w, q) PROVE IInv'
    BY <1>2, PushStep
  <1>3. ASSUME NEW w \in Workers, Step(w) PROVE IInv'
    BY <1>3, ReturnStep, LockPoolStep, DialStep, GetChannelStep, PublishErrorStep DEF Step
  <1>4. ASSUME NEW i \in Conns, ConnLost(i) PROVE IInv'
    BY <1>4, ConnLostStep
  <1> QED BY <1>1, <1>2, <1>3, <1>4 DEF Next

\* The invariant of the pool and the Pushes that run.
THEOREM PoolInductive == Spec => []IInv
  BY InitInv, NextInv, PTL DEF Spec

\* The pool's state is well typed: no Push tries more than pushMaxTime times.
THEOREM PoolTyped == Spec => []TypeOK
  <1>1. IInv => TypeOK
    BY DEF IInv
  <1> QED BY <1>1, PoolInductive, PTL

\* Reconnecting leaves no dead channel behind for the queue that reconnected.
THEOREM ReconnectFresh == Spec => []ReconnectFreshForOwnQueue
  <1>1. IInv => ReconnectFreshForOwnQueue
    BY DEF IInv
  <1> QED BY <1>1, PoolInductive, PTL

\* A step that ends a Push with an error has a cause.
DropStep ==
    \A w \in Workers :
        (result[w] = "none" /\ result'[w] = "error") =>
            loss[w] \/ \E i \in Conns : Stale(i, queue[w])

LEMMA ErrorHasCause == IInv /\ [Next]_vars => DropStep
  <1> SUFFICES ASSUME IInv, [Next]_vars, NEW w \in Workers,
                      result[w] = "none", result'[w] = "error"
               PROVE  loss[w] \/ \E i \in Conns : Stale(i, queue[w])
    BY DEF DropStep
  <1>1. PICK v \in Workers : PushMaxError(v) \/ ChannelError(v) \/ Publish(v)
        \/ \E q \in Queues : Push(v, q)
    BY DEF Next, Step, vars, pushVars, LockPool, DialOk, DialError, DialAgain,
           GetChannel, PublishError, ConnLost
  <1>2. v = w /\ (PushMaxError(w) \/ ChannelError(w))
    BY <1>1 DEF PushMaxError, ChannelError, Publish, Push, Return, IInv, TypeOK
  <1>3. CASE PushMaxError(w)
    <2>1. sendTime[w] > 0
      BY <1>3, PushMaxTimePositive DEF PushMaxError, MayTry, IInv, TypeOK
    <2> QED BY <2>1 DEF IInv, CauseInv
  <1>4. CASE ChannelError(w)
    BY <1>4 DEF ChannelError, IInv, CauseInv
  <1> QED BY <1>2, <1>3, <1>4

\* A message is dropped only after a loss or on account of a stale channel.
THEOREM DropsExplained == Spec => DropHasCause
  <1>1. IInv /\ [Next]_vars => [DropStep]_vars
    BY ErrorHasCause
  <1>2. [][DropStep]_vars <=> DropHasCause
    BY DEF DropStep, DropHasCause
  <1> QED BY <1>1, <1>2, PoolInductive, PTL DEF Spec

\* Whoever holds channelLock stands between Lock and Unlock.
HolderAtWork == channelLock # NoWorker => wpc[channelLock] \in Locked

LEMMA HolderStep ==
    ASSUME IInv, HolderAtWork, [Next]_vars
    PROVE  HolderAtWork'
  <1>1. CASE UNCHANGED vars
    BY <1>1 DEF vars, HolderAtWork
  <1>2. ASSUME NEW w \in Workers, NEW q \in Queues, Push(w, q)
        PROVE  HolderAtWork'
    BY <1>2 DEF Push, Goto, HolderAtWork, IInv, TypeOK, Locked
  <1>3. ASSUME NEW w \in Workers, PushMaxError(w) \/ Publish(w) \/ PublishError(w)
        PROVE  HolderAtWork'
    <2>1. /\ wpc[w] \notin Locked /\ channelLock' = channelLock
          /\ \E l \in {"idle", "push"} : wpc' = [wpc EXCEPT ![w] = l]
      BY <1>3 DEF PushMaxError, Publish, PublishError, Return, Goto, Locked
    <2> QED BY <2>1 DEF HolderAtWork, IInv, TypeOK
  <1>4. ASSUME NEW w \in Workers, DialOk(w) \/ DialError(w) \/ DialAgain(w)
        PROVE  HolderAtWork'
    <2>1. /\ channelLock' = channelLock
          /\ \E l \in Locked : wpc' = [wpc EXCEPT ![w] = l]
      BY <1>4 DEF DialOk, DialError, DialAgain, Goto, Locked
    <2> QED BY <2>1 DEF HolderAtWork, IInv, TypeOK
  <1>5. ASSUME NEW w \in Workers, LockPool(w)
        PROVE  HolderAtWork'
    <2>1. channelLock' = w /\ \E l \in Locked : wpc' = [wpc EXCEPT ![w] = l]
      BY <1>5 DEF LockPool, Goto, Locked
    <2> QED BY <2>1 DEF HolderAtWork, IInv, TypeOK
  <1>6. ASSUME NEW w \in Workers, GetChannel(w) \/ ChannelError(w)
        PROVE  HolderAtWork'
    BY <1>6 DEF GetChannel, ChannelError, HolderAtWork
  <1>7. ASSUME NEW i \in Conns, ConnLost(i)
        PROVE  HolderAtWork'
    BY <1>7 DEF ConnLost, HolderAtWork
  <1> QED BY <1>1, <1>2, <1>3, <1>4, <1>5, <1>6, <1>7 DEF Next, Step

\* No way out of rPush, by an error, a return or another attempt, keeps
\* channelLock: what PushReturns needs of the states, for any handlers.
THEOREM NobodyKeepsTheLock == Spec => []HolderAtWork
  <1>1. Init => HolderAtWork
    BY DEF Init, HolderAtWork
  <1> QED BY <1>1, HolderStep, PoolInductive, PTL DEF Spec

-----------------------------------------------------------------------------
(* The consuming half, for any tasks, connections and failures.            *)

Stages == {"start", "declare", "consume", "callback", "signal", "send", "sent", "end"}
Started == Consumer!Started

\* The header of the message counts its publications and the one under way, while
\* no callback publishes it itself.
HeaderCounts ==
    "push" \notin Callback => retryNums = IF msg = "retry" THEN retries + 1 ELSE retries

\* The count starts at 0 and is raised only to stay below MaxReTry.
CountBelowMax == retryNums = 0 \/ retryNums < MaxReTry

\* One task at a time has the message.
RetryInv ==
    /\ retries \in Nat /\ retryNums \in Nat /\ CountBelowMax
    /\ HeaderCounts
    /\ \A t \in Started : tasks[t] = "callback" =>
           msg = "task" /\ \A u \in Started : tasks[u] = "callback" => u = t

\* The task that has statusLock is about to send its signal or has sent it; while
\* the pool reconnects and nobody has the lock the failure is known, so that no
\* task takes it.
SignalInv ==
    /\ statusLock \in Started \cup {0}
    /\ \A t \in Started : tasks[t] \in {"send", "sent"} <=> statusLock = t
    /\ \A t \in Started : tasks[t] = "sent" => monitor = "mark"
    /\ monitor \in {"mark", "dial"} =>
           IF statusLock = 0 THEN status ELSE tasks[statusLock] = "sent"

ConsumeInv == tasks \in Seq(Stages) /\ RetryInv /\ SignalInv

LEMMA InitConsume == Consumer!Init => ConsumeInv
  <1> SUFFICES ASSUME Consumer!Init PROVE ConsumeInv
    OBVIOUS
  <1>1. tasks = <<>> /\ Started = {}
    BY DEF Consumer!Init, Started, Consumer!Started
  <1> QED BY <1>1, ConsumerSettings
          DEF Consumer!Init, ConsumeInv, RetryInv, HeaderCounts, CountBelowMax, SignalInv

\* One task moves on: the others stand where they stood.
LEMMA TaskMoves ==
    ASSUME tasks \in Seq(Stages), NEW t \in Started, NEW l \in Stages,
           tasks' = [tasks EXCEPT ![t] = l]
    PROVE  /\ tasks' \in Seq(Stages) /\ Started' = Started /\ t \in Nat /\ t # 0
           /\ tasks'[t] = l /\ \A u \in Started : u # t => tasks'[u] = tasks[u]
  BY DEF Started, Consumer!Started

\* rConsume starts its tasks beside those that still run.
LEMMA TasksJoin ==
    ASSUME tasks \in Seq(Stages), tasks' = tasks \o Consumer!Fresh("start")
    PROVE  /\ tasks' \in Seq(Stages) /\ Started \subseteq Started' /\ 0 \notin Started'
           /\ \A u \in Started : tasks'[u] = tasks[u]
           /\ \A u \in Started' \ Started : tasks'[u] = "start"
  <1> DEFINE f == Consumer!Fresh("start")
  <1>1. f \in Seq(Stages) /\ Len(f) = consumeMaxChannel /\ \A i \in 1..Len(f) : f[i] = "start"
    BY ConsumerSettings DEF Consumer!Fresh, Stages
  <1> HIDE DEF f
  <1>2. PICK n \in Nat, m \in Nat : n = Len(tasks) /\ m = Len(f)
    BY <1>1
  <1>3. /\ tasks' \in Seq(Stages) /\ Len(tasks') = n + m
        /\ \A u \in 1..(n + m) : tasks'[u] = IF u <= n THEN tasks[u] ELSE f[u - n]
    BY <1>1, <1>2 DEF f
  <1>4. Started = 1..n /\ Started' = 1..(n + m)
    BY <1>2, <1>3 DEF Started, Consumer!Started
  <1> QED BY <1>1, <1>2, <1>3, <1>4

-----------------------------------------------------------------------------
\* What a step may do to the tasks, the message and the lock.
QuietTask(t) ==
    /\ tasks[t] \in {"start", "declare", "consume", "signal"}
    /\ \E l \in {"declare", "consume", "signal", "end"} : tasks' = [tasks EXCEPT ![t] = l]
    /\ UNCHANGED <<msg, retryNums, retries, status, statusLock, monitor>>

LEMMA QuietTasks ==
    ASSUME NEW t \in Started,
           \/ Consumer!TaskStart(t) \/ Consumer!TaskDeclare(t)
           \/ Consumer!Notified(t) \/ Consumer!SignalKnown(t)
    PROVE  QuietTask(t)
  BY DEF QuietTask, Consumer!TaskStart, Consumer!TaskDeclare, Consumer!Notified,
         Consumer!SignalKnown, Consumer!CloseShared, Consumer!Task, Consumer!signalVars,
         Consumer!msgVars

LEMMA QuietStep ==
    ASSUME ConsumeInv, NEW t \in Started, QuietTask(t)
    PROVE  ConsumeInv'
  <1>1. PICK l \in {"declare", "consume", "signal", "end"} : tasks' = [tasks EXCEPT ![t] = l]
    BY DEF QuietTask
  <1>2. /\ tasks' \in Seq(Stages) /\ Started' = Started /\ t \in Nat /\ t # 0
        /\ tasks'[t] = l /\ \A u \in Started : u # t => tasks'[u] = tasks[u]
    BY <1>1, TaskMoves DEF ConsumeInv, Stages
  <1>3. RetryInv'
    BY <1>2 DEF QuietTask, ConsumeInv, RetryInv, HeaderCounts, CountBelowMax
  <1>4. SignalInv'
    BY <1>2 DEF QuietTask, ConsumeInv, SignalInv
  <1> QED BY <1>2, <1>3, <1>4 DEF ConsumeInv

LEMMA TakeMessageStep ==
    ASSUME ConsumeInv, NEW t \in Started, Consumer!Take(t)
    PROVE  ConsumeInv'
  <1>1. /\ tasks[t] = "consume" /\ tasks' = [tasks EXCEPT ![t] = "callback"]
        /\ msg = "queue" /\ msg' = "task"
        /\ UNCHANGED <<retryNums, retries, status, statusLock, monitor>>
    BY DEF Consumer!Take, Consumer!Task, Consumer!signalVars
  <1>2. /\ tasks' \in Seq(Stages) /\ Started' = Started /\ t \in Nat /\ t # 0
        /\ tasks'[t] = "callback" /\ \A u \in Started : u # t => tasks'[u] = tasks[u]
    BY <1>1, TaskMoves DEF ConsumeInv, Stages
  <1>3. RetryInv'
    BY <1>1, <1>2 DEF ConsumeInv, RetryInv, HeaderCounts, CountBelowMax
  <1>4. SignalInv'
    BY <1>1, <1>2 DEF ConsumeInv, SignalInv
  <1> QED BY <1>2, <1>3, <1>4 DEF ConsumeInv

\* The count is below the limit before the message is published again.
LEMMA CallbackStep ==
    ASSUME ConsumeInv, NEW t \in Started, Consumer!CallbackReturns(t)
    PROVE  ConsumeInv'
  <1>1. /\ tasks[t] = "callback" /\ tasks' = [tasks EXCEPT ![t] = "consume"]
        /\ UNCHANGED <<status, statusLock, monitor>>
        /\ \/ /\ retryNums + 1 < MaxReTry
              /\ msg' = "retry" /\ retries' = retries
              /\ \/ retryNums' = retryNums + 1
                 \/ retryNums' = retryNums /\ "push" \in Callback
           \/ msg' = "gone" /\ retryNums' = 0 /\ retries' = 0
    BY ConsumerSettings DEF Consumer!CallbackReturns, Consumer!Task, Consumer!signalVars,
       Consumer!Forgotten, Consumer!MayRetry
  <1>2. /\ tasks' \in Seq(Stages) /\ Started' = Started /\ t \in Nat /\ t # 0
        /\ tasks'[t] = "consume" /\ \A u \in Started : u # t => tasks'[u] = tasks[u]
    BY <1>1, TaskMoves DEF ConsumeInv, Stages
  <1>3. msg = "task" /\ \A u \in Started : tasks'[u] # "callback"
    BY <1>1, <1>2 DEF ConsumeInv, RetryInv
  <1>4. retries' \in Nat /\ retryNums' \in Nat /\ CountBelowMax' /\ HeaderCounts'
    <2>1. PICK n \in Nat, k \in Nat :
              n = retryNums /\ k = retries /\ ("push" \notin Callback => n = k)
      BY <1>3 DEF ConsumeInv, RetryInv, HeaderCounts, CountBelowMax
    <2>2. CASE n + 1 < MaxReTry /\ msg' = "retry" /\ retries' = k /\ retryNums' = n + 1
      BY <2>1, <2>2, ConsumerSettings DEF HeaderCounts, CountBelowMax
    <2>3. CASE /\ n + 1 < MaxReTry /\ msg' = "retry" /\ retries' = k /\ retryNums' = n
               /\ "push" \in Callback
      BY <2>3, ConsumerSettings DEF HeaderCounts, CountBelowMax
    <2>4. CASE msg' = "gone" /\ retryNums' = 0 /\ retries' = 0
      BY <2>4, ConsumerSettings DEF HeaderCounts, CountBelowMax
    <2> QED BY <1>1, <2>1, <2>2, <2>3, <2>4
  <1>5. RetryInv'
    BY <1>2, <1>3, <1>4 DEF RetryInv
  <1>6. SignalInv'
    BY <1>1, <1>2 DEF ConsumeInv, SignalInv
  <1> QED BY <1>2, <1>5, <1>6 DEF ConsumeInv

LEMMA PublishAgainStep ==
    ASSUME ConsumeInv, Consumer!PublishAgain
    PROVE  ConsumeInv'
  <1>1. /\ msg = "retry" /\ UNCHANGED <<tasks, status, statusLock, monitor>>
        /\ \/ msg' = "queue" /\ retries' = retries + 1 /\ retryNums' = retryNums
           \/ msg' = "gone" /\ retryNums' = 0 /\ retries' = 0
    BY DEF Consumer!PublishAgain, Consumer!taskVars, Consumer!signalVars, Consumer!Forgotten
  <1>2. Started' = Started /\ \A u \in Started : tasks[u] # "callback"
    BY <1>1 DEF ConsumeInv, RetryInv, Started, Consumer!Started
  <1>3. retries' \in Nat /\ retryNums' \in Nat /\ CountBelowMax' /\ HeaderCounts'
    <2>1. PICK n \in Nat, k \in Nat :
              n = retryNums /\ k = retries /\ ("push" \notin Callback => n = k + 1)
      BY <1>1 DEF ConsumeInv, RetryInv, HeaderCounts, CountBelowMax
    <2>2. CASE msg' = "queue" /\ retries' = k + 1 /\ retryNums' = n
      BY <2>1, <2>2 DEF ConsumeInv, RetryInv, HeaderCounts, CountBelowMax
    <2>3. CASE msg' = "gone" /\ retryNums' = 0 /\ retries' = 0
      BY <2>3, ConsumerSettings DEF HeaderCounts, CountBelowMax
    <2> QED BY <1>1, <2>1, <2>2, <2>3
  <1>4. RetryInv' /\ SignalInv' /\ tasks' \in Seq(Stages)
    BY <1>1, <1>2, <1>3 DEF ConsumeInv, RetryInv, HeaderCounts, CountBelowMax, SignalInv
  <1> QED BY <1>4 DEF ConsumeInv

-----------------------------------------------------------------------------
(* The failure signal.                                                     *)

LEMMA SignalLockStep ==
    ASSUME ConsumeInv, NEW t \in Started, Consumer!SignalLock(t)
    PROVE  ConsumeInv'
  <1>1. /\ tasks[t] = "signal" /\ tasks' = [tasks EXCEPT ![t] = "send"]
        /\ statusLock = 0 /\ ~status /\ statusLock' = t
        /\ UNCHANGED <<msg, retryNums, retries, status, monitor>>
    BY DEF Consumer!SignalLock, Consumer!Signalled, Consumer!Task, Consumer!msgVars
  <1>2. /\ tasks' \in Seq(Stages) /\ Started' = Started /\ t \in Nat /\ t # 0
        /\ tasks'[t] = "send" /\ \A u \in Started : u # t => tasks'[u] = tasks[u]
    BY <1>1, TaskMoves DEF ConsumeInv, Stages
  <1>3. RetryInv'
    BY <1>1, <1>2 DEF ConsumeInv, RetryInv, HeaderCounts, CountBelowMax
  <1>4. monitor \notin {"mark", "dial"}
    BY <1>1 DEF ConsumeInv, SignalInv
  <1>5. \A u \in Started : tasks'[u] \in {"send", "sent"} <=> u = t
    <2>1. 0 \notin Started
      BY DEF Started, Consumer!Started
    <2> QED BY <1>1, <1>2, <2>1 DEF ConsumeInv, SignalInv
  <1>6. \A u \in Started : tasks'[u] # "sent"
    BY <1>1, <1>2, <1>4 DEF ConsumeInv, SignalInv
  <1>7. SignalInv'
    BY <1>1, <1>2, <1>4, <1>5, <1>6 DEF SignalInv
  <1> QED BY <1>2, <1>3, <1>7 DEF ConsumeInv

LEMMA SignalSentStep ==
    ASSUME ConsumeInv, NEW t \in Started, Consumer!SignalSent(t)
    PROVE  ConsumeInv'
  <1>1. /\ tasks[t] = "sent" /\ tasks' = [tasks EXCEPT ![t] = "end"]
        /\ statusLock' = 0 /\ status' = TRUE
        /\ UNCHANGED <<msg, retryNums, retries, monitor>>
    BY DEF Consumer!SignalSent, Consumer!CloseShared, Consumer!Task, Consumer!msgVars
  <1>2. /\ tasks' \in Seq(Stages) /\ Started' = Started /\ t \in Nat /\ t # 0
        /\ tasks'[t] = "end" /\ \A u \in Started : u # t => tasks'[u] = tasks[u]
    BY <1>1, TaskMoves DEF ConsumeInv, Stages
  <1>3. RetryInv'
    BY <1>1, <1>2 DEF ConsumeInv, RetryInv, HeaderCounts, CountBelowMax
  <1>4. 0 \notin Started
    BY DEF Started, Consumer!Started
  <1>5. SignalInv'
    BY <1>1, <1>2, <1>4 DEF ConsumeInv, SignalInv
  <1> QED BY <1>2, <1>3, <1>5 DEF ConsumeInv

LEMMA ReceiveStep ==
    ASSUME ConsumeInv, NEW t \in Started, Consumer!Receive(t)
    PROVE  ConsumeInv'
  <1>1. /\ tasks[t] = "send" /\ tasks' = [tasks EXCEPT ![t] = "sent"]
        /\ monitor = "listen" /\ monitor' = "mark"
        /\ UNCHANGED <<msg, retryNums, retries, status, statusLock>>
    BY DEF Consumer!Receive, Consumer!Monitor, Consumer!signalVars, Consumer!msgVars
  <1>2. /\ tasks' \in Seq(Stages) /\ Started' = Started /\ t \in Nat /\ t # 0
        /\ tasks'[t] = "sent" /\ \A u \in Started : u # t => tasks'[u] = tasks[u]
    BY <1>1, TaskMoves DEF ConsumeInv, Stages
  <1>3. RetryInv'
    BY <1>1, <1>2 DEF ConsumeInv, RetryInv, HeaderCounts, CountBelowMax
  <1>4. SignalInv'
    BY <1>1, <1>2 DEF ConsumeInv, SignalInv
  <1> QED BY <1>2, <1>3, <1>4 DEF ConsumeInv

\* The receiver's other steps, and those of the surroundings, move no task.
LEMMA ReconnectStep ==
    ASSUME ConsumeInv, UNCHANGED <<tasks, msg, retryNums, retries, statusLock>>,
           \/ Consumer!Mark \/ Consumer!Redial \/ Consumer!Connect
           \/ UNCHANGED <<status, monitor>>
    PROVE  ConsumeInv'
  <1>1. Started' = Started
    BY DEF Started, Consumer!Started
  <1>2. \/ monitor = "mark" /\ statusLock = 0 /\ monitor' = "dial" /\ status' = TRUE
        \/ monitor = "dial" /\ statusLock = 0 /\ monitor' = "connect"
        \/ monitor = "connect" /\ monitor' = "start"
        \/ UNCHANGED <<status, monitor>>
    BY DEF Consumer!Mark, Consumer!Redial, Consumer!Connect, Consumer!Monitor
  <1>3. \A t \in Started : tasks[t] = "sent" => statusLock = t /\ t # 0
    BY DEF ConsumeInv, SignalInv, Started, Consumer!Started
  <1>4. RetryInv' /\ SignalInv'
    BY <1>1, <1>2, <1>3 DEF ConsumeInv, RetryInv, HeaderCounts, CountBelowMax, SignalInv
  <1> QED BY <1>4 DEF ConsumeInv

LEMMA StartTasksStep ==
    ASSUME ConsumeInv, Consumer!StartTasks
    PROVE  ConsumeInv'
  <1>1. /\ tasks' = tasks \o Consumer!Fresh("start")
        /\ monitor \in {"off", "start"} /\ monitor' = "listen"
        /\ UNCHANGED <<msg, retryNums, retries, status, statusLock>>
    BY DEF Consumer!StartTasks, Consumer!Monitor, Consumer!signalVars, Consumer!msgVars
  <1>2. /\ tasks' \in Seq(Stages) /\ Started \subseteq Started' /\ 0 \notin Started'
        /\ \A u \in Started : tasks'[u] = tasks[u]
        /\ \A u \in Started' \ Started : tasks'[u] = "start"
    BY <1>1, TasksJoin DEF ConsumeInv
  <1>3. RetryInv'
    BY <1>1, <1>2 DEF ConsumeInv, RetryInv, HeaderCounts, CountBelowMax
  <1>4. SignalInv'
    BY <1>1, <1>2 DEF ConsumeInv, SignalInv
  <1> QED BY <1>2, <1>3, <1>4 DEF ConsumeInv

-----------------------------------------------------------------------------
LEMMA NextConsume == ConsumeInv /\ [Consumer!Next]_(Consumer!vars) => ConsumeInv'
  <1> SUFFICES ASSUME ConsumeInv, [Consumer!Next]_(Consumer!vars) PROVE ConsumeInv'
    OBVIOUS
  <1>1. ASSUME NEW t \in Started, Consumer!TaskSteps(t)
        PROVE  ConsumeInv'
    BY <1>1, QuietTasks, QuietStep, TakeMessageStep, CallbackStep, SignalLockStep,
       SignalSentStep DEF Consumer!TaskSteps
  <1>2. ASSUME NEW t \in Started, Consumer!ChannelLost(t)
        PROVE  ConsumeInv'
    BY <1>2, ReconnectStep DEF Consumer!ChannelLost, Consumer!signalVars, Consumer!msgVars
  <1>3. ASSUME NEW c \in alive, Consumer!ConnectionLost(c)
        PROVE  ConsumeInv'
    BY <1>3, ReconnectStep DEF Consumer!ConnectionLost, Consumer!signalVars, Consumer!msgVars
  <1>4. ASSUME NEW t \in Started, Consumer!Receive(t)
        PROVE  ConsumeInv'
    BY <1>4, ReceiveStep
  <1>5. CASE Consumer!Mark \/ Consumer!Redial \/ Consumer!Connect
    BY <1>5, ReconnectStep DEF Consumer!Mark, Consumer!Redial, Consumer!Connect,
       Consumer!Monitor, Consumer!taskVars, Consumer!signalVars, Consumer!msgVars
  <1>6. CASE Consumer!StartTasks
    BY <1>6, StartTasksStep
  <1>7. CASE Consumer!PublishAgain
    BY <1>7, PublishAgainStep
  <1>8. CASE UNCHANGED Consumer!vars
    BY <1>8, ReconnectStep DEF Consumer!vars, Consumer!taskVars, Consumer!signalVars,
       Consumer!msgVars
  <1> QED BY <1>1, <1>2, <1>3, <1>4, <1>5, <1>6, <1>7, <1>8
          DEF Consumer!Next, Consumer!MonitorSteps, Started

\* A message whose callback says that it failed is published again less often than
\* MaxReTry, whatever channels and connections fail meanwhile.
THEOREM RetriesCounted ==
    ASSUME "push" \notin Callback
    PROVE  Consumer!Spec => []RetriesBelowMax
  <1>1. ConsumeInv => RetriesBelowMax
    <2> SUFFICES ASSUME ConsumeInv PROVE retries = 0 \/ retries < MaxReTry
      BY DEF RetriesBelowMax, Consumer!RetriesBelowMax
    <2> QED BY ConsumerSettings DEF ConsumeInv, RetryInv, HeaderCounts, CountBelowMax
  <1> QED BY <1>1, InitConsume, NextConsume, PTL DEF Consumer!Spec

\* The task that has statusLock has handed its signal over, or its receiver is
\* not the one that waits for the lock.
SignalsMeet ==
    statusLock # 0 =>
        \/ tasks[statusLock] = "sent"
        \/ tasks[statusLock] = "send" /\ monitor \notin {"mark", "dial"}

\* No order of failures leaves a task waiting with the lock for a receiver that
\* waits for the lock: what LockReleased needs of the states, for any tasks.
THEOREM NoSignalDeadlock == Consumer!Spec => []SignalsMeet
  <1>1. ConsumeInv => SignalsMeet
    BY DEF ConsumeInv, SignalInv, SignalsMeet
  <1> QED BY <1>1, InitConsume, NextConsume, PTL DEF Consumer!Spec
=============================================================================
