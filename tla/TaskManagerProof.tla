------------------------- MODULE TaskManagerProof -------------------------
(***************************************************************************)
(* Proofs about TaskManager for any groups, copies and goroutines.  The    *)
(* inductive invariant pays every goroutine that has not given its token   *)
(* back, and a runner that has sent one and not used it, out of tChan; and *)
(* knows that a runner which returned left no copy behind.  The walks of   *)
(* the task it keeps running are RemoteConfig's: what RemoteConfigProof    *)
(* proves of them holds where MCTaskManager composes the two.              *)
(***************************************************************************)
EXTENDS MCTaskManager, FiniteSetTheorems, TLAPS

\* The goroutines of a group that still hold a token.
Busy(g) == {w \in Workers : group[w] = g /\ work[w] # "free"}

\* The token of the copy about to be launched.
Owed(g) == IF runner[g] = "recheck" THEN 1 ELSE 0

TokensPaid == \A g \in Groups : Cardinality(Busy(g)) + Owed(g) <= tChan[g]

NoneLeft ==
    /\ \A g \in Groups : runner[g] = "end" => Running(g) = {}
    /\ stopped => \A g \in Groups : runner[g] = "end"

IInv == TypeOK /\ TokensPaid /\ NoneLeft

LEMMA BusyFinite ==
    ASSUME NEW g \in Groups
    PROVE  IsFiniteSet(Busy(g)) /\ Cardinality(Busy(g)) \in Nat
  <1>1. Busy(g) \subseteq Workers
    BY DEF Busy
  <1> QED BY <1>1, WorkersFinite, FS_Subset, FS_CardinalityType

LEMMA InitInv == Init => IInv
  <1> SUFFICES ASSUME Init PROVE IInv
    OBVIOUS
  <1>1. TypeOK
    <2>1. group \in [Workers -> Groups]
      BY DEF Init
    <2>2. \A g \in Groups : tChan[g] \in Nat /\ tChan[g] <= Count(g)
      BY CountPositive DEF Init
    <2> QED BY <2>1, <2>2 DEF Init, TypeOK
  <1>2. \A g \in Groups : Busy(g) = {} /\ Running(g) = {} /\ Owed(g) = 0
    BY DEF Init, Busy, Running, Owed
  <1>3. TokensPaid
    BY <1>2, FS_EmptySet DEF Init, TokensPaid
  <1>4. NoneLeft
    BY <1>2 DEF Init, NoneLeft
  <1> QED BY <1>1, <1>3, <1>4 DEF IInv

-----------------------------------------------------------------------------
(* Runners                                                                 *)

LEMMA AddTaskInv == ASSUME IInv, NEW g \in Groups, AddTask(g) PROVE IInv'
  <1>1. TypeOK'
    BY DEF IInv, TypeOK, AddTask
  <1>2. \A h \in Groups : /\ Busy(h)' = Busy(h) /\ Running(h)' = Running(h)
                          /\ Owed(h)' = Owed(h) /\ tChan'[h] = tChan[h]
    BY DEF IInv, TypeOK, AddTask, Busy, Running, Owed
  <1>3. TokensPaid'
    BY <1>2 DEF IInv, TokensPaid
  <1>4. NoneLeft'
    BY <1>2 DEF IInv, NoneLeft, TypeOK, AddTask
  <1> QED BY <1>1, <1>3, <1>4 DEF IInv

\* A token is sent for the copy to come, and owed from then on.
LEMMA SelectInv == ASSUME IInv, NEW g \in Groups, Select(g) PROVE IInv'
  <1>1. TypeOK'
    BY CountPositive DEF IInv, TypeOK, Select, HasRoom
  <1>2. \A h \in Groups : Busy(h)' = Busy(h) /\ Running(h)' = Running(h)
    BY DEF Select, Busy, Running
  <1>3. \A h \in Groups : tChan'[h] - Owed(h)' = tChan[h] - Owed(h)
    BY DEF IInv, TypeOK, Select, Owed
  <1>4. TokensPaid'
    <2> SUFFICES ASSUME NEW h \in Groups
                 PROVE  Cardinality(Busy(h)) + Owed(h)' <= tChan'[h]
      BY <1>2 DEF TokensPaid
    <2>1. Cardinality(Busy(h)) + Owed(h) <= tChan[h]
      BY DEF IInv, TokensPaid
    <2>2. Owed(h) \in Nat /\ Owed(h)' \in Nat
      BY DEF Owed
    <2> QED BY <2>1, <2>2, <1>1, <1>3, BusyFinite DEF IInv, TypeOK
  <1>5. NoneLeft'
    BY <1>2 DEF IInv, NoneLeft, TypeOK, Select
  <1> QED BY <1>1, <1>4, <1>5 DEF IInv

\* Giving up leaves a token in tChan; a new copy is what it was owed for.
LEMMA LaunchInv == ASSUME IInv, NEW g \in Groups, Launch(g) PROVE IInv'
  <1>1. TypeOK'
    BY DEF IInv, TypeOK, Launch
  <1>2. CASE runner' = [runner EXCEPT ![g] = "wait"] /\ UNCHANGED <<work, group>>
    <2>1. \A h \in Groups : Busy(h)' = Busy(h) /\ Running(h)' = Running(h)
      BY <1>2 DEF Busy, Running
    <2>2. \A h \in Groups : Owed(h) \in Nat /\ Owed(h)' \in Nat /\ Owed(h)' <= Owed(h)
      BY <1>2 DEF IInv, TypeOK, Owed
    <2>3. TokensPaid'
      <3> SUFFICES ASSUME NEW h \in Groups
                   PROVE  Cardinality(Busy(h)) + Owed(h)' <= tChan[h]
        BY <2>1 DEF TokensPaid, Launch
      <3>1. Cardinality(Busy(h)) + Owed(h) <= tChan[h]
        BY DEF IInv, TokensPaid
      <3> QED BY <3>1, <2>2, BusyFinite DEF IInv, TypeOK
    <2>4. NoneLeft'
      BY <1>2, <2>1 DEF IInv, NoneLeft, TypeOK, Launch
    <2> QED BY <1>1, <2>3, <2>4 DEF IInv
  <1>3. ASSUME NEW w \in Workers, work[w] = "free",
               work' = [work EXCEPT ![w] = "fc"], group' = [group EXCEPT ![w] = g],
               runner' = [runner EXCEPT ![g] = "select"]
        PROVE  IInv'
    <2>1. Busy(g)' = Busy(g) \cup {w} /\ w \notin Busy(g)
      BY <1>3 DEF IInv, TypeOK, Busy
    <2>2. \A h \in Groups \ {g} : Busy(h)' = Busy(h) /\ Running(h)' = Running(h)
      BY <1>3 DEF IInv, TypeOK, Busy, Running
    <2>3. TokensPaid'
      <3> SUFFICES ASSUME NEW h \in Groups
                   PROVE  Cardinality(Busy(h)') + Owed(h)' <= tChan[h]
        BY DEF TokensPaid, Launch
      <3>1. Cardinality(Busy(h)) + Owed(h) <= tChan[h]
        BY DEF IInv, TokensPaid
      <3>2. CASE h = g
        <4>1. Cardinality(Busy(g)') = Cardinality(Busy(g)) + 1
          BY <2>1, BusyFinite, FS_AddElement
        <4>2. Owed(g) = 1 /\ Owed(g)' = 0
          BY <1>3 DEF Owed, Launch, IInv, TypeOK
        <4> QED BY <3>1, <3>2, <4>1, <4>2, BusyFinite DEF IInv, TypeOK
      <3>3. CASE h # g
        <4>1. Owed(h)' = Owed(h)
          BY <1>3, <3>3 DEF Owed, IInv, TypeOK
        <4> QED BY <3>1, <3>3, <4>1, <2>2
      <3> QED BY <3>2, <3>3
    <2>4. NoneLeft'
      <3>1. runner[g] = "recheck" /\ UNCHANGED stopped
        BY DEF Launch
      <3> QED BY <1>3, <2>2, <3>1 DEF IInv, NoneLeft, TypeOK
    <2> QED BY <1>1, <2>3, <2>4 DEF IInv
  <1> QED BY <1>2, <1>3 DEF Launch

LEMMA RunnerReturnInv == ASSUME IInv, NEW g \in Groups, RunnerReturn(g) PROVE IInv'
  <1>1. TypeOK'
    BY DEF IInv, TypeOK, RunnerReturn
  <1>2. \A h \in Groups : /\ Busy(h)' = Busy(h) /\ Running(h)' = Running(h)
                          /\ Owed(h)' = Owed(h) /\ tChan'[h] = tChan[h]
    BY DEF IInv, TypeOK, RunnerReturn, Busy, Running, Owed
  <1>3. TokensPaid'
    BY <1>2 DEF IInv, TokensPaid
  <1>4. NoneLeft'
    BY <1>2 DEF IInv, NoneLeft, TypeOK, RunnerReturn, AllReturned
  <1> QED BY <1>1, <1>3, <1>4 DEF IInv

-----------------------------------------------------------------------------
(* Copies and Stop                                                         *)

\* A copy that is done keeps its token for one more step.
LEMMA TaskReturnInv == ASSUME IInv, NEW w \in Workers, TaskReturn(w) PROVE IInv'
  <1>1. TypeOK'
    BY DEF IInv, TypeOK, TaskReturn
  <1>2. \A h \in Groups : /\ Busy(h)' = Busy(h) /\ Running(h)' \subseteq Running(h)
                          /\ Owed(h)' = Owed(h) /\ tChan'[h] = tChan[h]
    BY DEF IInv, TypeOK, TaskReturn, Busy, Running, Owed
  <1>3. TokensPaid'
    BY <1>2 DEF IInv, TokensPaid
  <1>4. NoneLeft'
    BY <1>2 DEF IInv, NoneLeft, TaskReturn
  <1> QED BY <1>1, <1>3, <1>4 DEF IInv

LEMMA TakeTokenInv == ASSUME IInv, NEW w \in Workers, TakeToken(w) PROVE IInv'
  <1>1. PICK g \in Groups : g = group[w] /\ w \in Busy(g)
    BY DEF IInv, TypeOK, TakeToken, Busy
  <1>2. Busy(g)' = Busy(g) \ {w}
    BY <1>1 DEF IInv, TypeOK, TakeToken, Busy
  <1>3. \A h \in Groups : /\ h # g => Busy(h)' = Busy(h)
                          /\ Running(h)' = Running(h) /\ Owed(h)' = Owed(h)
                          /\ tChan'[h] = IF h = g THEN tChan[h] - 1 ELSE tChan[h]
    BY <1>1 DEF IInv, TypeOK, TakeToken, Released, Busy, Running, Owed
  <1>4. Cardinality(Busy(g)') = Cardinality(Busy(g)) - 1
    BY <1>1, <1>2, BusyFinite, FS_RemoveElement
  <1>5. Cardinality(Busy(g)) \in Nat \ {0}
    BY <1>1, BusyFinite, FS_EmptySet
  <1>6. \A h \in Groups : /\ Cardinality(Busy(h)) + Owed(h) <= tChan[h]
                          /\ Owed(h) \in Nat /\ tChan[h] \in Nat
    BY DEF IInv, TokensPaid, TypeOK, Owed
  <1>7. TokensPaid'
    <2> SUFFICES ASSUME NEW h \in Groups
                 PROVE  Cardinality(Busy(h)') + Owed(h)' <= tChan'[h]
      BY DEF TokensPaid
    <2>1. CASE h = g
      BY <2>1, <1>3, <1>4, <1>5, <1>6
    <2>2. CASE h # g
      BY <2>2, <1>3, <1>6
    <2> QED BY <2>1, <2>2
  <1>8. TypeOK'
    <2>1. \A h \in Groups : tChan'[h] \in Nat /\ tChan'[h] <= Count(h)
      BY <1>1, <1>3, <1>5, <1>6, CountPositive DEF IInv, TypeOK
    <2>2. tChan' = [tChan EXCEPT ![g] = tChan[g] - 1]
      BY <1>1 DEF TakeToken, Released
    <2>3. tChan' \in [Groups -> Nat]
      BY <2>1, <2>2 DEF IInv, TypeOK
    <2> QED BY <2>1, <2>3 DEF IInv, TypeOK, TakeToken
  <1>9. NoneLeft'
    BY <1>3 DEF IInv, NoneLeft, TakeToken
  <1> QED BY <1>7, <1>8, <1>9 DEF IInv

LEMMA StopInv ==
    ASSUME IInv, Stop \/ StopReturn \/ UNCHANGED vars
    PROVE  IInv'
  <1>1. UNCHANGED <<runner, tChan, work, group>>
    BY DEF Stop, StopReturn, vars
  <1>2. TypeOK'
    BY <1>1 DEF IInv, TypeOK, Stop, StopReturn, vars
  <1>3. TokensPaid'
    BY <1>1 DEF IInv, TokensPaid, Busy, Owed
  <1>4. NoneLeft'
    BY <1>1 DEF IInv, NoneLeft, Running, Stop, StopReturn, vars
  <1> QED BY <1>2, <1>3, <1>4 DEF IInv

LEMMA NextInv == IInv /\ [Next]_vars => IInv'
  BY AddTaskInv, SelectInv, LaunchInv, RunnerReturnInv, TaskReturnInv, TakeTokenInv, StopInv
  DEF Next

LEMMA Inductive == Spec => []IInv
  BY InitInv, NextInv, PTL DEF Spec

-----------------------------------------------------------------------------
(* Theorems                                                                *)

\* AddTask's state is well typed; tChan is never over its capacity, and no
\* <-tChan finds it empty.
THEOREM TasksTyped == Spec => []TypeOK
  <1>1. IInv => TypeOK
    BY DEF IInv
  <1> QED BY <1>1, Inductive, PTL

\* A group never runs more than count copies of its task.
THEOREM CopiesBounded == Spec => []AtMostCount
  <1>1. IInv => AtMostCount
    <2> SUFFICES ASSUME IInv, NEW g \in Groups
                 PROVE  Cardinality(Running(g)) <= Count(g)
      BY DEF AtMostCount
    <2>1. Running(g) \subseteq Busy(g)
      BY DEF Running, Busy
    <2>2. /\ Cardinality(Running(g)) <= Cardinality(Busy(g))
          /\ IsFiniteSet(Running(g))
      BY <2>1, BusyFinite, FS_Subset
    <2>3. Cardinality(Running(g)) \in Nat
      BY <2>2, FS_CardinalityType
    <2>4. Owed(g) \in Nat /\ tChan[g] \in Nat /\ tChan[g] <= Count(g)
      BY DEF Owed, IInv, TypeOK
    <2> QED BY <2>2, <2>3, <2>4, BusyFinite, CountPositive DEF IInv, TokensPaid
  <1> QED BY <1>1, Inductive, PTL

\* When the task manager's Stop returns no copy of any task runs.
THEOREM StopWaitsForAll == Spec => []StopWaits
  <1>1. IInv => StopWaits
    BY DEF IInv, NoneLeft, StopWaits
  <1> QED BY <1>1, Inductive, PTL

-----------------------------------------------------------------------------
(* The walks of the task that is kept running.                             *)

Walks == INSTANCE RemoteConfigProof

\* A step of the one task or of the others.
AnyTaskStep ==
    \/ OneConfig /\ Next /\ UNCHANGED configVars
    \/ OneGroup /\ Config!Next /\ UNCHANGED vars

\* The composed run does what the walks alone may do.
LEMMA WalksBehave == TasksSpec => Walks!Spec
  <1>1. TasksInit => Walks!Init
    BY DEF TasksInit, Config!Init, Walks!Init, Config!Walkers, Walks!Walkers
  <1>2. Config!Next => Walks!Next
    BY DEF Config!Next, Walks!Next, Config!vars, Walks!vars, Config!handlers,
           Walks!handlers, Config!walks, Walks!walks, Config!Walkers, Walks!Walkers,
           Config!Entries, Walks!Entries, Config!Locked, Walks!Locked, Config!MayRLock,
           Walks!MayRLock, Config!MayLock, Walks!MayLock, Config!Handler, Walks!Handler,
           Config!UpsertNew, Walks!UpsertNew, Config!UpsertInsert, Walks!UpsertInsert,
           Config!UpsertJoin, Walks!UpsertJoin, Config!LastOf, Walks!LastOf,
           Config!Unregister, Walks!Unregister, Config!RemoveCb, Walks!RemoveCb,
           Config!HandlerSteps, Walks!HandlerSteps, Config!Iter, Walks!Iter,
           Config!Snapshot, Walks!Snapshot, Config!TakeTuple, Walks!TakeTuple,
           Config!Update, Walks!Update, Config!Pop, Walks!Pop, Config!WalkReturns,
           Walks!WalkReturns, Config!Begin, Walks!Begin, Config!NacosChange,
           Walks!NacosChange, Config!Refresh, Walks!Refresh, Config!Kick, Walks!Kick,
           Config!Config, Walks!Config, Config!Kicker, Walks!Kicker
  <1>3. UNCHANGED configVars => UNCHANGED Walks!vars
    BY DEF configVars, Walks!vars, Walks!handlers, Walks!walks
  <1>4. [AnyTaskStep]_<<vars, configVars>> => [Walks!Next]_(Walks!vars)
    BY <1>2, <1>3 DEF AnyTaskStep
  <1>5. TasksSpec => TasksInit /\ [][AnyTaskStep]_<<vars, configVars>>
    BY DEF TasksSpec, AnyTaskStep
  <1> QED BY <1>1, <1>4, <1>5, PTL DEF Walks!Spec

\* A configuration stored while handlers register reaches every limiter of the
\* map by the end of the walk, whatever shards the keys are in.
THEOREM StoredConfigReachesAll ==
    ASSUME NoCtx \notin Sessions, \A k \in Keys : ShardOf(k) \in Shards
    PROVE  TasksSpec => []ConfigReachesAll
  <1>1. Walks!Spec => []Walks!ConfigReachesAll
    BY Walks!ConfigArrives DEF Walks!Setting
  <1>2. Walks!ConfigReachesAll => ConfigReachesAll
    BY DEF ConfigReachesAll, Config!ConfigReachesAll, Walks!ConfigReachesAll
  <1> QED BY <1>1, <1>2, WalksBehave, PTL
=============================================================================
