---------------------------- MODULE TaskManager ----------------------------
(***************************************************************************)
(* utils/taskConsumerManager: AddTask keeps count copies of a task running *)
(* until the context is cancelled; Stop cancels and waits.  A group is one *)
(* AddTask call: its runner goroutine, the token channel tChan of capacity *)
(* Count(g), and the goroutines (workers) it starts.  AddTask and Stop are *)
(* called by one goroutine, as in server.Start/Stop and runRabbitmqConsume.*)
(***************************************************************************)
EXTENDS Integers, FiniteSets

CONSTANTS
    Groups,     \* AddTask calls
    Workers,    \* goroutines that may exist at once
    Count(_)    \* the count argument of each call

ASSUME CountPositive == \A g \in Groups : Count(g) \in Nat \ {0}
ASSUME WorkersFinite == IsFiniteSet(Workers)

VARIABLES
    runner,     \* [Groups -> state of the group's runner goroutine]
    tChan,      \* [Groups -> number of tokens in the channel]
    work,       \* [Workers -> "free", "fc" in the task, "token" after wg.Done]
    group,      \* [Workers -> the group the worker belongs to]
    done,       \* m.ctx is cancelled
    stopped     \* Stop has returned

vars == <<runner, tChan, work, group, done, stopped>>

Running(g) == {w \in Workers : group[w] = g /\ work[w] = "fc"}

Init ==
    /\ runner = [g \in Groups |-> "none"]
    /\ tChan = [g \in Groups |-> 0]
    /\ work = [w \in Workers |-> "free"]
    /\ group \in {[w \in Workers |-> g] : g \in Groups}
    /\ done = FALSE /\ stopped = FALSE

AddTask(g) ==
    /\ runner[g] = "none" /\ ~done
    /\ runner' = [runner EXCEPT ![g] = "select"]
    /\ UNCHANGED <<tChan, work, group, done, stopped>>

\* The outer select: both cases may be ready, then either is taken.
HasRoom_OneMore(g) == tChan[g] <= Count(g)
HasRoom(g) == tChan[g] < Count(g)
Select(g) ==
    /\ runner[g] = "select"
    /\ \/ done /\ runner' = [runner EXCEPT ![g] = "wait"] /\ UNCHANGED tChan
       \/ /\ HasRoom(g)
          /\ tChan' = [tChan EXCEPT ![g] = @ + 1]
          /\ runner' = [runner EXCEPT ![g] = "recheck"]
    /\ UNCHANGED <<work, group, done, stopped>>

\* The inner select: the outer one may have sent a token although ctx was done.
Recheck_Missing == FALSE
Recheck == done

\* Give up, or wg.Add(1) and the new goroutine.
Launch(g) ==
    /\ runner[g] = "recheck"
    /\ \/ /\ Recheck
          /\ runner' = [runner EXCEPT ![g] = "wait"]
          /\ UNCHANGED <<work, group>>
       \/ /\ ~Recheck
          /\ \E w \in Workers :
               /\ work[w] = "free"
               /\ work' = [work EXCEPT ![w] = "fc"]
               /\ group' = [group EXCEPT ![w] = g]
          /\ runner' = [runner EXCEPT ![g] = "select"]
    /\ UNCHANGED <<tChan, done, stopped>>

\* The deferred wg.Wait, close(tChan), m.wg.Done.
AllReturned_NoWait(g) == TRUE
AllReturned(g) == Running(g) = {}
RunnerReturn(g) ==
    /\ runner[g] = "wait" /\ AllReturned(g)
    /\ runner' = [runner EXCEPT ![g] = "end"]
    /\ UNCHANGED <<tChan, work, group, done, stopped>>

\* fc returns: wg.Done first,
TaskReturn(w) ==
    /\ work[w] = "fc"
    /\ work' = [work EXCEPT ![w] = "token"]
    /\ UNCHANGED <<runner, tChan, group, done, stopped>>

\* then <-tChan.
Released_Kept(g) == tChan[g]
Released(g) == tChan[g] - 1
TakeToken(w) ==
    /\ work[w] = "token"
    /\ work' = [work EXCEPT ![w] = "free"]
    /\ tChan' = [tChan EXCEPT ![group[w]] = Released(group[w])]
    /\ UNCHANGED <<runner, group, done, stopped>>

Stop ==
    /\ ~done /\ \A g \in Groups : runner[g] # "none"
    /\ done' = TRUE
    /\ UNCHANGED <<runner, tChan, work, group, stopped>>

StopReturn ==
    /\ done /\ \A g \in Groups : runner[g] = "end"
    /\ stopped' = TRUE
    /\ UNCHANGED <<runner, tChan, work, group, done>>

Next ==
    \/ \E g \in Groups : AddTask(g) \/ Select(g) \/ Launch(g) \/ RunnerReturn(g)
    \/ \E w \in Workers : TaskReturn(w) \/ TakeToken(w)
    \/ Stop \/ StopReturn

Spec == Init /\ [][Next]_vars

\* Goroutines are scheduled; a task returns once the context is cancelled.
Fairness ==
    /\ \A g \in Groups : WF_vars(Select(g) \/ Launch(g) \/ RunnerReturn(g))
    /\ \A w \in Workers : WF_vars(TakeToken(w)) /\ WF_vars(done /\ TaskReturn(w))
    /\ WF_vars(StopReturn)
FairSpec == Spec /\ Fairness

-----------------------------------------------------------------------------
(* Properties                                                              *)

\* Type correctness; the channel never holds more tokens than its capacity.
TypeOK ==
    /\ runner \in [Groups -> {"none", "select", "recheck", "wait", "end"}]
    /\ tChan \in [Groups -> Nat]
    /\ \A g \in Groups : tChan[g] <= Count(g)
    /\ work \in [Workers -> {"free", "fc", "token"}]
    /\ group \in [Workers -> Groups]
    /\ done \in BOOLEAN /\ stopped \in BOOLEAN

\* At most count copies of a task run at once, although a finished copy gives
\* its wg share back before its token.
AtMostCount == \A g \in Groups : Cardinality(Running(g)) <= Count(g)

\* When Stop returns no task of any group runs, and none starts later.
StopWaits == stopped => \A g \in Groups : Running(g) = {}

\* A group never stays without a running copy while the context is alive: a
\* task that returns is started again.
KeepsRunning ==
    \A g \in Groups :
        (runner[g] # "none" /\ Running(g) = {}) ~> (Running(g) # {} \/ done)

\* Stop returns once the tasks heed their context.
StopReturns == done ~> stopped
=============================================================================
