------------------------------- MODULE MQueue -------------------------------
(***************************************************************************)
(* utils/Queue/mqueue.go: a linked list under one lock with a condition    *)
(* variable, filled by Enqueue, emptied by goroutines running DequeueFunc  *)
(* (the send queues' handlers) or DequeueWait, shut by Close.              *)
(*                                                                         *)
(* Each critical section of recvLock is one step.  items is a history      *)
(* variable: the nodes in the order they were linked.  The code never      *)
(* reads it; ListShape says that head, tail and next agree with it.        *)
(***************************************************************************)
EXTENDS Integers, Sequences

CONSTANTS
    Messages,   \* values producers enqueue, each once
    Nodes,      \* list nodes the pool can hand out
    Consumers,  \* goroutines that dequeue
    FnResults,  \* what fn may return; {FALSE} makes DequeueFunc a DequeueWait
    Nil         \* the nil pointer and the zero value

ASSUME NilFresh == Nil \notin Nodes \cup Messages
ASSUME FnResultsBoolean == FnResults \subseteq BOOLEAN

VARIABLES
    head, tail, status, count,
    next, value,    \* fields of the nodes
    pool,           \* nodes the pool may hand out
    items,          \* history: the queued nodes, oldest first
    out,            \* history: the values dequeued, in order
    pc,             \* where each consumer stands in DequeueFunc
    held,           \* the value a consumer is passing to fn
    unsent,         \* values no producer has enqueued yet
    handled         \* values fn has finished with

listVars == <<head, tail, status, count, next, value, pool, items, out>>
userVars == <<pc, held, unsent, handled>>
vars == <<listVars, userVars>>

Init ==
    /\ head = Nil /\ tail = Nil /\ status = TRUE /\ count = 0
    /\ next = [n \in Nodes |-> Nil] /\ value = [n \in Nodes |-> Nil]
    /\ pool = Nodes
    /\ items = <<>> /\ out = <<>>
    /\ pc = [c \in Consumers |-> "deq"] /\ held = [c \in Consumers |-> Nil]
    /\ unsent = Messages /\ handled = {}

\* recvCond.Broadcast: every waiter goes back to its loop.
Broadcast_Missing == pc' = pc
Broadcast == pc' = [c \in Consumers |-> IF pc[c] = "wait" THEN "deq" ELSE pc[c]]

\* Where the new node is hooked in: nowhere, behind head, or behind tail.
Link_HeadOnly(n) ==
    IF head = Nil THEN [next EXCEPT ![n] = Nil]
    ELSE [next EXCEPT ![n] = Nil, ![head] = n]
Link(n) ==
    IF head = Nil THEN [next EXCEPT ![n] = Nil]
    ELSE [next EXCEPT ![n] = Nil, ![IF tail = Nil THEN head ELSE tail] = n]

CountUp_Missing == count
CountUp == count + 1

Enqueue(v) ==
    /\ v \in unsent /\ status
    /\ \E n \in pool :
         /\ pool' = pool \ {n}
         /\ value' = [value EXCEPT ![n] = v]
         /\ next' = Link(n)
         /\ head' = IF head = Nil THEN n ELSE head
         /\ tail' = IF head = Nil THEN tail ELSE n
         /\ items' = Append(items, n)
    /\ count' = CountUp
    /\ unsent' = unsent \ {v}
    /\ Broadcast
    /\ UNCHANGED <<status, out, held, handled>>

\* "is close": the caller drops the value.
EnqueueRefused(v) ==
    /\ v \in unsent /\ ~status
    /\ unsent' = unsent \ {v}
    /\ UNCHANGED <<listVars, pc, held, handled>>

Close ==
    /\ status' = FALSE
    /\ Broadcast
    /\ UNCHANGED <<head, tail, count, next, value, pool, items, out, held, unsent, handled>>

\* tail after the first node is unlinked: one remaining node is head alone.
TailAfterDequeue_Stale == tail
TailAfterDequeue == IF next[head] # Nil /\ next[head] = tail THEN Nil ELSE tail

\* dequeue finds a node.
Dequeue(c) ==
    /\ pc[c] = "deq" /\ head # Nil
    /\ head' = next[head]
    /\ tail' = TailAfterDequeue
    /\ count' = count - 1
    /\ value' = [value EXCEPT ![head] = Nil]
    /\ next' = [next EXCEPT ![head] = Nil]
    /\ pool' = pool \cup {head}
    /\ items' = Tail(items)
    /\ out' = Append(out, value[head])
    /\ held' = [held EXCEPT ![c] = value[head]]
    /\ pc' = [pc EXCEPT ![c] = "fn"]
    /\ UNCHANGED <<status, unsent, handled>>

\* dequeue finds nothing: the loop ends when the queue is closed.
DequeueEmpty(c) ==
    /\ pc[c] = "deq" /\ head = Nil
    /\ pc' = [pc EXCEPT ![c] = IF status THEN "check" ELSE "exit"]
    /\ UNCHANGED <<listVars, held, unsent, handled>>

Fn_StopWhenClosed(c) ==
    /\ pc[c] = "fn"
    /\ \E r \in FnResults : pc' = [pc EXCEPT ![c] = IF r /\ status THEN "check" ELSE "exit"]
    /\ handled' = handled \cup {held[c]}
    /\ held' = [held EXCEPT ![c] = Nil]
    /\ UNCHANGED <<listVars, unsent>>

\* fn returns: false ends DequeueFunc.
Fn(c) ==
    /\ pc[c] = "fn"
    /\ \E r \in FnResults : pc' = [pc EXCEPT ![c] = IF r THEN "check" ELSE "exit"]
    /\ handled' = handled \cup {held[c]}
    /\ held' = [held EXCEPT ![c] = Nil]
    /\ UNCHANGED <<listVars, unsent>>

\* Lock; if q.status && q.count == 0 { Wait }; Unlock.
MustWait_NoRecheck == TRUE
MustWait == status /\ count = 0
CheckWait(c) ==
    /\ pc[c] = "check"
    /\ pc' = [pc EXCEPT ![c] = IF MustWait THEN "wait" ELSE "deq"]
    /\ UNCHANGED <<listVars, held, unsent, handled>>

Consume(c) == Dequeue(c) \/ DequeueEmpty(c) \/ Fn(c) \/ CheckWait(c)

Terminated == (\A c \in Consumers : pc[c] = "exit") /\ UNCHANGED vars

Next ==
    \/ \E v \in Messages : Enqueue(v) \/ EnqueueRefused(v)
    \/ Close
    \/ \E c \in Consumers : Consume(c)
    \/ Terminated

Spec == Init /\ [][Next]_vars

\* Goroutines are scheduled fairly and fn (a push to RabbitMQ) returns.
FairSpec == Spec /\ \A c \in Consumers : WF_vars(Consume(c))

-----------------------------------------------------------------------------
(* Properties                                                              *)

\* Type correctness of the queue and of the consumers' loop state.
TypeOK ==
    /\ head \in Nodes \cup {Nil} /\ tail \in Nodes \cup {Nil}
    /\ status \in BOOLEAN
    /\ count \in Nat
    /\ next \in [Nodes -> Nodes \cup {Nil}]
    /\ value \in [Nodes -> Messages \cup {Nil}]
    /\ pool \subseteq Nodes
    /\ items \in Seq(Nodes)
    /\ out \in Seq(Messages)
    /\ pc \in [Consumers -> {"deq", "fn", "check", "wait", "exit"}]
    /\ held \in [Consumers -> Messages \cup {Nil}]
    /\ unsent \subseteq Messages
    /\ handled \subseteq Messages

\* The pointers spell out the queue: head is the oldest node, next leads from
\* each node to its successor, tail is the newest node but nil while there is
\* at most one, count is the length, and no queued node is in the pool (a node
\* handed out twice would cross-link the list).
ListShape ==
    /\ count = Len(items)
    /\ head = IF items = <<>> THEN Nil ELSE items[1]
    /\ tail = IF Len(items) < 2 THEN Nil ELSE items[Len(items)]
    /\ \A i \in 1 .. Len(items) :
         /\ next[items[i]] = IF i = Len(items) THEN Nil ELSE items[i + 1]
         /\ value[items[i]] # Nil
         /\ items[i] \notin pool
         /\ \A j \in 1 .. Len(items) : i # j => items[i] # items[j]

\* No wakeup is lost: a consumer sleeps on the condition variable only while
\* the queue is open and empty, although dequeue and the wait are separate
\* critical sections.
NoLostWakeup == \A c \in Consumers : pc[c] = "wait" => status /\ count = 0

\* Handlers that always return true leave a closed queue only when it is empty:
\* when the last one is gone every value accepted before Close was handled.
DrainedOnExit ==
    (Consumers # {} /\ FnResults = {TRUE} /\ \A c \in Consumers : pc[c] = "exit") =>
        /\ ~status /\ items = <<>>
        /\ \A i \in 1 .. Len(out) : out[i] \in handled

\* The linked list implements the FIFO queue of FifoQueue.
queued == [i \in 1 .. Len(items) |-> value[items[i]]]
Fifo == INSTANCE FifoQueue WITH q <- queued, out <- out, open <- status
ImplementsFifo == Fifo!Spec

\* Every value Enqueue accepted is handled, once handlers keep running.
AcceptedIsHandled ==
    \A v \in Messages : (\E i \in 1 .. Len(items) : value[items[i]] = v) ~> (v \in handled)

\* Close ends every consumer: closeRabbitmqSendQueueSlices does not hang.
CloseEndsConsumers == ~status ~> (\A c \in Consumers : pc[c] = "exit")
=============================================================================
