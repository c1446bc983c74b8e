---------------------------- MODULE MQueueProof ----------------------------
(***************************************************************************)
(* Proofs about MQueue for every number of messages, nodes and consumers:  *)
(* the list's shape, the absence of lost wakeups, the drained exit, and    *)
(* the refinement of FifoQueue.                                            *)
(***************************************************************************)
EXTENDS MQueue, TLAPS

-----------------------------------------------------------------------------
(* Sequences                                                               *)

\* What Append, as Enqueue uses it, does to length and elements.
LEMMA AppendFacts ==
    ASSUME NEW S, NEW q \in Seq(S), NEW e \in S
    PROVE  /\ Append(q, e) \in Seq(S)
           /\ Len(Append(q, e)) = Len(q) + 1
           /\ Append(q, e)[Len(q) + 1] = e
           /\ \A i \in 1 .. Len(q) : Append(q, e)[i] = q[i]
  OBVIOUS

\* What Tail, as dequeue uses it, does to length and elements.
LEMMA TailFacts ==
    ASSUME NEW S, NEW q \in Seq(S), q # <<>>
    PROVE  /\ Tail(q) \in Seq(S)
           /\ Len(q) \in Nat /\ Len(q) >= 1
           /\ Len(Tail(q)) = Len(q) - 1
           /\ \A i \in 1 .. Len(Tail(q)) : Tail(q)[i] = q[i + 1]
           /\ Head(q) = q[1] /\ q[1] \in S
  OBVIOUS

\* The elements of a sequence, and emptiness by length.
LEMMA SeqFacts ==
    ASSUME NEW S, NEW q \in Seq(S)
    PROVE  /\ Len(q) \in Nat
           /\ q = <<>> <=> Len(q) = 0
           /\ \A i \in 1 .. Len(q) : q[i] \in S
  OBVIOUS

-----------------------------------------------------------------------------
(* The inductive invariant                                                 *)

\* A consumer inside fn holds a value.
HeldInFn == \A c \in Consumers : pc[c] = "fn" => held[c] # Nil

IInv == TypeOK /\ ListShape /\ NoLostWakeup /\ HeldInFn

USE NilFresh, FnResultsBoolean

\* Enqueue keeps the list well formed and typed: the new node comes from the
\* pool, so it is none of the queued ones, and it is linked behind the newest.
LEMMA EnqueueInv ==
    ASSUME IInv, NEW v \in Messages, Enqueue(v)
    PROVE  IInv'
  <1> PICK n \in pool :
         /\ pool' = pool \ {n}
         /\ value' = [value EXCEPT ![n] = v]
         /\ next' = Link(n)
         /\ head' = (IF head = Nil THEN n ELSE head)
         /\ tail' = (IF head = Nil THEN tail ELSE n)
         /\ items' = Append(items, n)
    BY DEF Enqueue
  <1>0. n \in Nodes /\ items \in Seq(Nodes)
    BY DEF IInv, TypeOK
  <1>1. /\ Len(items) \in Nat
        /\ items = <<>> <=> Len(items) = 0
        /\ \A i \in 1 .. Len(items) : items[i] \in Nodes
    BY <1>0, SeqFacts
  <1>2. /\ items' \in Seq(Nodes)
        /\ Len(items') = Len(items) + 1
        /\ items'[Len(items) + 1] = n
        /\ \A i \in 1 .. Len(items) : items'[i] = items[i]
    BY <1>0, AppendFacts
  <1>3. \A i \in 1 .. Len(items) : items[i] # n
    BY DEF IInv, ListShape
  <1>4. next' \in [Nodes -> Nodes \cup {Nil}]
    BY <1>0 DEF IInv, TypeOK, Link
  <1>5. TypeOK'
    <2>1. head' \in Nodes \cup {Nil} /\ tail' \in Nodes \cup {Nil} /\ pool' \subseteq Nodes
      BY <1>0 DEF IInv, TypeOK
    <2>2. count' \in Nat /\ value' \in [Nodes -> Messages \cup {Nil}]
      BY <1>0 DEF IInv, TypeOK, Enqueue, CountUp
    <2>3. pc' \in [Consumers -> {"deq", "fn", "check", "wait", "exit"}]
      BY DEF IInv, TypeOK, Enqueue, Broadcast
    <2>4. /\ status' \in BOOLEAN /\ out' \in Seq(Messages)
          /\ held' \in [Consumers -> Messages \cup {Nil}]
          /\ unsent' \subseteq Messages /\ handled' \subseteq Messages
      BY DEF IInv, TypeOK, Enqueue
    <2> QED BY <2>1, <2>2, <2>3, <2>4, <1>2, <1>4 DEF TypeOK
  <1>6. ListShape'
    <2>1. count' = Len(items')
      BY <1>2 DEF IInv, ListShape, Enqueue, CountUp
    <2>2. head' = IF items' = <<>> THEN Nil ELSE items'[1]
      BY <1>0, <1>1, <1>2, SeqFacts DEF IInv, ListShape
    <2>3. tail' = IF Len(items') < 2 THEN Nil ELSE items'[Len(items')]
      BY <1>0, <1>1, <1>2 DEF IInv, ListShape
    <2>4. ASSUME NEW i \in 1 .. Len(items')
          PROVE  next'[items'[i]] = IF i = Len(items') THEN Nil ELSE items'[i + 1]
      <3>1. CASE Len(items) = 0
        BY <3>1, <1>0, <1>1, <1>2 DEF IInv, TypeOK, ListShape, Link
      <3>2. CASE Len(items) > 0
        <4> DEFINE last == items[Len(items)]
        <4>1. head # Nil /\ (IF tail = Nil THEN head ELSE tail) = last
          BY <3>2, <1>0, <1>1 DEF IInv, TypeOK, ListShape
        <4>2. next' = [next EXCEPT ![n] = Nil, ![last] = n]
          BY <4>1 DEF Link
        <4>3. last \in Nodes /\ last # n
          BY <3>2, <1>1, <1>3
        <4>4. CASE i = Len(items')
          BY <4>4, <4>2, <4>3, <1>0, <1>2 DEF IInv, TypeOK
        <4>5. CASE i = Len(items)
          BY <4>5, <4>2, <4>3, <1>0, <1>1, <1>2 DEF IInv, TypeOK
        <4>6. CASE i < Len(items)
          <5>1. items[i] # last /\ items[i] # n /\ items[i] \in Nodes
            BY <4>6, <1>1, <1>2, <1>3 DEF IInv, ListShape
          <5>2. next'[items[i]] = next[items[i]]
            BY <5>1, <4>2, <4>3, <1>0 DEF IInv, TypeOK
          <5>3. next[items[i]] = items[i + 1]
            BY <4>6, <1>1 , <1>2 DEF IInv, ListShape
          <5> QED BY <5>2, <5>3, <4>6, <1>1, <1>2
        <4> QED BY <4>4, <4>5, <4>6, <1>1, <1>2
      <3> QED BY <3>1, <3>2, <1>1
    <2>5. ASSUME NEW i \in 1 .. Len(items')
          PROVE  /\ value'[items'[i]] # Nil
                 /\ items'[i] \notin pool'
                 /\ \A j \in 1 .. Len(items') : i # j => items'[i] # items'[j]
      BY <1>0, <1>1, <1>2, <1>3 DEF IInv, TypeOK, ListShape
    <2> QED BY <2>1, <2>2, <2>3, <2>4, <2>5 DEF ListShape
  <1>7. NoLostWakeup'
    BY DEF Enqueue, Broadcast, IInv, TypeOK, NoLostWakeup
  <1>8. HeldInFn'
    BY DEF Enqueue, Broadcast, IInv, TypeOK, HeldInFn
  <1> QED BY <1>5, <1>6, <1>7, <1>8 DEF IInv

\* dequeue unlinks the oldest node: what is left is the tail of the queue, and
\* tail is dropped when a single node remains.
LEMMA DequeueInv ==
    ASSUME IInv, NEW c \in Consumers, Dequeue(c)
    PROVE  IInv'
  <1>0. /\ items \in Seq(Nodes) /\ items # <<>> /\ head = items[1] /\ head \in Nodes
        /\ value[head] \in Messages
    <2>1. items \in Seq(Nodes) /\ head # Nil /\ items # <<>> /\ head = items[1]
      BY DEF IInv, TypeOK, ListShape, Dequeue
    <2>2. Len(items) \in Nat /\ 1 \in 1 .. Len(items) /\ items[1] \in Nodes
      BY <2>1, SeqFacts
    <2> QED BY <2>1, <2>2 DEF IInv, TypeOK, ListShape
  <1>1. /\ Len(items) \in Nat /\ Len(items) >= 1
        /\ items' \in Seq(Nodes)
        /\ Len(items') = Len(items) - 1
        /\ \A i \in 1 .. Len(items') : items'[i] = items[i + 1]
        /\ \A i \in 1 .. Len(items) : items[i] \in Nodes
    BY <1>0, TailFacts, SeqFacts DEF Dequeue
  <1>2. \A i \in 2 .. Len(items) : items[i] # head
    BY <1>0, <1>1 DEF IInv, ListShape
  <1>3. next[head] = IF Len(items) = 1 THEN Nil ELSE items[2]
    BY <1>0, <1>1 DEF IInv, ListShape
  <1>4. TypeOK'
    <2>1. head' \in Nodes \cup {Nil} /\ tail' \in Nodes \cup {Nil}
      BY <1>0 DEF IInv, TypeOK, Dequeue, TailAfterDequeue
    <2>2. count' \in Nat
      BY <1>1 DEF IInv, ListShape, Dequeue
    <2>3. out' \in Seq(Messages)
      BY <1>0, AppendFacts DEF IInv, TypeOK, Dequeue
    <2> QED BY <2>1, <2>2, <2>3, <1>0, <1>1 DEF IInv, TypeOK, Dequeue
  <1>5. ListShape'
    <2>1. count' = Len(items')
      BY <1>1 DEF IInv, ListShape, Dequeue
    <2>2. head' = IF items' = <<>> THEN Nil ELSE items'[1]
      <3>1. items' = <<>> <=> Len(items') = 0
        BY <1>1, SeqFacts
      <3> QED BY <3>1, <1>1, <1>3 DEF Dequeue
    <2>3. tail' = IF Len(items') < 2 THEN Nil ELSE items'[Len(items')]
      <3>1. CASE Len(items) = 1
        BY <3>1, <1>1, <1>3 DEF IInv, ListShape, Dequeue, TailAfterDequeue
      <3>2. CASE Len(items) = 2
        BY <3>2, <1>1, <1>3, NilFresh DEF IInv, ListShape, Dequeue, TailAfterDequeue
      <3>3. CASE Len(items) > 2
        <4>1. items[2] # items[Len(items)]
          BY <3>3, <1>1 DEF IInv, ListShape
        <4> QED BY <4>1, <3>3, <1>1, <1>3 DEF IInv, ListShape, Dequeue, TailAfterDequeue
      <3> QED BY <3>1, <3>2, <3>3, <1>1
    <2>4. ASSUME NEW i \in 1 .. Len(items')
          PROVE  /\ next'[items'[i]] = IF i = Len(items') THEN Nil ELSE items'[i + 1]
                 /\ value'[items'[i]] # Nil
                 /\ items'[i] \notin pool'
                 /\ \A j \in 1 .. Len(items') : i # j => items'[i] # items'[j]
      <3>1. i + 1 \in 2 .. Len(items) /\ items'[i] = items[i + 1]
        BY <1>1
      <3>2. items[i + 1] # head /\ items[i + 1] \in Nodes
        BY <3>1, <1>1, <1>2
      <3>3. next'[items[i + 1]] = next[items[i + 1]] /\ value'[items[i + 1]] = value[items[i + 1]]
        BY <3>2, <1>0 DEF IInv, TypeOK, Dequeue
      <3>4. next[items[i + 1]] = IF i + 1 = Len(items) THEN Nil ELSE items[i + 1 + 1]
        BY <3>1, <1>1 DEF IInv, ListShape
      <3>5. next'[items'[i]] = IF i = Len(items') THEN Nil ELSE items'[i + 1]
        BY <3>1, <3>3, <3>4, <1>1
      <3>6. value'[items'[i]] # Nil /\ items'[i] \notin pool'
        BY <3>1, <3>2, <3>3, <1>1 DEF IInv, ListShape, Dequeue
      <3>7. ASSUME NEW j \in 1 .. Len(items'), i # j PROVE items'[i] # items'[j]
        BY <3>1, <3>7, <1>1 DEF IInv, ListShape
      <3> QED BY <3>5, <3>6, <3>7
    <2> QED BY <2>1, <2>2, <2>3, <2>4 DEF ListShape
  <1>6. NoLostWakeup'
    <2>1. count # 0
      BY <1>1 DEF IInv, ListShape
    <2> QED BY <2>1 DEF IInv, TypeOK, NoLostWakeup, Dequeue
  <1>7. HeldInFn'
    BY <1>0 DEF IInv, TypeOK, HeldInFn, Dequeue
  <1> QED BY <1>4, <1>5, <1>6, <1>7 DEF IInv

\* The remaining steps leave the list alone or, like Close, only wake sleepers.
LEMMA QuietInv ==
    ASSUME IInv,
           \/ Close
           \/ \E v \in Messages : EnqueueRefused(v)
           \/ \E c \in Consumers : DequeueEmpty(c) \/ Fn(c) \/ CheckWait(c)
           \/ Terminated
           \/ UNCHANGED vars
    PROVE  IInv'
  <1> USE DEF IInv
  <1>1. CASE Close
    BY <1>1 DEF Close, Broadcast, TypeOK, ListShape, NoLostWakeup, HeldInFn
  <1>2. ASSUME NEW v \in Messages, EnqueueRefused(v) PROVE IInv'
    BY <1>2 DEF EnqueueRefused, listVars, TypeOK, ListShape, NoLostWakeup, HeldInFn
  <1>3. ASSUME NEW c \in Consumers, DequeueEmpty(c) PROVE IInv'
    BY <1>3 DEF DequeueEmpty, listVars, TypeOK, ListShape, NoLostWakeup, HeldInFn
  <1>4. ASSUME NEW c \in Consumers, Fn(c) PROVE IInv'
    BY <1>4 DEF Fn, listVars, TypeOK, ListShape, NoLostWakeup, HeldInFn
  <1>5. ASSUME NEW c \in Consumers, CheckWait(c) PROVE IInv'
    BY <1>5 DEF CheckWait, MustWait, listVars, TypeOK, ListShape, NoLostWakeup, HeldInFn
  <1>6. CASE Terminated \/ UNCHANGED vars
    BY <1>6 DEF Terminated, vars, listVars, userVars, TypeOK, ListShape, NoLostWakeup, HeldInFn
  <1> QED BY <1>1, <1>2, <1>3, <1>4, <1>5, <1>6

LEMMA InitInv == Init => IInv
  BY DEF Init, IInv, TypeOK, ListShape, NoLostWakeup, HeldInFn

LEMMA NextInv == IInv /\ [Next]_vars => IInv'
  BY EnqueueInv, DequeueInv, QuietInv DEF Next, Consume

\* The queue's state is always well typed, its pointers always spell out the
\* queue, and no consumer sleeps through work: for any number of producers,
\* consumers and nodes.
THEOREM QueueSafe == Spec => [](TypeOK /\ ListShape /\ NoLostWakeup)
  <1>1. IInv => TypeOK /\ ListShape /\ NoLostWakeup
    BY DEF IInv
  <1> QED BY <1>1, InitInv, NextInv, PTL DEF Spec

-----------------------------------------------------------------------------
(* Draining                                                                *)

\* Handlers that never return false leave only a closed, empty queue, and a
\* value taken out is handled or in some handler's hands.
DrainInv ==
    /\ FnResults = {TRUE} =>
         \A c \in Consumers : pc[c] = "exit" => ~status /\ items = <<>>
    /\ \A i \in 1 .. Len(out) :
         out[i] \in handled \/ \E c \in Consumers : pc[c] = "fn" /\ held[c] = out[i]

LEMMA DrainStep ==
    ASSUME IInv, DrainInv, [Next]_vars
    PROVE  DrainInv'
  <1> USE DEF DrainInv
  <1>1. ASSUME NEW v \in Messages, Enqueue(v) PROVE DrainInv'
    <2>1. \A c \in Consumers : /\ pc'[c] = "exit" => pc[c] = "exit"
                               /\ pc[c] = "fn" => pc'[c] = "fn"
      BY <1>1 DEF Enqueue, Broadcast, IInv, TypeOK
    <2>2. status /\ UNCHANGED <<status, out, held, handled>>
      BY <1>1 DEF Enqueue
    <2> QED BY <2>1, <2>2
  <1>2. CASE Close
    BY <1>2 DEF Close, Broadcast, IInv, TypeOK
  <1>3. ASSUME NEW v \in Messages, EnqueueRefused(v) PROVE DrainInv'
    BY <1>3 DEF EnqueueRefused, listVars
  <1>4. ASSUME NEW c \in Consumers, Dequeue(c) PROVE DrainInv'
    <2>1. items # <<>> /\ items \in Seq(Nodes)
      BY <1>4 DEF IInv, TypeOK, ListShape, Dequeue
    <2>2. \A d \in Consumers : pc'[d] = "exit" => pc[d] = "exit"
      BY <1>4 DEF Dequeue, IInv, TypeOK
    <2>3. value[head] \in Messages /\ out \in Seq(Messages)
      <3>1. Len(items) \in Nat /\ 1 \in 1 .. Len(items) /\ head = items[1] /\ items[1] \in Nodes
        BY <2>1, SeqFacts DEF IInv, ListShape
      <3> QED BY <3>1 DEF IInv, TypeOK, ListShape
    <2>4. /\ Len(out') = Len(out) + 1 /\ Len(out) \in Nat
          /\ out'[Len(out) + 1] = value[head]
          /\ \A i \in 1 .. Len(out) : out'[i] = out[i]
      BY <2>3, AppendFacts, <1>4 DEF Dequeue
    <2>5. pc'[c] = "fn" /\ held'[c] = value[head] /\ handled' = handled
      BY <1>4 DEF Dequeue, IInv, TypeOK
    <2>6. \A d \in Consumers : pc[d] = "fn" => pc'[d] = "fn" /\ held'[d] = held[d]
      BY <1>4 DEF Dequeue, IInv, TypeOK
    <2>7. ASSUME NEW i \in 1 .. Len(out')
          PROVE  out'[i] \in handled' \/ \E d \in Consumers : pc'[d] = "fn" /\ held'[d] = out'[i]
      <3>1. CASE i = Len(out) + 1
        BY <3>1, <2>4, <2>5
      <3>2. CASE i \in 1 .. Len(out)
        BY <3>2, <2>4, <2>5, <2>6
      <3> QED BY <3>1, <3>2, <2>4
    <2> QED BY <2>1, <2>2, <2>7
  <1>5. ASSUME NEW c \in Consumers, DequeueEmpty(c) PROVE DrainInv'
    <2>1. items = <<>>
      BY <1>5 DEF DequeueEmpty, IInv, TypeOK, ListShape
    <2> QED BY <1>5, <2>1 DEF DequeueEmpty, listVars, IInv, TypeOK
  <1>6. ASSUME NEW c \in Consumers, Fn(c) PROVE DrainInv'
    <2>1. UNCHANGED <<status, items, out>> /\ handled' = handled \cup {held[c]}
      BY <1>6 DEF Fn, listVars
    <2>2. ASSUME FnResults = {TRUE}, NEW d \in Consumers, pc'[d] = "exit"
          PROVE  pc[d] = "exit"
      BY <1>6, <2>2 DEF Fn, IInv, TypeOK
    <2>3. \A d \in Consumers : d # c => pc'[d] = pc[d] /\ held'[d] = held[d]
      BY <1>6 DEF Fn, IInv, TypeOK
    <2>4. \A i \in 1 .. Len(out') :
            out'[i] \in handled' \/ \E d \in Consumers : pc'[d] = "fn" /\ held'[d] = out'[i]
      BY <2>1, <2>3
    <2>5. FnResults = {TRUE} =>
            \A d \in Consumers : pc'[d] = "exit" => ~status' /\ items' = <<>>
      BY <2>1, <2>2
    <2> QED BY <2>4, <2>5
  <1>7. ASSUME NEW c \in Consumers, CheckWait(c) PROVE DrainInv'
    BY <1>7 DEF CheckWait, MustWait, listVars, IInv, TypeOK
  <1>8. CASE Terminated \/ UNCHANGED vars
    <2>1. UNCHANGED <<status, items, out, pc, held, handled>>
      BY <1>8 DEF Terminated, vars, listVars, userVars
    <2> QED BY <2>1
  <1> QED BY <1>1, <1>2, <1>3, <1>4, <1>5, <1>6, <1>7, <1>8 DEF Next, Consume

\* When every handler of a send queue has returned, the queue is closed and
\* empty and each value taken from it was handled: closing the queues at Stop
\* loses nothing that Enqueue accepted.
THEOREM QueueDrained == Spec => []DrainedOnExit
  <1>1. Init => DrainInv
    BY DEF Init, DrainInv
  <1>2. DrainInv => DrainedOnExit
    BY DEF DrainInv, DrainedOnExit
  <1> QED BY <1>1, <1>2, InitInv, NextInv, DrainStep, PTL DEF Spec

-----------------------------------------------------------------------------
(* Refinement                                                              *)

\* Enqueue is Put, a successful dequeue is Take, Close is Close; every other
\* step leaves the abstract queue unchanged.
LEMMA FifoStep ==
    ASSUME IInv, [Next]_vars
    PROVE  [Fifo!Next]_<<queued, out, status>>
  <1>0. items \in Seq(Nodes) /\ Len(items) \in Nat /\ \A i \in 1 .. Len(items) : items[i] \in Nodes
    BY SeqFacts DEF IInv, TypeOK
  <1>1. ASSUME NEW v \in Messages, Enqueue(v) PROVE Fifo!Put(v)
    <2> PICK n \in pool : value' = [value EXCEPT ![n] = v] /\ items' = Append(items, n)
      BY <1>1 DEF Enqueue
    <2>1. n \in Nodes /\ \A i \in 1 .. Len(items) : items[i] # n
      BY DEF IInv, TypeOK, ListShape
    <2>2. /\ Len(items') = Len(items) + 1
          /\ items'[Len(items) + 1] = n
          /\ \A i \in 1 .. Len(items) : items'[i] = items[i]
      BY <2>1, <1>0, AppendFacts
    <2>3. queued \in Seq(Messages \cup {Nil}) /\ Len(queued) = Len(items)
      BY <1>0 DEF queued, IInv, TypeOK
    <2>4. queued' = Append(queued, v)
      BY <1>0, <2>1, <2>2, <2>3 DEF queued, IInv, TypeOK
    <2> QED BY <2>4, <1>1 DEF Enqueue, Fifo!Put
  <1>2. ASSUME NEW c \in Consumers, Dequeue(c) PROVE Fifo!Take
    <2>1. items # <<>> /\ head = items[1]
      BY <1>2 DEF IInv, TypeOK, ListShape, Dequeue
    <2>2. /\ Len(items) >= 1 /\ Len(items') = Len(items) - 1
          /\ \A i \in 1 .. Len(items') : items'[i] = items[i + 1]
      BY <1>0, <2>1, <1>2, TailFacts DEF Dequeue
    <2>3. \A i \in 2 .. Len(items) : items[i] # head
      BY <1>0, <2>1, <2>2 DEF IInv, ListShape
    <2>4. queued \in Seq(Messages \cup {Nil}) /\ Len(queued) = Len(items)
      BY <1>0 DEF queued, IInv, TypeOK
    <2>5. queued # <<>> /\ Head(queued) = value[head]
      BY <2>1, <2>2, <2>4, <1>0 DEF queued
    <2>6. queued' = Tail(queued)
      <3>1. \A i \in 1 .. Len(items') : value'[items'[i]] = value[items[i + 1]]
        BY <1>0, <1>2, <2>2, <2>3 DEF Dequeue, IInv, TypeOK
      <3> QED BY <3>1, <1>0, <2>2, <2>4, <2>5 DEF queued
    <2> QED BY <2>5, <2>6, <1>2 DEF Fifo!Take, Dequeue
  <1>3. CASE Close
    BY <1>3 DEF Close, Fifo!Next, Fifo!Close, queued
  <1>4. CASE \/ \E v \in Messages : EnqueueRefused(v)
             \/ \E c \in Consumers : DequeueEmpty(c) \/ Fn(c) \/ CheckWait(c)
             \/ Terminated \/ UNCHANGED vars
    BY <1>4 DEF EnqueueRefused, DequeueEmpty, Fn, CheckWait, Terminated,
                vars, listVars, queued
  <1> QED BY <1>1, <1>2, <1>3, <1>4 DEF Next, Consume, Fifo!Next

\* The linked list with its lock and condition variable implements FifoQueue.
THEOREM QueueIsFifo == Spec => ImplementsFifo
  <1>1. Init => Fifo!Init
    BY DEF Init, Fifo!Init, queued
  <1> QED BY <1>1, InitInv, NextInv, FifoStep, PTL DEF Spec, ImplementsFifo, Fifo!Spec
=============================================================================
