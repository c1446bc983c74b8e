--------------------------- MODULE ConsumersProof ---------------------------
(***************************************************************************)
(* Theorems about Consumers, for any number of messages and any bodies.    *)
(*                                                                         *)
(* What keeps the order: a message that never went back to the queue is    *)
(* behind everything sent before it, in the queue, in the buffer and in    *)
(* the consumer's hands (OrderInv); only then does a stored older message  *)
(* prove a return.  What keeps the messages: an answer follows the effect  *)
(* it reports (VerdictInv), and a consumer that leaves, which drops its    *)
(* buffer, does so for its own channel or the shutdown (LinkInv).          *)
(***************************************************************************)
EXTENDS Consumers, FiniteSetTheorems, SequenceTheorems, TLAPS

\* Every message anywhere has been published.
TypeInv ==
    /\ published \in [Queues -> Nat]
    /\ queue \in [Queues -> SUBSET Nat] /\ unacked \in [Queues -> SUBSET Nat]
    /\ \A q \in Queues : AtBroker(q) \subseteq 1..published[q]
    /\ inbox \in [Queues -> Seq(Nat)]
    /\ \A q \in Queues : \A i \in DOMAIN inbox[q] : inbox[q][i] \in 1..published[q]
    /\ cur \in [Queues -> Nat] /\ \A q \in Queues : cur[q] <= published[q]
    /\ stored \in Nat /\ stored <= published[Set]
    /\ applied \in [Queues -> SUBSET Nat] /\ returned \in SUBSET Nat
    /\ cons \in [Queues -> {"off", "open", "loop", "handle", "answer", "pause"}]
    /\ chan \in [Queues -> {"none", "open", "dead"}]
    /\ verdict \in [Queues -> {"ack", "drop", "requeue"}]
    /\ sup \in {"dial", "run", "stop", "pause", "end"}

\* The delivered messages: what a channel's consumer gets is a finite sequence.
LEMMA InOrderIs ==
    ASSUME NEW S \in SUBSET Nat, IsFiniteSet(S), NEW s \in InOrder(S)
    PROVE  /\ s \in Seq(Nat)
           /\ \A i \in DOMAIN s : s[i] \in S
           /\ \A m \in S : \E i \in DOMAIN s : s[i] = m
           /\ \A i, j \in DOMAIN s : i < j => s[i] < s[j]
  <1>1. Cardinality(S) \in Nat
    BY FS_CardinalityType
  <1>2. /\ s \in [1..Cardinality(S) -> S] /\ Range(s) = S
        /\ \A i, j \in DOMAIN s : i < j => s[i] < s[j]
    BY DEF InOrder
  <1>3. s \in Seq(Nat)
    <2>1. PICK n \in Nat : s \in [1..n -> S]
      BY <1>1, <1>2
    <2>2. s \in [1..n -> Nat]
      BY <2>1
    <2> QED BY <2>2, SeqDef
  <1> QED BY <1>2, <1>3 DEF Range

LEMMA QueueFinite ==
    ASSUME TypeInv, NEW q \in Queues
    PROVE  IsFiniteSet(queue[q])
  <1>1. IsFiniteSet(1..published[q])
    BY FS_Interval DEF TypeInv
  <1> QED BY <1>1, FS_Subset DEF TypeInv, AtBroker

\* A consumer's buffer with what the broker sends put behind it.
LEMMA Buffering ==
    ASSUME NEW b \in Seq(Nat), NEW s \in Seq(Nat)
    PROVE  /\ b \o s \in Seq(Nat)
           /\ \A k \in DOMAIN (b \o s) :
                  \/ k \in DOMAIN b /\ (b \o s)[k] = b[k]
                  \/ k - Len(b) \in DOMAIN s /\ (b \o s)[k] = s[k - Len(b)] /\ k > Len(b)
           /\ \A k \in DOMAIN b : k \in DOMAIN (b \o s) /\ (b \o s)[k] = b[k]
           /\ \A k \in DOMAIN s :
                  k + Len(b) \in DOMAIN (b \o s) /\ (b \o s)[k + Len(b)] = s[k]
  <1>1. PICK n \in Nat, l \in Nat : n = Len(b) /\ l = Len(s)
    OBVIOUS
  <1>2. DOMAIN b = 1..n /\ DOMAIN s = 1..l
    BY <1>1
  <1>3. /\ b \o s \in Seq(Nat) /\ DOMAIN (b \o s) = 1..(n + l)
        /\ \A k \in 1..(n + l) : (b \o s)[k] = IF k <= n THEN b[k] ELSE s[k - n]
    BY <1>1
  <1> QED BY <1>1, <1>2, <1>3

LEMMA Taking ==
    ASSUME NEW b \in Seq(Nat), b # <<>>
    PROVE  /\ Head(b) \in Nat /\ Head(b) = b[1] /\ 1 \in DOMAIN b
           /\ Tail(b) \in Seq(Nat)
           /\ \A k \in DOMAIN Tail(b) : k + 1 \in DOMAIN b /\ Tail(b)[k] = b[k + 1] /\ k \in Nat /\ k > 0
           /\ \A k \in DOMAIN b : k = 1 \/ (k - 1 \in DOMAIN Tail(b) /\ Tail(b)[k - 1] = b[k])
  <1>1. PICK n \in Nat : n = Len(b)
    OBVIOUS
  <1>2. n > 0 /\ DOMAIN b = 1..n
    BY <1>1
  <1>3. Head(b) \in Nat /\ Head(b) = b[1] /\ 1 \in DOMAIN b
    BY <1>1, <1>2
  <1>4. /\ Tail(b) \in Seq(Nat) /\ DOMAIN Tail(b) = 1..(n - 1)
        /\ \A k \in 1..(n - 1) : Tail(b)[k] = b[k + 1]
    BY <1>1, <1>2
  <1> QED BY <1>2, <1>3, <1>4

\* Supervision: no consumer outlives its connection's turn, and only a consumer
\* between its receive and its answer has a delivery in hand.
SupInv == sup \in {"dial", "pause", "end"} => ConsumersStopped
IdleInv == \A q \in Queues : cur[q] = 0 <=> cons[q] \notin {"handle", "answer"}

\* How a message in hand is going to be answered.
VerdictInv ==
    cons[Set] = "answer" =>
        /\ verdict[Set] = "ack" => cur[Set] \in applied[Set]
        /\ verdict[Set] = "drop" => body[cur[Set]] = "bad"

\* What has never gone back to the queue is in order: behind the stored data
\* come the delivery in hand, the buffered ones and those still in the queue.
OrderInv ==
    /\ \A m \in queue[Set] \ returned :
           /\ stored < m /\ cur[Set] < m
           /\ \A i \in DOMAIN inbox[Set] : inbox[Set][i] < m
    /\ \A j \in DOMAIN inbox[Set] : inbox[Set][j] \notin returned =>
           /\ stored < inbox[Set][j] /\ cur[Set] < inbox[Set][j]
           /\ \A i \in DOMAIN inbox[Set] : i < j => inbox[Set][i] < inbox[Set][j]
    /\ cons[Set] = "handle" /\ cur[Set] \notin returned => stored <= cur[Set]

IInv == /\ TypeInv /\ SupInv /\ IdleInv /\ VerdictInv
        /\ OrderInv /\ NoSetLost

LEMMA InitInv == Init => IInv
  <1> SUFFICES ASSUME Init PROVE IInv
    OBVIOUS
  <1> USE DEF Init, Queues, Set, Kick
  <1>1. TypeInv
    BY DEF TypeInv, AtBroker
  <1>2. SupInv /\ IdleInv /\ VerdictInv /\ OrderInv
    BY DEF SupInv, IdleInv, VerdictInv, OrderInv, ConsumersStopped
  <1>3. NoSetLost
    BY DEF NoSetLost
  <1> QED BY <1>1, <1>2, <1>3 DEF IInv

\* Messages going back to the queue stay where the invariant wants them.
LEMMA GiveBackBroker ==
    ASSUME TypeInv, NEW Q \in SUBSET Queues, GiveBack(Q)
    PROVE  /\ queue' \in [Queues -> SUBSET Nat] /\ unacked' \in [Queues -> SUBSET Nat]
           /\ \A q \in Queues : AtBroker(q)' = AtBroker(q)
           /\ \A q \in Queues : queue[q] \subseteq queue'[q]
           /\ queue'[Set] \ returned' \subseteq queue[Set] \ returned
           /\ returned \subseteq returned' /\ returned' \in SUBSET Nat
  <1> USE DEF TypeInv, GiveBack, Queues
  <1>1. queue' \in [Queues -> SUBSET Nat] /\ unacked' \in [Queues -> SUBSET Nat]
    OBVIOUS
  <1>2. \A q \in Queues : AtBroker(q)' = AtBroker(q) /\ queue[q] \subseteq queue'[q]
    BY DEF AtBroker
  <1>3. returned \subseteq returned' /\ returned' \in SUBSET Nat
    OBVIOUS
  <1>4. queue'[Set] \ returned' \subseteq queue[Set] \ returned
    OBVIOUS
  <1> QED BY <1>1, <1>2, <1>3, <1>4

-----------------------------------------------------------------------------
(* The broker.                                                             *)

LEMMA PublishStep ==
    ASSUME IInv, NEW q \in Queues, Publish(q)
    PROVE  IInv'
  <1> USE DEF IInv, Publish, Queues, Set, Kick, deliveryVars, effectVars, faultVars
  <1>1. PICK n \in Nat : n = published[q]
    BY DEF TypeInv
  <1>2. /\ published' = [published EXCEPT ![q] = n + 1]
        /\ queue' = [queue EXCEPT ![q] = @ \cup {n + 1}]
    BY <1>1 DEF TypeInv
  <1>3. \A r \in Queues : 1..published[r] \subseteq 1..published'[r] /\ published[r] <= published'[r]
    BY <1>1, <1>2 DEF TypeInv
  <1>4. TypeInv'
    <2>1. \A r \in Queues : AtBroker(r)' \subseteq 1..published'[r]
      BY <1>1, <1>2, <1>3 DEF TypeInv, AtBroker
    <2>2. /\ published' \in [Queues -> Nat]
          /\ queue' \in [Queues -> SUBSET Nat] /\ unacked' \in [Queues -> SUBSET Nat]
      BY <1>1, <1>2 DEF TypeInv
    <2>3. /\ \A r \in Queues : \A i \in DOMAIN inbox[r] : inbox[r][i] \in 1..published'[r]
          /\ \A r \in Queues : cur[r] <= published'[r]
          /\ stored <= published'[Set]
      BY <1>1, <1>2 DEF TypeInv
    <2> QED BY <2>1, <2>2, <2>3 DEF TypeInv
  <1>5. SupInv' /\ IdleInv' /\ VerdictInv'
    BY DEF SupInv, IdleInv, VerdictInv, ConsumersStopped
  <1>6. OrderInv'
    BY <1>1, <1>2 DEF TypeInv, OrderInv
  <1>7. NoSetLost'
    <2>1. NoSetLost'
      <3>1. AtBroker(Set) \subseteq AtBroker(Set)' /\ UNCHANGED <<body, applied>>
        BY <1>2 DEF TypeInv, AtBroker
      <3>2. \A m \in 1..published'[Set] : m \in 1..published[Set] \/ m \in AtBroker(Set)'
        BY <1>1, <1>2 DEF TypeInv, AtBroker
      <3> QED BY <3>1, <3>2 DEF NoSetLost
    <2> QED BY <2>1
  <1> QED BY <1>4, <1>5, <1>6, <1>7

LEMMA DeliverStep ==
    ASSUME IInv, NEW q \in Queues, Deliver(q)
    PROVE  IInv'
  <1>0. /\ TypeInv /\ SupInv /\ IdleInv /\ VerdictInv /\ OrderInv
        /\ NoSetLost
        /\ Set \in Queues /\ Kick \in Queues /\ Set # Kick /\ ~AutoAck(Set)
        /\ \A r \in Queues : r = Set \/ r = Kick
    BY DEF IInv, Queues, Set, Kick, AutoAck
  <1>1. /\ queue' = [queue EXCEPT ![q] = {}]
        /\ unacked' = IF AutoAck(q) THEN unacked ELSE [unacked EXCEPT ![q] = @ \cup queue[q]]
        /\ UNCHANGED <<body, published, sup, ctxDone, link, cons, chan, cur, verdict, stored,
                       applied, returned>>
    BY DEF Deliver, effectVars, faultVars
  <1> DEFINE b == inbox[q]
             c == inbox'[q]
  <1>2. PICK s \in InOrder(queue[q]) : inbox' = [inbox EXCEPT ![q] = inbox[q] \o s]
    BY <1>0 DEF Deliver, TypeInv
  <1>3. /\ s \in Seq(Nat)
        /\ \A i \in DOMAIN s : s[i] \in queue[q]
        /\ \A m \in queue[q] : \E i \in DOMAIN s : s[i] = m
        /\ \A i, j \in DOMAIN s : i < j => s[i] < s[j]
    <2>1. queue[q] \in SUBSET Nat /\ IsFiniteSet(queue[q])
      BY <1>0, QueueFinite DEF TypeInv
    <2> QED BY <2>1, InOrderIs
  <1>4. /\ b \in Seq(Nat) /\ c = b \o s
        /\ \A r \in Queues : r # q => inbox'[r] = inbox[r]
        /\ inbox' \in [Queues -> Seq(Nat)]
    <2>1. b \in Seq(Nat) /\ b \o s \in Seq(Nat)
      BY <1>0, <1>3, Buffering DEF TypeInv
    <2> QED BY <2>1, <1>0, <1>2 DEF TypeInv
  <1>5. /\ \A k \in DOMAIN c :
              \/ k \in DOMAIN b /\ c[k] = b[k]
              \/ k - Len(b) \in DOMAIN s /\ c[k] = s[k - Len(b)] /\ k > Len(b)
        /\ \A k \in DOMAIN b : k \in DOMAIN c /\ c[k] = b[k]
        /\ \A k \in DOMAIN s : k + Len(b) \in DOMAIN c /\ c[k + Len(b)] = s[k]
    <2>1. b \in Seq(Nat) /\ s \in Seq(Nat) /\ c = b \o s
      BY <1>3, <1>4
    <2> HIDE DEF b, c
    <2> QED BY <2>1, Buffering
  <1>6. TypeInv'
    <2>1. \A r \in Queues : AtBroker(r)' \subseteq AtBroker(r)
      BY <1>0, <1>1 DEF TypeInv, AtBroker
    <2>2. \A i \in DOMAIN c : c[i] \in 1..published[q]
      <3> HIDE DEF c
      <3>1. \A m \in queue[q] : m \in 1..published[q]
        BY <1>0 DEF TypeInv, AtBroker
      <3> QED BY <3>1, <1>0, <1>3, <1>5 DEF TypeInv
    <2>3. \A r \in Queues : \A i \in DOMAIN inbox'[r] : inbox'[r][i] \in 1..published[r]
      BY <1>0, <1>4, <2>2 DEF TypeInv
    <2>4. queue' \in [Queues -> SUBSET Nat] /\ unacked' \in [Queues -> SUBSET Nat]
      BY <1>0, <1>1 DEF TypeInv
    <2> QED BY <1>0, <1>1, <1>4, <2>1, <2>3, <2>4 DEF TypeInv
  <1>7. SupInv' /\ IdleInv' /\ VerdictInv'
    BY <1>0, <1>1 DEF SupInv, IdleInv, VerdictInv, ConsumersStopped
  <1>8. OrderInv'
    <2>1. CASE q # Set
      <3>1. queue'[Set] = queue[Set] /\ inbox'[Set] = inbox[Set]
        BY <2>1, <1>0, <1>1, <1>4 DEF TypeInv
      <3> QED BY <3>1, <1>0, <1>1 DEF OrderInv
    <2>2. CASE q = Set
      <3>1. queue'[Set] = {}
        BY <2>2, <1>0, <1>1 DEF TypeInv
      <3>2. \A m \in queue[q] \ returned :
                stored < m /\ cur[q] < m /\ \A i \in DOMAIN b : b[i] < m
        BY <2>2, <1>0 DEF OrderInv
      <3>3. \A j \in DOMAIN b : b[j] \notin returned =>
                stored < b[j] /\ cur[q] < b[j] /\ \A i \in DOMAIN b : i < j => b[i] < b[j]
        BY <2>2, <1>0 DEF OrderInv
      <3>4. ASSUME NEW j \in DOMAIN c, c[j] \notin returned
            PROVE  stored < c[j] /\ cur[q] < c[j] /\ \A i \in DOMAIN c : i < j => c[i] < c[j]
        <4> HIDE DEF b, c
        <4>1. Len(b) \in Nat /\ DOMAIN b = 1..Len(b) /\ DOMAIN s \subseteq Nat
              /\ DOMAIN c \subseteq Nat
          BY <1>3, <1>4
        <4>2. CASE j \in DOMAIN b /\ c[j] = b[j]
          <5>1. \A i \in DOMAIN c : i < j => i \in DOMAIN b /\ c[i] = b[i]
            BY <4>1, <4>2, <1>5
          <5> QED BY <5>1, <4>2, <3>3, <3>4
        <4>3. CASE j - Len(b) \in DOMAIN s /\ c[j] = s[j - Len(b)] /\ j > Len(b)
          <5>1. c[j] \in queue[q] \ returned
            BY <4>3, <1>3, <3>4
          <5>2. ASSUME NEW i \in DOMAIN c, i < j
                PROVE  c[i] < c[j]
            <6>1. CASE i \in DOMAIN b /\ c[i] = b[i]
              BY <6>1, <5>1, <3>2
            <6>2. CASE i - Len(b) \in DOMAIN s /\ c[i] = s[i - Len(b)]
              <7>1. i - Len(b) < j - Len(b)
                BY <5>2, <4>1
              <7> QED BY <7>1, <6>2, <4>3, <1>3
            <6> QED BY <6>1, <6>2, <1>5
          <5> QED BY <5>1, <5>2, <3>2
        <4> QED BY <4>2, <4>3, <1>5
      <3> QED BY <2>2, <3>1, <3>4, <1>0, <1>1 DEF OrderInv
    <2> QED BY <2>1, <2>2
  <1>9. NoSetLost'
    <2>1. AtBroker(Set)' = AtBroker(Set)
      BY <1>0, <1>1 DEF TypeInv, AtBroker
    <2> QED BY <2>1, <1>0, <1>1 DEF NoSetLost
  <1> QED BY <1>6, <1>7, <1>8, <1>9 DEF IInv

LEMMA ExpireStep ==
    ASSUME IInv, Expire
    PROVE  IInv'
  <1> USE DEF IInv, Expire, Queues, Set, Kick, deliveryVars, effectVars
  <1>1. TypeInv'
    <2>1. \A r \in Queues : AtBroker(r)' \subseteq AtBroker(r)
      BY DEF TypeInv, AtBroker
    <2>2. queue' \in [Queues -> SUBSET Nat]
      BY DEF TypeInv
    <2> QED BY <2>1, <2>2 DEF TypeInv
  <1>2. SupInv' /\ IdleInv' /\ VerdictInv'
    BY DEF SupInv, IdleInv, VerdictInv, ConsumersStopped
  <1>3. OrderInv' /\ NoSetLost'
    BY DEF TypeInv, OrderInv, NoSetLost, AtBroker
  <1> QED BY <1>1, <1>2, <1>3

\* The broker drops channels: what it keeps of them goes back to the queue.
LEMMA DropStep ==
    ASSUME IInv, NEW Q \in SUBSET Queues, Drop(Q), UNCHANGED link \/ link' = FALSE
    PROVE  IInv'
  <1> USE DEF IInv, Drop, Queues, Set, Kick, deliveryVars, effectVars
  <1>1. /\ queue' \in [Queues -> SUBSET Nat] /\ unacked' \in [Queues -> SUBSET Nat]
        /\ \A q \in Queues : AtBroker(q)' = AtBroker(q)
        /\ queue'[Set] \ returned' \subseteq queue[Set] \ returned
        /\ returned \subseteq returned' /\ returned' \in SUBSET Nat
    BY GiveBackBroker
  <1>2. TypeInv'
    <2>1. /\ UNCHANGED <<published, cons, inbox, cur, verdict, stored, applied, sup>>
          /\ chan' = [q \in Queues |-> IF q \in Q THEN "dead" ELSE chan[q]]
          /\ TypeInv
      OBVIOUS
    <2>2. chan' \in [Queues -> {"none", "open", "dead"}]
      BY <2>1 DEF TypeInv
    <2>3. \A q \in Queues : AtBroker(q)' \subseteq 1..published[q]
      BY <1>1, <2>1 DEF TypeInv
    <2> QED BY ONLY <1>1, <2>1, <2>2, <2>3 DEF TypeInv
  <1>3. SupInv' /\ IdleInv' /\ VerdictInv'
    BY DEF SupInv, IdleInv, VerdictInv, ConsumersStopped
  <1>4. OrderInv'
    BY <1>1 DEF OrderInv
  <1>5. NoSetLost'
    BY <1>1 DEF NoSetLost
  <1> QED BY <1>2, <1>3, <1>4, <1>5

LEMMA LinkErrorStep ==
    ASSUME IInv, LinkError
    PROVE  IInv'
  <1>1. CASE Drop(Open)
    BY <1>1, DropStep DEF LinkError, Open
  <1>2. CASE /\ link' = FALSE
             /\ UNCHANGED <<body, brokerVars, sup, ctxDone, cons, chan, deliveryVars,
                            effectVars, returned, script, calm>>
    <2> USE <1>2 DEF IInv, brokerVars, deliveryVars, effectVars
    <2>1. TypeInv' /\ SupInv' /\ IdleInv' /\ VerdictInv'
      BY DEF TypeInv, AtBroker, SupInv, IdleInv, VerdictInv, ConsumersStopped
    <2>2. OrderInv' /\ NoSetLost'
      BY DEF OrderInv, NoSetLost, AtBroker
    <2> QED BY <2>1, <2>2
  <1> QED BY <1>1, <1>2 DEF LinkError

LEMMA CrashStep ==
    ASSUME IInv, Crash
    PROVE  IInv'
  <1> USE DEF IInv, Crash, Queues, Set, Kick, effectVars
  <1>1. /\ queue' \in [Queues -> SUBSET Nat] /\ unacked' \in [Queues -> SUBSET Nat]
        /\ \A q \in Queues : AtBroker(q)' = AtBroker(q)
        /\ queue'[Set] \ returned' \subseteq queue[Set] \ returned
        /\ returned \subseteq returned' /\ returned' \in SUBSET Nat
    BY GiveBackBroker
  <1>2. TypeInv'
    BY <1>1 DEF TypeInv
  <1>3. SupInv' /\ IdleInv' /\ VerdictInv'
    BY DEF SupInv, IdleInv, VerdictInv, ConsumersStopped
  <1>4. OrderInv'
    <2>1. inbox'[Set] = <<>> /\ cur'[Set] = 0 /\ cons'[Set] = "off"
      OBVIOUS
    <2>2. \A m \in queue'[Set] \ returned' : stored < m /\ 0 < m
      BY <1>1 DEF OrderInv, TypeInv, AtBroker
    <2> QED BY <2>1, <2>2 DEF OrderInv
  <1>5. NoSetLost'
    BY <1>1 DEF NoSetLost
  <1> QED BY <1>2, <1>3, <1>4, <1>5

-----------------------------------------------------------------------------
(* The supervision: nothing of the broker's or the consumers' data moves.  *)

LEMMA SupervisionStep ==
    ASSUME IInv, Calm \/ ScriptsLost \/ Stop \/ Dial \/ Interrupted \/ Stopped \/ Again
    PROVE  IInv'
  <1> USE DEF IInv, Queues, Set, Kick
  <1>1. /\ UNCHANGED <<body, published, queue, unacked, chan, inbox, cur, verdict, stored,
                       applied, returned>>
    BY DEF Calm, ScriptsLost, Stop, Dial, Interrupted, Stopped, Again, Supervisor, brokerVars,
           deliveryVars, effectVars
  <1>2. \/ UNCHANGED cons
        \/ sup = "dial" /\ cons' = [q \in Queues |-> "open"]
    BY DEF Calm, ScriptsLost, Stop, Dial, Interrupted, Stopped, Again, Supervisor
  <1>3. sup' \in {"dial", "run", "stop", "pause", "end"}
    BY DEF Calm, ScriptsLost, Stop, Dial, Interrupted, Stopped, Again, Supervisor, TypeInv
  <1>4. TypeInv'
    BY <1>1, <1>2, <1>3 DEF TypeInv, AtBroker
  <1>5. SupInv'
    BY DEF Calm, ScriptsLost, Stop, Dial, Interrupted, Stopped, Again, Supervisor, SupInv, ConsumersStopped,
           TypeInv
  <1>6. IdleInv' /\ VerdictInv' /\ OrderInv'
    BY <1>1, <1>2 DEF SupInv, IdleInv, VerdictInv, OrderInv, ConsumersStopped
  <1>8. NoSetLost'
    BY <1>1 DEF NoSetLost, AtBroker
  <1> QED BY <1>4, <1>5, <1>6, <1>8

-----------------------------------------------------------------------------
(* The consumers.                                                          *)

LEMMA OpenChannelStep ==
    ASSUME IInv, NEW q \in Queues, OpenChannel(q) \/ Relaunch(q)
    PROVE  IInv'
  <1> USE DEF IInv, Queues, Set, Kick
  <1>1. /\ UNCHANGED <<body, published, queue, unacked, link, sup, ctxDone, inbox, cur, verdict,
                       stored, applied, returned>>
        /\ cons[q] \in {"open", "pause"}
        /\ \/ cons' = [cons EXCEPT ![q] = "loop"] /\ chan' = [chan EXCEPT ![q] = "open"]
           \/ cons' = [cons EXCEPT ![q] = "pause"] /\ chan' = chan
           \/ cons' = [cons EXCEPT ![q] = "open"] /\ chan' = chan
           \/ cons' = [cons EXCEPT ![q] = "off"] /\ chan' = chan
    BY DEF OpenChannel, Relaunch, Consumer, deliveryVars, effectVars, faultVars
  <1>2. TypeInv'
    BY <1>1 DEF TypeInv, AtBroker
  <1>3. SupInv' /\ IdleInv' /\ VerdictInv'
    BY <1>1 DEF TypeInv, SupInv, IdleInv, VerdictInv, ConsumersStopped
  <1>4. OrderInv'
    BY <1>1 DEF TypeInv, OrderInv
  <1>5. NoSetLost'
    BY <1>1 DEF NoSetLost, AtBroker
  <1> QED BY <1>2, <1>3, <1>4, <1>5

LEMMA TakeStep ==
    ASSUME IInv, NEW q \in Queues, Take(q)
    PROVE  IInv'
  <1>0. /\ TypeInv /\ SupInv /\ IdleInv /\ VerdictInv /\ OrderInv
        /\ NoSetLost
        /\ Set \in Queues /\ Kick \in Queues /\ Set # Kick
        /\ \A r \in Queues : r = Set \/ r = Kick
    BY DEF IInv, Queues, Set, Kick
  <1> DEFINE b == inbox[q]
             h == cur'[q]
             t == inbox'[q]
  <1>1. /\ cons[q] = "loop" /\ b # <<>>
        /\ cur' = [cur EXCEPT ![q] = Head(b)] /\ inbox' = [inbox EXCEPT ![q] = Tail(b)]
        /\ cons' = [cons EXCEPT ![q] = "handle"]
        /\ UNCHANGED <<body, published, queue, unacked, link, sup, ctxDone, chan, verdict,
                       stored, applied, returned>>
    BY <1>0 DEF TypeInv, Take, NextDelivery, Consumer, effectVars, faultVars
  <1>2. /\ cons'[q] = "handle"
        /\ \A r \in Queues : r # q =>
               cur'[r] = cur[r] /\ inbox'[r] = inbox[r] /\ cons'[r] = cons[r]
    BY <1>0, <1>1 DEF TypeInv
  <1>3. /\ h \in Nat /\ h = b[1] /\ 1 \in DOMAIN b
        /\ t \in Seq(Nat)
        /\ \A k \in DOMAIN t : k + 1 \in DOMAIN b /\ t[k] = b[k + 1] /\ k \in Nat /\ k > 0
        /\ \A k \in DOMAIN b : k = 1 \/ (k - 1 \in DOMAIN t /\ t[k - 1] = b[k])
    <2>1. b \in Seq(Nat) /\ h = Head(b) /\ t = Tail(b)
      BY <1>0, <1>1 DEF TypeInv
    <2> HIDE DEF b, h, t
    <2> QED BY <1>1, <2>1, Taking
  <1>4. TypeInv'
    <2>1. cur' \in [Queues -> Nat] /\ inbox' \in [Queues -> Seq(Nat)]
      <3> HIDE DEF b, h, t
      <3>1. /\ cur' = [cur EXCEPT ![q] = h] /\ inbox' = [inbox EXCEPT ![q] = t]
        BY <1>0, <1>1 DEF TypeInv, h, t
      <3> QED BY <3>1, <1>0, <1>3 DEF TypeInv
    <2>2. cons' \in [Queues -> {"off", "open", "loop", "handle", "answer", "pause"}]
      BY <1>0, <1>1 DEF TypeInv
    <2>3. /\ h \in 1..published[q]
          /\ \A k \in DOMAIN t : t[k] \in 1..published[q]
      <3>1. \A k \in DOMAIN b : b[k] \in 1..published[q]
        BY <1>0 DEF TypeInv
      <3> HIDE DEF b, h, t
      <3> QED BY <3>1, <1>3
    <2>4. /\ \A r \in Queues : cur'[r] <= published[r]
          /\ \A r \in Queues : \A k \in DOMAIN inbox'[r] : inbox'[r][k] \in 1..published[r]
      <3> SUFFICES ASSUME NEW r \in Queues
                   PROVE  /\ cur'[r] <= published[r]
                          /\ \A k \in DOMAIN inbox'[r] : inbox'[r][k] \in 1..published[r]
        OBVIOUS
      <3>1. CASE r = q
        <4> HIDE DEF h, t
        <4> QED BY <3>1, <1>0, <2>3 DEF TypeInv, h, t
      <3>2. CASE r # q
        BY <3>2, <1>0, <1>2 DEF TypeInv
      <3> QED BY <3>1, <3>2
    <2> QED BY <1>0, <1>1, <2>1, <2>2, <2>4 DEF TypeInv, AtBroker
  <1>5. SupInv' /\ IdleInv' /\ VerdictInv'
    <2>1. cur'[q] # 0
      BY <1>0, <1>4, <1>3 DEF TypeInv
    <2> QED BY <2>1, <1>0, <1>1, <1>2 DEF SupInv, IdleInv, VerdictInv, ConsumersStopped
  <1>6. OrderInv'
    <2>1. CASE q # Set
      BY <2>1, <1>0, <1>1, <1>2 DEF OrderInv
    <2>2. CASE q = Set
      <3>1. /\ \A m \in queue[q] \ returned : stored < m /\ \A i \in DOMAIN b : b[i] < m
            /\ \A j \in DOMAIN b : b[j] \notin returned =>
                   stored < b[j] /\ \A i \in DOMAIN b : i < j => b[i] < b[j]
        BY <2>2, <1>0 DEF OrderInv
      <3>2. \A m \in queue[q] \ returned :
                stored < m /\ h < m /\ \A i \in DOMAIN t : t[i] < m
        <4> HIDE DEF b, h, t
        <4> QED BY <3>1, <1>3
      <3>3. ASSUME NEW j \in DOMAIN t, t[j] \notin returned
            PROVE  /\ stored < t[j] /\ h < t[j]
                   /\ \A i \in DOMAIN t : i < j => t[i] < t[j]
        <4> HIDE DEF b, h, t
        <4>1. j \in Nat /\ j > 0 /\ j + 1 \in DOMAIN b /\ t[j] = b[j + 1] /\ 1 < j + 1
          BY <1>3
        <4>2. stored < t[j] /\ h < t[j]
          BY <4>1, <3>1, <3>3, <1>3
        <4>3. ASSUME NEW i \in DOMAIN t, i < j
              PROVE  t[i] < t[j]
          <5>1. i + 1 \in DOMAIN b /\ t[i] = b[i + 1] /\ i + 1 < j + 1
            BY <4>1, <4>3, <1>3
          <5> QED BY <5>1, <4>1, <3>1, <3>3
        <4> QED BY <4>2, <4>3
      <3>4. h \notin returned => stored <= h
        <4> HIDE DEF b, h, t
        <4> QED BY <3>1, <1>0, <1>3 DEF TypeInv
      <3> QED BY <2>2, <1>1, <3>2, <3>3, <3>4 DEF OrderInv
    <2> QED BY <2>1, <2>2
  <1>7. NoSetLost'
    BY <1>0, <1>1 DEF NoSetLost, AtBroker
  <1> QED BY <1>4, <1>5, <1>6, <1>7 DEF IInv

LEMMA LeaveStep ==
    ASSUME IInv, NEW q \in Queues, Leave(q)
    PROVE  IInv'
  <1> USE DEF IInv, Queues, Set, Kick
  <1>1. /\ queue' \in [Queues -> SUBSET Nat] /\ unacked' \in [Queues -> SUBSET Nat]
        /\ \A r \in Queues : AtBroker(r)' = AtBroker(r)
        /\ queue'[Set] \ returned' \subseteq queue[Set] \ returned
        /\ returned \subseteq returned' /\ returned' \in SUBSET Nat
    BY GiveBackBroker DEF Leave
  <1>2. /\ cons[q] = "loop" /\ (CtxOver \/ chan[q] = "dead")
        /\ cons' = [cons EXCEPT ![q] = "pause"] /\ chan' = [chan EXCEPT ![q] = "none"]
        /\ inbox' = [inbox EXCEPT ![q] = <<>>]
        /\ UNCHANGED <<body, published, link, sup, ctxDone, cur, verdict, stored, applied>>
    BY DEF Leave, Consumer, effectVars, faultVars
  <1>3. /\ \A r \in Queues : r # q => inbox'[r] = inbox[r]
        /\ inbox'[q] = <<>> /\ inbox' \in [Queues -> Seq(Nat)]
    BY <1>2 DEF TypeInv
  <1>4. TypeInv'
    <2>1. ASSUME NEW r \in Queues
          PROVE  \A i \in DOMAIN inbox'[r] : inbox'[r][i] \in 1..published[r]
      <3>1. CASE r = q
        BY <3>1, <1>3
      <3>2. CASE r # q
        <4>1. \A i \in DOMAIN inbox[r] : inbox[r][i] \in 1..published[r]
          BY DEF TypeInv
        <4> QED BY <4>1, <3>2, <1>3
      <3> QED BY <3>1, <3>2
    <2> QED BY <1>1, <1>2, <1>3, <2>1 DEF TypeInv
  <1>5. SupInv' /\ IdleInv' /\ VerdictInv'
    BY <1>2 DEF TypeInv, SupInv, IdleInv, VerdictInv, ConsumersStopped
  <1>6. OrderInv'
    <2>1. CASE q = Set
      BY <2>1, <1>1, <1>2, <1>3 DEF OrderInv, TypeInv
    <2>2. CASE q = Kick
      BY <2>2, <1>1, <1>2, <1>3 DEF OrderInv, TypeInv
    <2> QED BY <2>1, <2>2
  <1>7. NoSetLost'
    BY <1>1, <1>2 DEF NoSetLost
  <1> QED BY <1>4, <1>5, <1>6, <1>7

LEMMA HandleKickStep ==
    ASSUME IInv, HandleKick
    PROVE  IInv'
  <1> USE DEF IInv, HandleKick, Consumer, Queues, Set, Kick, faultVars
  <1>1. TypeInv'
    BY DEF TypeInv, AtBroker
  <1>2. SupInv' /\ IdleInv' /\ VerdictInv' /\ OrderInv'
    BY DEF TypeInv, SupInv, IdleInv, VerdictInv, OrderInv, ConsumersStopped
  <1>3. NoSetLost'
    BY DEF TypeInv, NoSetLost, AtBroker
  <1> QED BY <1>1, <1>2, <1>3

\* What a message asks for either happens, and is answered so, or it will go
\* back; only an unparsable one is dropped.
LEMMA HandleSetStep ==
    ASSUME IInv, HandleSet
    PROVE  IInv'
  <1> USE DEF IInv, Queues, Set, Kick
  <1> DEFINE m == cur[Set]
  <1>1. /\ cons[Set] = "handle" /\ cons' = [cons EXCEPT ![Set] = "answer"]
        /\ UNCHANGED <<body, published, queue, unacked, link, sup, ctxDone, chan, inbox, cur,
                       returned>>
        /\ \/ stored' = stored /\ applied' = applied
           \/ stored' = m /\ applied' = [applied EXCEPT ![Set] = @ \cup {m}]
        /\ \/ /\ verdict' = [verdict EXCEPT ![Set] = "ack"]
              /\ applied' = [applied EXCEPT ![Set] = @ \cup {m}]
           \/ verdict' = [verdict EXCEPT ![Set] = "drop"] /\ body[m] = "bad"
           \/ verdict' = [verdict EXCEPT ![Set] = "requeue"]
    BY DEF HandleSet, Script, Consumer, OnUnparsable, OnError, effectVars, faultVars
  <1>2. TypeInv'
    BY <1>1 DEF TypeInv, AtBroker
  <1>3. SupInv' /\ IdleInv' /\ VerdictInv'
    BY <1>1 DEF TypeInv, SupInv, IdleInv, VerdictInv, ConsumersStopped
  <1>4. OrderInv'
    <2>1. CASE stored' = stored
      BY <2>1, <1>1 DEF TypeInv, OrderInv
    <2>2. CASE stored' = m
      BY <2>2, <1>1 DEF TypeInv, OrderInv
    <2> QED BY <1>1, <2>1, <2>2
  <1>5. NoSetLost'
    BY <1>1 DEF TypeInv, NoSetLost, AtBroker
  <1> QED BY <1>2, <1>3, <1>4, <1>5

LEMMA AnswerStep ==
    ASSUME IInv, Answer
    PROVE  IInv'
  <1> USE DEF IInv, Queues, Set, Kick
  <1> DEFINE m == cur[Set]
  <1>1. /\ cons[Set] = "answer" /\ cons' = [cons EXCEPT ![Set] = "loop"]
        /\ cur' = [cur EXCEPT ![Set] = 0] /\ verdict' = [verdict EXCEPT ![Set] = "ack"]
        /\ UNCHANGED <<body, published, link, sup, ctxDone, chan, inbox, stored, applied>>
        /\ \/ UNCHANGED <<queue, unacked, returned>>
           \/ /\ unacked' = [unacked EXCEPT ![Set] = @ \ {m}]
              /\ queue' = [queue EXCEPT ![Set] = @ \cup {m}]
              /\ returned' = returned \cup {m}
           \/ /\ unacked' = [unacked EXCEPT ![Set] = @ \ {m}]
              /\ UNCHANGED <<queue, returned>> /\ verdict[Set] # "requeue"
    BY DEF Answer, Consumer, effectVars, faultVars
  <1>2. m \in 1..published[Set]
    BY <1>1 DEF TypeInv, IdleInv
  <1>3. TypeInv'
    <2>1. /\ queue' \in [Queues -> SUBSET Nat] /\ unacked' \in [Queues -> SUBSET Nat]
          /\ returned' \in SUBSET Nat
      <3>1. m \in Nat
        BY DEF TypeInv
      <3> HIDE DEF m
      <3>2. returned' \in SUBSET Nat /\ unacked' \in [Queues -> SUBSET Nat]
        BY <1>1, <3>1 DEF TypeInv
      <3>3. queue' \in [Queues -> SUBSET Nat]
        BY <1>1, <3>1 DEF TypeInv
      <3> QED BY <3>2, <3>3
    <2>2. /\ cur' \in [Queues -> Nat] /\ \A q \in Queues : cur'[q] <= published[q]
      BY <1>1, <1>2 DEF TypeInv
    <2>3. \A q \in Queues : AtBroker(q)' \subseteq 1..published[q]
      BY <1>1, <1>2 DEF TypeInv, AtBroker
    <2> QED BY <1>1, <2>1, <2>2, <2>3 DEF TypeInv
  <1>4. SupInv' /\ IdleInv' /\ VerdictInv'
    BY <1>1 DEF TypeInv, SupInv, IdleInv, VerdictInv, ConsumersStopped
  <1>5. OrderInv'
    <2>1. /\ queue'[Set] \ returned' \subseteq queue[Set] \ returned
          /\ returned \subseteq returned' /\ queue[Set] \subseteq 1..published[Set]
      BY <1>1 DEF TypeInv, AtBroker
    <2>2. \A j \in DOMAIN inbox[Set] : inbox[Set][j] \in 1..published[Set]
      BY DEF TypeInv
    <2>3. /\ cur'[Set] = 0 /\ cons'[Set] = "loop" /\ stored' = stored /\ inbox' = inbox
          /\ published[Set] \in Nat /\ OrderInv
      BY <1>1 DEF TypeInv
    <2> QED BY ONLY <2>1, <2>2, <2>3 DEF OrderInv
  <1>6. NoSetLost'
    BY <1>1 DEF TypeInv, NoSetLost, AtBroker, VerdictInv
  <1> QED BY <1>3, <1>4, <1>5, <1>6

-----------------------------------------------------------------------------
LEMMA NextInv == IInv /\ [Next]_vars => IInv'
  <1> SUFFICES ASSUME IInv, [Next]_vars PROVE IInv'
    OBVIOUS
  <1>1. ASSUME NEW q \in Queues, Publish(q) \/ Deliver(q) \/ ChannelError(q)
        PROVE  IInv'
    <2>1. ChannelError(q) => Drop({q}) /\ UNCHANGED link
      BY DEF ChannelError
    <2> QED BY <1>1, <2>1, PublishStep, DeliverStep, DropStep
  <1>2. ASSUME NEW q \in Queues, Goroutine(q)
        PROVE  IInv'
    BY <1>2, OpenChannelStep, TakeStep, LeaveStep, HandleKickStep, HandleSetStep, AnswerStep
       DEF Goroutine
  <1>3. CASE Expire \/ LinkError \/ Crash
    BY <1>3, ExpireStep, LinkErrorStep, CrashStep
  <1>4. CASE Calm \/ ScriptsLost \/ Dial \/ Interrupted \/ Stopped \/ Again \/ Stop
    BY <1>4, SupervisionStep
  <1>5. CASE UNCHANGED vars
    <2> USE <1>5 DEF IInv, vars, brokerVars, deliveryVars, effectVars, faultVars
    <2>1. TypeInv' /\ SupInv' /\ IdleInv' /\ VerdictInv'
      BY DEF TypeInv, AtBroker, SupInv, IdleInv, VerdictInv, ConsumersStopped
    <2>2. OrderInv' /\ NoSetLost'
      BY DEF OrderInv, NoSetLost, AtBroker
    <2> QED BY <2>1, <2>2
  <1> QED BY <1>1, <1>2, <1>3, <1>4, <1>5 DEF Next, Terminated

\* Only SetUserDataLuaScript writes the stored data, for the delivery in hand.
LEMMA StoredIsInHand ==
    ASSUME IInv, [Next]_vars
    PROVE  stored' = stored \/ (cons[Set] = "handle" /\ stored' = cur[Set])
  <1>1. ASSUME NEW q \in Queues, Publish(q) \/ Deliver(q) \/ ChannelError(q)
        PROVE  stored' = stored
    BY <1>1 DEF Publish, Deliver, ChannelError, Drop, effectVars
  <1>2. ASSUME NEW q \in Queues, Goroutine(q)
        PROVE  stored' = stored \/ (cons[Set] = "handle" /\ stored' = cur[Set])
    BY <1>2 DEF Goroutine, OpenChannel, Take, Leave, Relaunch, HandleKick, HandleSet, Script,
                Answer, effectVars
  <1>3. CASE Expire \/ LinkError \/ Crash \/ Calm \/ ScriptsLost \/ Stop
    BY <1>3 DEF Expire, LinkError, Drop, Crash, Calm, ScriptsLost, Stop, effectVars
  <1>4. CASE Dial \/ Interrupted \/ Stopped \/ Again
    BY <1>4 DEF Dial, Interrupted, Stopped, Again, Supervisor, effectVars
  <1>5. CASE UNCHANGED vars
    BY <1>5 DEF vars, effectVars
  <1> QED BY <1>1, <1>2, <1>3, <1>4, <1>5 DEF Next, Terminated

LEMMA Invariance == Spec => []IInv
  BY InitInv, NextInv, PTL DEF Spec

\* No SetUserData message is lost by any crash, disconnection or failure: only
\* an answer takes it from the broker, and what it asked for has happened by then.
THEOREM SetDataNotLost == Spec => []NoSetLost
  <1>1. IInv => NoSetLost
    BY DEF IInv
  <1> QED BY Invariance, <1>1, PTL

\* Stored user data gets older only through a message that had gone back to the
\* queue: redelivery is what breaks the order of publication, nothing else does.
THEOREM OrderKeptBetweenReturns == Spec => StaleOnlyAfterReturn
  <1>1. IInv /\ [Next]_vars => [stored' < stored => stored' \in returned]_vars
    <2> SUFFICES ASSUME IInv, [Next]_vars, stored' < stored
                 PROVE  stored' \in returned
      OBVIOUS
    <2>1. CASE stored' = stored
      BY <2>1 DEF IInv, TypeInv
    <2>2. CASE cons[Set] = "handle" /\ stored' = cur[Set]
      BY <2>2 DEF IInv, TypeInv, OrderInv, Queues
    <2> QED BY <2>1, <2>2, StoredIsInHand
  <1> QED BY Invariance, <1>1, PTL DEF Spec, StaleOnlyAfterReturn

-----------------------------------------------------------------------------
(* Nothing the broker waits for is forgotten by its consumer.              *)

AtWork == {"loop", "handle", "answer"}

\* A consumer has a channel while it works on it, and deliveries with it; what is
\* not acknowledged yet is buffered or in hand.
AttendInv ==
    /\ \A q \in Queues : chan[q] # "none" <=> cons[q] \in AtWork
    /\ \A q \in Queues : cons[q] \notin AtWork => inbox[q] = <<>>
    /\ \A m \in unacked[Set] :
           chan[Set] = "open" /\ (m = cur[Set] \/ \E i \in DOMAIN inbox[Set] : inbox[Set][i] = m)
    /\ unacked[Kick] = {}

LEMMA InitAttend == Init => AttendInv
  BY DEF Init, AttendInv, AtWork, Queues, Set, Kick

LEMMA DeliverAttend ==
    ASSUME IInv, AttendInv, NEW q \in Queues, Deliver(q)
    PROVE  AttendInv'
  <1>0. /\ TypeInv /\ Set \in Queues /\ Kick \in Queues /\ Set # Kick
        /\ \A r \in Queues : AutoAck(r) <=> r = Kick
    BY DEF IInv, Queues, Set, Kick, AutoAck
  <1>1. /\ chan[q] = "open"
        /\ unacked' = IF AutoAck(q) THEN unacked ELSE [unacked EXCEPT ![q] = @ \cup queue[q]]
        /\ UNCHANGED <<cons, chan, cur>>
    BY DEF Deliver
  <1> DEFINE b == inbox[q]
             c == inbox'[q]
  <1>2. PICK s \in InOrder(queue[q]) : inbox' = [inbox EXCEPT ![q] = inbox[q] \o s]
    BY <1>0 DEF Deliver, TypeInv
  <1>3. s \in Seq(Nat) /\ \A m \in queue[q] : \E i \in DOMAIN s : s[i] = m
    <2>1. queue[q] \in SUBSET Nat /\ IsFiniteSet(queue[q])
      BY <1>0, QueueFinite DEF TypeInv
    <2> QED BY <2>1, InOrderIs
  <1>4. c = b \o s /\ b \in Seq(Nat) /\ \A r \in Queues : r # q => inbox'[r] = inbox[r]
    BY <1>0, <1>2 DEF TypeInv
  <1>5. /\ \A k \in DOMAIN b : k \in DOMAIN c /\ c[k] = b[k]
        /\ \A m \in queue[q] : \E k \in DOMAIN c : c[k] = m
    <2> HIDE DEF b, c
    <2>1. /\ \A k \in DOMAIN b : k \in DOMAIN c /\ c[k] = b[k]
          /\ \A k \in DOMAIN s : k + Len(b) \in DOMAIN c /\ c[k + Len(b)] = s[k]
      BY <1>3, <1>4, Buffering
    <2> QED BY <2>1, <1>3
  <1>6. \A r \in Queues : cons[r] \notin AtWork => inbox'[r] = inbox[r]
    BY <1>1, <1>4 DEF AttendInv
  <1>7. CASE q = Kick
    BY <1>7, <1>0, <1>1, <1>4, <1>6 DEF AttendInv
  <1>8. CASE q = Set
    <2>1. unacked'[Set] = unacked[Set] \cup queue[Set] /\ unacked'[Kick] = unacked[Kick]
      BY <1>8, <1>0, <1>1 DEF TypeInv
    <2> QED BY <1>8, <1>1, <1>5, <1>6, <2>1 DEF AttendInv
  <1> QED BY <1>0, <1>7, <1>8 DEF Queues

\* What goes back to the queue is unacknowledged no more.
LEMMA GiveBackAttend ==
    ASSUME TypeInv, NEW Q \in SUBSET Queues, GiveBack(Q)
    PROVE  /\ \A q \in Q : unacked'[q] = {}
           /\ \A q \in Queues \ Q : unacked'[q] = unacked[q]
  BY DEF TypeInv, GiveBack

LEMMA LossAttend ==
    ASSUME IInv, AttendInv, LinkError \/ Crash \/ \E q \in Queues : ChannelError(q)
    PROVE  AttendInv'
  <1> USE DEF IInv, Queues, Set, Kick
  <1>1. ASSUME NEW Q \in SUBSET Queues, Drop(Q)
        PROVE  AttendInv'
    <2>1. /\ \A q \in Q : unacked'[q] = {} /\ chan[q] = "open" /\ chan'[q] = "dead"
          /\ \A q \in Queues \ Q : unacked'[q] = unacked[q] /\ chan'[q] = chan[q]
          /\ UNCHANGED <<cons, inbox, cur>>
      BY <1>1, GiveBackAttend DEF Drop, deliveryVars
    <2> QED BY <2>1 DEF AttendInv, AtWork
  <1>2. ASSUME NEW q \in Queues, ChannelError(q)
        PROVE  AttendInv'
    BY <1>1, <1>2 DEF ChannelError
  <1>3. CASE LinkError
    BY <1>1, <1>3 DEF LinkError, Open, AttendInv, brokerVars, deliveryVars
  <1>4. CASE Crash
    BY <1>4, GiveBackAttend DEF Crash, AttendInv, AtWork
  <1> QED BY <1>2, <1>3, <1>4

LEMMA TakeAttend ==
    ASSUME IInv, AttendInv, NEW q \in Queues, Take(q)
    PROVE  AttendInv'
  <1>0. /\ TypeInv /\ IdleInv /\ Set \in Queues /\ Kick \in Queues
    BY DEF IInv, Queues
  <1> DEFINE b == inbox[q]
             h == cur'[q]
             t == inbox'[q]
  <1>1. /\ cons[q] = "loop" /\ b # <<>>
        /\ cur' = [cur EXCEPT ![q] = Head(b)] /\ inbox' = [inbox EXCEPT ![q] = Tail(b)]
        /\ cons' = [cons EXCEPT ![q] = "handle"]
        /\ UNCHANGED <<unacked, chan>>
    BY <1>0 DEF TypeInv, Take, NextDelivery, Consumer
  <1>2. /\ cons'[q] = "handle"
        /\ \A r \in Queues : r # q =>
               cur'[r] = cur[r] /\ inbox'[r] = inbox[r] /\ cons'[r] = cons[r]
    BY <1>0, <1>1 DEF TypeInv
  <1>3. \A k \in DOMAIN b : b[k] = h \/ \E i \in DOMAIN t : t[i] = b[k]
    <2>1. b \in Seq(Nat) /\ h = Head(b) /\ t = Tail(b)
      BY <1>0, <1>1 DEF TypeInv
    <2> HIDE DEF b, h, t
    <2>2. h = b[1] /\ \A k \in DOMAIN b : k = 1 \/ (k - 1 \in DOMAIN t /\ t[k - 1] = b[k])
      BY <1>1, <2>1, Taking
    <2> QED BY <2>2
  <1>4. cur[q] = 0
    BY <1>0, <1>1 DEF IdleInv
  <1>5. \A m \in unacked[Set] : m # 0
    BY <1>0 DEF TypeInv, AtBroker
  <1>6. \A m \in unacked[Set] :
            m = cur'[Set] \/ \E i \in DOMAIN inbox'[Set] : inbox'[Set][i] = m
    <2>1. CASE q = Set
      BY <2>1, <1>3, <1>4, <1>5 DEF AttendInv
    <2>2. CASE q # Set
      BY <2>2, <1>0, <1>2 DEF AttendInv
    <2> QED BY <2>1, <2>2
  <1> QED BY <1>0, <1>1, <1>2, <1>6 DEF AttendInv, AtWork

LEMMA SupervisionAttend ==
    ASSUME IInv, AttendInv,
           \/ Expire \/ Calm \/ ScriptsLost \/ Stop \/ Dial \/ Interrupted \/ Stopped \/ Again
           \/ \E q \in Queues : Publish(q)
    PROVE  AttendInv'
  <1>1. /\ UNCHANGED <<unacked, chan, inbox, cur>>
        /\ \/ UNCHANGED cons
           \/ sup = "dial" /\ cons' = [q \in Queues |-> "open"]
    BY DEF Expire, Calm, ScriptsLost, Stop, Dial, Interrupted, Stopped, Again, Supervisor,
           Publish, brokerVars, deliveryVars
  <1> QED BY <1>1 DEF IInv, SupInv, ConsumersStopped, AttendInv, AtWork

\* Every other step of a consumer; Leave closes the channel, which gives back all.
LEMMA ConsumerAttend ==
    ASSUME IInv, AttendInv, NEW q \in Queues, Goroutine(q)
    PROVE  AttendInv'
  <1> USE DEF IInv, Queues, Set, Kick
  <1>1. CASE OpenChannel(q) \/ Relaunch(q)
    <2>1. /\ UNCHANGED <<unacked, inbox, cur>> /\ cons[q] \in {"open", "pause"}
          /\ \/ cons' = [cons EXCEPT ![q] = "loop"] /\ chan' = [chan EXCEPT ![q] = "open"]
             \/ chan' = chan /\ \E l \in {"pause", "open", "off"} : cons' = [cons EXCEPT ![q] = l]
      BY <1>1 DEF OpenChannel, Relaunch, Consumer, deliveryVars
    <2>2. cons[q] \notin AtWork /\ chan[q] = "none" /\ inbox[q] = <<>>
      BY <2>1 DEF AttendInv, AtWork
    <2>3. unacked[q] = {}
      BY <2>2 DEF TypeInv, AttendInv
    <2>4. \A r \in Queues : r # q => cons'[r] = cons[r] /\ chan'[r] = chan[r]
      BY <2>1 DEF TypeInv
    <2>5. chan'[q] # "none" <=> cons'[q] \in AtWork
      BY <2>1, <2>2 DEF TypeInv, AtWork
    <2> QED BY ONLY <2>1, <2>2, <2>3, <2>4, <2>5, AttendInv DEF AttendInv, Queues
  <1>2. CASE Take(q)
    BY <1>2, TakeAttend
  <1>3. CASE Leave(q)
    <2>1. /\ unacked'[q] = {} /\ \A r \in Queues : r # q => unacked'[r] = unacked[r]
      BY <1>3, GiveBackAttend DEF Leave
    <2>2. /\ cons[q] = "loop" /\ cons' = [cons EXCEPT ![q] = "pause"]
          /\ chan' = [chan EXCEPT ![q] = "none"] /\ inbox' = [inbox EXCEPT ![q] = <<>>]
          /\ cur' = cur
      BY <1>3 DEF Leave, Consumer
    <2> QED BY <2>1, <2>2 DEF TypeInv, AttendInv, AtWork
  <1>4. CASE q = Kick /\ HandleKick
    BY <1>4 DEF TypeInv, HandleKick, Consumer, AttendInv, AtWork
  <1>5. CASE q = Set /\ HandleSet
    BY <1>5 DEF TypeInv, HandleSet, Consumer, AttendInv, AtWork
  <1>6. CASE q = Set /\ Answer
    <2>1. /\ cons[Set] = "answer" /\ cons' = [cons EXCEPT ![Set] = "loop"]
          /\ cur'[Set] = 0 /\ UNCHANGED <<chan, inbox>>
          /\ unacked'[Kick] = unacked[Kick]
          /\ unacked'[Set] \subseteq unacked[Set]
          /\ chan[Set] = "open" => cur[Set] \notin unacked'[Set]
      BY <1>6 DEF TypeInv, Answer, Consumer
    <2> QED BY <2>1 DEF TypeInv, AttendInv, AtWork
  <1> QED BY <1>1, <1>2, <1>3, <1>4, <1>5, <1>6 DEF Goroutine

LEMMA NextAttend == IInv /\ AttendInv /\ [Next]_vars => AttendInv'
  <1> SUFFICES ASSUME IInv, AttendInv, [Next]_vars PROVE AttendInv'
    OBVIOUS
  <1>1. CASE UNCHANGED vars
    BY <1>1 DEF vars, brokerVars, deliveryVars, AttendInv
  <1>2. CASE Next
    BY <1>2, DeliverAttend, LossAttend, SupervisionAttend, ConsumerAttend DEF Next, Terminated,
       vars, brokerVars, deliveryVars, AttendInv
  <1> QED BY <1>1, <1>2

\* What the broker has sent and waits for is in the buffer or the hands of a
\* consumer with a live channel.
AtWorkOn(m) ==
    chan[Set] = "open" /\ cons[Set] \in AtWork /\ m \in Range(inbox[Set]) \cup {cur[Set]}

\* No delivery stays unacknowledged with nobody to answer it, whatever was lost:
\* the message is at work or back in its queue; and a supervision that has ended
\* leaves no channel behind.
THEOREM NothingForgotten ==
    Spec => [](/\ \A m \in unacked[Set] : AtWorkOn(m)
               /\ sup \in {"dial", "pause", "end"} =>
                      \A q \in Queues : chan[q] = "none" /\ unacked[q] = {})
  <1> DEFINE Goal == /\ \A m \in unacked[Set] : AtWorkOn(m)
                     /\ sup \in {"dial", "pause", "end"} =>
                            \A q \in Queues : chan[q] = "none" /\ unacked[q] = {}
  <1>1. IInv /\ AttendInv => Goal
    BY DEF IInv, SupInv, ConsumersStopped, AttendInv, AtWork, AtWorkOn, Range, Queues, Set, Kick
  <1> QED BY <1>1, Invariance, InitAttend, NextAttend, PTL DEF Spec

-----------------------------------------------------------------------------
(* What loses a kick.                                                      *)

\* An open channel is one of a live connection, and the supervisor stops its
\* consumers for a lost connection or for the shutdown only.
LinkInv ==
    /\ \A q \in Queues : chan[q] = "open" => link
    /\ sup = "stop" => ~link \/ ctxDone

LEMMA InitLink == Init => LinkInv
  BY DEF Init, LinkInv

LEMMA NextLink == IInv /\ AttendInv /\ LinkInv /\ [Next]_vars => LinkInv'
  <1> SUFFICES ASSUME IInv, AttendInv, LinkInv, [Next]_vars PROVE LinkInv'
    OBVIOUS
  <1>0. TypeInv /\ SupInv
    BY DEF IInv
  <1>1. ASSUME UNCHANGED <<link, sup, ctxDone>>,
               \A q \in Queues : chan'[q] = "open" => chan[q] = "open" \/ link
        PROVE  LinkInv'
    BY <1>1 DEF LinkInv
  <1>2. ASSUME NEW q \in Queues, Publish(q) \/ Deliver(q) \/ ChannelError(q)
        PROVE  LinkInv'
    BY <1>1, <1>2 DEF Publish, Deliver, ChannelError, Drop
  <1>3. ASSUME NEW q \in Queues, Goroutine(q)
        PROVE  LinkInv'
    <2>1. UNCHANGED <<link, sup, ctxDone>>
      BY <1>3 DEF Goroutine, OpenChannel, Take, Leave, Relaunch, HandleKick, HandleSet, Answer,
                  Consumer
    <2>2. CASE OpenChannel(q)
      BY <1>0, <1>1, <2>1, <2>2 DEF OpenChannel, TypeInv
    <2>3. CASE Leave(q)
      BY <1>0, <1>1, <2>1, <2>3 DEF Leave, TypeInv
    <2>4. CASE ~OpenChannel(q) /\ ~Leave(q)
      <3>1. UNCHANGED chan
        BY <1>3, <2>4 DEF Goroutine, Take, Relaunch, HandleKick, HandleSet, Answer
      <3> QED BY <1>1, <2>1, <3>1
    <2> QED BY <2>2, <2>3, <2>4
  <1>4. CASE LinkError
    BY <1>4 DEF LinkError, Drop, Open, LinkInv
  <1>5. CASE Crash
    BY <1>5 DEF Crash, LinkInv
  <1>6. CASE Expire \/ Calm \/ ScriptsLost \/ Stop
    BY <1>6 DEF Expire, Calm, ScriptsLost, Stop, LinkInv
  <1>7. CASE Dial \/ Interrupted \/ Again
    BY <1>7 DEF Dial, Interrupted, Again, Supervisor, ConnectionLost, LinkInv
  <1>8. CASE Stopped
    BY <1>0, <1>8 DEF Stopped, Supervisor, ConsumersStopped, AttendInv, AtWork, LinkInv
  <1>9. CASE UNCHANGED vars
    BY <1>1, <1>9 DEF vars
  <1> QED BY <1>2, <1>3, <1>4, <1>5, <1>6, <1>7, <1>8, <1>9 DEF Next, Terminated

\* What is delivered moves to the buffer, and from there into the hands.
LEMMA KickDelivered ==
    ASSUME IInv, Deliver(Kick)
    PROVE  queue[Kick] \cup Range(inbox[Kick]) \subseteq Range(inbox'[Kick])
  <1>0. TypeInv /\ Kick \in Queues
    BY DEF IInv, Queues
  <1> DEFINE b == inbox[Kick]
             c == inbox'[Kick]
  <1>1. PICK s \in InOrder(queue[Kick]) : inbox' = [inbox EXCEPT ![Kick] = inbox[Kick] \o s]
    BY <1>0 DEF Deliver, TypeInv
  <1>2. s \in Seq(Nat) /\ \A m \in queue[Kick] : \E i \in DOMAIN s : s[i] = m
    <2>1. queue[Kick] \in SUBSET Nat /\ IsFiniteSet(queue[Kick])
      BY <1>0, QueueFinite DEF TypeInv
    <2> QED BY <2>1, InOrderIs
  <1>3. b \in Seq(Nat) /\ c = b \o s
    BY <1>0, <1>1 DEF TypeInv
  <1>4. /\ \A k \in DOMAIN b : k \in DOMAIN c /\ c[k] = b[k]
        /\ \A k \in DOMAIN s : k + Len(b) \in DOMAIN c /\ c[k + Len(b)] = s[k]
    <2> HIDE DEF b, c
    <2> QED BY <1>2, <1>3, Buffering
  <1> HIDE DEF b, c
  <1>5. Range(b) \subseteq Range(c)
    BY <1>4 DEF Range
  <1>6. queue[Kick] \subseteq Range(c)
    BY <1>2, <1>4 DEF Range
  <1> QED BY <1>5, <1>6 DEF b, c

LEMMA KickTaken ==
    ASSUME IInv, Take(Kick)
    PROVE  Range(inbox[Kick]) \subseteq Range(inbox'[Kick]) \cup {cur'[Kick]}
  <1>0. TypeInv /\ Kick \in Queues
    BY DEF IInv, Queues
  <1> DEFINE b == inbox[Kick]
             h == cur'[Kick]
             t == inbox'[Kick]
  <1>1. b \in Seq(Nat) /\ b # <<>> /\ h = Head(b) /\ t = Tail(b)
    BY <1>0 DEF TypeInv, Take, NextDelivery
  <1> HIDE DEF b, h, t
  <1>2. h = b[1] /\ \A k \in DOMAIN b : k = 1 \/ (k - 1 \in DOMAIN t /\ t[k - 1] = b[k])
    BY <1>1, Taking
  <1>3. Range(b) \subseteq Range(t) \cup {h}
    BY <1>2 DEF Range
  <1> QED BY <1>3 DEF b, h, t

\* One step keeps a kick that is on its way, unless the step or the state is one
\* of those named.
KickKept ==
    KickAlive \ {0} \subseteq KickAlive' \/ Expire \/ Crash \/ ctxDone \/ chan[Kick] = "dead"

LEMMA KickConsumer ==
    ASSUME IInv, AttendInv, LinkInv, Goroutine(Kick) PROVE KickKept
  <1> USE DEF KickAlive, KickKept
  <1>0. TypeInv /\ SupInv /\ IdleInv /\ Kick \in Queues /\ Kick # Set
    BY DEF IInv, Queues, Kick, Set
  <1>1. CASE OpenChannel(Kick) \/ Relaunch(Kick)
    BY <1>1 DEF OpenChannel, Relaunch, deliveryVars, effectVars
  <1>2. CASE Take(Kick)
    <2>1. UNCHANGED <<queue, applied>> /\ cur[Kick] = 0
      BY <1>0, <1>2 DEF Take, effectVars, IdleInv
    <2> QED BY <1>2, <2>1, KickTaken
  <1>3. CASE Leave(Kick)
    <2>1. cons[Kick] = "loop" /\ (sup # "run" \/ chan[Kick] = "dead")
      BY <1>3 DEF Leave, CtxOver
    <2>2. sup # "run" => sup = "stop"
      BY <1>0, <2>1 DEF SupInv, ConsumersStopped, TypeInv
    <2>3. chan[Kick] # "none"
      BY <1>0, <2>1 DEF AttendInv, AtWork
    <2> QED BY <1>0, <2>1, <2>2, <2>3 DEF LinkInv, TypeInv
  <1>4. CASE HandleKick
    <2>1. /\ UNCHANGED <<queue, inbox>>
          /\ applied'[Kick] = applied[Kick] \cup {cur[Kick]}
      BY <1>0, <1>4 DEF HandleKick, TypeInv
    <2> QED BY <2>1
  <1> QED BY <1>0, <1>1, <1>2, <1>3, <1>4 DEF Goroutine

LEMMA KickNext ==
    ASSUME IInv, AttendInv, LinkInv, [Next]_vars PROVE KickKept
  <1> USE DEF KickAlive, KickKept
  <1>0. TypeInv /\ Kick \in Queues /\ Set \in Queues /\ Kick # Set /\ Queues = {Set, Kick}
    BY DEF IInv, Queues, Kick, Set
  <1>1. ASSUME NEW q \in Queues, Publish(q)
        PROVE  KickKept
    BY <1>0, <1>1 DEF Publish, TypeInv, deliveryVars, effectVars
  <1>2. ASSUME NEW q \in Queues, Deliver(q)
        PROVE  KickKept
    <2>1. CASE q = Kick
      BY <1>2, <2>1, KickDelivered DEF Deliver, effectVars
    <2>2. CASE q = Set
      BY <1>0, <1>2, <2>2 DEF Deliver, effectVars, TypeInv
    <2> QED BY <1>0, <2>1, <2>2
  <1>3. ASSUME NEW Q \in SUBSET Queues, Drop(Q)
        PROVE  KickKept
    <2>1. queue[Kick] \subseteq queue'[Kick]
      BY <1>0, <1>3, GiveBackBroker DEF Drop
    <2> QED BY <1>3, <2>1 DEF Drop, deliveryVars, effectVars
  <1>4. CASE LinkError
    BY <1>0, <1>3, <1>4 DEF LinkError, Open, brokerVars, deliveryVars, effectVars
  <1>5. ASSUME NEW q \in Queues, ChannelError(q)
        PROVE  KickKept
    BY <1>3, <1>5 DEF ChannelError
  <1>6. CASE Goroutine(Set)
    <2>1. CASE Leave(Set)
      <3>1. queue[Kick] \subseteq queue'[Kick]
        BY <1>0, <2>1, GiveBackBroker DEF Leave
      <3> QED BY <1>0, <2>1, <3>1 DEF Leave, effectVars, TypeInv
    <2>2. CASE ~Leave(Set)
      <3>1. queue[Kick] = queue'[Kick] /\ inbox'[Kick] = inbox[Kick] /\ cur'[Kick] = cur[Kick]
        BY <1>0, <1>6, <2>2
           DEF Goroutine, OpenChannel, Take, Relaunch, HandleSet, Answer, TypeInv, deliveryVars
      <3>2. applied'[Kick] = applied[Kick]
        BY <1>0, <1>6, <2>2
           DEF Goroutine, OpenChannel, Take, Relaunch, HandleSet, Script, Answer, TypeInv,
               effectVars
      <3> QED BY <3>1, <3>2
    <2> QED BY <2>1, <2>2
  <1>7. CASE Calm \/ ScriptsLost \/ Stop \/ Dial \/ Interrupted \/ Stopped \/ Again
    BY <1>7 DEF Calm, ScriptsLost, Stop, Dial, Interrupted, Stopped, Again, Supervisor,
                brokerVars, deliveryVars, effectVars
  <1>8. CASE UNCHANGED vars
    BY <1>8 DEF vars, brokerVars, deliveryVars, effectVars
  <1>9. CASE Expire \/ Crash
    BY <1>9
  <1> QED BY <1>0, <1>1, <1>2, <1>4, <1>5, <1>6, <1>7, <1>8, <1>9, KickConsumer
          DEF Next, Terminated

\* A kick acknowledged when it was sent reaches its handler unless it expires,
\* the process dies or is shut down, or the broker has dropped the channel of its
\* own consumer: the consumer does not leave for anything else.
THEOREM KicksReachTheirHandler == Spec => KickLossHasCause
  <1>1. IInv /\ AttendInv /\ LinkInv /\ [Next]_vars => [KickKept]_vars
    BY KickNext
  <1>2. [KickKept]_vars =>
            [KickAlive \ {0} \subseteq KickAlive'
             \/ Expire \/ Crash \/ ctxDone \/ chan[Kick] = "dead"]_vars
    BY DEF KickKept
  <1> QED BY <1>1, <1>2, Invariance, InitAttend, NextAttend, InitLink, NextLink,
             PTL DEF Spec, KickLossHasCause
=============================================================================
