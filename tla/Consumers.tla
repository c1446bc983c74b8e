------------------------------ MODULE Consumers ------------------------------
(***************************************************************************)
(* The RabbitMQ consumers of the server: runRabbitmqConsume, which dials   *)
(* and keeps one consumer per queue running through a nested task manager, *)
(* and the consumers' loops over one channel each.  SetUserData messages   *)
(* are acknowledged after the Redis script ran, Disconnect messages by the *)
(* broker when it sends them; the DeleteUserData and blacklist queues are  *)
(* consumed like Disconnect.                                               *)
(*                                                                         *)
(* Messages of a queue are numbered in the order they were published, which*)
(* is their place in the queue.  Nothing limits how many the broker sends  *)
(* ahead (no Qos), so the client buffers them (inbox) while one is handled.*)
(***************************************************************************)
EXTENDS Naturals, Sequences, SequencesExt

CONSTANTS
    MaxSets,    \* bound: SetUserData messages for one user
    MaxKicks,   \* bound: Disconnect messages
    Bodies      \* what SetUserData messages may hold, one after the other:
                \* "good": some addresses, "empty": none, "bad": not parsable

ASSUME BoundsNat == MaxSets \in Nat /\ MaxKicks \in Nat
ASSUME BodiesKnown == Bodies \subseteq [1..MaxSets -> {"good", "empty", "bad"}]

Set == "SetUserData"
Kick == "Disconnect"
Queues == {Set, Kick}
Messages(q) == 1..(IF q = Set THEN MaxSets ELSE MaxKicks)
AutoAck_All(q) == TRUE
AutoAck(q) == q = Kick      \* the auto-ack argument of ch.Consume

VARIABLES
    body,       \* input: what each SetUserData message holds
    published,  \* broker: the last message published to each queue
    queue,      \* broker: the set of messages ready to be sent
    unacked,    \* broker: those sent and not yet acknowledged
    link,       \* the TCP connection of the dialled amqp.Connection is up
    sup,        \* runRabbitmqConsume, and the task manager that calls it again
    ctxDone,    \* the manager's context is done
    cons,       \* each consumer's goroutine
    chan,       \* its channel: "none", "open", "dead" once the broker dropped it
    inbox,      \* deliveries buffered by the client
    cur,        \* the delivery being handled, 0 for none
    verdict,    \* how it will be answered
    stored,     \* Redis: the message whose user data is stored, 0 at first
    applied,    \* history: messages that took effect
    returned,   \* history: SetUserData messages that went back to the queue
    script,     \* Redis knows the script whose SHA the process holds
    calm        \* from now on the surroundings do not fail

brokerVars == <<published, queue, unacked>>
deliveryVars == <<inbox, cur, verdict>>
effectVars == <<stored, applied>>
faultVars == <<script, calm>>
vars == <<body, brokerVars, link, sup, ctxDone, cons, chan, deliveryVars,
          effectVars, returned, faultVars>>

Init ==
    /\ body \in Bodies
    /\ published = [q \in Queues |-> 0]
    /\ queue = [q \in Queues |-> {}]
    /\ unacked = [q \in Queues |-> {}]
    /\ link = FALSE /\ sup = "dial" /\ ctxDone = FALSE
    /\ cons = [q \in Queues |-> "off"]
    /\ chan = [q \in Queues |-> "none"]
    /\ inbox = [q \in Queues |-> <<>>]
    /\ cur = [q \in Queues |-> 0]
    /\ verdict = [q \in Queues |-> "ack"]
    /\ stored = 0
    /\ applied = [q \in Queues |-> {}]
    /\ script = TRUE
    /\ returned = {} /\ calm = FALSE

-----------------------------------------------------------------------------
(* The broker.                                                             *)

Publish(q) ==
    /\ published[q] + 1 \in Messages(q)
    /\ published' = [published EXCEPT ![q] = @ + 1]
    /\ queue' = [queue EXCEPT ![q] = @ \cup {published'[q]}]
    /\ UNCHANGED <<body, unacked, link, sup, ctxDone, cons, chan, deliveryVars,
                   effectVars, returned, faultVars>>

\* The sequence of the messages of S, as they stand in the queue.
InOrder(S) ==
    {s \in [1..Cardinality(S) -> S] :
        Range(s) = S /\ \A i, j \in DOMAIN s : i < j => s[i] < s[j]}

\* The broker sends all that is ready: a consumer has no limit.
Deliver(q) ==
    /\ chan[q] = "open" /\ queue[q] # {}
    /\ \E s \in InOrder(queue[q]) : inbox' = [inbox EXCEPT ![q] = @ \o s]
    /\ unacked' = IF AutoAck(q) THEN unacked ELSE [unacked EXCEPT ![q] = @ \cup queue[q]]
    /\ queue' = [queue EXCEPT ![q] = {}]
    /\ UNCHANGED <<body, published, link, sup, ctxDone, cons, chan, cur, verdict,
                   effectVars, returned, faultVars>>

\* What was not acknowledged on a channel goes back to its place in the queue.
GiveBack(Q) ==
    /\ queue' = [q \in Queues |-> IF q \in Q THEN queue[q] \cup unacked[q] ELSE queue[q]]
    /\ unacked' = [q \in Queues |-> IF q \in Q THEN {} ELSE unacked[q]]
    /\ returned' = IF Set \in Q THEN returned \cup unacked[Set] ELSE returned

\* x-message-ttl of the Disconnect queue.
Expire ==
    /\ ~calm
    /\ \E m \in queue[Kick] : queue' = [queue EXCEPT ![Kick] = @ \ {m}]
    /\ UNCHANGED <<body, published, unacked, link, sup, ctxDone, cons, chan,
                   deliveryVars, effectVars, returned, script, calm>>

\* The broker drops a channel, or the connection with all of them, before the
\* client notices.
Drop(Q) ==
    /\ ~calm /\ Q # {} /\ \A q \in Q : chan[q] = "open"
    /\ chan' = [q \in Queues |-> IF q \in Q THEN "dead" ELSE chan[q]]
    /\ GiveBack(Q)
    /\ UNCHANGED <<body, published, sup, ctxDone, cons, deliveryVars,
                   effectVars, script, calm>>

Open == {q \in Queues : chan[q] = "open"}

ChannelError(q) == Drop({q}) /\ UNCHANGED link
LinkError ==
    /\ link /\ link' = FALSE
    /\ \/ Drop(Open)
       \/ Open = {} /\ ~calm
          /\ UNCHANGED <<body, brokerVars, sup, ctxDone, cons, chan, deliveryVars,
                         effectVars, returned, script, calm>>

\* Redis forgets its scripts (it is restarted, fails over or is flushed); its
\* data stay.
ScriptsLost ==
    /\ ~calm /\ script
    /\ script' = FALSE
    /\ UNCHANGED <<body, brokerVars, link, sup, ctxDone, cons, chan, deliveryVars,
                   effectVars, returned, calm>>

\* The process dies and is started again; Redis and the broker stay.  It loads
\* the script in init and only there: without it, it does not start.
Crash ==
    /\ ~calm
    /\ GiveBack(Queues)
    /\ link' = FALSE /\ sup' = "dial" /\ ctxDone' = FALSE
    /\ cons' = [q \in Queues |-> "off"]
    /\ chan' = [q \in Queues |-> "none"]
    /\ inbox' = [q \in Queues |-> <<>>]
    /\ cur' = [q \in Queues |-> 0]
    /\ verdict' = [q \in Queues |-> "ack"]
    /\ script' = TRUE
    /\ UNCHANGED <<body, published, effectVars, calm>>

Calm ==
    /\ ~calm /\ calm' = TRUE
    /\ UNCHANGED <<body, brokerVars, link, sup, ctxDone, cons, chan, deliveryVars,
                   effectVars, returned, script>>

-----------------------------------------------------------------------------
(* runRabbitmqConsume.                                                     *)

Supervisor(l) ==
    /\ sup' = l
    /\ UNCHANGED <<body, ctxDone, deliveryVars, effectVars, script, calm>>

\* amqp.Dial; then one AddTask per queue.
Dial ==
    /\ sup = "dial"
    /\ \/ Supervisor("run") /\ link' = TRUE
          /\ cons' = [q \in Queues |-> "open"]
       \/ ~calm /\ Supervisor("pause") /\ UNCHANGED <<link, cons>>
    /\ UNCHANGED <<brokerVars, chan, returned>>

\* closeChan or ctx.Done; tcm.Stop cancels the consumers' context.
ConnectionLost_Unheard == FALSE
ConnectionLost == ~link
Interrupted ==
    /\ sup = "run" /\ (ConnectionLost \/ ctxDone)
    /\ Supervisor("stop")
    /\ UNCHANGED <<brokerVars, link, cons, chan, returned>>

\* tcm.Stop has waited for the consumers; the deferred conn.Close after the
\* pause finds no channel left.
ConsumersStopped == \A q \in Queues : cons[q] = "off"
Stopped ==
    /\ sup = "stop" /\ ConsumersStopped
    /\ Supervisor("pause")
    /\ link' = FALSE
    /\ UNCHANGED <<brokerVars, cons, chan, returned>>

\* The 5s pause, cut short by the context; then the outer task manager calls
\* again unless its context is done.
Again ==
    /\ sup = "pause"
    /\ Supervisor(IF ctxDone THEN "end" ELSE "dial")
    /\ UNCHANGED <<brokerVars, link, cons, chan, returned>>

Stop ==
    /\ ~ctxDone /\ ctxDone' = TRUE
    /\ UNCHANGED <<body, brokerVars, link, sup, cons, chan, deliveryVars,
                   effectVars, returned, script, calm>>

-----------------------------------------------------------------------------
(* One consumer, e.g. runRabbitmqSetUserDataQueueConsume.                  *)

CtxOver_Early == TRUE
CtxOver == sup # "run"      \* the nested task manager's context is done

Consumer(q, l) ==
    /\ cons' = [cons EXCEPT ![q] = l]
    /\ UNCHANGED <<body, published, link, sup, ctxDone, faultVars>>

\* conn.Channel, QueueDeclare, Consume, NotifyClose; any of them may fail.
OpenChannel(q) ==
    /\ cons[q] = "open"
    /\ \/ link /\ Consumer(q, "loop") /\ chan' = [chan EXCEPT ![q] = "open"]
       \/ (~link \/ ~calm)
          /\ Consumer(q, "pause") /\ UNCHANGED chan
    /\ UNCHANGED <<queue, unacked, deliveryVars, effectVars, returned>>

\* d, ok := <-msgs: in the order they were sent.
NextDelivery_Newest(s) == [d |-> Last(s), rest |-> Front(s)]
NextDelivery(s) == [d |-> Head(s), rest |-> Tail(s)]
Take(q) ==
    /\ cons[q] = "loop" /\ inbox[q] # <<>>
    /\ cur' = [cur EXCEPT ![q] = NextDelivery(inbox[q]).d]
    /\ inbox' = [inbox EXCEPT ![q] = NextDelivery(@).rest]
    /\ Consumer(q, "handle")
    /\ UNCHANGED <<queue, unacked, chan, verdict, effectVars, returned>>

\* ctx.Done or closeChan; ch.Close gives back what is unacknowledged, the
\* buffered deliveries are dropped.
Leave(q) ==
    /\ cons[q] = "loop" /\ (CtxOver \/ chan[q] = "dead")
    /\ Consumer(q, "pause")
    /\ GiveBack({q})
    /\ chan' = [chan EXCEPT ![q] = "none"]
    /\ inbox' = [inbox EXCEPT ![q] = <<>>]
    /\ UNCHANGED <<cur, verdict, effectVars>>

\* 3s or the context; AddTask's loop starts the consumer again.
Relaunch(q) ==
    /\ cons[q] = "pause"
    /\ Consumer(q, IF CtxOver THEN "off" ELSE "open")
    /\ UNCHANGED <<queue, unacked, chan, deliveryVars, effectVars, returned>>

\* A kick has no answer: the registries' part is ProxyManager's.
HandleKick ==
    /\ cons[Kick] = "handle"
    /\ applied' = [applied EXCEPT ![Kick] = @ \cup {cur[Kick]}]
    /\ cur' = [cur EXCEPT ![Kick] = 0]
    /\ Consumer(Kick, "loop")
    /\ UNCHANGED <<queue, unacked, chan, inbox, verdict, stored, returned>>

\* SetUserDataLuaScript: SET, DEL and SADD in one step.  SADD without members
\* fails and Redis keeps what was done before it.
Script ==
    /\ stored' = cur[Set]
    /\ applied' = [applied EXCEPT ![Set] = @ \cup {cur[Set]}]

OnUnparsable_Requeue == "requeue"
OnUnparsable == "drop"      \* Nack(false, false)
OnError == "requeue"        \* Nack(false, true)
HandleSet ==
    LET b == body[cur[Set]]
    IN  /\ cons[Set] = "handle"
        /\ \/ b = "bad" /\ verdict' = [verdict EXCEPT ![Set] = OnUnparsable]
              /\ UNCHANGED effectVars
           \/ b = "good" /\ script /\ verdict' = [verdict EXCEPT ![Set] = "ack"] /\ Script
           \/ b = "empty" /\ script /\ verdict' = [verdict EXCEPT ![Set] = OnError] /\ Script
           \/ b # "bad" /\ ~script  \* EvalSha: NOSCRIPT
              /\ verdict' = [verdict EXCEPT ![Set] = OnError]
              /\ UNCHANGED effectVars
           \/ b # "bad" /\ ~calm    \* Redis was not reached, or its answer was lost
              /\ verdict' = [verdict EXCEPT ![Set] = OnError]
              /\ ((script /\ Script) \/ UNCHANGED effectVars)
        /\ Consumer(Set, "answer")
        /\ UNCHANGED <<queue, unacked, chan, inbox, cur, returned>>

\* Ack or Nack; on a channel the broker has dropped it reaches nobody.
Answer ==
    LET m == cur[Set]
    IN  /\ cons[Set] = "answer"
        /\ cur' = [cur EXCEPT ![Set] = 0]
        /\ IF chan[Set] # "open" THEN UNCHANGED <<queue, unacked, returned>>
           ELSE /\ unacked' = [unacked EXCEPT ![Set] = @ \ {m}]
                /\ IF verdict[Set] = "requeue"
                   THEN /\ queue' = [queue EXCEPT ![Set] = @ \cup {m}]
                        /\ returned' = returned \cup {m}
                   ELSE UNCHANGED <<queue, returned>>
        /\ verdict' = [verdict EXCEPT ![Set] = "ack"]
        /\ Consumer(Set, "loop")
        /\ UNCHANGED <<chan, inbox, effectVars>>

Goroutine(q) ==
    \/ OpenChannel(q) \/ Take(q) \/ Leave(q) \/ Relaunch(q)
    \/ q = Kick /\ HandleKick
    \/ q = Set /\ (HandleSet \/ Answer)

-----------------------------------------------------------------------------
Terminated == sup = "end" /\ UNCHANGED vars

Next ==
    \/ Terminated
    \/ \E q \in Queues : Publish(q) \/ Deliver(q) \/ ChannelError(q) \/ Goroutine(q)
    \/ Expire \/ LinkError \/ ScriptsLost \/ Crash \/ Calm
    \/ Dial \/ Interrupted \/ Stopped \/ Again \/ Stop

Spec == Init /\ [][Next]_vars

\* Goroutines are scheduled, pauses end, the broker sends what it can; a select
\* with several cases ready picks one at random, so a loop that could leave does
\* not take deliveries for ever.  That the surroundings calm down is not assumed.
Fairness ==
    /\ WF_vars(Dial \/ Interrupted \/ Stopped \/ Again)
    /\ \A q \in Queues : WF_vars(Goroutine(q)) /\ WF_vars(Deliver(q)) /\ SF_vars(Leave(q))
FairSpec == Spec /\ Fairness

-----------------------------------------------------------------------------
(* Properties                                                              *)

AtBroker(q) == queue[q] \cup unacked[q]

\* No SetUserData message is lost, whatever crashes, disconnects or fails: the
\* broker keeps it until it took effect, unless it cannot be parsed.
NoSetLost ==
    \A m \in 1..published[Set] :
        body[m] = "bad" \/ m \in AtBroker(Set) \/ m \in applied[Set]

\* An older message replaces the data of a newer one only when it had gone back
\* to the queue: the deliveries of one channel are applied in their order.
StaleOnlyAfterReturn == [][stored' < stored => stored' \in returned]_vars

\* A kick is acknowledged when it is sent, so it may be lost.  What may lose it is
\* its time to live, the end of the process, the shutdown, or that the broker has
\* dropped the channel of its own consumer: no other failure, nor the consumers
\* themselves, which drop their buffer whenever they leave.
KickAlive == queue[Kick] \cup Range(inbox[Kick]) \cup {cur[Kick]} \cup applied[Kick]
KickLossHasCause ==
    [][KickAlive \ {0} \subseteq KickAlive'
       \/ Expire \/ Crash \/ ctxDone \/ chan[Kick] = "dead"]_vars

\* Once the surroundings have calmed down every consumer gets back to its queue,
\* from whatever the failures had left; a stopped server's supervision ends.
Attached == \A q \in Queues : chan[q] = "open" /\ cons[q] \in {"loop", "handle", "answer"}
Recovers == calm ~> Attached \/ ctxDone
StopEnds == ctxDone ~> (sup = "end" /\ ConsumersStopped /\ Open = {}) \/ ~ctxDone
Supervised == Recovers /\ StopEnds

\* In calm surroundings every message still at the broker takes effect and
\* leaves it, unless it cannot be parsed, also while a message without addresses
\* is requeued and redelivered for ever.  A SetUserData does so only if Redis
\* still has the script: the process does not load it again.
Settled(q, m) ==
    m \notin AtBroker(q) /\ (m \in applied[q] \/ (q = Set /\ body[m] = "bad"))
QueuesSettle ==
    \A q \in Queues : \A m \in Messages(q) :
        calm /\ m \in AtBroker(q) /\ (q = Set => body[m] # "empty" /\ (script \/ body[m] = "bad"))
            ~> ctxDone \/ Settled(q, m)

\* What the panic in init takes care of, that the script the consumer calls is in
\* Redis: in calm surroundings a message with addresses takes effect.
SetsSettle ==
    \A m \in Messages(Set) :
        calm /\ m \in AtBroker(Set) /\ body[m] = "good" ~> ctxDone \/ Settled(Set, m)
=============================================================================
