----------------------------- MODULE ConsumePool -----------------------------
(***************************************************************************)
(* The consuming half of the RabbitMQ pool: RunConsume with one registered *)
(* receiver, its consumeMaxChannel tasks on the shared connections, the    *)
(* failure signal through status, statusLock and errorChanel to the        *)
(* goroutine that reconnects, and the retries of one message whose callback*)
(* fails (IsTry, IsAutoAck).  The program itself uses the producing half,  *)
(* module RabbitPool.                                                      *)
(*                                                                         *)
(* Tasks and connections are named by the numbers they get when they are   *)
(* created.  A panic in a task is nobody's to recover: the process ends.   *)
(***************************************************************************)
EXTENDS Naturals, Sequences, FiniteSets

CONSTANTS
    maxConnection, consumeMaxChannel, MaxReTry,
    Callback,   \* what EventSuccess may do: "true", "false", "push" (retryClient.Push)
    MaxFaults   \* bound: failures of connections and channels

VARIABLES
    connections,    \* the pool's list, by number
    alive,          \* connections that are up, in the list or not
    connectionIndex,
    made,           \* connections dialled so far
    tasks,          \* where each task started so far stands
    tconn,          \* the connection of each task
    chOpen,         \* its channel is open
    e,              \* what NotifyClose has for it: "none", "error", "nil"
    status, statusLock, \* statusLock: the task in setConnectError, 0 for nobody
    monitor,        \* rConsume and retryConsume; "off" before RunConsume
    panicked,       \* the process ended
    faults,         \* failures so far
    msg,            \* the message: "queue", "task", "retry", "gone"
    holder,         \* the task whose channel it is to be published on, or 0
    retryNums,      \* its header
    retries         \* history: how often it has been published again

connVars == <<connections, alive, connectionIndex, made>>
taskVars == <<tasks, tconn, chOpen, e>>
signalVars == <<status, statusLock>>
msgVars == <<msg, holder, retryNums, retries>>
vars == <<connVars, taskVars, signalVars, monitor, panicked, faults, msgVars>>

Started == 1..Len(tasks)
Fresh(x) == [i \in 1..consumeMaxChannel |-> x]

\* ConnectVirtualHost has dialled every connection.
Init ==
    /\ connections = [i \in 1..maxConnection |-> i]
    /\ alive = 1..maxConnection /\ made = maxConnection
    /\ connectionIndex = 0
    /\ tasks = <<>> /\ tconn = <<>> /\ chOpen = <<>> /\ e = <<>>
    /\ status = FALSE /\ statusLock = 0
    /\ monitor = "off" /\ panicked = FALSE /\ faults = 0
    /\ msg = "queue" /\ holder = 0 /\ retryNums = 0 /\ retries = 0

-----------------------------------------------------------------------------
(* The broker and the library (external).                                  *)

Fault == faults < MaxFaults /\ faults' = faults + 1

\* A connection fails: every channel on it closes with the error.
ConnectionLost(c) ==
    /\ monitor # "off" /\ c \in alive /\ Fault
    /\ alive' = alive \ {c}
    /\ chOpen' = [t \in Started |-> chOpen[t] /\ tconn[t] # c]
    /\ e' = [t \in Started |-> IF chOpen[t] /\ tconn[t] = c THEN "error" ELSE e[t]]
    /\ UNCHANGED <<connections, connectionIndex, made, tasks, tconn, signalVars,
                   monitor, panicked, msgVars>>

\* The broker closes one channel.
ChannelLost(t) ==
    /\ chOpen[t] /\ Fault
    /\ chOpen' = [chOpen EXCEPT ![t] = FALSE]
    /\ e' = [e EXCEPT ![t] = "error"]
    /\ UNCHANGED <<connVars, tasks, tconn, signalVars, monitor, panicked, msgVars>>

-----------------------------------------------------------------------------
(* consumeTask.                                                            *)

Task(t, l) ==
    /\ tasks' = [tasks EXCEPT ![t] = l]
    /\ UNCHANGED <<connections, made, monitor, faults>>

\* The deferred Closes: the channel and the connection it shares; the other
\* channels of a connection closed from this side are notified without an error.
CloseShared(t, l) ==
    LET c == tconn[t]
    IN  /\ Task(t, l)
        /\ alive' = alive \ {c}
        /\ chOpen' = [u \in Started |-> chOpen[u] /\ tconn[u] # c]
        /\ e' = [u \in Started |-> CASE u = t -> "none"
                                      [] u # t /\ chOpen[u] /\ tconn[u] = c -> "nil"
                                      [] OTHER -> e[u]]
        /\ tconn' = [tconn EXCEPT ![t] = 0]
        /\ UNCHANGED connectionIndex

RoundRobin(i) == (i + 1) % maxConnection

\* getConnection under connectionLock, with an index the list may not have; then
\* rCreateChannel, whose error ends the task with an event and no signal.
TaskStart(t) ==
    LET i == RoundRobin(connectionIndex)
    IN  /\ tasks[t] = "start"
        /\ connectionIndex' = i
        /\ IF i >= Len(connections)
           THEN panicked' = TRUE /\ Task(t, "end") /\ UNCHANGED <<tconn, chOpen>>
           ELSE /\ IF connections[i + 1] \in alive
                   THEN /\ tconn' = [tconn EXCEPT ![t] = connections[i + 1]]
                        /\ chOpen' = [chOpen EXCEPT ![t] = TRUE]
                        /\ Task(t, "declare")
                   ELSE Task(t, "end") /\ UNCHANGED <<tconn, chOpen>>
                /\ UNCHANGED panicked
        /\ UNCHANGED <<alive, e, signalVars, msgVars>>

\* rDeclare, for every second task the dead queue on a channel of its own,
\* Consume, NotifyClose.  A dead channel that cannot be created is reported with
\* the error of another call, which is nil.
TaskDeclare(t) ==
    /\ tasks[t] = "declare"
    /\ \/ chOpen[t] /\ Task(t, "consume")
          /\ UNCHANGED <<alive, connectionIndex, tconn, chOpen, e, panicked>>
       \/ ~chOpen[t] /\ CloseShared(t, "end") /\ UNCHANGED panicked
       \/ ~chOpen[t] /\ tconn[t] \notin alive /\ t % 2 = 1
          /\ panicked' = TRUE /\ Task(t, "end")
          /\ UNCHANGED <<alive, connectionIndex, tconn, chOpen, e>>
    /\ UNCHANGED <<signalVars, msgVars>>

\* data := <-msgs; data.Ack.  The empty deliveries of a closed msgs, which change
\* nothing of this state, are left out.
Take(t) ==
    /\ tasks[t] = "consume" /\ chOpen[t] /\ msg = "queue"
    /\ msg' = "task"
    /\ Task(t, "callback")
    /\ UNCHANGED <<alive, connectionIndex, tconn, chOpen, e, signalVars, panicked,
                   holder, retryNums, retries>>

Forgotten == msg' = "gone" /\ holder' = 0 /\ retryNums' = 0 /\ retries' = 0

MayRetry_OneMore == retryNums + 1 <= MaxReTry
MayRetry == retryNums + 1 < MaxReTry

\* EventSuccess.  On false the task, on Push the retryClient tries again with a
\* goroutine of its own; the task counts, Push publishes the header it was given.
CallbackReturns(t) ==
    /\ tasks[t] = "callback"
    /\ \E r \in Callback :
         IF r # "true" /\ MayRetry
         THEN /\ msg' = "retry" /\ holder' = t
              /\ retryNums' = IF r = "false" THEN retryNums + 1 ELSE retryNums
              /\ UNCHANGED retries
         ELSE Forgotten
    /\ Task(t, "consume")
    /\ UNCHANGED <<alive, connectionIndex, tconn, chOpen, e, signalVars, panicked>>

\* 200ms later, on the task's channel, to the dead queue, whose time to live brings
\* it back; an error is not looked at.
PublishAgain ==
    /\ msg = "retry"
    /\ IF chOpen[holder]
       THEN /\ msg' = "queue" /\ holder' = 0 /\ retries' = retries + 1
            /\ UNCHANGED retryNums
       ELSE Forgotten
    /\ UNCHANGED <<connVars, taskVars, signalVars, monitor, panicked, faults>>

\* case e := <-notifyClose: EventFail is given e.Error(), also of a nil e.
Notified(t) ==
    /\ tasks[t] = "consume" /\ e[t] # "none"
    /\ IF e[t] = "nil" THEN panicked' = TRUE /\ Task(t, "end")
                       ELSE Task(t, "signal") /\ UNCHANGED panicked
    /\ e' = [e EXCEPT ![t] = "none"]
    /\ UNCHANGED <<alive, connectionIndex, tconn, chOpen, signalVars, msgVars>>

\* setConnectError under statusLock: nothing more when it is known already,
Signalled_Never == FALSE
Signalled == status
SignalKnown(t) ==
    /\ tasks[t] = "signal" /\ statusLock = 0 /\ Signalled
    /\ CloseShared(t, "end")
    /\ UNCHANGED <<signalVars, panicked, msgVars>>

\* else the lock is held
SignalLock(t) ==
    /\ tasks[t] = "signal" /\ statusLock = 0 /\ ~Signalled
    /\ statusLock' = t
    /\ Task(t, "send")
    /\ UNCHANGED <<alive, connectionIndex, tconn, chOpen, e, status, panicked, msgVars>>

\* until errorChanel's receiver has it.
SignalSent(t) ==
    /\ tasks[t] = "sent"
    /\ status' = TRUE /\ statusLock' = 0
    /\ CloseShared(t, "end")
    /\ UNCHANGED <<panicked, msgVars>>

-----------------------------------------------------------------------------
(* rConsume's select and retryConsume.                                     *)

Monitor(l) ==
    /\ monitor' = l
    /\ UNCHANGED <<connectionIndex, panicked, msgVars>>

\* errorChanel has no buffer: send and receive are one step.
Receive(t) ==
    /\ monitor = "listen" /\ tasks[t] = "send"
    /\ Monitor("mark") /\ UNCHANGED faults
    /\ tasks' = [tasks EXCEPT ![t] = "sent"]
    /\ UNCHANGED <<connections, alive, made, tconn, chOpen, e, signalVars>>

Mark ==
    /\ monitor = "mark" /\ statusLock = 0
    /\ status' = TRUE
    /\ Monitor("dial") /\ UNCHANGED faults
    /\ UNCHANGED <<connections, alive, made, taskVars, statusLock>>

\* 2s, then rConnect until it succeeds; the connection it makes is forgotten.
Redial ==
    /\ monitor = "dial" /\ statusLock = 0
    /\ status' = FALSE
    /\ Monitor("connect") /\ UNCHANGED faults
    /\ UNCHANGED <<connections, alive, made, taskVars, statusLock>>

\* initConnections; its error is dropped and the list stays short.
Connect ==
    /\ monitor = "connect"
    /\ \E n \in 0..maxConnection :
         /\ IF n < maxConnection THEN Fault ELSE UNCHANGED faults
         /\ connections' = [i \in 1..n |-> made + i]
         /\ alive' = alive \cup (made + 1 .. made + n)
         /\ made' = made + n
    /\ Monitor("start")
    /\ UNCHANGED <<taskVars, signalVars>>

\* rConsume, from RunConsume and again after every reconnection: the tasks are
\* started beside those that still run.
StartTasks ==
    /\ monitor \in {"off", "start"}
    /\ tasks' = tasks \o Fresh("start") /\ tconn' = tconn \o Fresh(0)
    /\ chOpen' = chOpen \o Fresh(FALSE) /\ e' = e \o Fresh("none")
    /\ Monitor("listen") /\ UNCHANGED faults
    /\ UNCHANGED <<connections, alive, made, signalVars>>

-----------------------------------------------------------------------------
TaskSteps(t) ==
    \/ TaskStart(t) \/ TaskDeclare(t) \/ Take(t) \/ CallbackReturns(t)
    \/ Notified(t) \/ SignalKnown(t) \/ SignalLock(t) \/ SignalSent(t)

MonitorSteps == (\E t \in Started : Receive(t)) \/ Mark \/ Redial \/ Connect \/ StartTasks

Next ==
    /\ ~panicked
    /\ \/ \E t \in Started : TaskSteps(t) \/ ChannelLost(t)
       \/ \E c \in alive : ConnectionLost(c)
       \/ MonitorSteps \/ PublishAgain

Spec == Init /\ [][Next]_vars

\* Goroutines are scheduled; Redial stands for the dial that succeeds at last.
\* Failures are not assumed, nor is anything of the broker.
Fairness ==
    /\ WF_vars(~panicked /\ \E t \in Started : SignalSent(t))
    /\ WF_vars(~panicked /\ monitor # "off" /\ MonitorSteps)

-----------------------------------------------------------------------------
(* Properties                                                              *)

\* Whoever holds statusLock gives it back: no order of failures leaves one task
\* waiting on errorChanel with the lock, and the reconnecting goroutine, its only
\* receiver, waiting for the lock.
LockReleased == (statusLock # 0) ~> (statusLock = 0 \/ panicked)

\* What counting in the header comes to: whichever task on whichever connection
\* has it next, a message is published again at most MaxReTry - 1 times, the test
\* of consumeTask being on the count it would then have.
RetriesBelowMax == retries = 0 \/ retries < MaxReTry
=============================================================================
