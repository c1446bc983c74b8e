---------------------------- MODULE ProxyManager ----------------------------
(***************************************************************************)
(* The proxy server's manager: accept loops, one handler per accepted      *)
(* connection (HTTP or SOCKS5), the two shared registries                  *)
(* (ipConnCountMap, userCtxMap), the RabbitMQ consumers that kick users,   *)
(* the remote configuration and the ordered shutdown.                      *)
(*                                                                         *)
(* A session s is the goroutine pair that serves the s-th accepted         *)
(* connection.  A connContext is named by the session whose                *)
(* addUserConnection created it, so pointer identity is equality of names. *)
(* Every access to one of the concurrent maps holds that key's shard lock, *)
(* so each is one atomic step.                                             *)
(***************************************************************************)
EXTENDS Integers, FiniteSets

CONSTANTS
    Sessions,   \* connections the server may accept
    Acceptors,  \* tcpListenerAccept loops (AcceptAmount per listener)
    Users,      \* user names; none is empty
    FirstField, \* for each user name u, strings.Split(u, ":")[0]
    Ips,        \* local addresses a client may connect to
    Domains,    \* target host names
    ClientProtos, \* the protocols clients use
    Limits,     \* values OneIpMaxConn takes; 0 means unlimited
    BlackLists, \* blacklists the broker may deliver
    Updates,    \* SetUserData messages, <<user, addresses>>
    Kickers,    \* the kicking consumers that get messages
    MayStop,    \* whether the process is asked to stop
    NoUser,     \* "no user"
    NoCtx,      \* "no connContext"
    NoEntry,    \* "no entry" in ipConnCountMap
    NoDomain    \* the empty domain string

ASSUME SessionsFinite == IsFiniteSet(Sessions)
ASSUME FieldsCut ==     \* a first field holds no ':'
    \A u \in Users : FirstField[u] \in Users => FirstField[FirstField[u]] = FirstField[u]
ASSUME ProtosKnown == ClientProtos \subseteq {"socks", "connect", "plain"}
ASSUME BlackListsKnown == BlackLists \subseteq SUBSET Domains
ASSUME UpdatesKnown == Updates \subseteq Users \X SUBSET Ips
ASSUME KickersKnown == Kickers \subseteq {"Disconnect", "DeleteUserData"}
ASSUME MayStopBoolean == MayStop \in BOOLEAN
ASSUME LimitsNat == Limits \subseteq Nat /\ Limits # {}
ASSUME NoUserFresh == NoUser \notin Users
ASSUME NoCtxFresh == NoCtx \notin Sessions
ASSUME NoEntryFresh == NoEntry \notin Int
ASSUME NoDomainFresh == NoDomain \notin Domains

Keys == Users \X Ips        \* "user:ip": the last ':' parts them, an IPv4 address has none
UserKeys(u) == {u} \X Ips
ColonFree(u) == FirstField[u] = u

\* keys[0] == Username: the key is split at every ':', also at those of the name.
MatchingKeys(u) == {k \in Keys : FirstField[k[1]] = u}

\* The HTTP credentials must split into two fields, a SOCKS user name is any string.
Clients == {c \in [user : Users, ip : Ips, proto : ClientProtos] :
              c.proto = "socks" \/ ColonFree(c.user)}

VARIABLES
    client,         \* who connects: user, ip, proto (an input, fixed at the start)
    pc,             \* where each session's handler stands
    owner,          \* accept loop that spawns the session's goroutine (an input)
    connClosed,     \* the client connection was closed by the server
    dom,            \* domainPointer
    connCtx,        \* the connContext a session registered with
    apc,            \* where each accept loop stands
    ipConnCountMap, \* connections per local address
    userCtxMap,     \* the connContext registered for each key
    ctxCount,       \* field c of each connContext
    cancelled,      \* connContexts whose own cancel was called
    kpc,            \* where the two consumers that kick users stand
    named,          \* the user the message being handled names
    scan,           \* keys a kick has still to read from the map's iterator
    todo,           \* keys a kick has still to pop
    victims,        \* history: contexts registered for the user when the kick began
    accounts,       \* Redis: the keys Valid accepts
    blackMap,       \* the domains the current blacklist matches
    oneIpMaxConn,   \* the configured limit
    stop,           \* how far Stop has come
    queueOpen,      \* the send queues accept records
    lost            \* records the send queues refused

sessionVars == <<client, pc, owner, connClosed, dom, connCtx>>
registryVars == <<ipConnCountMap, userCtxMap, ctxCount, cancelled>>
kickVars == <<kpc, named, scan, todo, victims>>
confVars == <<accounts, blackMap, oneIpMaxConn>>
stopVars == <<apc, stop, queueOpen>>
vars == <<sessionVars, registryVars, kickVars, confVars, stopVars, lost>>

SessionPc == {"idle", "read", "admit", "target", "dial",
              "relay", "report", "join", "release", "ret", "done"}

isRun == stop = "run"
listening == stop \in {"run", "flag"}
tcmDone == stop \in {"cancel", "stopped"}      \* m.tcm.Context() is done

keyOf(s) == <<client[s].user, client[s].ip>>
CtxDone_ManagerOnly(c) == tcmDone
CtxDone(c) == tcmDone \/ c \in cancelled       \* child of the manager's ctx
Registered == {"relay", "report", "join"}
Slotted == Registered \cup {"target", "dial", "release"}
Ended == {"idle", "done"}

Goto(s, l) == pc' = [pc EXCEPT ![s] = l]
\* pushRabbitmqSendQueue: Enqueue on a closed queue fails, the error is dropped
Push(kind, s) == lost' = IF queueOpen THEN lost ELSE lost \cup {<<kind, s>>}

Init ==
    /\ client \in [Sessions -> Clients]
    /\ pc = [s \in Sessions |-> "idle"]
    /\ owner \in [Sessions -> Acceptors]
    /\ connClosed = [s \in Sessions |-> FALSE]
    /\ dom = [s \in Sessions |-> NoDomain]
    /\ connCtx = [s \in Sessions |-> NoCtx]
    /\ apc = [a \in Acceptors |-> "accept"]
    /\ ipConnCountMap = [i \in Ips |-> NoEntry]
    /\ userCtxMap = [k \in Keys |-> NoCtx]
    /\ ctxCount = [s \in Sessions |-> 0]
    /\ cancelled = {}
    /\ kpc = [k \in Kickers |-> "idle"]
    /\ named = [k \in Kickers |-> NoUser]
    /\ scan = [k \in Kickers |-> {}]
    /\ todo = [k \in Kickers |-> {}]
    /\ victims = [k \in Kickers |-> {}]
    /\ accounts = Keys
    /\ blackMap = {}
    /\ oneIpMaxConn \in Limits
    /\ stop = "run"
    /\ queueOpen = TRUE
    /\ lost = {}

-----------------------------------------------------------------------------
(* Accept loops: tcpAccept / tcpListenerAccept.                            *)

\* for m.isRun.Load(): a loop is blocked in Accept or leaves.
LoopHead == IF isRun THEN "accept" ELSE "drain"

\* Accept returns a connection: wg.Add(1), the two goroutines start, next turn.
Accept(a, s) ==
    /\ apc[a] = "accept" /\ listening /\ pc[s] = "idle" /\ owner[s] = a
    /\ Goto(s, "read")
    /\ apc' = [apc EXCEPT ![a] = LoopHead]
    /\ UNCHANGED <<client, owner, connClosed, dom, connCtx,
                   registryVars, kickVars, confVars, stop, queueOpen, lost>>

AcceptError(a) ==
    /\ apc[a] = "accept"
    /\ apc' = [apc EXCEPT ![a] = LoopHead]
    /\ UNCHANGED <<sessionVars, registryVars, kickVars, confVars, stop, queueOpen, lost>>

\* The deferred wg.Wait: every goroutine this loop started has finished.
AcceptorReturn(a) ==
    /\ apc[a] = "drain"
    /\ \A s \in Sessions : owner[s] = a => pc[s] \in Ended
    /\ apc' = [apc EXCEPT ![a] = "done"]
    /\ UNCHANGED <<sessionVars, registryVars, kickVars, confVars, stop, queueOpen, lost>>

\* AddTask starts the task again as long as its context is not done.
Relaunch(a) ==
    /\ apc[a] = "done" /\ ~tcmDone
    /\ apc' = [apc EXCEPT ![a] = LoopHead]
    /\ UNCHANGED <<sessionVars, registryVars, kickVars, confVars, stop, queueOpen, lost>>

CloseOnStop_Missing(s) == FALSE

\* The outer goroutine of a connection: ctx.Done closes the connection under
\* the handler.
CloseOnStop(s) ==
    /\ pc[s] \notin Ended \cup {"ret"} /\ tcmDone /\ ~connClosed[s]
    /\ connClosed' = [connClosed EXCEPT ![s] = TRUE]
    /\ UNCHANGED <<client, pc, owner, dom, connCtx,
                   registryVars, kickVars, confVars, stopVars, lost>>

\* The handler closed done: the outer goroutine closes conn, wg.Done.
HandlerReturn(s) ==
    /\ pc[s] = "ret"
    /\ Goto(s, "done")
    /\ connClosed' = [connClosed EXCEPT ![s] = TRUE]
    /\ UNCHANGED <<client, owner, dom, connCtx,
                   registryVars, kickVars, confVars, stopVars, lost>>

-----------------------------------------------------------------------------
(* The handler: handlerTcpConn, then httpTcpConn or socksTcpConn.          *)

\* First read, protocol detection, credentials, then the Redis round trip of
\* Valid; an error of Redis is a refusal too.
Valid(s) ==
    /\ pc[s] = "read" /\ ~connClosed[s]
    /\ \/ keyOf(s) \in accounts /\ Goto(s, "admit")
       \/ Goto(s, "ret")
    /\ UNCHANGED <<client, owner, connClosed, dom, connCtx,
                   registryVars, kickVars, confVars, stopVars, lost>>

\* A read from the client fails: it hung up, sent something unparsable, or the
\* outer goroutine closed the connection.
ReadError(s) ==
    /\ \/ pc[s] = "read" /\ Goto(s, "ret")
       \/ pc[s] = "target" /\ client[s].proto = "socks" /\ Goto(s, "release")
    /\ UNCHANGED <<client, owner, connClosed, dom, connCtx,
                   registryVars, kickVars, confVars, stopVars, lost>>

\* The Upsert callback's test; a fresh entry is not tested.
IpFull_OffByOne(i) == ipConnCountMap[i] # NoEntry /\ oneIpMaxConn # 0
                      /\ ipConnCountMap[i] > oneIpMaxConn
IpFull(i) ==
    ipConnCountMap[i] # NoEntry /\ oneIpMaxConn # 0 /\ ipConnCountMap[i] >= oneIpMaxConn

AddIpConnCount(s) ==
    LET i == client[s].ip
    IN  /\ pc[s] = "admit"
        /\ \/ /\ IpFull(i)
              /\ Goto(s, "ret")
              /\ UNCHANGED ipConnCountMap
           \/ /\ ~IpFull(i)
              /\ Goto(s, "target")
              /\ ipConnCountMap' = [ipConnCountMap EXCEPT ![i] =
                                       IF @ = NoEntry THEN 1 ELSE @ + 1]
        /\ UNCHANGED <<client, owner, connClosed, dom, connCtx, userCtxMap,
                       ctxCount, cancelled, kickVars, confVars, stopVars, lost>>

\* The target is known (SOCKS: after the AuthSuccess write and a second read).
\* A blacklisted domain is reported and refused.  The SOCKS handler returns for
\* every target that has a domain.
CheckTarget(s) ==
    /\ pc[s] = "target"
    /\ client[s].proto = "socks" => ~connClosed[s]
    /\ \E d \in Domains \cup {NoDomain} :
         /\ dom' = [dom EXCEPT ![s] = d]
         /\ IF d \in blackMap THEN Push("black", s) ELSE UNCHANGED lost
         /\ IF d \in blackMap \/ (client[s].proto = "socks" /\ d # NoDomain)
            THEN Goto(s, "release") ELSE Goto(s, "dial")
    /\ UNCHANGED <<client, owner, connClosed, connCtx,
                   registryVars, kickVars, confVars, stopVars>>

\* DialContext, the success reply or (plain HTTP) the forwarded request fails.
DialError(s) ==
    /\ pc[s] = "dial"
    /\ Goto(s, "release")
    /\ UNCHANGED <<client, owner, connClosed, dom, connCtx,
                   registryVars, kickVars, confVars, stopVars, lost>>

\* The Upsert callback: join the registered connContext or create one.
CtxFor_AlwaysNew(s) == s
CtxFor(s) == IF userCtxMap[keyOf(s)] # NoCtx THEN userCtxMap[keyOf(s)] ELSE s
CountAfterAdd_Unset(s, c) == IF c = s THEN 0 ELSE ctxCount[c] + 1
CountAfterAdd(s, c) == IF c = s THEN 1 ELSE ctxCount[c] + 1

\* The target is connected and the client was told (which fails on a closed
\* connection); then the Upsert.
addUserConnection(s) ==
    LET k == keyOf(s)
        c == CtxFor(s)
    IN  /\ pc[s] = "dial"
        /\ client[s].proto # "plain" => ~connClosed[s]
        /\ Goto(s, "relay")
        /\ connCtx' = [connCtx EXCEPT ![s] = c]
        /\ userCtxMap' = [userCtxMap EXCEPT ![k] = c]
        /\ ctxCount' = [ctxCount EXCEPT ![c] = CountAfterAdd(s, c)]
        /\ UNCHANGED <<client, owner, connClosed, dom, ipConnCountMap, cancelled,
                       kickVars, confVars, stopVars, lost>>

\* The sniffing goroutine learns the domain of a connection to a bare address;
\* done and byteChan may be ready together, so it may still do so while the
\* handler is on its way out, until wg.Wait.
Sniff(s) ==
    /\ pc[s] \in Registered /\ client[s].proto # "plain" /\ dom[s] = NoDomain
    /\ \E d \in Domains : dom' = [dom EXCEPT ![s] = d]
    /\ UNCHANGED <<client, pc, owner, connClosed, connCtx,
                   registryVars, kickVars, confVars, stopVars, lost>>

\* errCh: one of the two copy goroutines ended.
CopyEnd(s) ==
    /\ pc[s] = "relay"
    /\ Goto(s, "report")
    /\ UNCHANGED <<client, owner, connClosed, dom, connCtx,
                   registryVars, kickVars, confVars, stopVars, lost>>

\* ctx.Done or connCtx.ctx.Done.
CtxExit(s) ==
    /\ pc[s] = "relay" /\ CtxDone(connCtx[s])
    /\ Goto(s, "report")
    /\ UNCHANGED <<client, owner, connClosed, dom, connCtx,
                   registryVars, kickVars, confVars, stopVars, lost>>

\* The 30s ticker finds the session's domain on the blacklist.
Tick(s) ==
    /\ pc[s] = "relay" /\ dom[s] \in blackMap
    /\ Push("black", s)
    /\ Goto(s, "report")
    /\ UNCHANGED <<client, owner, connClosed, dom, connCtx,
                   registryVars, kickVars, confVars, stopVars>>

\* The deferred closure up to wg.Wait: close both ends, report the access.
ReportAccessLog(s) ==
    /\ pc[s] = "report"
    /\ connClosed' = [connClosed EXCEPT ![s] = TRUE]
    /\ Push("access", s)
    /\ Goto(s, "join")
    /\ UNCHANGED <<client, owner, dom, connCtx,
                   registryVars, kickVars, confVars, stopVars>>

\* RemoveCb's callback: valueInMap is still the context this session joined.
SameCtx_AnyEntry(s) == userCtxMap[keyOf(s)] # NoCtx
SameCtx(s) == userCtxMap[keyOf(s)] = connCtx[s]
LastOut_Always(s) == SameCtx(s)
LastOut(s) == SameCtx(s) /\ ctxCount[userCtxMap[keyOf(s)]] = 1

\* wg.Wait returns, the channels are closed, then the RemoveCb.
deleteUserConnection(s) ==
    LET k == keyOf(s)
        v == userCtxMap[k]        \* valueInMap
    IN  /\ pc[s] = "join"
        /\ Goto(s, "release")
        /\ connCtx' = [connCtx EXCEPT ![s] = NoCtx]
        /\ ctxCount' = IF SameCtx(s) THEN [ctxCount EXCEPT ![v] = @ - 1] ELSE ctxCount
        /\ IF LastOut(s)
           THEN /\ userCtxMap' = [userCtxMap EXCEPT ![k] = NoCtx]
                /\ cancelled' = cancelled \cup {v}
           ELSE UNCHANGED <<userCtxMap, cancelled>>
        /\ UNCHANGED <<client, owner, connClosed, dom, ipConnCountMap,
                       kickVars, confVars, stopVars, lost>>

CountAfterReduce_Keep(n) == n - 1
CountAfterReduce(n) == IF n = 1 THEN NoEntry ELSE n - 1

ReduceIpConnCount(s) ==
    LET i == client[s].ip
    IN  /\ pc[s] = "release"
        /\ Goto(s, "ret")
        /\ dom' = [dom EXCEPT ![s] = NoDomain]
        /\ ipConnCountMap' = IF ipConnCountMap[i] = NoEntry THEN ipConnCountMap
             ELSE [ipConnCountMap EXCEPT ![i] = CountAfterReduce(@)]
        /\ UNCHANGED <<client, owner, connClosed, connCtx, userCtxMap,
                       ctxCount, cancelled, kickVars, confVars, stopVars, lost>>

-----------------------------------------------------------------------------
(* Consumers that end a user's sessions.  Both walk a snapshot iterator    *)
(* (each key is read under its own shard lock, at its own moment) and pop  *)
(* what it yields; Disconnect with addresses pops those keys directly.     *)

Contexts(K) == {userCtxMap[k] : k \in K} \ {NoCtx}

\* Disconnect pops the keys of the addresses the message names, or walks.
Disconnect(u, I) ==
    /\ "Disconnect" \in Kickers /\ kpc["Disconnect"] = "idle"
    /\ kpc' = [kpc EXCEPT !["Disconnect"] = IF I = {} THEN "walk" ELSE "pops"]
    /\ named' = [named EXCEPT !["Disconnect"] = u]
    /\ scan' = [scan EXCEPT !["Disconnect"] = IF I = {} THEN MatchingKeys(u) ELSE {}]
    /\ todo' = [todo EXCEPT !["Disconnect"] = {u} \X I]
    /\ victims' = [victims EXCEPT !["Disconnect"] =
                     Contexts(IF I = {} THEN UserKeys(u) ELSE {u} \X I)]
    /\ UNCHANGED <<sessionVars, registryVars, confVars, stopVars, lost>>

DeleteUserData(u) ==
    /\ "DeleteUserData" \in Kickers /\ kpc["DeleteUserData"] = "idle"
    /\ kpc' = [kpc EXCEPT !["DeleteUserData"] = "del"]
    /\ named' = [named EXCEPT !["DeleteUserData"] = u]
    /\ UNCHANGED <<sessionVars, registryVars, scan, todo, victims, confVars, stopVars, lost>>

\* Redis DEL of both keys of the user succeeds: the walk begins.
DelThenWalk(k) ==
    /\ kpc[k] = "del"
    /\ accounts' = accounts \ UserKeys(named[k])
    /\ kpc' = [kpc EXCEPT ![k] = "walk"]
    /\ scan' = [scan EXCEPT ![k] = MatchingKeys(named[k])]
    /\ victims' = [victims EXCEPT ![k] = Contexts(UserKeys(named[k]))]
    /\ UNCHANGED <<sessionVars, registryVars, named, todo, blackMap, oneIpMaxConn,
                   stopVars, lost>>

\* DEL returns an error, not executed or with its answer lost: no walk, and the
\* message is not delivered again.
DelError(k) ==
    /\ kpc[k] = "del"
    /\ accounts' \in {accounts, accounts \ UserKeys(named[k])}
    /\ kpc' = [kpc EXCEPT ![k] = "idle"]
    /\ named' = [named EXCEPT ![k] = NoUser]
    /\ UNCHANGED <<sessionVars, registryVars, scan, todo, victims, blackMap, oneIpMaxConn,
                   stopVars, lost>>

IterRead(k, key) ==
    /\ key \in scan[k]
    /\ scan' = [scan EXCEPT ![k] = @ \ {key}]
    /\ todo' = [todo EXCEPT ![k] = IF userCtxMap[key] # NoCtx THEN @ \cup {key} ELSE @]
    /\ UNCHANGED <<sessionVars, registryVars, kpc, named, victims, confVars, stopVars, lost>>

\* What Pop hands to cancel.
Popped_Ignored(key) == {}
Popped(key) == {userCtxMap[key]} \ {NoCtx}

\* CloseUserConnections, and the same two lines inside the walks.
CloseUserConnections(k, key) ==
    /\ key \in todo[k]
    /\ todo' = [todo EXCEPT ![k] = @ \ {key}]
    /\ userCtxMap' = [userCtxMap EXCEPT ![key] = NoCtx]
    /\ cancelled' = cancelled \cup Popped(key)
    /\ UNCHANGED <<sessionVars, ipConnCountMap, ctxCount, kpc, named, scan, victims,
                   confVars, stopVars, lost>>

KickEnds(k) == kpc[k] \in {"walk", "pops"} /\ scan[k] = {} /\ todo[k] = {}
KickReturn(k) ==
    /\ KickEnds(k)
    /\ kpc' = [kpc EXCEPT ![k] = "idle"]
    /\ named' = [named EXCEPT ![k] = NoUser]
    /\ victims' = [victims EXCEPT ![k] = {}]
    /\ UNCHANGED <<sessionVars, registryVars, scan, todo, confVars, stopVars, lost>>

ConsumerExit(k) ==
    /\ kpc[k] = "idle" /\ tcmDone
    /\ kpc' = [kpc EXCEPT ![k] = "exit"]
    /\ UNCHANGED <<sessionVars, registryVars, named, scan, todo, victims, confVars, stopVars, lost>>

-----------------------------------------------------------------------------
(* Configuration pushed from outside.                                      *)

\* The Lua script of SetUserData: replace the user's record and address set.
\* For an empty set SADD fails after SET and DEL took effect, and the message is
\* delivered again: the user is left without addresses all the same.
SetUserData(u, I) ==
    /\ stop # "stopped"
    /\ accounts' = (accounts \ UserKeys(u)) \cup ({u} \X I)
    /\ UNCHANGED <<sessionVars, registryVars, kickVars, blackMap, oneIpMaxConn, stopVars, lost>>

SetBlackMap(B) ==
    /\ stop # "stopped"
    /\ blackMap' = B
    /\ UNCHANGED <<sessionVars, registryVars, kickVars, accounts, oneIpMaxConn, stopVars, lost>>

setNacosConf(l) ==
    /\ stop # "stopped"
    /\ oneIpMaxConn' = l
    /\ UNCHANGED <<sessionVars, registryVars, kickVars, accounts, blackMap, stopVars, lost>>

-----------------------------------------------------------------------------
(* Stop: isRun := false; close the listeners; tcm.Stop() cancels and then  *)
(* waits for every task; only then the send queues are closed.             *)

StopFlag ==
    /\ MayStop /\ stop = "run" /\ stop' = "flag"
    /\ UNCHANGED <<sessionVars, registryVars, kickVars, confVars, apc, queueOpen, lost>>

CloseListeners ==
    /\ stop = "flag" /\ stop' = "closed"
    /\ UNCHANGED <<sessionVars, registryVars, kickVars, confVars, apc, queueOpen, lost>>

CancelTasks ==
    /\ stop = "closed" /\ stop' = "cancel"
    /\ UNCHANGED <<sessionVars, registryVars, kickVars, confVars, apc, queueOpen, lost>>

\* tcm.Stop's wg.Wait.
TasksDone_NoWait == TRUE
TasksDone ==
    /\ \A a \in Acceptors : apc[a] = "done"
    /\ \A k \in Kickers : kpc[k] = "exit"

\* Close the queues and wait for their handlers (module MQueue), which drain
\* them as long as the broker can be reached.
closeRabbitmqSendQueueSlices ==
    /\ stop = "cancel" /\ TasksDone
    /\ stop' = "stopped" /\ queueOpen' = FALSE
    /\ UNCHANGED <<sessionVars, registryVars, kickVars, confVars, apc, lost>>

Stop == StopFlag \/ CloseListeners \/ CancelTasks \/ closeRabbitmqSendQueueSlices

-----------------------------------------------------------------------------
Acceptor(a) ==
    \/ AcceptError(a) \/ AcceptorReturn(a) \/ Relaunch(a)
    \/ \E s \in Sessions : Accept(a, s)

Session(s) ==
    \/ CloseOnStop(s) \/ HandlerReturn(s)
    \/ Valid(s) \/ ReadError(s) \/ AddIpConnCount(s)
    \/ CheckTarget(s) \/ DialError(s) \/ addUserConnection(s)
    \/ Sniff(s) \/ CopyEnd(s) \/ CtxExit(s) \/ Tick(s)
    \/ ReportAccessLog(s) \/ deleteUserConnection(s) \/ ReduceIpConnCount(s)

Kick ==
    \/ \E u \in Users, I \in SUBSET Ips : Disconnect(u, I)
    \/ \E u \in Users : DeleteUserData(u)
    \/ \E k \in Kickers : DelThenWalk(k) \/ DelError(k) \/ KickReturn(k) \/ ConsumerExit(k)
    \/ \E k \in Kickers, key \in Keys : IterRead(k, key) \/ CloseUserConnections(k, key)

Configure ==
    \/ \E m \in Updates : SetUserData(m[1], m[2])
    \/ \E B \in BlackLists : SetBlackMap(B)
    \/ \E l \in Limits : setNacosConf(l)

Terminated == stop = "stopped" /\ UNCHANGED vars

Next ==
    \/ \E a \in Acceptors : Acceptor(a)
    \/ \E s \in Sessions : Session(s)
    \/ Kick \/ Configure \/ Stop \/ Terminated

Spec == Init /\ [][Next]_vars

\* Steps a handler takes without waiting for its peers: Redis, Dial and the
\* deadlines bound the waits, and the ticker always fires.
Progress(s) ==
    \/ connClosed[s] /\ ReadError(s)
    \/ client[s].proto # "socks" /\ CheckTarget(s)
    \/ AddIpConnCount(s) \/ DialError(s) \/ addUserConnection(s)
    \/ CtxExit(s) \/ Tick(s) \/ ReportAccessLog(s)
    \/ deleteUserConnection(s) \/ ReduceIpConnCount(s) \/ HandlerReturn(s)

\* A closed listener makes Accept return; an open one may block for ever.
AcceptorProgress(a) ==
    AcceptorReturn(a) \/ (~listening /\ AcceptError(a))

\* select chooses at random among ready cases: a consumer that is idle again
\* and again while its context is done eventually takes ctx.Done.
Fairness ==
    /\ \A s \in Sessions : WF_vars(Progress(s)) /\ WF_vars(CloseOnStop(s))
    /\ \A a \in Acceptors : WF_vars(AcceptorProgress(a))
    /\ \A k \in Kickers :
         /\ WF_vars(\/ DelThenWalk(k) \/ DelError(k) \/ KickReturn(k)
                    \/ \E key \in Keys : IterRead(k, key) \/ CloseUserConnections(k, key))
         /\ SF_vars(ConsumerExit(k))
    /\ WF_vars(CloseListeners \/ CancelTasks \/ closeRabbitmqSendQueueSlices)

FairSpec == Spec /\ Fairness

-----------------------------------------------------------------------------
(* Properties                                                              *)

\* Type correctness of the manager's state.  connContext.c is a uint64: it must
\* never be decremented below zero.
TypeOK ==
    /\ client \in [Sessions -> Clients]
    /\ pc \in [Sessions -> SessionPc]
    /\ owner \in [Sessions -> Acceptors]
    /\ connClosed \in [Sessions -> BOOLEAN]
    /\ dom \in [Sessions -> Domains \cup {NoDomain}]
    /\ connCtx \in [Sessions -> Sessions \cup {NoCtx}]
    /\ apc \in [Acceptors -> {"accept", "drain", "done"}]
    /\ ipConnCountMap \in [Ips -> Nat \cup {NoEntry}]
    /\ userCtxMap \in [Keys -> Sessions \cup {NoCtx}]
    /\ ctxCount \in [Sessions -> Nat]
    /\ cancelled \subseteq Sessions
    /\ kpc \in [Kickers -> {"idle", "del", "walk", "pops", "exit"}]
    /\ named \in [Kickers -> Users \cup {NoUser}]
    /\ scan \in [Kickers -> SUBSET Keys]
    /\ todo \in [Kickers -> SUBSET Keys]
    /\ victims \in [Kickers -> SUBSET Sessions]
    /\ accounts \subseteq Keys
    /\ blackMap \subseteq Domains
    /\ oneIpMaxConn \in Limits
    /\ stop \in {"run", "flag", "closed", "cancel", "stopped"}
    /\ queueOpen \in BOOLEAN
    /\ lost \subseteq {"access", "black"} \X Sessions

Holders(i) == {s \in Sessions : client[s].ip = i /\ pc[s] \in Slotted}
Members(c) == {s \in Sessions : pc[s] \in Registered /\ connCtx[s] = c}

\* ipConnCountMap[i] counts exactly the handlers between AddIpConnCount and
\* their deferred ReduceIpConnCount, whatever path they leave by, and an
\* address without handlers has no entry: no slot and no entry leaks.
IpCountExact ==
    \A i \in Ips :
        IF Holders(i) = {} THEN ipConnCountMap[i] = NoEntry
        ELSE ipConnCountMap[i] = Cardinality(Holders(i))

\* With a limit always configured, an address never serves more connections at
\* once than the largest limit ever in force, although the limit moves while
\* connections are open and a first connection is admitted untested.
IpLimit ==
    0 \notin Limits =>
        \A i \in Ips : Holders(i) # {} =>
            \E l \in Limits : Cardinality(Holders(i)) <= l

\* A registered connContext is live, its count is the number of sessions that
\* share it, and it has at least one: it is dropped by the last one out and by
\* nobody else, even when sessions of an older, popped context of the same key
\* are still on their way out.
RefCountExact ==
    \A k \in Keys : userCtxMap[k] # NoCtx =>
        /\ userCtxMap[k] \notin cancelled
        /\ Members(userCtxMap[k]) # {}
        /\ ctxCount[userCtxMap[k]] = Cardinality(Members(userCtxMap[k]))

\* Every session between addUserConnection and deleteUserConnection can be
\* ended from outside: its context is the one registered for its key, where a
\* kick finds it, or it has been cancelled already.
Reachable ==
    \A s \in Sessions : pc[s] \in Registered =>
        connCtx[s] \in cancelled \/ userCtxMap[keyOf(s)] = connCtx[s]

\* A kick that has come to its end has cancelled every context that was
\* registered for the user when it began, although the walk reads the map key by
\* key while sessions come and go.  A walk for a name with a ':' promises nothing:
\* no key has such a first field.  A DeleteUserData whose DEL failed does not walk.
KickComplete ==
    \A k \in Kickers :
        KickEnds(k) /\ (kpc[k] = "pops" \/ ColonFree(named[k])) => victims[k] \subseteq cancelled

\* A context is cancelled under a session that still uses it only by a kick
\* that has the session's key to pop and names the session's user, or the part
\* of its name before a ':': one session leaving never ends another, and nor
\* does a kick of another user.
OnlyKicksInterrupt ==
    [][\A c \in cancelled' \ cancelled :
         \A s \in Sessions :
           (pc'[s] \in Registered /\ connCtx'[s] = c) =>
               \E k \in Kickers :
                   /\ keyOf(s) \in todo[k]
                   /\ named[k] \in {client[s].user, FirstField[client[s].user]}]_vars

\* Stop closes the send queues last: no access record and no blacklist record
\* of a handler still running is refused (the error of Enqueue is dropped).
NoRecordLost == lost = {}

\* When Stop returns no handler runs and both registries are empty.
CleanStop ==
    stop = "stopped" =>
        /\ \A s \in Sessions : pc[s] \in Ended
        /\ \A i \in Ips : ipConnCountMap[i] = NoEntry
        /\ \A k \in Keys : userCtxMap[k] = NoCtx

\* Stop always returns, whatever the handlers were blocked on (given a broker
\* that takes what is left in the send queues).
StopCompletes == (stop = "flag") ~> (stop = "stopped")

\* A relaying session whose context is done, by a kick or by Stop, ends.
CancelledSessionEnds ==
    \A s \in Sessions :
        (pc[s] = "relay" /\ (tcmDone \/ connCtx[s] \in cancelled)) ~> (pc[s] = "done")
=============================================================================
