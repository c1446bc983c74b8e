------------------------- MODULE ProxyManagerProof -------------------------
(***************************************************************************)
(* Proofs about ProxyManager for every set of sessions, users, addresses,  *)
(* limits and messages.  The inductive invariant has four parts, one per   *)
(* piece of shared state: the address counts, the context registry, the    *)
(* running kicks and the shutdown.                                         *)
(***************************************************************************)
EXTENDS ProxyManager, FiniteSetTheorems, TLAPS

-----------------------------------------------------------------------------
(* The inductive invariant                                                 *)

\* A handler that has not yet reached addUserConnection.
Fresh == {"idle", "read", "admit", "target", "dial"}

IpInv == IpCountExact /\ IpLimit

\* connCtx is set exactly while a session is registered; sessions share a
\* context only under one key; a context exists only after its creator
\* registered.
CtxShape ==
    /\ \A s \in Sessions : pc[s] \in Registered <=> connCtx[s] # NoCtx
    /\ \A s \in Sessions : connCtx[s] # NoCtx => keyOf(connCtx[s]) = keyOf(s)
    /\ \A k \in Keys : userCtxMap[k] # NoCtx => keyOf(userCtxMap[k]) = k
    /\ \A c \in Sessions : pc[c] \in Fresh =>
         /\ c \notin cancelled
         /\ \A s \in Sessions : connCtx[s] # c
         /\ \A k \in Keys : userCtxMap[k] # c

RegInv == CtxShape /\ RefCountExact /\ Reachable

\* Between kicks nothing is left of the last one; what a kick has ahead of it
\* bears the name of its user, or its user is the first field of the name.
KickShape ==
    \A k \in Kickers :
        /\ kpc[k] \notin {"walk", "pops"} => scan[k] = {} /\ todo[k] = {} /\ victims[k] = {}
        /\ kpc[k] = "del" => named[k] \in Users
        /\ \A key \in scan[k] \cup todo[k] : named[k] \in {key[1], FirstField[key[1]]}

\* A kick sure to find its user: it names the addresses, or the name has no ':'.
Finds(k) == kpc[k] = "pops" \/ ColonFree(named[k])

\* A context registered when such a kick began is cancelled, or still registered
\* under a key the kick has yet to read or to pop.
VictimsAhead ==
    \A k \in Kickers : Finds(k) => \A c \in victims[k] :
        \/ c \in cancelled
        \/ userCtxMap[keyOf(c)] = c /\ keyOf(c) \in scan[k] \cup todo[k]

KickInv == KickShape /\ VictimsAhead

\* A loop that returned has no handler left; the queues are open until Stop
\* has seen every loop return.
StopInv ==
    /\ \A s \in Sessions : apc[owner[s]] = "done" => pc[s] \in Ended
    /\ stop = "stopped" => \A a \in Acceptors : apc[a] = "done"
    /\ queueOpen <=> stop # "stopped"
    /\ lost = {}

IInv == TypeOK /\ IpInv /\ RegInv /\ KickInv /\ StopInv

-----------------------------------------------------------------------------
(* Frames: what a part of the invariant needs to stay untouched.           *)

IpQuiet ==
    /\ UNCHANGED <<client, ipConnCountMap>>
    /\ \A s \in Sessions : pc'[s] \in Slotted <=> pc[s] \in Slotted

RegQuiet ==
    /\ UNCHANGED <<client, connCtx, userCtxMap, ctxCount, cancelled>>
    /\ \A s \in Sessions : /\ pc'[s] \in Registered <=> pc[s] \in Registered
                           /\ pc'[s] \in Fresh => pc[s] \in Fresh

KickQuiet == UNCHANGED <<client, userCtxMap, cancelled, kpc, named, scan, todo, victims>>

\* Steps of a session that touch neither registry.
Plain(s) ==
    \/ CloseOnStop(s) \/ HandlerReturn(s) \/ Valid(s) \/ ReadError(s)
    \/ CheckTarget(s) \/ DialError(s) \/ Sniff(s) \/ CopyEnd(s)
    \/ CtxExit(s) \/ Tick(s) \/ ReportAccessLog(s)

LEMMA KeyType == ASSUME TypeOK, NEW s \in Sessions PROVE keyOf(s) \in Keys /\ client[s].ip \in Ips
  BY DEF TypeOK, Clients, keyOf, Keys

LEMMA PlainType ==
    ASSUME TypeOK, NEW s \in Sessions, Plain(s)
    PROVE  TypeOK'
  <1> USE DEF TypeOK, SessionPc, Goto, Push, registryVars, kickVars, confVars, stopVars
  <1>1. CASE CloseOnStop(s) BY <1>1 DEF CloseOnStop
  <1>2. CASE HandlerReturn(s) BY <1>2 DEF HandlerReturn
  <1>3. CASE Valid(s) BY <1>3 DEF Valid
  <1>4. CASE ReadError(s) BY <1>4 DEF ReadError
  <1>5. CASE CheckTarget(s) BY <1>5 DEF CheckTarget
  <1>6. CASE DialError(s) BY <1>6 DEF DialError
  <1>7. CASE Sniff(s) BY <1>7 DEF Sniff
  <1>8. CASE CopyEnd(s) BY <1>8 DEF CopyEnd
  <1>9. CASE CtxExit(s) BY <1>9 DEF CtxExit
  <1>10. CASE Tick(s) BY <1>10 DEF Tick
  <1>11. CASE ReportAccessLog(s) BY <1>11 DEF ReportAccessLog
  <1> QED BY <1>1, <1>2, <1>3, <1>4, <1>5, <1>6, <1>7, <1>8, <1>9, <1>10, <1>11 DEF Plain

LEMMA PlainFrame ==
    ASSUME TypeOK, NEW s \in Sessions, Plain(s)
    PROVE  IpQuiet /\ RegQuiet /\ KickQuiet
  <1> USE DEF TypeOK, Goto, registryVars, kickVars, confVars, stopVars,
              IpQuiet, RegQuiet, KickQuiet, Slotted, Registered, Fresh
  <1>1. CASE CloseOnStop(s) BY <1>1 DEF CloseOnStop
  <1>2. CASE HandlerReturn(s) BY <1>2 DEF HandlerReturn
  <1>3. CASE Valid(s) BY <1>3 DEF Valid
  <1>4. CASE ReadError(s) BY <1>4 DEF ReadError
  <1>5. CASE CheckTarget(s) BY <1>5 DEF CheckTarget
  <1>6. CASE DialError(s) BY <1>6 DEF DialError
  <1>7. CASE Sniff(s) BY <1>7 DEF Sniff
  <1>8. CASE CopyEnd(s) BY <1>8 DEF CopyEnd
  <1>9. CASE CtxExit(s) BY <1>9 DEF CtxExit
  <1>10. CASE Tick(s) BY <1>10 DEF Tick
  <1>11. CASE ReportAccessLog(s) BY <1>11 DEF ReportAccessLog
  <1> QED BY <1>1, <1>2, <1>3, <1>4, <1>5, <1>6, <1>7, <1>8, <1>9, <1>10, <1>11 DEF Plain

\* Accept loops, configuration and Stop.
LEMMA OuterStep ==
    ASSUME TypeOK, (\E a \in Acceptors : Acceptor(a)) \/ Configure \/ Stop \/ UNCHANGED vars
    PROVE  TypeOK' /\ IpQuiet /\ RegQuiet /\ KickQuiet
  <1> USE DEF TypeOK, SessionPc, Goto, sessionVars, registryVars, kickVars, confVars, stopVars,
              IpQuiet, RegQuiet, KickQuiet, Slotted, Registered, Fresh
  <1>1. ASSUME NEW a \in Acceptors, NEW s \in Sessions, Accept(a, s)
        PROVE  TypeOK' /\ IpQuiet /\ RegQuiet /\ KickQuiet
    BY <1>1 DEF Accept, LoopHead
  <1>2. ASSUME NEW a \in Acceptors, AcceptError(a) \/ AcceptorReturn(a) \/ Relaunch(a)
        PROVE  TypeOK' /\ IpQuiet /\ RegQuiet /\ KickQuiet
    BY <1>2 DEF AcceptError, AcceptorReturn, Relaunch, LoopHead
  <1>3. CASE Configure
    <2>1. ASSUME NEW u \in Users, NEW I \in SUBSET Ips, SetUserData(u, I)
          PROVE  TypeOK' /\ IpQuiet /\ RegQuiet /\ KickQuiet
      <3>1. accounts' \subseteq Keys
        BY <2>1 DEF SetUserData, Keys, UserKeys
      <3> QED BY <2>1, <3>1 DEF SetUserData
    <2>2. ASSUME NEW B \in BlackLists, SetBlackMap(B)
          PROVE  TypeOK' /\ IpQuiet /\ RegQuiet /\ KickQuiet
      BY <2>2, BlackListsKnown DEF SetBlackMap
    <2>3. ASSUME NEW l \in Limits, setNacosConf(l)
          PROVE  TypeOK' /\ IpQuiet /\ RegQuiet /\ KickQuiet
      BY <2>3 DEF setNacosConf
    <2>4. \A m \in Updates : m[1] \in Users /\ m[2] \in SUBSET Ips
      BY UpdatesKnown
    <2> QED BY <1>3, <2>1, <2>2, <2>3, <2>4 DEF Configure
  <1>4. CASE Stop
    BY <1>4 DEF Stop, StopFlag, CloseListeners, CancelTasks, closeRabbitmqSendQueueSlices
  <1>5. CASE UNCHANGED vars
    BY <1>5 DEF vars
  <1> QED BY <1>1, <1>2, <1>3, <1>4, <1>5 DEF Acceptor

\* The steps of a kick, except for the pop.
KickStep ==
    \/ \E u \in Users, I \in SUBSET Ips : Disconnect(u, I)
    \/ \E u \in Users : DeleteUserData(u)
    \/ \E k \in Kickers : DelThenWalk(k) \/ DelError(k) \/ KickReturn(k) \/ ConsumerExit(k)
    \/ \E k \in Kickers, key \in Keys : IterRead(k, key)

LEMMA KeysOfUser ==
    ASSUME NEW u, u \in Users
    PROVE  UserKeys(u) \in SUBSET Keys /\ MatchingKeys(u) \in SUBSET Keys
  BY DEF UserKeys, MatchingKeys, Keys

LEMMA ContextsType ==
    ASSUME TypeOK, NEW K \in SUBSET Keys PROVE Contexts(K) \subseteq Sessions
  BY DEF TypeOK, Contexts

LEMMA WalkStep ==
    ASSUME TypeOK, KickInv, KickStep
    PROVE  TypeOK' /\ IpQuiet /\ RegQuiet
  <1> USE DEF TypeOK, sessionVars, registryVars, kickVars, confVars, stopVars,
              IpQuiet, RegQuiet, Slotted, Registered, Fresh
  <1>1. ASSUME NEW u \in Users, NEW I \in SUBSET Ips, Disconnect(u, I)
        PROVE  TypeOK' /\ IpQuiet /\ RegQuiet
    <2>1. MatchingKeys(u) \in SUBSET Keys /\ {u} \X I \in SUBSET Keys
      BY KeysOfUser DEF Keys
    <2>2. Contexts(IF I = {} THEN UserKeys(u) ELSE {u} \X I) \subseteq Sessions
      BY <2>1, KeysOfUser, ContextsType
    <2> QED BY <1>1, <2>1, <2>2 DEF Disconnect
  <1>2. ASSUME NEW u \in Users, DeleteUserData(u)
        PROVE  TypeOK' /\ IpQuiet /\ RegQuiet
    BY <1>2 DEF DeleteUserData
  <1>3. ASSUME NEW k \in Kickers, DelThenWalk(k)
        PROVE  TypeOK' /\ IpQuiet /\ RegQuiet
    <2>1. MatchingKeys(named[k]) \in SUBSET Keys /\ Contexts(UserKeys(named[k])) \subseteq Sessions
      BY <1>3, KeysOfUser, ContextsType DEF DelThenWalk, KickInv, KickShape
    <2> QED BY <1>3, <2>1 DEF DelThenWalk
  <1>4. ASSUME NEW k \in Kickers, DelError(k) \/ KickReturn(k) \/ ConsumerExit(k)
        PROVE  TypeOK' /\ IpQuiet /\ RegQuiet
    BY <1>4 DEF DelError, KickReturn, ConsumerExit
  <1>5. ASSUME NEW k \in Kickers, NEW key \in Keys, IterRead(k, key)
        PROVE  TypeOK' /\ IpQuiet /\ RegQuiet
    BY <1>5 DEF IterRead
  <1> QED BY <1>1, <1>2, <1>3, <1>4, <1>5 DEF KickStep

\* The pop of a kick.
LEMMA PopStep ==
    ASSUME TypeOK, NEW k \in Kickers, NEW key \in Keys, CloseUserConnections(k, key)
    PROVE  TypeOK' /\ IpQuiet
  BY DEF TypeOK, sessionVars, registryVars, kickVars, confVars, stopVars, Popped,
         CloseUserConnections, IpQuiet

-----------------------------------------------------------------------------
(* The address counts                                                      *)

LEMMA HoldersFinite ==
    ASSUME NEW i
    PROVE  /\ IsFiniteSet(Holders(i)) /\ Cardinality(Holders(i)) \in Nat
           /\ Cardinality(Holders(i)) = 0 <=> Holders(i) = {}
  <1>1. Holders(i) \in SUBSET Sessions
    BY DEF Holders
  <1> QED BY <1>1, SessionsFinite, FS_Subset, FS_CardinalityType, FS_EmptySet

LEMMA IpFrame ==
    ASSUME IpInv, IpQuiet
    PROVE  IpInv'
  <1>1. \A i \in Ips : Holders(i)' = Holders(i)
    BY DEF IpQuiet, Holders
  <1> QED BY <1>1 DEF IpQuiet, IpInv, IpCountExact, IpLimit

\* AddIpConnCount adds one holder and one to the count, unless the address is
\* full; the new count does not exceed the limit it was tested against.
LEMMA AddIpStep ==
    ASSUME TypeOK, IpInv, NEW s \in Sessions, AddIpConnCount(s)
    PROVE  TypeOK' /\ IpInv' /\ RegQuiet /\ KickQuiet
  <1>i. PICK i \in Ips : i = client[s].ip
    BY KeyType
  <1>0. i = client[s].ip /\ pc[s] = "admit" /\ UNCHANGED client
    BY <1>i DEF AddIpConnCount
  <1>1. TypeOK' /\ RegQuiet /\ KickQuiet
    BY <1>0 DEF TypeOK, SessionPc, AddIpConnCount, Goto, kickVars, confVars, stopVars,
                RegQuiet, KickQuiet, Registered, Fresh
  <1>2. CASE IpFull(i)
    <2>1. IpQuiet
      BY <1>2, <1>0 DEF AddIpConnCount, IpQuiet, Goto, TypeOK, Slotted, Registered
    <2> QED BY <2>1, <1>1, IpFrame
  <1>3. CASE ~IpFull(i)
    <2>1. /\ ipConnCountMap' = [ipConnCountMap EXCEPT ![i] =
                                  IF @ = NoEntry THEN 1 ELSE @ + 1]
          /\ pc' = [pc EXCEPT ![s] = "target"]
      BY <1>0, <1>3 DEF AddIpConnCount, Goto
    <2>2. \A j \in Ips : Holders(j)' = IF j = i THEN Holders(j) \cup {s} ELSE Holders(j)
      BY <2>1, <1>0 DEF Holders, TypeOK, Slotted, Registered
    <2>3. s \notin Holders(i)
      BY <1>0 DEF Holders, Slotted, Registered
    <2>4. Cardinality(Holders(i)') = Cardinality(Holders(i)) + 1
      BY <2>2, <2>3, <1>0, HoldersFinite, FS_AddElement
    <2>5. ipConnCountMap'[i] = Cardinality(Holders(i)')
      <3>1. CASE Holders(i) = {}
        <4>1. ipConnCountMap[i] = NoEntry /\ Cardinality(Holders(i)) = 0
          BY <3>1, HoldersFinite DEF IpInv, IpCountExact
        <4> QED BY <4>1, <2>1, <2>4 DEF TypeOK
      <3>2. CASE Holders(i) # {}
        <4>1. ipConnCountMap[i] = Cardinality(Holders(i)) /\ ipConnCountMap[i] # NoEntry
          BY <3>2, <1>0, HoldersFinite, NoEntryFresh DEF IpInv, IpCountExact
        <4> QED BY <4>1, <1>0, <2>1, <2>4 DEF TypeOK
      <3> QED BY <3>1, <3>2
    <2>6. IpCountExact'
      BY <2>1, <2>2, <2>5, <1>0 DEF IpInv, IpCountExact, TypeOK
    <2>7. ASSUME 0 \notin Limits
          PROVE  \E l \in Limits : Cardinality(Holders(i)') <= l
      <3>1. oneIpMaxConn \in Limits /\ oneIpMaxConn \in Nat /\ oneIpMaxConn >= 1
        BY <2>7, LimitsNat DEF TypeOK
      <3>2. CASE Holders(i) = {}
        BY <3>1, <3>2, <2>4, HoldersFinite
      <3>3. CASE Holders(i) # {}
        <4>1. ipConnCountMap[i] = Cardinality(Holders(i)) /\ ipConnCountMap[i] # NoEntry
          BY <3>3, <1>0, HoldersFinite, NoEntryFresh DEF IpInv, IpCountExact
        <4>2. Cardinality(Holders(i)) < oneIpMaxConn
          BY <4>1, <3>1, <1>3, HoldersFinite DEF IpFull
        <4> QED BY <4>2, <3>1, <2>4, HoldersFinite
      <3> QED BY <3>2, <3>3
    <2>8. IpLimit'
      <3>1. ASSUME 0 \notin Limits, NEW j \in Ips, (Holders(j) # {})'
            PROVE  \E l \in Limits : Cardinality(Holders(j)') <= l
        BY <3>1, <2>2, <2>7 DEF IpInv, IpLimit
      <3> QED BY <3>1 DEF IpLimit
    <2> QED BY <1>1, <2>6, <2>8 DEF IpInv
  <1> QED BY <1>2, <1>3

\* ReduceIpConnCount undoes it; the last holder removes the entry.
LEMMA ReduceIpStep ==
    ASSUME TypeOK, IpInv, NEW s \in Sessions, ReduceIpConnCount(s)
    PROVE  TypeOK' /\ IpInv' /\ RegQuiet /\ KickQuiet
  <1>i. PICK i \in Ips : i = client[s].ip
    BY KeyType
  <1>0. i = client[s].ip /\ pc[s] = "release" /\ UNCHANGED client /\ pc' = [pc EXCEPT ![s] = "ret"]
    BY <1>i DEF ReduceIpConnCount, Goto
  <1>1. s \in Holders(i)
    BY <1>0 DEF Holders, Slotted
  <1>2. /\ ipConnCountMap[i] = Cardinality(Holders(i)) /\ ipConnCountMap[i] # NoEntry
        /\ ipConnCountMap[i] \in Nat /\ ipConnCountMap[i] >= 1
    BY <1>0, <1>1, HoldersFinite, NoEntryFresh DEF IpInv, IpCountExact
  <1>3. ipConnCountMap' = [ipConnCountMap EXCEPT ![i] = CountAfterReduce(ipConnCountMap[i])]
    BY <1>0, <1>2 DEF ReduceIpConnCount
  <1>4. TypeOK' /\ RegQuiet /\ KickQuiet
    <2>1. ipConnCountMap' \in [Ips -> Nat \cup {NoEntry}]
      BY <1>0, <1>2, <1>3 DEF TypeOK, CountAfterReduce
    <2> QED BY <2>1, <1>0 DEF TypeOK, SessionPc, ReduceIpConnCount, kickVars, confVars, stopVars,
                RegQuiet, KickQuiet, Registered, Fresh
  <1>5. \A j \in Ips : Holders(j)' = IF j = i THEN Holders(j) \ {s} ELSE Holders(j)
    BY <1>0 DEF Holders, TypeOK, Slotted, Registered
  <1>6. Cardinality(Holders(i)') = Cardinality(Holders(i)) - 1
    BY <1>5, <1>1, <1>0, HoldersFinite, FS_RemoveElement
  <1>7. Holders(i)' = {} <=> Cardinality(Holders(i)) = 1
    <2>1. IsFiniteSet(Holders(i)')
      BY <1>5, <1>0, HoldersFinite, FS_RemoveElement
    <2> QED BY <2>1, <1>6, FS_EmptySet, HoldersFinite
  <1>8. IpCountExact'
    <2>1. ipConnCountMap'[i] = IF Holders(i)' = {} THEN NoEntry ELSE Cardinality(Holders(i)')
      BY <1>0, <1>2, <1>3, <1>6, <1>7 DEF TypeOK, CountAfterReduce
    <2>2. \A j \in Ips \ {i} : /\ ipConnCountMap'[j] = ipConnCountMap[j]
                              /\ Holders(j)' = Holders(j)
      BY <1>3, <1>5 DEF TypeOK
    <2> QED BY <2>1, <2>2 DEF IpInv, IpCountExact
  <1>9. IpLimit'
    <2>1. ASSUME 0 \notin Limits, NEW l \in Limits, Cardinality(Holders(i)) <= l
          PROVE  Cardinality(Holders(i)') <= l
      BY <2>1, <1>6, HoldersFinite, LimitsNat
    <2> QED BY <2>1, <1>0, <1>1, <1>5 DEF IpInv, IpLimit
  <1> QED BY <1>4, <1>8, <1>9 DEF IpInv

-----------------------------------------------------------------------------
(* The context registry                                                    *)

LEMMA MembersFinite ==
    ASSUME NEW c
    PROVE  /\ IsFiniteSet(Members(c)) /\ Cardinality(Members(c)) \in Nat
           /\ Cardinality(Members(c)) = 0 <=> Members(c) = {}
  <1>1. Members(c) \in SUBSET Sessions
    BY DEF Members
  <1> QED BY <1>1, SessionsFinite, FS_Subset, FS_CardinalityType, FS_EmptySet

LEMMA RegFrame ==
    ASSUME RegInv, RegQuiet
    PROVE  RegInv'
  <1> USE DEF RegQuiet
  <1>1. \A c : Members(c)' = Members(c)
    BY DEF Members
  <1>2. CtxShape'
    BY DEF RegInv, CtxShape, keyOf
  <1>3. RefCountExact'
    BY <1>1 DEF RegInv, RefCountExact
  <1>4. Reachable'
    BY DEF RegInv, Reachable, keyOf
  <1> QED BY <1>2, <1>3, <1>4 DEF RegInv

LEMMA KickFrame ==
    ASSUME KickInv, KickQuiet
    PROVE  KickInv'
  BY DEF KickInv, KickShape, VictimsAhead, Finds, KickQuiet, keyOf

\* addUserConnection joins the registered context of its key or creates one
\* that nobody has seen; no entry of the map is replaced.
LEMMA RegisterStep ==
    ASSUME TypeOK, RegInv, KickInv, NEW s \in Sessions, addUserConnection(s)
    PROVE  TypeOK' /\ IpQuiet /\ RegInv' /\ KickInv'
  <1>k. PICK k \in Keys : k = keyOf(s)
    BY KeyType
  <1>c. PICK c \in Sessions : c = CtxFor(s)
    BY <1>k DEF TypeOK, CtxFor
  <1>1. /\ pc[s] = "dial" /\ pc' = [pc EXCEPT ![s] = "relay"]
        /\ connCtx' = [connCtx EXCEPT ![s] = c]
        /\ userCtxMap' = [userCtxMap EXCEPT ![k] = c]
        /\ ctxCount' = [ctxCount EXCEPT ![c] = CountAfterAdd(s, c)]
        /\ UNCHANGED <<client, cancelled, kpc, named, scan, todo, victims, ipConnCountMap>>
    BY <1>k, <1>c DEF addUserConnection, Goto, kickVars
  <1>2. TypeOK' /\ IpQuiet
    <2>1. ctxCount' \in [Sessions -> Nat]
      BY <1>1 DEF TypeOK, CountAfterAdd
    <2>2. /\ pc' \in [Sessions -> SessionPc] /\ connCtx' \in [Sessions -> Sessions \cup {NoCtx}]
          /\ userCtxMap' \in [Keys -> Sessions \cup {NoCtx}]
      BY <1>1 DEF TypeOK, SessionPc
    <2>3. UNCHANGED <<client, owner, connClosed, dom, ipConnCountMap, cancelled,
                      kickVars, confVars, stopVars, lost>>
      BY DEF addUserConnection
    <2>4. TypeOK'
      BY <2>1, <2>2, <2>3 DEF TypeOK, kickVars, confVars, stopVars
    <2>5. IpQuiet
      BY <1>1 DEF TypeOK, IpQuiet, Slotted, Registered
    <2> QED BY <2>4, <2>5
  <1>3. /\ s \notin cancelled
        /\ \A t \in Sessions : connCtx[t] # s
        /\ \A j \in Keys : userCtxMap[j] # s
        /\ connCtx[s] = NoCtx
    BY <1>1 DEF RegInv, CtxShape, Fresh, Registered
  <1>4. /\ userCtxMap[k] = NoCtx => c = s
        /\ userCtxMap[k] # NoCtx => c = userCtxMap[k] /\ c # s
        /\ \A j \in Keys : userCtxMap[j] # NoCtx => userCtxMap'[j] = userCtxMap[j]
        /\ \A j \in Keys : j # k => userCtxMap'[j] = userCtxMap[j]
        /\ userCtxMap'[k] = c
    BY <1>k, <1>c, <1>1, <1>3 DEF CtxFor, TypeOK
  <1>5. keyOf(c) = k /\ c \notin cancelled
    BY <1>k, <1>3, <1>4 DEF RegInv, CtxShape, RefCountExact
  <1>6. \A t \in Sessions : keyOf(t)' = keyOf(t)
    BY <1>1 DEF keyOf
  <1>7. CtxShape'
    <2>1. \A t \in Sessions : /\ pc'[t] \in Registered <=> connCtx'[t] # NoCtx
                              /\ connCtx'[t] # NoCtx => (keyOf(connCtx[t]) = keyOf(t))'
      <3>1. (keyOf(connCtx[s]) = keyOf(s))'
        BY <1>1, <1>5, <1>6, <1>k DEF TypeOK, keyOf
      <3>2. ASSUME NEW t \in Sessions, t # s PROVE connCtx'[t] = connCtx[t] /\ pc'[t] = pc[t]
        BY <3>2, <1>1 DEF TypeOK
      <3>3. ASSUME NEW t \in Sessions, t # s, connCtx[t] # NoCtx
            PROVE  (keyOf(connCtx[t]) = keyOf(t))'
        BY <3>2, <3>3, <1>1 DEF RegInv, CtxShape, keyOf
      <3> QED BY <3>1, <3>2, <3>3, <1>1, NoCtxFresh DEF RegInv, CtxShape, TypeOK, Registered
    <2>2. \A j \in Keys : userCtxMap'[j] # NoCtx => (keyOf(userCtxMap[j]) = j)'
      <3>1. ASSUME NEW j \in Keys, userCtxMap'[j] # NoCtx
            PROVE  (keyOf(userCtxMap[j]) = j)'
        BY <3>1, <1>1, <1>4, <1>5 DEF RegInv, CtxShape, keyOf
      <3> QED BY <3>1
    <2>3. ASSUME NEW d \in Sessions, pc'[d] \in Fresh
          PROVE  /\ d \notin cancelled' /\ d # c
                 /\ \A t \in Sessions : connCtx'[t] # d
                 /\ \A j \in Keys : userCtxMap'[j] # d
      <3>1. d # s /\ pc[d] \in Fresh
        BY <2>3, <1>1 DEF TypeOK, Fresh
      <3>2. d # c
        BY <3>1, <1>4 DEF RegInv, CtxShape
      <3> QED BY <3>1, <3>2, <1>1 DEF RegInv, CtxShape, TypeOK
    <2> QED BY <2>1, <2>2, <2>3 DEF CtxShape
  <1>8. RefCountExact'
    <2>1. \A d \in Sessions : Members(d)' = IF d = c THEN Members(d) \cup {s} ELSE Members(d)
      BY <1>1, <1>3, NoCtxFresh DEF Members, TypeOK, Registered
    <2>2. s \notin Members(c)
      BY <1>3, NoCtxFresh DEF Members
    <2>3. Cardinality(Members(c)') = Cardinality(Members(c)) + 1
      BY <2>1, <2>2, MembersFinite, FS_AddElement
    <2>4. ctxCount'[c] = Cardinality(Members(c)')
      <3>1. CASE userCtxMap[k] = NoCtx
        <4>1. c = s /\ Members(c) = {}
          BY <3>1, <1>3, <1>4 DEF Members
        <4>2. Cardinality(Members(c)') = 1
          BY <4>1, <2>3, MembersFinite
        <4> QED BY <4>1, <4>2, <1>1 DEF TypeOK, CountAfterAdd
      <3>2. CASE userCtxMap[k] # NoCtx
        <4>1. c # s /\ ctxCount[c] = Cardinality(Members(c))
          BY <3>2, <1>4 DEF RegInv, RefCountExact
        <4> QED BY <4>1, <2>3, <1>1 DEF TypeOK, CountAfterAdd
      <3> QED BY <3>1, <3>2
    <2>5. ASSUME NEW j \in Keys, userCtxMap'[j] # NoCtx
          PROVE  /\ userCtxMap'[j] \notin cancelled'
                 /\ Members(userCtxMap[j])' # {}
                 /\ ctxCount'[userCtxMap'[j]] = Cardinality(Members(userCtxMap[j])')
      <3>1. CASE j = k
        BY <3>1, <1>1, <1>4, <1>5, <2>1, <2>4 DEF Members
      <3>2. CASE j # k
        <4>1. PICK d \in Sessions : d = userCtxMap[j] /\ d = userCtxMap'[j]
          BY <3>2, <2>5, <1>4 DEF TypeOK
        <4>2. d # c /\ d \notin cancelled /\ Members(d) # {} /\ ctxCount[d] = Cardinality(Members(d))
          BY <4>1, <3>2, <1>5, NoCtxFresh DEF RegInv, CtxShape, RefCountExact
        <4>3. Members(d)' = Members(d) /\ ctxCount'[d] = ctxCount[d]
          BY <4>2, <2>1, <1>1 DEF TypeOK
        <4>4. Members(userCtxMap[j])' = Members(d)'
          BY <4>1 DEF Members
        <4> QED BY <4>1, <4>2, <4>3, <4>4, <1>1
      <3> QED BY <3>1, <3>2
    <2> QED BY <2>5 DEF RefCountExact
  <1>9. Reachable'
    <2>1. ASSUME NEW t \in Sessions, pc'[t] \in Registered
          PROVE  connCtx'[t] \in cancelled' \/ userCtxMap'[keyOf(t)] = connCtx'[t]
      <3>1. CASE t = s
        BY <3>1, <1>1, <1>k DEF TypeOK
      <3>2. CASE t # s
        <4>1. connCtx'[t] = connCtx[t] /\ pc[t] \in Registered /\ connCtx[t] # NoCtx
          BY <3>2, <2>1, <1>1 DEF RegInv, CtxShape, TypeOK
        <4>2. connCtx[t] \in cancelled \/ userCtxMap[keyOf(t)] = connCtx[t]
          BY <4>1 DEF RegInv, Reachable
        <4> QED BY <4>1, <4>2, <1>1, <1>4, KeyType
      <3> QED BY <3>1, <3>2
    <2> QED BY <2>1, <1>6 DEF Reachable
  <1>10. KickInv'
    <2>1. ASSUME NEW q \in Kickers, NEW v \in victims[q],
                 userCtxMap[keyOf(v)] = v
          PROVE  userCtxMap'[keyOf(v)] = v
      BY <2>1, <1>4, KeyType, NoCtxFresh DEF TypeOK
    <2> QED BY <2>1, <1>1 DEF KickInv, KickShape, VictimsAhead, Finds, keyOf
  <1> QED BY <1>2, <1>7, <1>8, <1>9, <1>10 DEF RegInv

\* deleteUserConnection of a session whose context is still registered counts
\* down, and the last one out removes and cancels it; a session of a popped
\* context leaves the newer entry of its key alone.
LEMMA UnregisterStep ==
    ASSUME TypeOK, RegInv, KickInv, NEW s \in Sessions, deleteUserConnection(s)
    PROVE  /\ TypeOK' /\ IpQuiet /\ RegInv' /\ KickInv'
           /\ \A c \in cancelled' \ cancelled : Members(c)' = {}
  <1>k. PICK k \in Keys : k = keyOf(s)
    BY KeyType
  <1>c. PICK c \in Sessions : c = connCtx[s]
    BY DEF TypeOK, deleteUserConnection, RegInv, CtxShape, Registered
  <1>1. /\ pc[s] = "join" /\ pc' = [pc EXCEPT ![s] = "release"]
        /\ connCtx' = [connCtx EXCEPT ![s] = NoCtx]
        /\ ctxCount' = IF userCtxMap[k] = c THEN [ctxCount EXCEPT ![c] = ctxCount[c] - 1] ELSE ctxCount
        /\ IF userCtxMap[k] = c /\ ctxCount[c] = 1
           THEN /\ userCtxMap' = [userCtxMap EXCEPT ![k] = NoCtx]
                /\ cancelled' = cancelled \cup {c}
           ELSE UNCHANGED <<userCtxMap, cancelled>>
        /\ UNCHANGED <<client, kpc, named, scan, todo, victims, ipConnCountMap>>
    BY <1>k, <1>c DEF deleteUserConnection, Goto, kickVars, SameCtx, LastOut
  <1>2. keyOf(c) = k /\ c # NoCtx /\ pc[c] \notin Fresh
    BY <1>k, <1>c, NoCtxFresh DEF RegInv, CtxShape
  <1>3. \A j \in Keys : userCtxMap[j] = c => j = k
    BY <1>2 DEF RegInv, CtxShape
  <1>4. \A d \in Sessions : Members(d)' = IF d = c THEN Members(d) \ {s} ELSE Members(d)
    BY <1>1, <1>c, NoCtxFresh DEF Members, TypeOK, Registered
  <1>5. s \in Members(c)
    BY <1>1, <1>c DEF Members, Registered
  <1>6. /\ Cardinality(Members(c)') = Cardinality(Members(c)) - 1
        /\ IsFiniteSet(Members(c)')
    BY <1>4, <1>5, MembersFinite, FS_RemoveElement
  <1>7. Members(c)' = {} <=> Cardinality(Members(c)) = 1
    BY <1>6, FS_EmptySet, MembersFinite
  <1>8. userCtxMap[k] = c => /\ ctxCount[c] = Cardinality(Members(c)) /\ ctxCount[c] >= 1
                             /\ c \notin cancelled
    BY <1>2, <1>5, MembersFinite DEF RegInv, RefCountExact
  <1>9. TypeOK' /\ IpQuiet
    <2>1. ctxCount' \in [Sessions -> Nat]
      BY <1>1, <1>8 DEF TypeOK
    <2>2. /\ pc' \in [Sessions -> SessionPc] /\ connCtx' \in [Sessions -> Sessions \cup {NoCtx}]
          /\ userCtxMap' \in [Keys -> Sessions \cup {NoCtx}]
          /\ cancelled' \subseteq Sessions
      BY <1>1 DEF TypeOK, SessionPc
    <2>3. UNCHANGED <<client, owner, connClosed, dom, ipConnCountMap,
                      kickVars, confVars, stopVars, lost>>
      BY DEF deleteUserConnection
    <2>4. TypeOK'
      BY <2>1, <2>2, <2>3 DEF TypeOK, kickVars, confVars, stopVars
    <2>5. IpQuiet
      BY <1>1 DEF TypeOK, IpQuiet, Slotted, Registered
    <2> QED BY <2>4, <2>5
  <1>10. \A d \in cancelled' \ cancelled : d = c /\ Members(d)' = {}
    BY <1>1, <1>7, <1>8
  <1>11. CtxShape'
    <2>1. ASSUME NEW t \in Sessions
          PROVE  /\ pc'[t] \in Registered <=> connCtx'[t] # NoCtx
                 /\ connCtx'[t] # NoCtx => connCtx'[t] = connCtx[t]
      BY <1>1 DEF RegInv, CtxShape, TypeOK, Registered
    <2>2. \A t \in Sessions : connCtx'[t] # NoCtx => (keyOf(connCtx[t]) = keyOf(t))'
      BY <2>1, <1>1 DEF RegInv, CtxShape, keyOf
    <2>3. \A j \in Keys : userCtxMap'[j] # NoCtx => userCtxMap'[j] = userCtxMap[j]
      BY <1>1 DEF TypeOK
    <2>4. \A j \in Keys : userCtxMap'[j] # NoCtx => (keyOf(userCtxMap[j]) = j)'
      BY <2>3, <1>1 DEF RegInv, CtxShape, keyOf
    <2>5. ASSUME NEW d \in Sessions, pc'[d] \in Fresh
          PROVE  /\ d \notin cancelled'
                 /\ \A t \in Sessions : connCtx'[t] # d
                 /\ \A j \in Keys : userCtxMap'[j] # d
      <3>1. d # s /\ pc[d] \in Fresh
        BY <2>5, <1>1 DEF TypeOK, Fresh
      <3>2. d # c /\ d # NoCtx
        BY <3>1, <1>2, NoCtxFresh
      <3>3. d \notin cancelled'
        BY <3>1, <3>2, <1>10 DEF RegInv, CtxShape
      <3> QED BY <3>1, <3>2, <3>3, <2>1, <2>3 DEF RegInv, CtxShape
    <2> QED BY <2>1, <2>2, <2>4, <2>5 DEF CtxShape
  <1>12. RefCountExact'
    <2>1. ASSUME NEW j \in Keys, userCtxMap'[j] # NoCtx
          PROVE  /\ userCtxMap'[j] \notin cancelled'
                 /\ Members(userCtxMap[j])' # {}
                 /\ ctxCount'[userCtxMap'[j]] = Cardinality(Members(userCtxMap[j])')
      <3>1. PICK d \in Sessions : d = userCtxMap[j] /\ d = userCtxMap'[j]
        BY <2>1, <1>1 DEF TypeOK
      <3>2. d \notin cancelled /\ Members(d) # {} /\ ctxCount[d] = Cardinality(Members(d))
        BY <3>1, NoCtxFresh DEF RegInv, RefCountExact
      <3>3. Members(userCtxMap[j])' = Members(d)'
        BY <3>1 DEF Members
      <3>4. CASE d = c
        <4>1. j = k /\ userCtxMap[k] = c /\ ctxCount[c] # 1
          BY <3>1, <3>4, <1>1, <1>2, <1>3 DEF TypeOK
        <4>2. ctxCount'[c] = ctxCount[c] - 1 /\ UNCHANGED cancelled
          BY <4>1, <1>1 DEF TypeOK
        <4> QED BY <4>1, <4>2, <3>1, <3>2, <3>3, <3>4, <1>6, <1>7
      <3>5. CASE d # c
        <4>1. Members(d)' = Members(d) /\ ctxCount'[d] = ctxCount[d] /\ d \notin cancelled'
          BY <3>5, <3>2, <1>1, <1>4, <1>10 DEF TypeOK
        <4> QED BY <4>1, <3>1, <3>2, <3>3
      <3> QED BY <3>4, <3>5
    <2> QED BY <2>1 DEF RefCountExact
  <1>13. Reachable'
    <2>1. ASSUME NEW t \in Sessions, pc'[t] \in Registered
          PROVE  connCtx'[t] \in cancelled' \/ userCtxMap'[keyOf(t)] = connCtx'[t]
      <3>1. connCtx'[t] = connCtx[t] /\ pc[t] \in Registered /\ connCtx[t] # NoCtx
        BY <2>1, <1>1 DEF RegInv, CtxShape, TypeOK, Registered
      <3>2. connCtx[t] \in cancelled \/ userCtxMap[keyOf(t)] = connCtx[t]
        BY <3>1 DEF RegInv, Reachable
      <3> QED BY <3>1, <3>2, <1>1, KeyType DEF TypeOK
    <2>2. \A t \in Sessions : keyOf(t)' = keyOf(t)
      BY <1>1 DEF keyOf
    <2> QED BY <2>1, <2>2 DEF Reachable
  <1>14. KickInv'
    <2>1. ASSUME NEW q \in Kickers, NEW v \in victims[q],
                 userCtxMap[keyOf(v)] = v
          PROVE  userCtxMap'[keyOf(v)] = v \/ v \in cancelled'
      BY <2>1, <1>1, KeyType DEF TypeOK
    <2> QED BY <2>1, <1>1 DEF KickInv, KickShape, VictimsAhead, Finds, keyOf
  <1> QED BY <1>9, <1>10, <1>11, <1>12, <1>13, <1>14 DEF RegInv

\* The pop removes and cancels exactly the context registered for its key.
LEMMA PopRegStep ==
    ASSUME TypeOK, RegInv, KickInv, NEW q \in Kickers, NEW key \in Keys,
           CloseUserConnections(q, key)
    PROVE  /\ RegInv' /\ KickInv'
           /\ \A c \in cancelled' \ cancelled : c = userCtxMap[key] /\ c # NoCtx
  <1>1. /\ UNCHANGED <<client, pc, connCtx, ctxCount, kpc, named, scan, victims>>
        /\ userCtxMap' = [userCtxMap EXCEPT ![key] = NoCtx]
        /\ todo' = [todo EXCEPT ![q] = todo[q] \ {key}]
        /\ cancelled' = cancelled \cup ({userCtxMap[key]} \ {NoCtx})
    BY DEF CloseUserConnections, Popped, sessionVars
  <1>2. \A t \in Sessions : keyOf(t)' = keyOf(t)
    BY <1>1 DEF keyOf
  <1>3. \A j \in Keys : userCtxMap'[j] # NoCtx =>
            j # key /\ userCtxMap'[j] = userCtxMap[j] /\ userCtxMap[j] # userCtxMap[key]
    BY <1>1 DEF TypeOK, RegInv, CtxShape
  <1>4. \A d : Members(d)' = Members(d)
    BY <1>1 DEF Members
  <1>5. CtxShape'
    <2>1. \A t \in Sessions : connCtx'[t] # NoCtx => (keyOf(connCtx[t]) = keyOf(t))'
      BY <1>1 DEF RegInv, CtxShape, keyOf
    <2>2. \A j \in Keys : userCtxMap'[j] # NoCtx => (keyOf(userCtxMap[j]) = j)'
      BY <1>1, <1>3 DEF RegInv, CtxShape, keyOf
    <2>3. ASSUME NEW d \in Sessions, pc'[d] \in Fresh
          PROVE  /\ d \notin cancelled'
                 /\ \A t \in Sessions : connCtx'[t] # d
                 /\ \A j \in Keys : userCtxMap'[j] # d
      BY <2>3, <1>1, <1>3, NoCtxFresh DEF RegInv, CtxShape
    <2> QED BY <2>1, <2>2, <2>3, <1>1 DEF RegInv, CtxShape
  <1>6. RefCountExact'
    BY <1>1, <1>3, <1>4 DEF RegInv, RefCountExact
  <1>7. Reachable'
    <2>1. ASSUME NEW t \in Sessions, pc[t] \in Registered
          PROVE  connCtx[t] \in cancelled' \/ userCtxMap'[keyOf(t)] = connCtx[t]
      BY <2>1, <1>1, KeyType DEF RegInv, CtxShape, Reachable, TypeOK
    <2> QED BY <2>1, <1>1, <1>2 DEF Reachable
  <1>8. KickInv'
    <2>1. ASSUME NEW p \in Kickers, Finds(p), NEW v \in victims[p]
          PROVE  \/ v \in cancelled'
                 \/ userCtxMap'[keyOf(v)] = v /\ keyOf(v) \in scan[p] \cup todo'[p]
      <3>1. v \in Sessions /\ keyOf(v) \in Keys /\ v # NoCtx
        BY <2>1, KeyType, NoCtxFresh DEF TypeOK
      <3>2. v \in cancelled \/ (userCtxMap[keyOf(v)] = v /\ keyOf(v) \in scan[p] \cup todo[p])
        BY <2>1 DEF KickInv, VictimsAhead
      <3>3. CASE keyOf(v) = key
        BY <3>1, <3>2, <3>3, <1>1
      <3>4. CASE keyOf(v) # key
        BY <3>1, <3>2, <3>4, <1>1 DEF TypeOK
      <3> QED BY <3>3, <3>4
    <2>2. \A p \in Kickers : todo'[p] \subseteq todo[p]
      BY <1>1 DEF TypeOK
    <2>3. KickShape'
      BY <2>2, <1>1 DEF KickInv, KickShape
    <2> QED BY <2>1, <2>3, <1>1 DEF KickInv, VictimsAhead, Finds, keyOf
  <1> QED BY <1>1, <1>5, <1>6, <1>7, <1>8 DEF RegInv

-----------------------------------------------------------------------------
(* Kicks in progress                                                       *)

\* A kick begins with every victim's key ahead of it, and moves a key from
\* scan to todo only while something is registered there.
LEMMA WalkKickStep ==
    ASSUME TypeOK, RegInv, KickInv, KickStep
    PROVE  KickInv'
  <1>0. ASSUME NEW K \in SUBSET Keys, NEW c \in Contexts(K)
        PROVE  c \in Sessions /\ userCtxMap[keyOf(c)] = c /\ keyOf(c) \in K
    BY <1>0 DEF Contexts, TypeOK, RegInv, CtxShape
  \* A kick begins.
  <1>1. ASSUME NEW k \in Kickers, NEW u \in Users, NEW l \in {"walk", "pops"},
               NEW K \in SUBSET Keys, NEW R \in SUBSET Keys, NEW D \in SUBSET Keys,
               kpc' = [kpc EXCEPT ![k] = l], named' = [named EXCEPT ![k] = u],
               scan' = [scan EXCEPT ![k] = R], todo' = [todo EXCEPT ![k] = D],
               victims' = [victims EXCEPT ![k] = Contexts(K)],
               \A key \in R \cup D : u \in {key[1], FirstField[key[1]]},
               l = "pops" \/ ColonFree(u) => K \subseteq R \cup D,
               UNCHANGED <<client, userCtxMap, cancelled>>
        PROVE  KickInv'
    <2>1. /\ kpc'[k] = l /\ named'[k] = u /\ scan'[k] = R /\ todo'[k] = D
          /\ victims'[k] = Contexts(K)
          /\ \A q \in Kickers \ {k} : /\ kpc'[q] = kpc[q] /\ named'[q] = named[q]
                                     /\ scan'[q] = scan[q] /\ todo'[q] = todo[q]
                                     /\ victims'[q] = victims[q]
      BY <1>1 DEF TypeOK
    <2>2. KickShape'
      BY <1>1, <2>1 DEF KickInv, KickShape
    <2>3. ASSUME NEW q \in Kickers, Finds(q)', NEW c \in victims'[q]
          PROVE  \/ c \in cancelled
                 \/ userCtxMap[keyOf(c)] = c /\ keyOf(c) \in scan'[q] \cup todo'[q]
      <3>1. CASE q = k
        BY <3>1, <2>1, <2>3, <1>0, <1>1 DEF Finds, ColonFree
      <3>2. CASE q # k
        BY <3>2, <2>1, <2>3 DEF KickInv, VictimsAhead, Finds
      <3> QED BY <3>1, <3>2
    <2> QED BY <1>1, <2>2, <2>3 DEF KickInv, VictimsAhead, keyOf
  <1>2. ASSUME NEW u \in Users, NEW I \in SUBSET Ips, Disconnect(u, I)
        PROVE  KickInv'
    <2> DEFINE K == IF I = {} THEN UserKeys(u) ELSE {u} \X I
               R == IF I = {} THEN MatchingKeys(u) ELSE {}
               l == IF I = {} THEN "walk" ELSE "pops"
    <2>1. K \in SUBSET Keys /\ R \in SUBSET Keys /\ {u} \X I \in SUBSET Keys
      BY KeysOfUser DEF Keys
    <2>2. \A key \in R \cup ({u} \X I) : u \in {key[1], FirstField[key[1]]}
      BY DEF MatchingKeys
    <2>3. l = "pops" \/ ColonFree(u) => K \subseteq R \cup ({u} \X I)
      BY DEF MatchingKeys, UserKeys, ColonFree, Keys
    <2>4. /\ "Disconnect" \in Kickers
          /\ kpc' = [kpc EXCEPT !["Disconnect"] = l]
          /\ named' = [named EXCEPT !["Disconnect"] = u]
          /\ scan' = [scan EXCEPT !["Disconnect"] = R]
          /\ todo' = [todo EXCEPT !["Disconnect"] = {u} \X I]
          /\ victims' = [victims EXCEPT !["Disconnect"] = Contexts(K)]
          /\ UNCHANGED <<client, userCtxMap, cancelled>>
      BY <1>2 DEF Disconnect, sessionVars, registryVars
    <2>5. l \in {"walk", "pops"}
      OBVIOUS
    <2> HIDE DEF K, R, l
    <2> QED BY <2>1, <2>2, <2>3, <2>4, <2>5, <1>1
  <1>3. ASSUME NEW k \in Kickers, DelThenWalk(k)
        PROVE  KickInv'
    <2> DEFINE u == named[k]
    <2>1. u \in Users /\ todo[k] = {} /\ kpc[k] = "del"
      BY <1>3 DEF DelThenWalk, KickInv, KickShape
    <2>2. UserKeys(u) \in SUBSET Keys /\ MatchingKeys(u) \in SUBSET Keys
      BY <2>1, KeysOfUser
    <2>3. \A key \in MatchingKeys(u) \cup {} : u \in {key[1], FirstField[key[1]]}
      BY DEF MatchingKeys
    <2>4. ColonFree(u) => UserKeys(u) \subseteq MatchingKeys(u) \cup {}
      BY <2>1 DEF MatchingKeys, UserKeys, ColonFree, Keys
    <2>5. /\ kpc' = [kpc EXCEPT ![k] = "walk"] /\ named' = [named EXCEPT ![k] = u]
          /\ scan' = [scan EXCEPT ![k] = MatchingKeys(u)]
          /\ todo' = [todo EXCEPT ![k] = {}]
          /\ victims' = [victims EXCEPT ![k] = Contexts(UserKeys(u))]
          /\ UNCHANGED <<client, userCtxMap, cancelled>>
      BY <1>3, <2>1 DEF DelThenWalk, sessionVars, registryVars, TypeOK
    <2> HIDE DEF u
    <2> QED BY <2>1, <2>2, <2>3, <2>4, <2>5, <1>1
  \* Nothing is left of a kick that returns, nothing is ahead of one that waits.
  <1>4. ASSUME NEW k \in Kickers,
               \/ \E u \in Users : k = "DeleteUserData" /\ DeleteUserData(u)
               \/ DelError(k) \/ KickReturn(k) \/ ConsumerExit(k)
        PROVE  KickInv'
    <2>1. /\ scan[k] = {} /\ todo[k] = {}
          /\ victims'[k] = {} /\ UNCHANGED <<client, userCtxMap, cancelled, scan, todo>>
          /\ kpc'[k] \in {"idle", "exit"} \/ (kpc'[k] = "del" /\ named'[k] \in Users)
          /\ \A q \in Kickers \ {k} : kpc'[q] = kpc[q] /\ named'[q] = named[q]
                                     /\ victims'[q] = victims[q]
      BY <1>4 DEF DeleteUserData, DelError, KickReturn, KickEnds, ConsumerExit, TypeOK,
                  KickInv, KickShape, sessionVars, registryVars
    <2>2. KickShape'
      BY <2>1 DEF KickInv, KickShape
    <2>3. VictimsAhead'
      BY <2>1 DEF KickInv, VictimsAhead, Finds, keyOf
    <2> QED BY <2>2, <2>3 DEF KickInv
  <1>5. ASSUME NEW k \in Kickers, NEW key \in Keys, IterRead(k, key)
        PROVE  KickInv'
    <2>1. /\ key \in scan[k]
          /\ scan' = [scan EXCEPT ![k] = scan[k] \ {key}]
          /\ todo' = [todo EXCEPT ![k] = IF userCtxMap[key] # NoCtx THEN todo[k] \cup {key} ELSE todo[k]]
          /\ UNCHANGED <<client, userCtxMap, cancelled, kpc, named, victims>>
      BY <1>5 DEF IterRead, sessionVars, registryVars
    <2>2. ASSUME NEW q \in Kickers, Finds(q), NEW c \in victims[q]
          PROVE  \/ c \in cancelled
                 \/ userCtxMap[keyOf(c)] = c /\ keyOf(c) \in scan'[q] \cup todo'[q]
      BY <2>1, <2>2, NoCtxFresh DEF TypeOK, KickInv, VictimsAhead
    <2>3. \A q \in Kickers : scan'[q] \cup todo'[q] \subseteq scan[q] \cup todo[q]
      BY <2>1 DEF TypeOK
    <2>4. KickShape'
      BY <2>1, <2>3 DEF KickInv, KickShape
    <2> QED BY <2>1, <2>2, <2>4 DEF KickInv, VictimsAhead, Finds, keyOf
  <1> QED BY <1>2, <1>3, <1>4, <1>5 DEF KickStep, DeleteUserData

-----------------------------------------------------------------------------
(* The shutdown                                                            *)

\* Whatever a handler does, its loop has not returned, so Stop is still
\* waiting and the send queues are open.
LEMMA SessionStop ==
    ASSUME TypeOK, StopInv, NEW s \in Sessions, Session(s)
    PROVE  StopInv'
  <1>1. /\ pc[s] \notin Ended
        /\ UNCHANGED <<owner, apc, stop, queueOpen>>
        /\ \A t \in Sessions \ {s} : pc'[t] = pc[t]
        /\ UNCHANGED lost \/ Push("black", s) \/ Push("access", s)
    <2> USE DEF TypeOK, Goto, stopVars, Ended
    <2>1. CASE Plain(s)
      <3>1. CASE CloseOnStop(s) BY <3>1 DEF CloseOnStop
      <3>2. CASE HandlerReturn(s) BY <3>2 DEF HandlerReturn
      <3>3. CASE Valid(s) BY <3>3 DEF Valid
      <3>4. CASE ReadError(s) BY <3>4 DEF ReadError
      <3>5. CASE CheckTarget(s) BY <3>5 DEF CheckTarget
      <3>6. CASE DialError(s) BY <3>6 DEF DialError
      <3>7. CASE Sniff(s) BY <3>7 DEF Sniff, Registered
      <3>8. CASE CopyEnd(s) BY <3>8 DEF CopyEnd
      <3>9. CASE CtxExit(s) BY <3>9 DEF CtxExit
      <3>10. CASE Tick(s) BY <3>10 DEF Tick
      <3>11. CASE ReportAccessLog(s) BY <3>11 DEF ReportAccessLog
      <3> QED BY <2>1, <3>1, <3>2, <3>3, <3>4, <3>5, <3>6, <3>7, <3>8, <3>9, <3>10, <3>11 DEF Plain
    <2>2. CASE AddIpConnCount(s) BY <2>2 DEF AddIpConnCount
    <2>3. CASE addUserConnection(s) BY <2>3 DEF addUserConnection
    <2>4. CASE deleteUserConnection(s) BY <2>4 DEF deleteUserConnection
    <2>5. CASE ReduceIpConnCount(s) BY <2>5 DEF ReduceIpConnCount
    <2> QED BY <2>1, <2>2, <2>3, <2>4, <2>5 DEF Session, Plain
  <1>2. apc[owner[s]] # "done" /\ owner[s] \in Acceptors
    BY <1>1 DEF StopInv, TypeOK
  <1>3. stop # "stopped" /\ queueOpen
    BY <1>2 DEF StopInv
  <1>4. lost' = {}
    BY <1>1, <1>3 DEF Push, StopInv
  <1>5. \A t \in Sessions : apc'[owner'[t]] = "done" => pc'[t] \in Ended
    BY <1>1, <1>2 DEF StopInv
  <1> QED BY <1>1, <1>3, <1>4, <1>5 DEF StopInv

LEMMA OuterStop ==
    ASSUME TypeOK, StopInv,
           (\E a \in Acceptors : Acceptor(a)) \/ Kick \/ Configure \/ Stop \/ UNCHANGED vars
    PROVE  StopInv'
  <1>1. ASSUME NEW a \in Acceptors, NEW s \in Sessions, Accept(a, s)
        PROVE  StopInv'
    <2>1. /\ apc[a] = "accept" /\ owner[s] = a /\ UNCHANGED <<owner, stop, queueOpen, lost>>
          /\ pc' = [pc EXCEPT ![s] = "read"]
          /\ apc' = [apc EXCEPT ![a] = LoopHead]
      BY <1>1 DEF Accept, Goto
    <2>2. apc'[a] # "done" /\ stop # "stopped" /\ \A b \in Acceptors : b # a => apc'[b] = apc[b]
      BY <2>1 DEF LoopHead, StopInv, TypeOK
    <2>3. \A t \in Sessions : apc'[owner'[t]] = "done" => pc'[t] \in Ended
      BY <2>1, <2>2 DEF StopInv, TypeOK
    <2> QED BY <2>1, <2>2, <2>3 DEF StopInv
  <1>2. ASSUME NEW a \in Acceptors, AcceptError(a) \/ AcceptorReturn(a) \/ Relaunch(a)
        PROVE  StopInv'
    <2>2. CASE AcceptorReturn(a)
      BY <2>2 DEF AcceptorReturn, StopInv, TypeOK, sessionVars
    <2>3. CASE AcceptError(a) \/ Relaunch(a)
      <3>1. UNCHANGED <<pc, owner, stop, queueOpen, lost>> /\ apc' = [apc EXCEPT ![a] = LoopHead]
        BY <2>3 DEF AcceptError, Relaunch, sessionVars
      <3>2. stop # "stopped"
        BY <2>3 DEF AcceptError, Relaunch, StopInv, tcmDone
      <3>3. \A b \in Acceptors : apc'[b] = "done" => apc[b] = "done"
        BY <3>1 DEF LoopHead, TypeOK
      <3> QED BY <3>1, <3>2, <3>3 DEF StopInv, TypeOK
    <2> QED BY <1>2, <2>2, <2>3
  <1>3. CASE Kick \/ Configure \/ UNCHANGED vars
    <2>1. UNCHANGED <<pc, owner, apc, stop, queueOpen, lost>>
      BY <1>3 DEF Kick, Configure, Disconnect, DeleteUserData, DelThenWalk, DelError,
                  KickReturn, ConsumerExit, IterRead, CloseUserConnections, SetUserData, SetBlackMap, setNacosConf,
                  sessionVars, stopVars, vars
    <2> QED BY <2>1 DEF StopInv
  <1>4. CASE Stop
    <2>1. UNCHANGED <<pc, owner, apc, lost>>
      BY <1>4 DEF Stop, StopFlag, CloseListeners, CancelTasks, closeRabbitmqSendQueueSlices,
                  sessionVars
    <2>2. CASE closeRabbitmqSendQueueSlices
      BY <2>1, <2>2 DEF closeRabbitmqSendQueueSlices, TasksDone, StopInv
    <2>3. CASE StopFlag \/ CloseListeners \/ CancelTasks
      BY <2>1, <2>3 DEF StopFlag, CloseListeners, CancelTasks, StopInv
    <2> QED BY <1>4, <2>2, <2>3 DEF Stop
  <1> QED BY <1>1, <1>2, <1>3, <1>4 DEF Acceptor

-----------------------------------------------------------------------------
(* The invariant holds in every reachable state                            *)

LEMMA InitInv == ASSUME Init PROVE IInv
  <1> USE DEF Init
  <1>1. TypeOK
    BY DEF TypeOK, SessionPc
  <1>2. IpInv
    <2>1. \A i \in Ips : Holders(i) = {}
      BY DEF Holders, Slotted, Registered
    <2> QED BY <2>1 DEF IpInv, IpCountExact, IpLimit
  <1>3. RegInv
    BY NoCtxFresh DEF RegInv, CtxShape, RefCountExact, Reachable, Registered
  <1>4. KickInv
    BY DEF KickInv, KickShape, VictimsAhead
  <1>5. StopInv
    BY DEF StopInv, Ended
  <1> QED BY <1>1, <1>2, <1>3, <1>4, <1>5 DEF IInv

LEMMA NextInv == ASSUME IInv, [Next]_vars PROVE IInv'
  <1> USE DEF IInv
  <1>1. ASSUME NEW s \in Sessions, Session(s) PROVE IInv'
    <2>1. StopInv'
      BY <1>1, SessionStop
    <2>2. CASE Plain(s)
      BY <2>1, <2>2, PlainType, PlainFrame, IpFrame, RegFrame, KickFrame
    <2>3. CASE AddIpConnCount(s)
      BY <2>1, <2>3, AddIpStep, RegFrame, KickFrame
    <2>4. CASE ReduceIpConnCount(s)
      BY <2>1, <2>4, ReduceIpStep, RegFrame, KickFrame
    <2>5. CASE addUserConnection(s)
      BY <2>1, <2>5, RegisterStep, IpFrame
    <2>6. CASE deleteUserConnection(s)
      BY <2>1, <2>6, UnregisterStep, IpFrame
    <2> QED BY <1>1, <2>2, <2>3, <2>4, <2>5, <2>6 DEF Session, Plain
  <1>2. CASE (\E a \in Acceptors : Acceptor(a)) \/ Configure \/ Stop \/ UNCHANGED vars
    BY <1>2, OuterStep, OuterStop, IpFrame, RegFrame, KickFrame
  <1>3. ASSUME NEW q \in Kickers, NEW key \in Keys, CloseUserConnections(q, key)
        PROVE  IInv'
    <2>1. StopInv'
      BY <1>3, OuterStop DEF Kick
    <2> QED BY <1>3, <2>1, PopStep, PopRegStep, IpFrame
  <1>4. CASE Kick
    <2>1. StopInv'
      BY <1>4, OuterStop
    <2>2. CASE KickStep
      BY <2>1, <2>2, WalkStep, WalkKickStep, IpFrame, RegFrame
    <2> QED BY <1>4, <1>3, <2>2 DEF Kick, KickStep
  <1> QED BY <1>1, <1>2, <1>4 DEF Next, Terminated

THEOREM Inductive == Spec => []IInv
  BY InitInv, NextInv, PTL DEF Spec

-----------------------------------------------------------------------------
(* Theorems                                                                *)

\* The manager's state is well typed; in particular no connContext count is
\* decremented below zero (a uint64 in the code).
THEOREM ManagerTyped == Spec => []TypeOK
  <1>1. IInv => TypeOK
    BY DEF IInv
  <1> QED BY <1>1, Inductive, PTL

\* However handlers interleave and wherever they return, ipConnCountMap counts
\* exactly the admitted handlers of each address.
THEOREM AddressCount == Spec => []IpCountExact
  <1>1. IInv => IpCountExact
    BY DEF IInv, IpInv
  <1> QED BY <1>1, Inductive, PTL

\* AddIpConnCount never admits more connections of an address than the largest
\* OneIpMaxConn there has been.
THEOREM AddressLimit == Spec => []IpLimit
  <1>1. IInv => IpLimit
    BY DEF IInv, IpInv
  <1> QED BY <1>1, Inductive, PTL

\* addUserConnection, deleteUserConnection and the pops keep every registered
\* context live with an exact count.
THEOREM RegistryExact == Spec => []RefCountExact
  <1>1. IInv => RefCountExact
    BY DEF IInv, RegInv
  <1> QED BY <1>1, Inductive, PTL

\* A session that addUserConnection has registered can be found by a kick, or
\* one has found it already.
THEOREM SessionsReachable == Spec => []Reachable
  <1>1. IInv => Reachable
    BY DEF IInv, RegInv
  <1> QED BY <1>1, Inductive, PTL

\* A Disconnect handler that returns, and a DeleteUserData handler that returns
\* after its walk, has cancelled every context registered for its user when the
\* kick began, unless it walks for a name with a ':'.
THEOREM KickCancelsAll == Spec => []KickComplete
  <1>1. IInv => KickComplete
    BY DEF IInv, KickInv, VictimsAhead, Finds, KickComplete, KickEnds
  <1> QED BY <1>1, Inductive, PTL

\* No record of a handler is refused by a closed queue: pushRabbitmqSendQueue is
\* not called after closeRabbitmqSendQueueSlices.
THEOREM RecordsKept == Spec => []NoRecordLost
  <1>1. IInv => NoRecordLost
    BY DEF IInv, StopInv, NoRecordLost
  <1> QED BY <1>1, Inductive, PTL

\* When Stop returns it leaves no handler and no registry entry behind.
THEOREM StopIsClean == Spec => []CleanStop
  <1>1. IInv => CleanStop
    <2> SUFFICES ASSUME IInv, stop = "stopped"
                 PROVE  /\ \A s \in Sessions : pc[s] \in Ended
                        /\ \A i \in Ips : ipConnCountMap[i] = NoEntry
                        /\ \A k \in Keys : userCtxMap[k] = NoCtx
      BY DEF CleanStop
    <2>1. \A s \in Sessions : pc[s] \in Ended
      BY DEF IInv, StopInv, TypeOK
    <2>2. \A i \in Ips : Holders(i) = {}
      BY <2>1 DEF Holders, Ended, Slotted, Registered
    <2>3. \A c : Members(c) = {}
      BY <2>1 DEF Members, Ended, Registered
    <2> QED BY <2>1, <2>2, <2>3 DEF IInv, IpInv, IpCountExact, RegInv, RefCountExact
  <1> QED BY <1>1, Inductive, PTL

\* What OnlyKicksInterrupt says of one step.
Justified ==
    \A c \in cancelled' \ cancelled : \A s \in Sessions :
       (pc'[s] \in Registered /\ connCtx'[s] = c) =>
           \E k \in Kickers :
               /\ keyOf(s) \in todo[k]
               /\ named[k] \in {client[s].user, FirstField[client[s].user]}

LEMMA CancelJustified == ASSUME IInv, [Next]_vars PROVE Justified
  <1> USE DEF IInv, Justified
  <1>1. CASE UNCHANGED cancelled
    BY <1>1
  <1>2. ASSUME NEW s \in Sessions, deleteUserConnection(s) PROVE Justified
    BY <1>2, UnregisterStep DEF Members
  <1>3. ASSUME NEW q \in Kickers, NEW key \in Keys, CloseUserConnections(q, key)
        PROVE  Justified
    <2>1. key \in todo[q] /\ UNCHANGED <<client, pc, connCtx>>
      BY <1>3 DEF CloseUserConnections, sessionVars
    <2>2. ASSUME NEW c \in cancelled' \ cancelled, NEW s \in Sessions,
                 pc'[s] \in Registered, connCtx'[s] = c
          PROVE  keyOf(s) = key
      BY <2>1, <2>2, <1>3, PopRegStep DEF RegInv, CtxShape
    <2>3. \A s \in Sessions : keyOf(s) = key =>
              named[q] \in {client[s].user, FirstField[client[s].user]}
      BY <2>1 DEF KickInv, KickShape, keyOf
    <2> QED BY <2>1, <2>2, <2>3
  <1>4. ASSUME NEW s \in Sessions, Session(s), ~deleteUserConnection(s)
        PROVE  UNCHANGED cancelled
    <2>1. CASE Plain(s)
      BY <2>1, PlainFrame DEF RegQuiet
    <2> QED BY <1>4, <2>1 DEF Session, Plain, AddIpConnCount, addUserConnection,
                              ReduceIpConnCount
  <1>5. CASE (\E a \in Acceptors : Acceptor(a)) \/ Configure \/ Stop \/ UNCHANGED vars
    BY <1>5, OuterStep DEF RegQuiet
  <1>6. CASE Kick
    <2>1. CASE KickStep
      BY <2>1, WalkStep DEF RegQuiet
    <2> QED BY <1>6, <1>1, <1>3, <2>1 DEF Kick, KickStep
  <1> QED BY <1>1, <1>2, <1>4, <1>5, <1>6 DEF Next, Terminated

\* Only a kick naming the session's key cancels a context in use.
THEOREM OnlyKicks == Spec => OnlyKicksInterrupt
  <1>1. Spec => [][Justified]_vars
    BY Inductive, CancelJustified, PTL DEF Spec
  <1> QED BY <1>1 DEF OnlyKicksInterrupt, Justified
=============================================================================
