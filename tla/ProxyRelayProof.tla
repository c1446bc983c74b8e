--------------------------- MODULE ProxyRelayProof ---------------------------
(***************************************************************************)
(* Proofs about ProxyRelay for any domains and uploads: what a handler     *)
(* leaves behind, that with all its goroutines it is the session that      *)
(* ProxyManager composes with its registries, and what the sniffer is given*)
(* of the upload.                                                          *)
(***************************************************************************)
EXTENDS ProxyRelay, SequenceTheorems, TLAPS

DialPcs == {"forward", "drain", "drainErr", "start"}
ReportPcs == {"done", "buf", "conn", "target"}
Pcs == DialPcs \cup {"select"} \cup ReportPcs \cup {"wait", "release", "end"}

TypeInv ==
    /\ kind \in {"plain", "named", "bare"} /\ name \in Domains
    /\ pc \in Pcs
    /\ fwd \in {"off", "wait", "ended"}
    /\ up \in {"off", "read", "append", "write", "ended"}
    /\ down \in {"off", "read", "write", "notice", "take", "ended"}
    /\ sniffer \in {"off", "wait", "parse", "ended"}
    /\ dom \in Domains \cup {NoDomain}
    /\ closed \subseteq Peers

\* The goroutines start when the handler is past its dial, and are awaited
\* before it releases anything.
Lifetimes ==
    /\ pc \in DialPcs => up = "off" /\ down = "off" /\ sniffer = "off"
    /\ pc \in {"release", "end"} => ~Busy
    /\ chansClosed => pc \in {"release", "end"}
    /\ fwd = "wait" => pc \in {"forward", "drain", "drainErr"}
    /\ pc = "end" => closed = Peers

\* Only a tunnel to a bare address has a sniffer, which finds its domain unknown.
DomainOpen ==
    /\ kind = "bare" /\ pc \in DialPcs => dom = NoDomain
    /\ sniffer \in {"wait", "parse"} => dom = NoDomain

IInv == TypeInv /\ Lifetimes /\ DomainOpen

LEMMA BusyIff ==
    ASSUME TypeInv
    PROVE  Busy <=> \/ up \in {"read", "append", "write"}
                    \/ down \in {"read", "write", "notice", "take"}
                    \/ sniffer \in {"wait", "parse"}
  BY DEF TypeInv, Busy

LEMMA InitInv == Init => IInv
  <1> SUFFICES ASSUME Init PROVE IInv
    OBVIOUS
  <1>1. TypeInv
    BY KindsKnown DEF Init, TypeInv, Pcs, DialPcs, Peers
  <1>2. Lifetimes /\ DomainOpen
    BY DEF Init, Lifetimes, DomainOpen, DialPcs, Busy
  <1> QED BY <1>1, <1>2 DEF IInv

-----------------------------------------------------------------------------
(* The session of a state                                                  *)

\* A step of RelaySession, or none.
SessionStep == [Session!Next]_(Session!vars)

\* The positions of the handler and of its goroutines are all a session's phase
\* and busy depend on.
LEMMA PhaseOf ==
    /\ pc \in DialPcs => Phase = "dial"
    /\ pc = "select" => Phase = "relay"
    /\ pc \in ReportPcs => Phase = "report"
    /\ pc = "wait" => Phase = "join"
    /\ pc \in {"release", "end"} => Phase = "release"
  BY DEF Phase, DialPcs, ReportPcs

LEMMA PhaseNext ==
    /\ pc' \in DialPcs => Phase' = "dial"
    /\ pc' = "select" => Phase' = "relay"
    /\ pc' \in ReportPcs => Phase' = "report"
    /\ pc' = "wait" => Phase' = "join"
    /\ pc' \in {"release", "end"} => Phase' = "release"
  BY DEF Phase, DialPcs, ReportPcs

LEMMA SessionIdle ==
    ASSUME UNCHANGED <<dom, up, down, sniffer>>, UNCHANGED Phase PROVE SessionStep
  BY DEF SessionStep, Session!vars, Busy

LEMMA SamePc == ASSUME UNCHANGED pc PROVE UNCHANGED Phase
  BY DEF Phase

-----------------------------------------------------------------------------
(* The surroundings and the handler                                        *)

LEMMA OutsideInv ==
    ASSUME IInv,
           Surroundings \/ OuterClose \/ ForwardGuard \/ UNCHANGED vars
    PROVE  IInv' /\ SessionStep
  <1>1. UNCHANGED <<inputs, pc, goroutines, dom, chansClosed>>
    BY DEF Surroundings, OuterClose, ForwardGuard, vars, goroutines, learnVars, deferVars
  <1>2. closed \subseteq closed' /\ closed' \subseteq Peers
    BY DEF IInv, TypeInv, Surroundings, OuterClose, ForwardGuard, GuardCloses, vars,
           deferVars, Peers
  <1>3. fwd' = fwd \/ fwd' = "ended"
    BY DEF Surroundings, OuterClose, ForwardGuard, vars
  <1>4. IInv'
    BY <1>1, <1>2, <1>3 DEF IInv, TypeInv, Lifetimes, DomainOpen, inputs, goroutines, Busy
  <1> QED BY <1>1, <1>4, SamePc, SessionIdle DEF goroutines

\* Steps of the handler that start no goroutine and release nothing.
LEMMA HandlerKeeps ==
    ASSUME IInv, UNCHANGED <<inputs, fwd, goroutines, dom, chansClosed>>,
           pc' \in Pcs, closed' \subseteq Peers,
           pc' \in DialPcs => pc \in DialPcs,
           pc' \in {"release", "end"} => pc \in {"release", "end"} \/ ~Busy,
           pc \in {"release", "end"} => pc' \in {"release", "end"},
           fwd = "wait" => pc' \in {"forward", "drain", "drainErr"},
           pc' = "end" => closed' = Peers
    PROVE  IInv'
  BY DEF IInv, TypeInv, Lifetimes, DomainOpen, inputs, goroutines, Busy

LEMMA ForwardInv ==
    ASSUME IInv, ForwardOk \/ ForwardError \/ Drained PROVE IInv' /\ SessionStep
  <1> USE DEF Handler, ForwardOk, ForwardError, Drained, DialPcs, Pcs
  <1>1. /\ UNCHANGED <<inputs, fwd, goroutines, dom, chansClosed, closed>>
        /\ pc \in DialPcs /\ pc' \in DialPcs \cup {"release"}
    BY DEF learnVars, deferVars
  <1>2. ~Busy
    BY <1>1 DEF IInv, Lifetimes, Busy
  <1>3. fwd = "wait" => pc' \in {"forward", "drain", "drainErr"}
    OBVIOUS
  <1>4. IInv'
    BY <1>1, <1>2, <1>3, HandlerKeeps DEF IInv, TypeInv
  <1>5. SessionStep
    <2>1. CASE pc' \in DialPcs
      BY <1>1, <2>1, PhaseOf, PhaseNext, SessionIdle DEF goroutines
    <2>2. CASE pc' = "release"
      BY <1>1, <2>2, PhaseOf, PhaseNext
         DEF SessionStep, Session!Next, Session!GiveUp, goroutines, Busy
    <2> QED BY <1>1, <2>1, <2>2
  <1> QED BY <1>4, <1>5

LEMMA StartInv == ASSUME IInv, Start PROVE IInv' /\ SessionStep
  <1> USE DEF Handler, Start
  <1>1. /\ UNCHANGED <<inputs, fwd, dom, chansClosed, closed>>
        /\ pc = "start" /\ pc' = "select"
        /\ up' = "read" /\ down' = "read" /\ sniffer' \in {"off", "wait"}
        /\ sniffer' = "wait" => kind = "bare"
    BY DEF learnVars, deferVars
  <1>2. IInv'
    BY <1>1 DEF IInv, TypeInv, Lifetimes, DomainOpen, inputs, DialPcs, Pcs
  <1>3. SessionStep
    BY <1>1, PhaseOf, PhaseNext
       DEF SessionStep, Session!Next, Session!Begin, Busy, DialPcs
  <1> QED BY <1>2, <1>3

LEMMA LeaveInv == ASSUME IInv, CopyEnd \/ CtxExit \/ Tick PROVE IInv' /\ SessionStep
  <1> USE DEF Handler, Leave, CopyEnd, CtxExit, Tick
  <1>1. /\ UNCHANGED <<inputs, fwd, goroutines, dom, chansClosed, closed>>
        /\ pc = "select" /\ pc' = "done"
    BY DEF learnVars, deferVars
  <1>2. IInv'
    BY <1>1, HandlerKeeps DEF IInv, TypeInv, Lifetimes, DialPcs, ReportPcs, Pcs
  <1>3. SessionStep
    BY <1>1, PhaseOf, PhaseNext
       DEF SessionStep, Session!Next, Session!Leave, goroutines, Busy, ReportPcs
  <1> QED BY <1>2, <1>3

LEMMA CloseInv ==
    ASSUME IInv, CloseDone \/ NoticeForget \/ CloseConn \/ ReportAccessLog
    PROVE  IInv' /\ SessionStep
  <1> USE DEF Handler, CloseDone, NoticeForget, CloseConn, ReportAccessLog
  <1>1. /\ UNCHANGED <<inputs, fwd, goroutines, dom, chansClosed>>
        /\ pc \in ReportPcs /\ closed' \subseteq closed \cup Peers
        /\ pc' \in ReportPcs \/ pc' = "wait"
    BY DEF learnVars, deferVars, ReportPcs, Peers
  <1>2. IInv'
    BY <1>1, HandlerKeeps DEF IInv, TypeInv, Lifetimes, DialPcs, ReportPcs, Pcs
  <1>3. SessionStep
    <2>1. CASE pc' \in ReportPcs
      BY <1>1, <2>1, PhaseOf, PhaseNext, SessionIdle DEF goroutines
    <2>2. CASE pc' = "wait"
      BY <1>1, <2>2, PhaseOf, PhaseNext
         DEF SessionStep, Session!Next, Session!ReportAccessLog, goroutines, Busy
    <2> QED BY <1>1, <2>1, <2>2
  <1> QED BY <1>2, <1>3

\* wg.Wait lets the handler pass when no goroutine is left.
LEMMA JoinInv == ASSUME IInv, Join \/ Release PROVE IInv' /\ SessionStep
  <1> USE DEF Handler, Join, Release
  <1>1. CASE Join
    <2>1. /\ UNCHANGED <<inputs, fwd, goroutines, dom, closed>>
          /\ pc = "wait" /\ pc' = "release" /\ ~Busy
      BY <1>1 DEF learnVars, deferVars, MayJoin
    <2>2. IInv'
      BY <2>1 DEF IInv, TypeInv, Lifetimes, DomainOpen, inputs, goroutines, Busy, DialPcs, Pcs
    <2>3. SessionStep
      BY <2>1, PhaseOf, PhaseNext
         DEF SessionStep, Session!Next, Session!deleteUserConnection, goroutines, Busy
    <2> QED BY <2>2, <2>3
  <1>2. CASE Release
    <2>1. /\ UNCHANGED <<inputs, fwd, goroutines, dom, chansClosed>>
          /\ pc = "release" /\ pc' = "end" /\ closed' = Peers
      BY <1>2 DEF learnVars, deferVars
    <2>2. IInv'
      BY <2>1, HandlerKeeps DEF IInv, TypeInv, Lifetimes, DialPcs, ReportPcs, Pcs
    <2> QED BY <2>1, <2>2, PhaseOf, PhaseNext, SessionIdle DEF goroutines
  <1> QED BY <1>1, <1>2

-----------------------------------------------------------------------------
(* The goroutines                                                          *)

\* A step of a goroutine: the session goes on, or its last goroutine ends.
LEMMA GoroutineStep ==
    ASSUME IInv, UNCHANGED <<inputs, pc, fwd, dom, deferVars>>, Busy,
           up' \in {"off", "read", "append", "write", "ended"},
           down' \in {"off", "read", "write", "notice", "take", "ended"},
           sniffer' = sniffer \/ sniffer' \in {"off", "ended"} \/ (sniffer = "wait" /\ sniffer' = "parse")
    PROVE  IInv' /\ SessionStep
  <1>1. pc \notin DialPcs \cup {"release", "end"} /\ ~chansClosed
    BY DEF IInv, Lifetimes, Busy
  <1>2. IInv'
    BY <1>1 DEF IInv, TypeInv, Lifetimes, DomainOpen, inputs, deferVars
  <1>3. CASE Busy'
    BY <1>2, <1>3, SamePc DEF SessionStep, Session!vars
  <1>4. CASE ~Busy'
    BY <1>1, <1>2, <1>4, PhaseOf, SamePc DEF SessionStep, Session!Next, Session!Quiet
  <1> QED BY <1>2, <1>3, <1>4

LEMMA UploadInv == ASSUME IInv, Upload PROVE IInv' /\ SessionStep
  <1>1. /\ UNCHANGED <<inputs, pc, fwd, dom, deferVars, down, sniffer>>
        /\ up \in {"read", "append", "write"}
        /\ up' \in {"off", "read", "append", "write", "ended"}
    BY DEF Upload, UpRead, UpReadError, UpAppend, UpWrite, UpWriteError, UpEnds, Up, learnVars
  <1>2. Busy
    BY <1>1, BusyIff DEF IInv
  <1> QED BY <1>1, <1>2, GoroutineStep DEF IInv, TypeInv

LEMMA DownloadInv == ASSUME IInv, Download PROVE IInv' /\ SessionStep
  <1>1. /\ UNCHANGED <<inputs, pc, fwd, dom, deferVars, up, sniffer>>
        /\ down \in {"read", "write", "notice", "take"}
        /\ down' \in {"off", "read", "write", "notice", "take", "ended"}
    BY DEF Download, DownRead, DownReadError, DownWrite, DownWriteStopped, DownNotice,
           DownTake, AfterWrite, DownEnds, Down
  <1>2. Busy
    BY <1>1, BusyIff DEF IInv
  <1> QED BY <1>1, <1>2, GoroutineStep DEF IInv, TypeInv

LEMMA SniffInv == ASSUME IInv, Sniff PROVE IInv' /\ SessionStep
  <1>1. /\ UNCHANGED <<inputs, pc, fwd, deferVars, up, down>>
        /\ sniffer \in {"wait", "parse"}
        /\ sniffer' = "ended" \/ (sniffer = "wait" /\ sniffer' = "parse")
    BY DEF Sniff, SniffDone, SniffTake, SniffParse, Sniffer
  <1>2. Busy
    BY <1>1, BusyIff DEF IInv
  <1>3. CASE UNCHANGED dom
    BY <1>1, <1>2, <1>3, GoroutineStep DEF IInv, TypeInv
  <1>4. CASE ~UNCHANGED dom
    <2>1. sniffer' = "ended" /\ dom' = name /\ dom = NoDomain /\ name \in Domains
      BY <1>1, <1>4 DEF Sniff, SniffDone, SniffTake, SniffParse, Parsed, learnVars,
                        IInv, TypeInv, DomainOpen
    <2>2. pc \notin DialPcs \cup {"release", "end"} /\ ~chansClosed
      BY <1>2 DEF IInv, Lifetimes, Busy
    <2>3. IInv'
      BY <1>1, <2>1, <2>2 DEF IInv, TypeInv, Lifetimes, DomainOpen, inputs, deferVars
    <2>4. SessionStep
      BY <1>1, <1>2, <2>1, SamePc DEF SessionStep, Session!Next, Session!Sniff
    <2> QED BY <2>3, <2>4
  <1> QED BY <1>3, <1>4

-----------------------------------------------------------------------------
LEMMA NextInv == ASSUME IInv, [Next]_vars PROVE IInv' /\ SessionStep
  BY OutsideInv, ForwardInv, StartInv, LeaveInv, CloseInv, JoinInv, UploadInv,
     DownloadInv, SniffInv
     DEF Next, HandlerSteps, Terminated

LEMMA InitSession == Init => Session!Init
  <1> SUFFICES ASSUME Init PROVE Session!Init
    OBVIOUS
  <1>1. pc \in DialPcs /\ ~Busy
    BY DEF Init, DialPcs, Busy
  <1>2. dom \in Domains \cup {NoDomain}
    BY InitInv DEF IInv, TypeInv
  <1> QED BY <1>1, <1>2, PhaseOf DEF Session!Init

\* When a handler is over its goroutines have ended and both connections are
\* closed; nobody sends on the channels once they are closed.
THEOREM NothingStays == Spec => []NothingLeft
  <1>1. IInv /\ [Next]_vars => IInv'
    BY NextInv
  <1>2. IInv => NothingLeft
    BY DEF IInv, Lifetimes, NothingLeft
  <1> QED BY InitInv, <1>1, <1>2, PTL DEF Spec

\* A session with all its goroutines goes through the phases ProxyManager gives
\* it, in their order, and learns its domain at most once.
THEOREM IsASession == Spec => ImplementsSession
  <1>1. IInv /\ [Next]_vars => IInv' /\ [Session!Next]_(Session!vars)
    BY NextInv DEF SessionStep
  <1> QED BY InitInv, InitSession, <1>1, PTL DEF Spec, ImplementsSession, Session!Spec
-----------------------------------------------------------------------------
(* What the sniffer sees                                                   *)

\* The first n chunks of the upload, in their order.
Prefix(n) == [i \in 1..n |-> i]

\* The chunks the upload's goroutine has appended, or would have, had the buffer
\* not been taken.
Appended == IF up = "append" THEN sent - 1 ELSE sent

Counted == sent \in Nat /\ Appended \in Nat /\ delivered \in 0..Appended /\ heard \in 0..delivered

\* The buffer has every chunk up to the one in the goroutine's hands, so every
\* one the target was sent; it leaves the goroutine only after the answer that
\* heard is about.
BufferWhole == buf # NoBuf => buf = Prefix(Appended)
TakenWhole ==
    \A b \in {byteChan, parsing} \ {NoBuf} :
        isNotice /\ \E n \in Nat : b = Prefix(n) /\ heard <= n

\* The flag is set before the buffer is taken.
FlagFirst == down = "take" => isNotice

KeepInv == Counted /\ BufferWhole /\ TakenWhole /\ FlagFirst

LEMMA PrefixGrows ==
    ASSUME NEW n \in Nat PROVE Append(Prefix(n), n + 1) = Prefix(n + 1)
  <1>1. Prefix(n) \in Seq(Nat) /\ Len(Prefix(n)) = n /\ Prefix(n + 1) \in Seq(Nat)
        /\ Len(Prefix(n + 1)) = n + 1
    BY DEF Prefix
  <1>2. /\ Append(Prefix(n), n + 1) \in Seq(Nat)
        /\ Len(Append(Prefix(n), n + 1)) = n + 1
        /\ \A i \in 1..n : Append(Prefix(n), n + 1)[i] = Prefix(n)[i]
        /\ Append(Prefix(n), n + 1)[n + 1] = n + 1
    BY <1>1, AppendProperties
  <1>3. \A i \in 1 .. n + 1 : Append(Prefix(n), n + 1)[i] = Prefix(n + 1)[i]
    BY <1>2 DEF Prefix
  <1> QED BY <1>1, <1>2, <1>3, SeqEqual

LEMMA InitKeep == Init => KeepInv
  <1> SUFFICES ASSUME Init PROVE KeepInv
    OBVIOUS
  <1>1. buf = Prefix(0) /\ Appended = 0 /\ sent = 0 /\ delivered = 0 /\ heard = 0
    BY DEF Init, Prefix, Appended
  <1>2. {byteChan, parsing} \ {NoBuf} = {}
    BY DEF Init
  <1>3. FlagFirst
    BY DEF Init, FlagFirst
  <1> QED BY <1>1, <1>2, <1>3 DEF KeepInv, Counted, BufferWhole, TakenWhole

\* Whoever leaves the stream and what was learned alone.
LEMMA StreamQuiet ==
    ASSUME KeepInv, UNCHANGED <<streamVars, learnVars, isNotice>>, buf' \in {buf, NoBuf},
           up' = "append" <=> up = "append", down' = "take" => down = "take"
    PROVE  KeepInv'
  <1>1. UNCHANGED <<Appended, sent, delivered, heard, byteChan, parsing, isNotice>>
    BY DEF Appended, streamVars, learnVars
  <1> QED BY <1>1 DEF KeepInv, Counted, BufferWhole, TakenWhole, FlagFirst

LEMMA HandlerKeep ==
    ASSUME IInv, KeepInv,
           \/ Surroundings \/ ForwardOk \/ HandlerSteps \/ ForwardGuard \/ OuterClose
           \/ UNCHANGED vars
    PROVE  KeepInv'
  <1>1. UNCHANGED <<streamVars, learnVars, isNotice>> /\ buf' \in {buf, NoBuf}
    BY DEF Surroundings, ForwardOk, HandlerSteps, ForwardGuard, OuterClose, vars, Handler,
           ForwardError, Drained, Start, Leave, CopyEnd, CtxExit, Tick, CloseDone,
           NoticeForget, CloseConn, ReportAccessLog, Join, Release, noticeVars
  <1>2. /\ up' = up \/ (up = "off" /\ up' = "read")
        /\ down' = down \/ down' = "read"
    BY DEF Surroundings, ForwardOk, HandlerSteps, ForwardGuard, OuterClose, vars, Handler,
           ForwardError, Drained, Start, Leave, CopyEnd, CtxExit, Tick, CloseDone,
           NoticeForget, CloseConn, ReportAccessLog, Join, Release, goroutines,
           IInv, Lifetimes, DialPcs
  <1> QED BY <1>1, <1>2, StreamQuiet

LEMMA UploadKeep == ASSUME IInv, KeepInv, Upload PROVE KeepInv'
  <1>1. UNCHANGED <<isNotice, byteChan, parsing, heard, down>>
    BY DEF Upload, UpRead, UpReadError, UpAppend, UpWrite, UpWriteError, UpEnds, Up, learnVars
  <1>2. TakenWhole' /\ FlagFirst'
    BY <1>1 DEF KeepInv, TakenWhole, FlagFirst
  <1>3. CASE UpRead
    <2>1. CASE sent' = sent
      BY <1>2, <1>3, <2>1 DEF UpRead, Up, KeepInv, Counted, BufferWhole, Appended
    <2>2. CASE sent' # sent
      <3>1. up = "read" /\ up' = "append" /\ sent' = sent + 1 /\ UNCHANGED <<buf, delivered, heard>>
        BY <1>3, <2>2 DEF UpRead, Up
      <3>2. Appended' = Appended /\ sent' \in Nat
        BY <3>1 DEF Appended, KeepInv, Counted
      <3> QED BY <1>2, <3>1, <3>2 DEF KeepInv, Counted, BufferWhole
    <2> QED BY <2>1, <2>2
  <1>4. CASE UpReadError \/ UpWriteError
    <2>1. up # "append" /\ up' # "append" /\ UNCHANGED <<buf, sent, delivered, heard>>
      BY <1>4 DEF UpReadError, UpWriteError, UpEnds, Up
    <2> QED BY <1>2, <2>1 DEF KeepInv, Counted, BufferWhole, Appended
  <1>5. CASE UpAppend
    <2>1. /\ up = "append" /\ up' = "write" /\ UNCHANGED <<sent, delivered, heard>>
          /\ buf' = IF buf = NoBuf THEN NoBuf ELSE Append(buf, sent)
      BY <1>5 DEF UpAppend, Up, Kept
    <2>2. Appended \in Nat /\ sent = Appended + 1 /\ Appended' = sent /\ sent \in Nat
      BY <2>1 DEF Appended, KeepInv, Counted
    <2>3. BufferWhole'
      <3>1. CASE buf = NoBuf
        BY <2>1, <3>1 DEF BufferWhole
      <3>2. CASE buf # NoBuf
        <4>1. buf = Prefix(Appended)
          BY <3>2 DEF KeepInv, BufferWhole
        <4>2. buf' = Prefix(sent)
          BY <2>1, <2>2, <3>2, <4>1, PrefixGrows
        <4> QED BY <2>2, <4>2 DEF BufferWhole
      <3> QED BY <3>1, <3>2
    <2>4. Counted'
      BY <2>1, <2>2 DEF KeepInv, Counted
    <2> QED BY <1>2, <2>3, <2>4 DEF KeepInv
  <1>6. CASE UpWrite
    <2>1. /\ up = "write" /\ up' # "append" /\ UNCHANGED <<buf, sent, heard>>
          /\ delivered' \in {sent, delivered}
      BY <1>6 DEF UpWrite, UpEnds, Up
    <2> QED BY <1>2, <2>1 DEF KeepInv, Counted, BufferWhole, Appended
  <1> QED BY <1>3, <1>4, <1>5, <1>6 DEF Upload

LEMMA DownloadKeep == ASSUME KeepInv, Download PROVE KeepInv'
  <1>1. UNCHANGED <<up, sent, delivered, parsing>>
    BY DEF Download, DownRead, DownReadError, DownWrite, DownWriteStopped, DownNotice,
           DownTake, AfterWrite, DownEnds, Down
  <1>2. Appended' = Appended
    BY <1>1 DEF Appended
  <1>3. CASE DownRead
    <2>1. UNCHANGED <<isNotice, buf, byteChan>> /\ heard' \in {delivered, heard}
          /\ (isNotice => heard' = heard)
      BY <1>3 DEF DownRead, Keeping
    <2>2. Counted' /\ BufferWhole'
      BY <1>1, <1>2, <2>1 DEF KeepInv, Counted, BufferWhole
    <2>3. TakenWhole'
      BY <1>1, <2>1 DEF KeepInv, TakenWhole
    <2>4. FlagFirst'
      BY <1>3 DEF FlagFirst, DownRead, DownEnds, Down
    <2> QED BY <2>2, <2>3, <2>4 DEF KeepInv
  <1>4. CASE DownReadError \/ DownWrite \/ DownWriteStopped \/ DownNotice
    <2>1. UNCHANGED <<heard, buf, byteChan>> /\ (isNotice => isNotice')
      <3>1. CASE DownNotice
        <4>1. isNotice' = (isNotice \/ kind = "bare") /\ UNCHANGED <<heard, buf, byteChan>>
          BY <3>1 DEF DownNotice
        <4>2. isNotice => isNotice'
          BY <4>1, Zenon
        <4> QED BY <4>1, <4>2
      <3>2. CASE ~DownNotice
        BY <1>4, <3>2 DEF DownReadError, DownWrite, DownWriteStopped
      <3> QED BY <3>1, <3>2
    <2>2. FlagFirst'
      BY <1>4 DEF FlagFirst, DownReadError, DownWrite, DownWriteStopped, DownNotice, AfterWrite,
                  DownEnds, Down, Keeping, KeepInv
    <2> QED BY <1>1, <1>2, <2>1, <2>2 DEF KeepInv, Counted, BufferWhole, TakenWhole
  <1>5. CASE DownTake
    <2>1. byteChan' = buf /\ buf' = NoBuf /\ UNCHANGED <<heard, isNotice>>
      BY <1>5 DEF DownTake
    <2>2. isNotice /\ down' # "take"
      BY <1>5 DEF KeepInv, FlagFirst, DownTake, AfterWrite, DownEnds, Down
    <2>3. TakenWhole'
      BY <1>1, <2>1, <2>2 DEF KeepInv, Counted, BufferWhole, TakenWhole
    <2> QED BY <1>1, <1>2, <2>1, <2>2, <2>3 DEF KeepInv, Counted, BufferWhole, FlagFirst
  <1> QED BY <1>3, <1>4, <1>5 DEF Download

LEMMA SniffKeep == ASSUME KeepInv, Sniff PROVE KeepInv'
  <1>1. UNCHANGED <<up, down, streamVars, isNotice, buf>>
    BY DEF Sniff, SniffDone, SniffTake, SniffParse, Sniffer, noticeVars
  <1>2. {byteChan', parsing'} \subseteq {byteChan, parsing, NoBuf}
    BY DEF Sniff, SniffDone, SniffTake, SniffParse, Sniffer, learnVars
  <1>3. UNCHANGED <<Appended, sent, delivered, heard>>
    BY <1>1 DEF Appended, streamVars
  <1>4. TakenWhole'
    BY <1>1, <1>2, <1>3 DEF KeepInv, TakenWhole
  <1> QED BY <1>1, <1>3, <1>4 DEF KeepInv, Counted, BufferWhole, FlagFirst

LEMMA NextKeep == ASSUME IInv, KeepInv, [Next]_vars PROVE KeepInv'
  BY HandlerKeep, UploadKeep, DownloadKeep, SniffKeep DEF Next, Terminated

\* What the sniffer is given is the upload from its first byte without a gap,
\* and holds everything the target had been sent when it first answered.
THEOREM SnifferSees == Spec => []SniffSeesForwarded
  <1>1. IInv /\ [Next]_vars => IInv'
    BY NextInv
  <1>2. IInv /\ KeepInv /\ [Next]_vars => KeepInv'
    BY NextKeep
  <1>3. KeepInv => SniffSeesForwarded
    <2> SUFFICES ASSUME KeepInv, NEW b \in {byteChan, parsing} \ {NoBuf}
                 PROVE  Len(b) >= heard /\ \A i \in DOMAIN b : b[i] = i
      BY DEF SniffSeesForwarded
    <2>1. PICK n \in Nat : b = Prefix(n) /\ heard <= n
      BY DEF KeepInv, TakenWhole
    <2>2. b \in Seq(Nat) /\ Len(b) = n /\ DOMAIN b = 1..n /\ \A i \in 1..n : b[i] = i
      BY <2>1 DEF Prefix
    <2> QED BY <2>1, <2>2 DEF KeepInv, Counted
  <1> QED BY InitInv, InitKeep, <1>1, <1>2, <1>3, PTL DEF Spec
=============================================================================
