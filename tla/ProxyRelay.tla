----------------------------- MODULE ProxyRelay -----------------------------
(***************************************************************************)
(* One proxied connection from its successful dial to the end of its       *)
(* handler: the goroutine that guards the forwarding of a plain HTTP       *)
(* request, the two copies of httpTcpConn and socksTcpConn, the            *)
(* ReadWriterNotice that keeps a copy of the upload until the target's     *)
(* first answer, the goroutine that looks for a domain in it, the handler's*)
(* select loop and its deferred clean-up.                                  *)
(*                                                                         *)
(* Uploaded chunks are numbered.  Every Read and Write of the relay has a  *)
(* deadline of 180s, so an error is always one of its outcomes; the Write  *)
(* that forwards a plain request has none.  The flow limiter between Read  *)
(* and Write is FlowLimit, the registries are ProxyManager.                *)
(***************************************************************************)
EXTENDS Naturals, Sequences

CONSTANTS
    Kinds,      \* "plain": HTTP request; "named", "bare": tunnel to a domain, an address
    Domains,    \* host names
    NoDomain,   \* the empty domain string
    NoBuf,      \* a nil slice, an empty channel
    MaxUp       \* bound: chunks uploaded before the first answer

ASSUME KindsKnown == Kinds \subseteq {"plain", "named", "bare"}
ASSUME MaxUpPos == MaxUp \in Nat \ {0}

VARIABLES
    kind, name, need, \* inputs: the first need chunks uploaded name name
    black,      \* the domains the current blacklist matches
    ctxDone,    \* the manager's context is done
    kicked,     \* connCtx was cancelled
    gone,       \* which peers hung up: "client", "target"
    pc,         \* the handler
    fwd,        \* the goroutine around the plain request
    up, down,   \* the two copies
    sniffer,    \* the goroutine that waits for byteChan
    dom,        \* domainPointer
    isStart, isNotice, buf,  \* ReadWriterNotice
    byteChan,   \* its one slot
    parsing,    \* the bytes the sniffer took
    done,       \* done is closed
    errCh,      \* results in it
    chansClosed,\* byteChan and errCh are closed
    closed,     \* connections the proxy closed: "client", "target"
    failed,     \* the download's last Write failed
    sent,       \* chunks read before the first answer
    delivered,  \* of these, the ones written to the target
    heard       \* history: delivered when the target's first answer was read

inputs == <<kind, name, need>>
env == <<black, ctxDone, kicked, gone>>
goroutines == <<up, down, sniffer>>
noticeVars == <<isStart, isNotice, buf>>
learnVars == <<byteChan, parsing, dom>>
streamVars == <<sent, delivered, heard, failed>>
deferVars == <<done, chansClosed, closed>>
vars == <<inputs, env, pc, fwd, goroutines, noticeVars, learnVars, streamVars,
          deferVars, errCh>>

Peers == {"client", "target"}
CtxDone == ctxDone \/ kicked        \* connCtx.ctx is a child of the manager's
Alive(p) == p \notin gone \cup closed

Init ==
    /\ kind \in Kinds /\ name \in Domains
    /\ need \in IF kind = "bare" THEN 1..MaxUp ELSE {1}
    /\ black = {} /\ ctxDone = FALSE /\ kicked = FALSE /\ gone = {}
    /\ pc = IF kind = "plain" THEN "forward" ELSE "start"
    /\ fwd = IF kind = "plain" THEN "wait" ELSE "off"
    /\ up = "off" /\ down = "off" /\ sniffer = "off"
    /\ dom = IF kind = "bare" THEN NoDomain ELSE name
    /\ isStart = TRUE /\ isNotice = FALSE /\ buf = <<>>
    /\ byteChan = NoBuf /\ parsing = NoBuf
    /\ done = FALSE /\ errCh = 0 /\ chansClosed = FALSE /\ closed = {}
    /\ failed = FALSE /\ sent = 0 /\ delivered = 0 /\ heard = 0

-----------------------------------------------------------------------------
(* The surroundings.                                                       *)

HangUp(p) ==
    /\ p \notin gone /\ gone' = gone \cup {p}
    /\ UNCHANGED <<black, ctxDone, kicked>>

\* A kick reaches registered sessions only.
Kick ==
    /\ ~kicked /\ pc \notin {"forward", "drain", "drainErr", "start", "release", "end"}
    /\ kicked' = TRUE /\ UNCHANGED <<black, ctxDone, gone>>

Stop == ~ctxDone /\ ctxDone' = TRUE /\ UNCHANGED <<black, kicked, gone>>

NewBlacklist == black' \in SUBSET Domains \ {black} /\ UNCHANGED <<ctxDone, kicked, gone>>

Surroundings ==
    /\ pc # "end"
    /\ (\E p \in Peers : HangUp(p)) \/ Kick \/ Stop \/ NewBlacklist
    /\ UNCHANGED <<inputs, pc, fwd, goroutines, noticeVars, learnVars, streamVars,
                   deferVars, errCh>>

-----------------------------------------------------------------------------
(* The plain HTTP request, before the session is registered.               *)

Handler(l) == pc' = l /\ UNCHANGED <<inputs, env, learnVars, streamVars>>

\* target.Write(buf.Bytes()): it may block for as long as the target does.
ForwardOk ==
    /\ pc = "forward" /\ Alive("target")
    /\ Handler("drain")
    /\ UNCHANGED <<fwd, goroutines, noticeVars, deferVars, errCh>>

ForwardError ==
    /\ pc = "forward" /\ ~Alive("target")
    /\ Handler("drainErr")
    /\ UNCHANGED <<fwd, goroutines, noticeVars, deferVars, errCh>>

\* The select of the goroutine: ctx.Done closes the target, or the handler has
\* come to receive; either way its done channel is closed.
GuardCloses_Not == closed
GuardCloses == closed \cup {"target"}
ForwardGuard ==
    /\ fwd = "wait" /\ fwd' = "ended"
    /\ \/ ctxDone /\ closed' = GuardCloses
       \/ pc \in {"drain", "drainErr"} /\ UNCHANGED closed
    /\ UNCHANGED <<inputs, env, pc, goroutines, noticeVars, learnVars, streamVars,
                   done, chansClosed, errCh>>

\* for range done.
Drained ==
    /\ pc \in {"drain", "drainErr"} /\ fwd = "ended"
    /\ Handler(IF pc = "drain" THEN "start" ELSE "release")
    /\ UNCHANGED <<fwd, goroutines, noticeVars, deferVars, errCh>>

-----------------------------------------------------------------------------
(* The handler: set-up, select loop, deferred clean-up.                    *)

\* addUserConnection; the goroutines start, the sniffing one for a bare address.
Start ==
    /\ pc = "start"
    /\ Handler("select")
    /\ up' = "read" /\ down' = "read"
    /\ sniffer' = IF kind = "bare" THEN "wait" ELSE "off"
    /\ UNCHANGED <<fwd, noticeVars, deferVars, errCh>>

Leave ==
    /\ pc = "select"
    /\ Handler("done")
    /\ UNCHANGED <<fwd, goroutines, noticeVars, deferVars>>

\* errCh: a copy ended; one end of stream ends both directions.
CopyEnd == errCh > 0 /\ Leave /\ errCh' = errCh - 1

CtxExit == CtxDone /\ Leave /\ UNCHANGED errCh

\* The ticker's test of the domain known by now.
Listed_AtDial == kind # "bare" /\ dom \in black
Listed == dom \in black
Tick == Listed /\ Leave /\ UNCHANGED errCh

\* close(done), then netConn.Close(): for a ReadWriterNotice the flag, the
\* buffer under its lock, the connection.
CloseDone ==
    /\ pc = "done"
    /\ Handler(IF kind = "bare" THEN "buf" ELSE "conn")
    /\ done' = TRUE
    /\ isStart' = (kind # "bare")
    /\ UNCHANGED <<fwd, goroutines, isNotice, buf, chansClosed, closed, errCh>>

NoticeForget ==
    /\ pc = "buf"
    /\ Handler("conn")
    /\ buf' = NoBuf
    /\ UNCHANGED <<fwd, goroutines, isNotice, isStart, deferVars, errCh>>

CloseConn ==
    /\ pc = "conn"
    /\ Handler("target")
    /\ closed' = closed \cup {"client"}
    /\ UNCHANGED <<fwd, goroutines, noticeVars, done, chansClosed, errCh>>

\* netTarget.Close(); the access record names the domain known at this moment.
ReportAccessLog ==
    /\ pc = "target"
    /\ Handler("wait")
    /\ closed' = closed \cup {"target"}
    /\ UNCHANGED <<fwd, goroutines, noticeVars, done, chansClosed, errCh>>

Busy == {up, down, sniffer} \ {"off", "ended"} # {}

\* wg.Wait; close(errCh), close(byteChan), deleteUserConnection.
MayJoin_AtOnce == TRUE
MayJoin == ~Busy
Join ==
    /\ pc = "wait" /\ MayJoin
    /\ Handler("release")
    /\ chansClosed' = TRUE
    /\ UNCHANGED <<fwd, goroutines, noticeVars, done, closed, errCh>>

\* target.Close(); ReduceIpConnCount; the outer goroutine closes the client.
Release ==
    /\ pc = "release"
    /\ Handler("end")
    /\ closed' = Peers
    /\ UNCHANGED <<fwd, goroutines, noticeVars, done, chansClosed, errCh>>

\* The outer goroutine's select: ctx.Done closes the client connection.
OuterClose ==
    /\ ctxDone /\ pc # "end" /\ "client" \notin closed
    /\ closed' = closed \cup {"client"}
    /\ UNCHANGED <<inputs, env, pc, fwd, goroutines, noticeVars, learnVars,
                   streamVars, done, chansClosed, errCh>>

-----------------------------------------------------------------------------
(* Upload: io.CopyBuffer(netTarget, NewLimitedReader(.., netConn, ..)).    *)

Up(l) ==
    /\ up' = l
    /\ UNCHANGED <<inputs, env, pc, fwd, down, sniffer, isStart, isNotice,
                   learnVars, heard, failed, deferVars>>

\* The copy returns: errCh has room for both results.
UpEnds == errCh' = errCh + 1 /\ Up("ended")

\* The next chunk; it is told apart from the others while it may be kept.
Keeping == kind = "bare" /\ ~isNotice
UpRead ==
    /\ up = "read" /\ Alive("client")
    /\ \/ Keeping /\ sent < MaxUp /\ sent' = sent + 1 /\ Up("append")
       \/ ~Keeping /\ UNCHANGED sent /\ Up("write")
    /\ UNCHANGED <<buf, delivered, errCh>>

\* End of stream, a closed connection or the deadline.
UpReadError == up = "read" /\ UpEnds /\ UNCHANGED <<buf, sent, delivered>>

\* isNotice was false: append under the lock, unless the buffer was taken since.
Kept_Dropped == buf
Kept == IF buf = NoBuf THEN NoBuf ELSE Append(buf, sent)
UpAppend ==
    /\ up = "append"
    /\ buf' = Kept
    /\ Up("write")
    /\ UNCHANGED <<sent, delivered, errCh>>

\* Then the copy goes round: LimitedReader.Read tests the context and
\* ReadWriterNotice.Read tests isStart before the next read.
UpWrite ==
    /\ up = "write" /\ Alive("target")
    /\ delivered' = IF Keeping THEN sent ELSE delivered
    /\ IF CtxDone \/ ~isStart THEN UpEnds ELSE Up("read") /\ UNCHANGED errCh
    /\ UNCHANGED <<buf, sent>>

UpWriteError == up = "write" /\ UpEnds /\ UNCHANGED <<buf, sent, delivered>>

Upload == UpRead \/ UpReadError \/ UpAppend \/ UpWrite \/ UpWriteError

-----------------------------------------------------------------------------
(* Download: io.CopyBuffer(netConn, NewLimitedReader(.., netTarget, ..)).  *)

Down(l) ==
    /\ down' = l
    /\ UNCHANGED <<inputs, env, pc, fwd, up, sniffer, isStart, parsing, dom,
                   sent, delivered, deferVars>>

DownEnds == errCh' = errCh + 1 /\ Down("ended")

\* The target's answer, the first one to what was delivered by then; then
\* ReadWriterNotice.Write tests isStart.
DownRead ==
    /\ down = "read" /\ Alive("target")
    /\ heard' = IF Keeping THEN delivered ELSE heard
    /\ IF isStart THEN Down("write") /\ UNCHANGED errCh ELSE DownEnds
    /\ UNCHANGED <<isNotice, buf, byteChan, failed>>

DownReadError ==
    /\ down = "read"
    /\ DownEnds
    /\ UNCHANGED <<isNotice, buf, byteChan, failed, heard>>

\* The connection's Write, whose error is returned after the rest.
DownWrite ==
    /\ down = "write"
    /\ \/ Alive("client") /\ failed' = FALSE
       \/ failed' = TRUE
    /\ Down("notice")
    /\ UNCHANGED <<isNotice, buf, byteChan, heard, errCh>>

\* The test came later and found isStart off.
DownWriteStopped ==
    /\ down = "write" /\ ~isStart
    /\ DownEnds
    /\ UNCHANGED <<isNotice, buf, byteChan, failed, heard>>

\* Write returns and the copy goes round.
AfterWrite ==
    /\ failed' = FALSE
    /\ IF failed \/ CtxDone THEN DownEnds ELSE Down("read") /\ UNCHANGED errCh

\* isNotice.CompareAndSwap(false, true).
DownNotice ==
    /\ down = "notice"
    /\ isNotice' = (isNotice \/ kind = "bare")
    /\ IF Keeping THEN Down("take") /\ UNCHANGED <<failed, errCh>> ELSE AfterWrite
    /\ UNCHANGED <<buf, byteChan, heard>>

\* Under the lock: Close may have been there first.
DownTake ==
    /\ down = "take"
    /\ buf' = NoBuf
    /\ byteChan' = buf      \* fc: byteChan has room
    /\ AfterWrite
    /\ UNCHANGED <<isNotice, heard>>

Download == DownRead \/ DownReadError \/ DownWrite \/ DownWriteStopped
            \/ DownNotice \/ DownTake

-----------------------------------------------------------------------------
(* The sniffing goroutine.                                                 *)

Sniffer(l) ==
    /\ sniffer' = l
    /\ UNCHANGED <<inputs, env, pc, fwd, up, down, noticeVars, streamVars,
                   deferVars, errCh>>

SniffDone ==
    /\ sniffer = "wait" /\ done
    /\ Sniffer("ended") /\ UNCHANGED learnVars

SniffTake ==
    /\ sniffer = "wait" /\ byteChan # NoBuf
    /\ byteChan' = NoBuf /\ parsing' = byteChan
    /\ Sniffer("parse") /\ UNCHANGED dom

\* ClientHello, then HTTP request, then regexpDomain.
Parsed(b) == IF Len(b) >= need THEN name ELSE NoDomain

SniffParse ==
    /\ sniffer = "parse"
    /\ dom' = IF Parsed(parsing) # NoDomain THEN Parsed(parsing) ELSE dom
    /\ parsing' = NoBuf
    /\ Sniffer("ended") /\ UNCHANGED byteChan

Sniff == SniffDone \/ SniffTake \/ SniffParse

-----------------------------------------------------------------------------
HandlerSteps ==
    \/ ForwardError \/ Drained \/ Start \/ CopyEnd \/ CtxExit \/ Tick
    \/ CloseDone \/ NoticeForget \/ CloseConn \/ ReportAccessLog
    \/ Join \/ Release

Terminated == pc = "end" /\ UNCHANGED vars

Next ==
    \/ Surroundings \/ ForwardOk \/ HandlerSteps \/ ForwardGuard \/ OuterClose
    \/ Upload \/ Download \/ Sniff \/ Terminated

Spec == Init /\ [][Next]_vars

\* The goroutines are scheduled and every Read and Write of the relay ends
\* within its deadline; ForwardOk has none.
Fairness ==
    /\ WF_vars(HandlerSteps) /\ WF_vars(ForwardGuard) /\ WF_vars(OuterClose)
    /\ WF_vars(Upload) /\ WF_vars(Download) /\ WF_vars(Sniff)
FairSpec == Spec /\ Fairness

-----------------------------------------------------------------------------
(* Properties                                                              *)

\* What the sniffer is given is the upload from its first byte without a gap,
\* and holds everything the target had been sent when it first answered: the
\* Reads that append, the Write that takes the buffer and the Close that drops
\* it interleave.
SniffSeesForwarded ==
    \A b \in {byteChan, parsing} \ {NoBuf} :
        /\ Len(b) >= heard
        /\ \A i \in DOMAIN b : b[i] = i

\* When a handler is over its goroutines have ended and both connections are
\* closed; nobody sends on the channels once they are closed.
NothingLeft ==
    /\ chansClosed => ~Busy
    /\ pc = "end" => ~Busy /\ fwd # "wait" /\ closed = Peers

Phase ==
    CASE pc \in {"forward", "drain", "drainErr", "start"} -> "dial"
      [] pc = "select" -> "relay"
      [] pc \in {"done", "buf", "conn", "target"} -> "report"
      [] pc = "wait" -> "join"
      [] OTHER -> "release"

\* The session ProxyManager composes with its registries: this handler
\* implements it, with all its goroutines.
Session == INSTANCE RelaySession WITH phase <- Phase, dom <- dom, busy <- Busy
ImplementsSession == Session!Spec

\* A kick, the shutdown or either peer hanging up ends a session, whatever the
\* other peer does; before registration the shutdown does so, also while the
\* target does not read the plain request.
RelayEnds ==
    /\ ctxDone ~> pc = "end"
    /\ kicked ~> pc = "end"
    /\ gone # {} /\ pc = "select" ~> pc = "end"

\* A tunnel to a bare address whose upload named a host when the target first
\* answered does not outlive the listing of that host: the name gets from the
\* buffer through the goroutines to the ticker.
BlacklistReachesTunnel ==
    heard >= need /\ isNotice /\ name \in black
        ~> pc = "end" \/ name \notin black
=============================================================================
