---------------------------- MODULE RelaySession ----------------------------
(***************************************************************************)
(* What ProxyManager takes for granted of one session between its dial and *)
(* ReduceIpConnCount: the phases in their order, a domain that is learned  *)
(* at most once and only while a goroutine of the session runs, and no     *)
(* goroutine left (busy) once the session has given up its connContext.    *)
(***************************************************************************)
CONSTANTS Domains, NoDomain

VARIABLES phase, dom, busy

vars == <<phase, dom, busy>>

Init == phase = "dial" /\ ~busy /\ dom \in Domains \cup {NoDomain}

\* addUserConnection, the goroutines start.
Begin == phase = "dial" /\ phase' = "relay" /\ busy' = TRUE

\* DialError: the plain request could not be forwarded.
GiveUp == phase = "dial" /\ phase' = "release" /\ UNCHANGED busy

\* CopyEnd, CtxExit or Tick.
Leave == phase = "relay" /\ phase' = "report" /\ UNCHANGED busy

ReportAccessLog == phase = "report" /\ phase' = "join" /\ UNCHANGED busy

\* wg.Wait, then deleteUserConnection.
deleteUserConnection == phase = "join" /\ ~busy /\ phase' = "release" /\ UNCHANGED busy

\* The last goroutine ends.
Quiet == busy /\ ~busy' /\ UNCHANGED phase

Sniff(d) == busy /\ dom = NoDomain /\ dom' = d /\ UNCHANGED phase

Next ==
    \/ UNCHANGED dom /\ (Begin \/ GiveUp \/ Leave \/ ReportAccessLog
                         \/ deleteUserConnection \/ Quiet)
    \/ \E d \in Domains : Sniff(d)

Spec == Init /\ [][Next]_vars
=============================================================================
