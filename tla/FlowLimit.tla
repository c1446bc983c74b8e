----------------------------- MODULE FlowLimit -----------------------------
(***************************************************************************)
(* server/flow_limit.go: the byte budget that the sessions of one          *)
(* connContext share (LimitedReaderAction) and the readers that spend it   *)
(* (LimitedReader, one per copy direction), while the configuration loop   *)
(* may call UpdateParameter.                                               *)
(*                                                                         *)
(* GetReadSize holds its shard's lock from lock to return; the refill is a *)
(* critical section of wMutex.  readRate is read outside wMutex, at up to  *)
(* four places of one call: the two comparisons, the subtraction and the   *)
(* return.  Each is a step of its own and may see a newer value than the   *)
(* one before.  A compiler may merge the reads that have no store between  *)
(* them; those executions are among the ones of this module.               *)
(***************************************************************************)
EXTENDS Integers

CONSTANTS
    Readers,
    LimitshareSize, \* number of shards
    Params,         \* <<readRate, readBurst>> pairs the configuration may hold
    MayUpdate,      \* whether UpdateParameter is called while readers run
    BufSize,        \* length of tempbuf
    CallerSize,     \* length of the caller's slice p
    Total,          \* bytes each reader's source supplies
    MaxClock,       \* bound on the seconds that pass
    DefaultRate, DefaultBurst

ASSUME SharesPositive == LimitshareSize \in Nat \ {0}
ASSUME ParamsInt == Params \subseteq Int \X Int /\ Params # {}
ASSUME CallerPositive == CallerSize \in Nat \ {0}
ASSUME BufPositive == BufSize \in Nat \ {0} /\ Total \in Nat /\ MaxClock \in Nat
ASSUME DefaultsPositive == DefaultRate \in Nat \ {0} /\ DefaultBurst \in Nat \ {0}
ASSUME MayUpdateBoolean == MayUpdate \in BOOLEAN

Shards == 0 .. LimitshareSize - 1

VARIABLES
    readRate, readBurst, nowTimeUnix,
    resid,          \* residReadueBurst
    slimitMaxFlow,
    rflow,          \* what is left of each shard
    holder,         \* shards whose lock is held
    cc,             \* the round-robin counter, modulo LimitshareSize
    clock,          \* the wall clock's second
    granted,        \* history: bytes charged to the shards in this second
    pc, idx, size,  \* locals of each reader's Read and GetReadSize
    llen,           \* bytes left in the reader's buffer
    room,           \* bytes from the buffer's start to its end (its capacity)
    left,           \* bytes the source has still to supply
    delivered,      \* bytes Read handed to its caller
    ctxDone,
    steady          \* history: UpdateParameter has not been called

actionVars == <<readRate, readBurst, nowTimeUnix, resid, slimitMaxFlow, rflow>>
readerVars == <<pc, idx, size, llen, room, left, delivered>>
vars == <<actionVars, holder, cc, clock, granted, readerVars, ctxDone, steady>>

Rate(p) == IF p[1] <= 0 THEN DefaultRate ELSE p[1]
Burst(p) == IF p[2] <= 0 THEN DefaultBurst ELSE p[2]
MaxFlow(b) == b \div LimitshareSize
Least(a, b) == IF a <= b THEN a ELSE b

Init ==
    /\ \E p \in Params :
         /\ readRate = Rate(p) /\ readBurst = Burst(p) /\ resid = Burst(p)
         /\ slimitMaxFlow = MaxFlow(Burst(p))
         /\ rflow = [i \in Shards |-> MaxFlow(Burst(p))]
    /\ nowTimeUnix = 0 /\ clock = 0 /\ granted = 0
    /\ holder = {} /\ cc = 0
    /\ pc = [r \in Readers |-> "start"]
    /\ idx = [r \in Readers |-> 0] /\ size = [r \in Readers |-> 0]
    /\ llen = [r \in Readers |-> 0] /\ room = [r \in Readers |-> BufSize]
    /\ left = [r \in Readers |-> Total] /\ delivered = [r \in Readers |-> 0]
    /\ ctxDone = FALSE /\ steady = TRUE

UpdateParameter(p) ==
    /\ MayUpdate
    /\ readRate' = Rate(p) /\ readBurst' = Burst(p) /\ resid' = Burst(p)
    /\ slimitMaxFlow' = MaxFlow(Burst(p)) /\ steady' = FALSE
    /\ UNCHANGED <<nowTimeUnix, rflow, holder, cc, clock, granted, readerVars, ctxDone>>

-----------------------------------------------------------------------------
(* LimitedReader.Read                                                      *)

\* The context check, and the fill of an empty buffer.  A source that is at its
\* end, or fails, ends the copy; so does a buffer with a negative length.
ReadStart(r) ==
    /\ pc[r] = "start"
    /\ \/ /\ ctxDone \/ llen[r] < 0 \/ (llen[r] = 0 /\ left[r] = 0)
          /\ pc' = [pc EXCEPT ![r] = "end"]
          /\ UNCHANGED <<llen, room, left>>
       \/ /\ ~ctxDone /\ llen[r] > 0
          /\ pc' = [pc EXCEPT ![r] = "pick"]
          /\ UNCHANGED <<llen, room, left>>
       \/ /\ ~ctxDone /\ llen[r] = 0
          /\ \E n \in 1 .. Least(BufSize, left[r]) :
               /\ llen' = [llen EXCEPT ![r] = n]
               /\ left' = [left EXCEPT ![r] = @ - n]
          /\ room' = [room EXCEPT ![r] = BufSize]
          /\ pc' = [pc EXCEPT ![r] = "pick"]
    /\ UNCHANGED <<actionVars, holder, cc, clock, granted, idx, size, delivered, ctxDone, steady>>

\* idx := l.cc.Add(1) % LimitshareSize
PickShard(r) ==
    /\ pc[r] = "pick"
    /\ cc' = (cc + 1) % LimitshareSize
    /\ idx' = [idx EXCEPT ![r] = cc']
    /\ pc' = [pc EXCEPT ![r] = "refill"]
    /\ UNCHANGED <<actionVars, holder, clock, granted, size, llen, room, left, delivered, ctxDone, steady>>

\* The budget of the refill: a new second restores the whole burst.
Budget_Unlimited == readBurst
Budget == IF nowTimeUnix # clock THEN readBurst ELSE resid

\* What a shard receives.
Share == Least(slimitMaxFlow, Budget)

\* Lock the shard; refill it under wMutex when it is spent.
Refill(r) ==
    /\ pc[r] = "refill" /\ idx[r] \notin holder
    /\ IF rflow[idx[r]] > 0
       THEN /\ pc' = [pc EXCEPT ![r] = "grant"]
            /\ holder' = holder \cup {idx[r]}
            /\ UNCHANGED <<actionVars, size>>
       ELSE /\ nowTimeUnix' = clock
            /\ resid' = Budget - Share
            /\ IF Budget = 0
               THEN /\ pc' = [pc EXCEPT ![r] = "got"]
                    /\ size' = [size EXCEPT ![r] = 0]
                    /\ UNCHANGED <<rflow, holder>>
               ELSE /\ pc' = [pc EXCEPT ![r] = "grant"]
                    /\ rflow' = [rflow EXCEPT ![idx[r]] = Share]
                    /\ holder' = holder \cup {idx[r]}
                    /\ UNCHANGED size
            /\ UNCHANGED <<readRate, readBurst, slimitMaxFlow>>
    /\ UNCHANGED <<cc, clock, granted, idx, llen, room, left, delivered, ctxDone, steady>>

\* The reader's shard is charged with n bytes.
Spend(r, n) ==
    /\ rflow' = [rflow EXCEPT ![idx[r]] = @ - n]
    /\ granted' = granted + n

\* GetReadSize returns n; the deferred Unlock releases the shard.
Return(r, n) ==
    /\ size' = [size EXCEPT ![r] = n]
    /\ holder' = holder \ {idx[r]}
    /\ pc' = [pc EXCEPT ![r] = "got"]

\* GetReadSize goes on to its next read of readRate, the shard still locked.
GoOn(r, to) ==
    /\ pc' = [pc EXCEPT ![r] = to]
    /\ UNCHANGED <<size, holder>>

\* What it takes no part in between the refill and the return.
restVars == <<readRate, readBurst, nowTimeUnix, resid, slimitMaxFlow,
              cc, clock, idx, llen, room, left, delivered, ctxDone, steady>>

\* Of a shard that the rate does not limit: the data, or what is left of it.
Available_NoShard(r) == llen[r]
Available_NoData(r) == rflow[idx[r]]
Available(r) == Least(llen[r], rflow[idx[r]])

\* The rate is compared with the shard ...
Grant(r) ==
    /\ pc[r] = "grant"
    /\ IF readRate >= rflow[idx[r]]
       THEN Spend(r, Available(r)) /\ Return(r, Available(r))
       ELSE GoOn(r, "cap") /\ UNCHANGED <<rflow, granted>>
    /\ UNCHANGED restVars

\* ... then, read again, with the data.  A rate that has risen since may let
\* pass more than lies in the shard ...
GrantData(r) ==
    /\ pc[r] = "cap"
    /\ IF readRate >= llen[r]
       THEN Spend(r, llen[r]) /\ Return(r, llen[r])
       ELSE GoOn(r, "charge") /\ UNCHANGED <<rflow, granted>>
    /\ UNCHANGED restVars

\* ... and so may the rate that is then subtracted ...
ChargeRate(r) ==
    /\ pc[r] = "charge"
    /\ Spend(r, readRate) /\ GoOn(r, "rate")
    /\ UNCHANGED restVars

\* ... and the rate that is returned may be yet another.
ReturnRate(r) ==
    /\ pc[r] = "rate"
    /\ Return(r, readRate)
    /\ UNCHANGED <<restVars, rflow, granted>>

\* Without budget Read sleeps 33ms and passes one byte all the same.
Forced_None(r) == size[r]
Forced(r) == IF size[r] <= 0 THEN 1 ELSE size[r]

\* copy(p, l.buf[:len(p)]): slicing beyond the buffer's capacity panics.
CopyOut(r) ==
    LET n == Least(Forced(r), CallerSize)
    IN  /\ pc[r] = "got"
        /\ IF n > room[r]
           THEN /\ pc' = [pc EXCEPT ![r] = "panic"]
                /\ UNCHANGED <<llen, room, delivered>>
           ELSE /\ llen' = [llen EXCEPT ![r] = @ - n]
                /\ room' = [room EXCEPT ![r] = @ - n]
                /\ delivered' = [delivered EXCEPT ![r] = @ + n]
                /\ pc' = [pc EXCEPT ![r] = "start"]
        /\ size' = [size EXCEPT ![r] = 0]
        /\ UNCHANGED <<actionVars, holder, cc, clock, granted, idx, left, ctxDone, steady>>

Read(r) ==
    \/ ReadStart(r) \/ PickShard(r) \/ Refill(r)
    \/ Grant(r) \/ GrantData(r) \/ ChargeRate(r) \/ ReturnRate(r)
    \/ CopyOut(r)

Tick ==
    /\ clock < MaxClock
    /\ clock' = clock + 1 /\ granted' = 0
    /\ UNCHANGED <<actionVars, holder, cc, readerVars, ctxDone, steady>>

Cancel ==
    /\ ctxDone' = TRUE
    /\ UNCHANGED <<actionVars, holder, cc, clock, granted, readerVars, steady>>

Next ==
    \/ \E r \in Readers : Read(r)
    \/ \E p \in Params : UpdateParameter(p)
    \/ Tick \/ Cancel

Spec == Init /\ [][Next]_vars

\* A goroutine in Read is scheduled; the shard lock it waits for is released by
\* a step of its holder.
Fairness == \A r \in Readers : WF_vars(Read(r))
FairSpec == Spec /\ Fairness

-----------------------------------------------------------------------------
(* Properties                                                              *)

\* Type correctness, with the bounds that hold while readRate and the burst
\* change under the readers: what remains of the burst is never overdrawn (it is
\* only touched under wMutex).  A shard may be, see NoOverdraft.
TypeOK ==
    /\ readRate \in Nat \ {0} /\ readBurst \in Nat \ {0}
    /\ nowTimeUnix \in 0 .. clock /\ clock \in 0 .. MaxClock
    /\ resid \in 0 .. readBurst
    /\ slimitMaxFlow = readBurst \div LimitshareSize
    /\ rflow \in [Shards -> Int]
    /\ holder \subseteq Shards /\ cc \in Shards
    /\ granted \in Nat
    /\ pc \in [Readers -> {"start", "pick", "refill", "grant", "cap", "charge", "rate",
                         "got", "end", "panic"}]
    /\ idx \in [Readers -> Shards] /\ size \in [Readers -> Nat]
    /\ llen \in [Readers -> Int] /\ room \in [Readers -> 0 .. BufSize]
    /\ left \in [Readers -> 0 .. Total] /\ delivered \in [Readers -> Nat]
    /\ ctxDone \in BOOLEAN /\ steady \in BOOLEAN

\* While the rate does not change, whatever the burst does, no shard is charged
\* with more than lies in it: the comparisons of GetReadSize bound the charge in
\* each of its branches.
NoOverdraft == \A i \in Shards : rflow[i] >= 0

\* While the parameters do not change, a second grants at most what the shards
\* carried over plus one burst: twice the configured burst.
TwoBursts == steady => granted <= 2 * readBurst

\* While the rate does not change, Read passes on exactly the bytes it took from
\* the source: none is lost, none is invented, and it never slices past its
\* buffer.
StreamIntact ==
    \A r \in Readers :
        /\ pc[r] # "panic" /\ llen[r] >= 0
        /\ delivered[r] + llen[r] + left[r] = Total

\* A reader whose context stays alive drains its buffer whatever the budget:
\* an exhausted budget delays it, it does not stop it.
BufferDrains ==
    \A r \in Readers : (llen[r] > 0) ~> (llen[r] <= 0 \/ ctxDone)

\* The comment in Read: a read never exceeds what is left in the buffer.
WithinBuffer == \A r \in Readers : llen[r] >= 0
=============================================================================
