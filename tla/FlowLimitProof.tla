--------------------------- MODULE FlowLimitProof ---------------------------
(***************************************************************************)
(* Proofs about FlowLimit for any readers, shards, parameters and sizes.   *)
(* TypeInv: the types, with the shards' locks.  RateInv, on top of it:     *)
(* what the earlier reads of readRate tell the later ones as long as the   *)
(* rate stays.  On top of that one each: what a reader has left in its     *)
(* buffer, and the budget of a second, counted as the tokens that lie in   *)
(* the shards.                                                             *)
(***************************************************************************)
EXTENDS FlowLimit, FiniteSetTheorems, TLAPS

(* Division, as the shares and the round robin use it.                     *)

LEMMA DivShare ==
    ASSUME NEW b \in Nat, NEW n \in Nat \ {0}
    PROVE  /\ b \div n \in Nat /\ b \div n <= b
           /\ n * (b \div n) <= b
  <1>1. b \div n \in Nat /\ b \div n <= b
    BY SMTT(30)
  <1>2. n * (b \div n) <= b
    OBVIOUS
  <1> QED BY <1>1, <1>2

LEMMA NextShard ==
    ASSUME NEW i \in Shards PROVE (i + 1) % LimitshareSize \in Shards
  BY SharesPositive DEF Shards

LEMMA LeastBounds ==
    ASSUME NEW a \in Int, NEW b \in Int
    PROVE  /\ Least(a, b) \in Int /\ Least(a, b) <= a /\ Least(a, b) <= b
           /\ Least(a, b) = a \/ Least(a, b) = b
  BY DEF Least

LEMMA ParamsTyped ==
    ASSUME NEW p \in Params
    PROVE  /\ Rate(p) \in Nat \ {0} /\ Burst(p) \in Nat \ {0}
           /\ MaxFlow(Burst(p)) \in Nat
  <1>1. p[1] \in Int /\ p[2] \in Int
    BY ParamsInt
  <1>2. Rate(p) \in Nat \ {0} /\ Burst(p) \in Nat \ {0}
    BY <1>1, DefaultsPositive DEF Rate, Burst
  <1> QED BY <1>2, DivShare, SharesPositive DEF MaxFlow

-----------------------------------------------------------------------------
(* Types and locks                                                         *)

Choosing == {"grant", "cap", "charge"}
InShard == Choosing \cup {"rate"}
InRead == InShard \cup {"pick", "refill", "got"}

\* A reader inside GetReadSize has something to read.
HasData == \A r \in Readers : pc[r] \in InRead => llen[r] > 0

Typed == TypeOK /\ HasData

\* A reader between lock and return holds its shard, alone, and has not found
\* the shard overdrawn.
LockInv ==
    /\ \A r \in Readers : pc[r] \in InShard => idx[r] \in holder
    /\ \A r, s \in Readers :
          pc[r] \in InShard /\ pc[s] \in InShard /\ idx[r] = idx[s] => r = s
    /\ \A r \in Readers : pc[r] \in Choosing => rflow[idx[r]] >= 0

TypeInv == Typed /\ LockInv

LEMMA InitType == Init => TypeInv
  <1> SUFFICES ASSUME Init PROVE TypeInv
    OBVIOUS
  <1>1. PICK p \in Params :
            /\ readRate = Rate(p) /\ readBurst = Burst(p) /\ resid = Burst(p)
            /\ slimitMaxFlow = MaxFlow(Burst(p))
            /\ rflow = [i \in Shards |-> MaxFlow(Burst(p))]
    BY DEF Init
  <1>2. /\ readRate \in Nat \ {0} /\ readBurst \in Nat \ {0}
        /\ resid \in 0 .. readBurst
        /\ slimitMaxFlow = readBurst \div LimitshareSize
        /\ rflow \in [Shards -> Int]
    BY <1>1, ParamsTyped DEF MaxFlow
  <1>3. holder \subseteq Shards /\ cc \in Shards /\ idx \in [Readers -> Shards]
    BY SharesPositive DEF Init, Shards
  <1>4. /\ pc = [r \in Readers |-> "start"] /\ size \in [Readers -> Nat]
        /\ llen \in [Readers -> Int] /\ room \in [Readers -> 0 .. BufSize]
        /\ left \in [Readers -> 0 .. Total] /\ delivered \in [Readers -> Nat]
    BY BufPositive DEF Init
  <1>5. nowTimeUnix = 0 /\ clock = 0 /\ granted = 0 /\ ctxDone = FALSE /\ steady = TRUE
    BY DEF Init
  <1>6. nowTimeUnix \in 0 .. clock /\ clock \in 0 .. MaxClock /\ granted \in Nat
    BY <1>5, BufPositive
  <1> QED BY <1>2, <1>3, <1>4, <1>5, <1>6
         DEF TypeInv, Typed, TypeOK, HasData, LockInv, Choosing, InShard, InRead

LEMMA UpdateType ==
    ASSUME Typed, NEW p \in Params, UpdateParameter(p) PROVE Typed'
  <1>1. /\ readRate' \in Nat \ {0} /\ readBurst' \in Nat \ {0}
        /\ resid' \in 0 .. readBurst'
        /\ slimitMaxFlow' = readBurst' \div LimitshareSize
    BY ParamsTyped DEF UpdateParameter, MaxFlow
  <1> QED BY <1>1 DEF UpdateParameter, readerVars, Typed, TypeOK, HasData

LEMMA ReadStartType ==
    ASSUME Typed, NEW r \in Readers, ReadStart(r) PROVE Typed'
  <1> USE DEF Typed, TypeOK, HasData, Choosing, InShard, InRead, actionVars
  <1>1. /\ pc' \in [Readers -> InRead \cup {"start", "end", "panic"}]
        /\ pc' = [pc EXCEPT ![r] = pc'[r]]
    BY DEF ReadStart
  <1>2. CASE UNCHANGED <<llen, room, left>>
    BY <1>1, <1>2 DEF ReadStart
  <1>3. CASE \E n \in 1 .. Least(BufSize, left[r]) :
                 /\ llen' = [llen EXCEPT ![r] = n]
                 /\ left' = [left EXCEPT ![r] = @ - n]
                 /\ room' = [room EXCEPT ![r] = BufSize]
    <2>1. PICK n \in 1 .. Least(BufSize, left[r]) :
                 /\ llen' = [llen EXCEPT ![r] = n]
                 /\ left' = [left EXCEPT ![r] = @ - n]
                 /\ room' = [room EXCEPT ![r] = BufSize]
      BY <1>3
    <2>2. n \in Nat \ {0} /\ n <= left[r]
      BY BufPositive DEF Least
    <2>3. left' \in [Readers -> 0 .. Total]
      BY <2>1, <2>2, BufPositive
    <2>4. room' \in [Readers -> 0 .. BufSize] /\ llen' \in [Readers -> Int]
      BY <2>1, <2>2, BufPositive
    <2> QED BY <1>1, <2>1, <2>2, <2>3, <2>4 DEF ReadStart
  <1> QED BY <1>2, <1>3 DEF ReadStart

LEMMA PickShardType ==
    ASSUME Typed, NEW r \in Readers, PickShard(r) PROVE Typed'
  <1>1. cc' \in Shards
    BY NextShard DEF Typed, TypeOK, PickShard
  <1> QED BY <1>1 DEF Typed, TypeOK, HasData, Choosing, InShard, InRead, PickShard, actionVars

LEMMA BudgetBounds ==
    ASSUME TypeOK
    PROVE  /\ Budget \in 0 .. readBurst
           /\ slimitMaxFlow \in Nat /\ slimitMaxFlow <= readBurst
           /\ Share \in Nat /\ Share <= Budget /\ Share <= slimitMaxFlow
  <1>1. Budget \in 0 .. readBurst
    BY DEF TypeOK, Budget
  <1>2. slimitMaxFlow \in Nat /\ slimitMaxFlow <= readBurst
    BY DivShare, SharesPositive DEF TypeOK
  <1> QED BY <1>1, <1>2 DEF Share, Least

LEMMA RefillType ==
    ASSUME Typed, NEW r \in Readers, Refill(r) PROVE Typed'
  <1> USE DEF Typed, TypeOK
  <1>1. idx[r] \in Shards
    OBVIOUS
  <1>2. /\ nowTimeUnix' \in 0 .. clock /\ resid' \in 0 .. readBurst
        /\ rflow' \in [Shards -> Int]
    <2>1. Share \in Nat /\ Budget - Share \in 0 .. readBurst
      BY BudgetBounds
    <2>2. nowTimeUnix' \in {nowTimeUnix, clock} /\ resid' \in {resid, Budget - Share}
      BY DEF Refill, actionVars
    <2>3. rflow' = rflow \/ rflow' = [rflow EXCEPT ![idx[r]] = Share]
      BY DEF Refill, actionVars
    <2>4. rflow' \in [Shards -> Int]
      BY <1>1, <2>1, <2>3
    <2> QED BY <2>1, <2>2, <2>4
  <1>3. holder' \subseteq Shards /\ size' \in [Readers -> Nat]
    BY <1>1 DEF Refill
  <1>4. /\ pc' \in [Readers -> InRead \cup {"start", "end", "panic"}]
        /\ pc[r] \in InRead /\ pc' = [pc EXCEPT ![r] = pc'[r]]
    BY DEF Refill, Choosing, InShard, InRead
  <1>5. UNCHANGED <<readRate, readBurst, slimitMaxFlow, cc, clock, granted, idx, llen,
                    room, left, delivered, ctxDone, steady>>
    BY DEF Refill, actionVars
  <1> QED BY <1>2, <1>3, <1>4, <1>5 DEF HasData, InRead, InShard, Choosing

\* What a step between the refill and the return charges to the shard: at most
\* what lies in it, unless the rate has changed since it was compared.
Undrawn ==
    /\ NoOverdraft
    /\ \A r \in Readers : pc[r] \in {"cap", "charge"} => readRate < rflow[idx[r]]

Charges(r) == Grant(r) \/ GrantData(r) \/ ChargeRate(r)

ChargedWith(r, n) ==
    /\ rflow' = [rflow EXCEPT ![idx[r]] = rflow[idx[r]] - n]
    /\ granted' = granted + n
    /\ Undrawn => n <= rflow[idx[r]]

LEMMA AvailableBounds ==
    ASSUME TypeInv, NEW r \in Readers, pc[r] = "grant"
    PROVE  Available(r) \in 0 .. rflow[idx[r]] /\ Available(r) <= llen[r]
  <1>1. rflow[idx[r]] \in Nat /\ llen[r] \in Nat
    BY DEF TypeInv, Typed, TypeOK, HasData, LockInv, Choosing, InShard, InRead
  <1> QED BY <1>1 DEF Available, Least

LEMMA Charged ==
    ASSUME TypeInv, NEW r \in Readers, Charges(r)
    PROVE  \E n \in Nat : ChargedWith(r, n)
  <1> USE DEF ChargedWith
  <1>1. /\ idx[r] \in Shards /\ rflow \in [Shards -> Int] /\ granted \in Nat
        /\ readRate \in Nat /\ llen[r] \in Int /\ rflow[idx[r]] \in Int
    BY DEF TypeInv, Typed, TypeOK
  <1>2. CASE UNCHANGED <<rflow, granted>>
    <2>1. rflow' = [rflow EXCEPT ![idx[r]] = rflow[idx[r]] - 0] /\ granted' = granted + 0
      BY <1>1, <1>2
    <2>2. Undrawn => 0 <= rflow[idx[r]]
      BY <1>1 DEF Undrawn, NoOverdraft
    <2> QED BY <2>1, <2>2
  <1>3. CASE Grant(r) /\ Spend(r, Available(r))
    <2>1. PICK n \in Int : n = Available(r) /\ n \in 0 .. rflow[idx[r]]
      BY <1>1, <1>3, AvailableBounds DEF Grant
    <2>2. n \in Nat /\ ChargedWith(r, n)
      BY <1>1, <1>3, <2>1 DEF Spend
    <2> QED BY <2>2
  <1>4. CASE GrantData(r) /\ readRate >= llen[r] /\ Spend(r, llen[r])
    <2>1. pc[r] = "cap" /\ llen[r] \in Nat
      BY <1>4 DEF GrantData, TypeInv, Typed, TypeOK, HasData, Choosing, InShard, InRead
    <2>2. Undrawn => llen[r] <= rflow[idx[r]]
      BY <1>1, <1>4, <2>1 DEF Undrawn
    <2> QED BY <1>4, <2>1, <2>2 DEF Spend
  <1>5. CASE ChargeRate(r)
    <2>1. pc[r] = "charge" /\ Spend(r, readRate)
      BY <1>5 DEF ChargeRate
    <2>2. Undrawn => readRate <= rflow[idx[r]]
      BY <1>1, <2>1 DEF Undrawn
    <2> QED BY <1>1, <2>1, <2>2 DEF Spend
  <1> QED BY <1>2, <1>3, <1>4, <1>5 DEF Charges, Grant, GrantData

LEMMA ChargesType ==
    ASSUME TypeInv, NEW r \in Readers, Charges(r) PROVE Typed'
  <1> USE DEF TypeInv, Typed, TypeOK
  <1>1. PICK n \in Nat : ChargedWith(r, n)
    BY Charged
  <1>2. rflow' \in [Shards -> Int] /\ granted' \in Nat
    BY <1>1 DEF ChargedWith
  <1>3. holder' \subseteq Shards
    BY DEF Charges, Grant, GrantData, ChargeRate, Return, GoOn
  <1>4. size' \in [Readers -> Nat]
    <2>1. pc[r] = "grant" => Available(r) \in Nat
      BY AvailableBounds
    <2>2. pc[r] = "cap" => llen[r] \in Nat
      BY DEF HasData, Choosing, InShard, InRead
    <2> QED BY <2>1, <2>2 DEF Charges, Grant, GrantData, ChargeRate, Return, GoOn
  <1>5. /\ pc' \in [Readers -> InRead \cup {"start", "end", "panic"}]
        /\ pc[r] \in InRead /\ pc' = [pc EXCEPT ![r] = pc'[r]]
    BY DEF Charges, Grant, GrantData, ChargeRate, Return, GoOn, Choosing, InShard, InRead
  <1>6. UNCHANGED restVars
    BY DEF Charges, Grant, GrantData, ChargeRate
  <1>7. HasData'
    BY <1>5, <1>6 DEF HasData, restVars
  <1>8. pc' \in [Readers -> {"start", "pick", "refill", "grant", "cap", "charge", "rate",
                             "got", "end", "panic"}]
    BY <1>5 DEF Choosing, InShard, InRead
  <1> QED BY <1>2, <1>3, <1>4, <1>6, <1>7, <1>8 DEF restVars

LEMMA ReturnRateType ==
    ASSUME Typed, NEW r \in Readers, ReturnRate(r) PROVE Typed'
  BY DEF Typed, TypeOK, HasData, Choosing, InShard, InRead, ReturnRate, Return, restVars

LEMMA CopyOutType ==
    ASSUME Typed, NEW r \in Readers, CopyOut(r) PROVE Typed'
  <1> USE DEF Typed, TypeOK
  <1> DEFINE n == Least(Forced(r), CallerSize)
  <1>1. n \in Nat \ {0}
    BY CallerPositive DEF Forced, Least
  <1>2. /\ llen' \in [Readers -> Int] /\ room' \in [Readers -> 0 .. BufSize]
        /\ delivered' \in [Readers -> Nat]
    BY <1>1, BufPositive DEF CopyOut
  <1>3. size' \in [Readers -> Nat]
    BY DEF CopyOut
  <1>4. /\ pc' \in [Readers -> InRead \cup {"start", "end", "panic"}]
        /\ pc'[r] \notin InRead
        /\ \A s \in Readers \ {r} : pc'[s] = pc[s] /\ llen'[s] = llen[s]
    BY DEF CopyOut, Choosing, InShard, InRead
  <1>5. UNCHANGED <<actionVars, holder, cc, clock, granted, idx, left, ctxDone, steady>>
    BY DEF CopyOut
  <1> QED BY <1>2, <1>3, <1>4, <1>5 DEF HasData, Choosing, InShard, InRead, actionVars

LEMMA TickType == ASSUME Typed, Tick PROVE Typed'
  BY BufPositive DEF Typed, TypeOK, HasData, Tick, actionVars, readerVars

LEMMA StutterType ==
    ASSUME Typed, Cancel \/ UNCHANGED vars PROVE Typed'
  BY DEF Typed, TypeOK, HasData, Cancel, vars, actionVars, readerVars

\* A reader that takes no part keeps its shard.
LEMMA OthersShard ==
    ASSUME TypeInv, NEW r \in Readers, Read(r), NEW s \in Readers \ {r}
    PROVE  /\ pc'[s] = pc[s] /\ idx'[s] = idx[s]
           /\ pc[s] \in InShard => /\ rflow'[idx[s]] = rflow[idx[s]]
                                  /\ idx[s] \in holder'
  <1> USE DEF TypeInv, Typed, TypeOK
  <1>1. pc'[s] = pc[s] /\ idx'[s] = idx[s]
    BY DEF Read, ReadStart, PickShard, Refill, Grant, GrantData, ChargeRate, ReturnRate,
           CopyOut, Return, GoOn, restVars
  <1>2. SUFFICES ASSUME pc[s] \in InShard
                 PROVE  rflow'[idx[s]] = rflow[idx[s]] /\ idx[s] \in holder'
    BY <1>1
  <1>3. idx[s] \in holder /\ idx[s] \in Shards
    BY <1>2 DEF LockInv
  <1>4. CASE ReadStart(r) \/ PickShard(r) \/ CopyOut(r)
    BY <1>3, <1>4 DEF ReadStart, PickShard, CopyOut, actionVars
  <1>5. CASE Refill(r)
    BY <1>3, <1>5 DEF Refill, actionVars
  <1>6. CASE Grant(r) \/ GrantData(r) \/ ChargeRate(r) \/ ReturnRate(r)
    <2>1. pc[r] \in InShard
      BY <1>6 DEF Grant, GrantData, ChargeRate, ReturnRate, Choosing, InShard
    <2>2. idx[r] # idx[s]
      BY <1>2, <2>1 DEF LockInv
    <2> QED BY <1>3, <1>6, <2>2
            DEF Grant, GrantData, ChargeRate, ReturnRate, Spend, Return, GoOn
  <1> QED BY <1>4, <1>5, <1>6 DEF Read

LEMMA ReadLocks ==
    ASSUME TypeInv, NEW r \in Readers, Read(r) PROVE LockInv'
  <1> USE DEF TypeInv, Typed, TypeOK
  <1>1. pc'[r] \in InShard =>
            /\ idx'[r] \in holder' /\ idx'[r] = idx[r]
            /\ \A s \in Readers \ {r} : pc[s] \in InShard => idx[s] # idx[r]
            /\ pc'[r] \in Choosing => rflow'[idx[r]] >= 0
    <2>1. CASE ReadStart(r) \/ PickShard(r) \/ CopyOut(r)
      BY <2>1 DEF ReadStart, PickShard, CopyOut, InShard, Choosing
    <2>2. CASE ReturnRate(r)
      BY <2>2 DEF ReturnRate, Return, InShard, Choosing
    <2>3. CASE Grant(r) \/ GrantData(r) \/ ChargeRate(r)
      <3>1. pc[r] \in Choosing
        BY <2>3 DEF Grant, GrantData, ChargeRate, Choosing
      <3>2. pc'[r] \in InShard =>
                UNCHANGED <<holder, idx>> /\ (pc'[r] \in Choosing => UNCHANGED rflow)
        BY <2>3 DEF Grant, GrantData, ChargeRate, Return, GoOn, restVars, InShard, Choosing
      <3> QED BY <3>1, <3>2 DEF LockInv, InShard
    <2>4. CASE Refill(r)
      <3>1. pc'[r] \in InShard =>
                /\ idx[r] \notin holder /\ holder' = holder \cup {idx[r]} /\ UNCHANGED idx
                /\ \/ rflow[idx[r]] > 0 /\ UNCHANGED rflow
                   \/ rflow' = [rflow EXCEPT ![idx[r]] = Share]
        BY <2>4 DEF Refill, actionVars, InShard, Choosing
      <3>2. Share >= 0 /\ idx[r] \in Shards
        BY BudgetBounds
      <3> QED BY <3>1, <3>2 DEF LockInv
    <2> QED BY <2>1, <2>2, <2>3, <2>4 DEF Read
  <1>2. \A s \in Readers \ {r} :
            /\ pc'[s] = pc[s] /\ idx'[s] = idx[s]
            /\ pc[s] \in InShard => rflow'[idx[s]] = rflow[idx[s]] /\ idx[s] \in holder'
    BY OthersShard
  <1>3. \A s \in Readers : pc'[s] \in InShard => idx'[s] \in holder'
    BY <1>1, <1>2
  <1>4. \A s, t \in Readers :
            pc'[s] \in InShard /\ pc'[t] \in InShard /\ idx'[s] = idx'[t] => s = t
    BY <1>1, <1>2 DEF LockInv
  <1>5. \A s \in Readers : pc'[s] \in Choosing => rflow'[idx'[s]] >= 0
    BY <1>1, <1>2 DEF LockInv, InShard
  <1> QED BY <1>3, <1>4, <1>5 DEF LockInv

LEMMA NextType == ASSUME TypeInv, [Next]_vars PROVE TypeInv'
  <1>1. ASSUME NEW r \in Readers, Read(r) PROVE TypeInv'
    <2>1. Typed'
      BY <1>1, ReadStartType, PickShardType, RefillType, ChargesType, ReturnRateType,
         CopyOutType DEF Read, Charges, TypeInv
    <2> QED BY <1>1, <2>1, ReadLocks DEF TypeInv
  <1>2. ASSUME Typed', UNCHANGED <<rflow, holder, pc, idx>> PROVE TypeInv'
    BY <1>2 DEF TypeInv, LockInv
  <1>3. ASSUME NEW p \in Params, UpdateParameter(p) PROVE TypeInv'
    BY <1>2, <1>3, UpdateType DEF UpdateParameter, readerVars, TypeInv
  <1>4. CASE Tick
    BY <1>2, <1>4, TickType DEF Tick, actionVars, readerVars, TypeInv
  <1>5. CASE Cancel \/ UNCHANGED vars
    BY <1>2, <1>5, StutterType DEF Cancel, vars, actionVars, readerVars, TypeInv
  <1> QED BY <1>1, <1>3, <1>4, <1>5 DEF Next

\* Type correctness while UpdateParameter stores a new rate and burst under
\* readers that are in GetReadSize: what remains of a burst stays between zero
\* and the burst, and what a call charges and returns is never negative, though
\* a shard may be left overdrawn.
THEOREM LimiterTyped == Spec => []TypeOK
  <1>1. TypeInv => TypeOK
    BY DEF TypeInv, Typed
  <1> QED BY InitType, NextType, <1>1, PTL DEF Spec
-----------------------------------------------------------------------------
(* The rate as one call of GetReadSize sees it                             *)

\* The configuration loop stores no other rate while readers run.
OneRate == ~MayUpdate \/ \A p, q \in Params : Rate(p) = Rate(q)

RateKept == MayUpdate => \A p \in Params : readRate = Rate(p)

RateInv ==
    /\ TypeInv
    /\ OneRate => RateKept
    /\ OneRate \/ steady => Undrawn

LEMMA InitRate == Init => RateInv
  <1> SUFFICES ASSUME Init PROVE RateInv
    OBVIOUS
  <1>1. OneRate => RateKept
    BY DEF Init, OneRate, RateKept
  <1>2. slimitMaxFlow \in Nat /\ rflow = [i \in Shards |-> slimitMaxFlow]
    BY InitType, BudgetBounds DEF Init, TypeInv, Typed
  <1>3. Undrawn
    BY <1>2 DEF Init, Undrawn, NoOverdraft
  <1> QED BY InitType, <1>1, <1>3 DEF RateInv

LEMMA ReadUndrawn ==
    ASSUME TypeInv, Undrawn, NEW r \in Readers, Read(r) PROVE Undrawn'
  <1> USE DEF TypeInv, Typed, TypeOK
  <1>1. NoOverdraft'
    <2>1. CASE Charges(r)
      <3>1. PICK n \in Nat : ChargedWith(r, n)
        BY <2>1, Charged
      <3> QED BY <3>1 DEF ChargedWith, Undrawn, NoOverdraft
    <2>2. CASE Refill(r)
      <3>1. Share >= 0 /\ Share \in Int
        BY BudgetBounds
      <3>2. UNCHANGED rflow \/ rflow' = [rflow EXCEPT ![idx[r]] = Share]
        BY <2>2 DEF Refill, actionVars
      <3> QED BY <3>1, <3>2 DEF Undrawn, NoOverdraft
    <2>3. CASE ReadStart(r) \/ PickShard(r) \/ ReturnRate(r) \/ CopyOut(r)
      BY <2>3 DEF ReadStart, PickShard, ReturnRate, CopyOut, actionVars, Undrawn, NoOverdraft
    <2> QED BY <2>1, <2>2, <2>3 DEF Read, Charges
  <1>2. UNCHANGED readRate
    BY DEF Read, ReadStart, PickShard, Refill, Grant, GrantData, ChargeRate, ReturnRate,
           CopyOut, actionVars, restVars
  <1>3. \A s \in Readers \ {r} :
            pc'[s] \in {"cap", "charge"} => readRate' < rflow'[idx'[s]]
    BY <1>2, OthersShard DEF Undrawn, InShard, Choosing
  <1>4. pc'[r] \in {"cap", "charge"} => readRate' < rflow'[idx'[r]]
    <2>1. CASE Grant(r)
      <3>1. pc'[r] \in {"cap", "charge"} => readRate < rflow[idx[r]] /\ UNCHANGED <<rflow, idx>>
        BY <2>1 DEF Grant, Return, GoOn, restVars
      <3> QED BY <1>2, <3>1
    <2>2. CASE GrantData(r)
      <3>1. pc[r] = "cap" /\ (pc'[r] \in {"cap", "charge"} => UNCHANGED <<rflow, idx>>)
        BY <2>2 DEF GrantData, Return, GoOn, restVars
      <3> QED BY <1>2, <3>1 DEF Undrawn
    <2>3. CASE ~(Grant(r) \/ GrantData(r))
      BY <2>3 DEF Read, ReadStart, PickShard, Refill, ChargeRate, ReturnRate, CopyOut,
                  Return, GoOn
    <2> QED BY <2>1, <2>2, <2>3
  <1> QED BY <1>1, <1>3, <1>4 DEF Undrawn

LEMMA NextRate == ASSUME RateInv, [Next]_vars PROVE RateInv'
  <1>1. TypeInv'
    BY NextType DEF RateInv
  <1>2. ASSUME UNCHANGED <<readRate, rflow, pc, idx, steady>> PROVE RateInv'
    BY <1>1, <1>2 DEF RateInv, RateKept, Undrawn, NoOverdraft
  <1>3. ASSUME NEW r \in Readers, Read(r) PROVE RateInv'
    <2>1. UNCHANGED <<readRate, steady>>
      BY <1>3 DEF Read, ReadStart, PickShard, Refill, Grant, GrantData, ChargeRate,
                  ReturnRate, CopyOut, actionVars, restVars
    <2> QED BY <1>1, <1>3, <2>1, ReadUndrawn DEF RateInv, RateKept
  <1>4. ASSUME NEW p \in Params, UpdateParameter(p) PROVE RateInv'
    <2>1. ~steady' /\ UNCHANGED <<rflow, pc, idx>> /\ MayUpdate /\ readRate' = Rate(p)
      BY <1>4 DEF UpdateParameter, readerVars
    <2>2. CASE OneRate
      <3>1. UNCHANGED readRate
        BY <2>1, <2>2 DEF RateInv, RateKept
      <3> QED BY <1>1, <2>1, <2>2, <3>1 DEF RateInv, RateKept, Undrawn, NoOverdraft
    <2> QED BY <1>1, <2>1, <2>2 DEF RateInv
  <1>5. CASE Tick \/ Cancel \/ UNCHANGED vars
    BY <1>2, <1>5 DEF Tick, Cancel, vars, actionVars, readerVars
  <1> QED BY <1>3, <1>4, <1>5 DEF Next

\* No shard is charged with more than lies in it before UpdateParameter is
\* called, nor ever when all the rates it may be called with are the same.
THEOREM NeverOverdrawn == Spec => [](OneRate \/ steady => NoOverdraft)
  <1>1. RateInv => (OneRate \/ steady => NoOverdraft)
    BY DEF RateInv, Undrawn
  <1> QED BY InitRate, NextRate, <1>1, PTL DEF Spec
-----------------------------------------------------------------------------
(* What a reader has left in its buffer                                    *)

\* One reader: its buffer never holds more than the capacity behind it, and a
\* size it was granted, or is about to be, is in the buffer.
Intact(r) ==
    /\ pc[r] # "panic" /\ llen[r] \in 0 .. room[r]
    /\ delivered[r] + llen[r] + left[r] = Total
    /\ pc[r] \in {"charge", "rate"} => readRate < llen[r]
    /\ pc[r] = "got" => size[r] <= llen[r]

StreamInv == RateInv /\ \A r \in Readers : Intact(r)

LEMMA InitStream == ASSUME OneRate PROVE Init => StreamInv
  <1> SUFFICES ASSUME Init PROVE StreamInv
    OBVIOUS
  <1>2. \A r \in Readers : /\ pc[r] = "start" /\ llen[r] = 0 /\ room[r] = BufSize
                            /\ left[r] = Total /\ delivered[r] = 0
    BY DEF Init
  <1>3. \A r \in Readers : Intact(r)
    <2> SUFFICES ASSUME NEW r \in Readers PROVE Intact(r)
      OBVIOUS
    <2>1. llen[r] \in 0 .. room[r] /\ delivered[r] + llen[r] + left[r] = Total
      BY <1>2, BufPositive
    <2> QED BY <1>2, <2>1 DEF Intact
  <1> QED BY InitRate, <1>3 DEF StreamInv

\* A reader that does not move keeps its part while the rate stays.
LEMMA OthersIntact ==
    ASSUME NEW s \in Readers, Intact(s), UNCHANGED readRate,
           pc'[s] = pc[s], llen'[s] = llen[s], room'[s] = room[s],
           delivered'[s] = delivered[s], left'[s] = left[s], size'[s] = size[s]
    PROVE  Intact(s)'
  BY DEF Intact

LEMMA ReadStartIntact ==
    ASSUME StreamInv, NEW r \in Readers, ReadStart(r) PROVE Intact(r)'
  <1> USE DEF StreamInv, RateInv, TypeInv, Typed, TypeOK
  <1>1. pc'[r] \in {"pick", "end"}
    BY DEF ReadStart
  <1>2. CASE UNCHANGED <<llen, room, left>>
    BY <1>1, <1>2 DEF ReadStart, Intact
  <1>3. CASE llen[r] = 0 /\ \E n \in 1 .. Least(BufSize, left[r]) :
                 /\ llen' = [llen EXCEPT ![r] = n]
                 /\ left' = [left EXCEPT ![r] = @ - n]
                 /\ room' = [room EXCEPT ![r] = BufSize]
    <2>1. PICK n \in 1 .. Least(BufSize, left[r]) :
                 /\ llen' = [llen EXCEPT ![r] = n]
                 /\ left' = [left EXCEPT ![r] = @ - n]
                 /\ room' = [room EXCEPT ![r] = BufSize]
      BY <1>3
    <2>2. n \in Nat \ {0} /\ n <= BufSize
      BY BufPositive DEF Least
    <2>3. /\ llen'[r] = n /\ left'[r] = left[r] - n /\ room'[r] = BufSize
          /\ delivered'[r] = delivered[r]
      BY <2>1 DEF ReadStart
    <2> QED BY <1>1, <1>3, <2>2, <2>3, BufPositive DEF Intact
  <1> QED BY <1>2, <1>3 DEF ReadStart

LEMMA RefillIntact ==
    ASSUME StreamInv, NEW r \in Readers, Refill(r) PROVE Intact(r)'
  <1> USE DEF StreamInv, RateInv, TypeInv, Typed, TypeOK
  <1>1. /\ pc'[r] = "grant" \/ (pc'[r] = "got" /\ size'[r] = 0)
        /\ UNCHANGED <<readRate, llen, room, left, delivered>>
    BY DEF Refill, actionVars
  <1> QED BY <1>1 DEF Intact

LEMMA ChargesIntact ==
    ASSUME StreamInv, NEW r \in Readers, Charges(r) PROVE Intact(r)'
  <1> USE DEF StreamInv, RateInv, TypeInv, Typed, TypeOK
  <1>1. UNCHANGED <<readRate, llen, room, left, delivered>>
    BY DEF Charges, Grant, GrantData, ChargeRate, restVars
  <1>2. pc[r] = "grant" => Available(r) <= llen[r]
    BY AvailableBounds
  <1>3. /\ pc'[r] # "panic"
        /\ pc'[r] \in {"charge", "rate"} => readRate < llen[r]
        /\ pc'[r] = "got" => size'[r] <= llen[r]
    <2>1. CASE Grant(r)
      BY <1>2, <2>1 DEF Grant, Return, GoOn
    <2>2. CASE GrantData(r)
      BY <2>2 DEF GrantData, Return, GoOn
    <2>3. CASE ChargeRate(r)
      BY <2>3 DEF ChargeRate, GoOn, Intact
    <2> QED BY <2>1, <2>2, <2>3 DEF Charges
  <1> QED BY <1>1, <1>3 DEF Intact

LEMMA CopyOutIntact ==
    ASSUME StreamInv, NEW r \in Readers, CopyOut(r) PROVE Intact(r)'
  <1> USE DEF StreamInv, RateInv, TypeInv, Typed, TypeOK
  <1> DEFINE n == Least(Forced(r), CallerSize)
  <1>1. llen[r] > 0 /\ size[r] \in 0 .. llen[r] /\ llen[r] <= room[r]
    BY DEF CopyOut, HasData, Choosing, InShard, InRead, Intact
  <1>2. n \in 1 .. llen[r]
    BY <1>1, CallerPositive DEF Forced, Least
  <1>3. /\ pc'[r] = "start" /\ llen'[r] = llen[r] - n /\ room'[r] = room[r] - n
        /\ delivered'[r] = delivered[r] + n /\ UNCHANGED left
    BY <1>1, <1>2 DEF CopyOut
  <1> QED BY <1>1, <1>2, <1>3 DEF Intact

LEMMA ReadStream ==
    ASSUME StreamInv, NEW r \in Readers, Read(r) PROVE StreamInv'
  <1>1. RateInv'
    BY NextRate DEF StreamInv, Next
  <1>2. UNCHANGED readRate
    BY DEF Read, ReadStart, PickShard, Refill, Grant, GrantData, ChargeRate, ReturnRate,
           CopyOut, actionVars, restVars
  <1>3. \A s \in Readers \ {r} : Intact(s)'
    <2> SUFFICES ASSUME NEW s \in Readers \ {r} PROVE Intact(s)'
      OBVIOUS
    <2>1. /\ pc'[s] = pc[s] /\ llen'[s] = llen[s] /\ room'[s] = room[s]
          /\ delivered'[s] = delivered[s] /\ left'[s] = left[s] /\ size'[s] = size[s]
      BY DEF StreamInv, RateInv, TypeInv, Typed, TypeOK, Read, ReadStart, PickShard, Refill,
             Grant, GrantData, ChargeRate, ReturnRate, CopyOut, Return, GoOn, restVars
    <2> QED BY <1>2, <2>1, OthersIntact DEF StreamInv
  <1>4. Intact(r)'
    <2> USE DEF StreamInv, RateInv, TypeInv, Typed, TypeOK
    <2>1. CASE PickShard(r)
      BY <2>1 DEF PickShard, actionVars, Intact
    <2>2. CASE ReturnRate(r)
      BY <2>2 DEF ReturnRate, Return, restVars, Intact
    <2> QED BY <2>1, <2>2, ReadStartIntact, RefillIntact, ChargesIntact, CopyOutIntact
            DEF Read, Charges
  <1> QED BY <1>1, <1>3, <1>4 DEF StreamInv

LEMMA NextStream == ASSUME OneRate, StreamInv, [Next]_vars PROVE StreamInv'
  <1>1. RateInv'
    BY NextRate DEF StreamInv
  <1>2. ASSUME UNCHANGED <<readRate, readerVars>> PROVE StreamInv'
    BY <1>1, <1>2, OthersIntact DEF StreamInv, readerVars
  <1>3. ASSUME NEW p \in Params, UpdateParameter(p) PROVE StreamInv'
    BY <1>2, <1>3 DEF UpdateParameter, OneRate, StreamInv, RateInv, RateKept
  <1>4. CASE Tick \/ Cancel \/ UNCHANGED vars
    BY <1>2, <1>4 DEF Tick, Cancel, vars, actionVars, readerVars
  <1> QED BY <1>3, <1>4, ReadStream DEF Next

\* While the rate does not change, whatever the burst does, Read passes on
\* exactly the bytes it took from the source and never slices past its buffer.
THEOREM StreamKept == ASSUME OneRate PROVE Spec => []StreamIntact
  <1>1. Init => StreamInv
    BY OneRate, InitStream
  <1>2. StreamInv /\ [Next]_vars => StreamInv'
    BY OneRate, NextStream
  <1>3. StreamInv => StreamIntact
    <2> SUFFICES ASSUME StreamInv, NEW r \in Readers
                 PROVE  /\ pc[r] # "panic" /\ llen[r] >= 0
                        /\ delivered[r] + llen[r] + left[r] = Total
      BY DEF StreamIntact
    <2>1. llen[r] \in 0 .. room[r] /\ llen[r] \in Int /\ room[r] \in Int
      BY DEF StreamInv, RateInv, Intact, TypeInv, Typed, TypeOK
    <2> QED BY <2>1 DEF StreamInv, Intact
  <1> QED BY <1>1, <1>2, <1>3, PTL DEF Spec
-----------------------------------------------------------------------------
(* The budget of a second                                                  *)

\* A flow f as a set: one token for every byte that lies in a shard.
Tokens(f, m) == {t \in Shards \X (1 .. m) : t[2] <= f[t[1]]}

LEMMA TokensFinite ==
    ASSUME NEW m \in Nat, NEW f
    PROVE  /\ IsFiniteSet(Tokens(f, m)) /\ Cardinality(Tokens(f, m)) \in Nat
           /\ Cardinality(Tokens(f, m)) <= LimitshareSize * m
  <1>1. IsFiniteSet(Shards) /\ Cardinality(Shards) = LimitshareSize
    BY SharesPositive, FS_Interval DEF Shards
  <1>2. IsFiniteSet(1 .. m) /\ Cardinality(1 .. m) = m
    BY FS_Interval
  <1>3. /\ IsFiniteSet(Shards \X (1 .. m))
        /\ Cardinality(Shards \X (1 .. m)) = LimitshareSize * m
    BY <1>1, <1>2, FS_Product
  <1>4. Tokens(f, m) \in SUBSET (Shards \X (1 .. m))
    BY DEF Tokens
  <1> QED BY <1>3, <1>4, FS_Subset, FS_CardinalityType

\* The tokens of a row.
LEMMA RowTokens ==
    ASSUME NEW i, NEW T, IsFiniteSet(T)
    PROVE  IsFiniteSet({i} \X T) /\ Cardinality({i} \X T) = Cardinality(T)
  <1>1. IsFiniteSet({i}) /\ Cardinality({i}) = 1
    BY FS_Singleton
  <1>2. IsFiniteSet({i} \X T) /\ Cardinality({i} \X T) = Cardinality({i}) * Cardinality(T)
    BY <1>1, FS_Product, Zenon
  <1>3. Cardinality(T) \in Nat
    BY FS_CardinalityType
  <1>4. \A n \in Nat : 1 * n = n
    OBVIOUS
  <1>5. Cardinality({i}) * Cardinality(T) = Cardinality(T)
    BY <1>1, <1>3, <1>4, Zenon
  <1> QED BY <1>2, <1>5

\* Raising one shard from f[i] to k adds k - f[i] tokens.
LEMMA TokensRaised ==
    ASSUME NEW m \in Nat, NEW f \in [Shards -> 0 .. m], NEW i \in Shards,
           NEW k \in 0 .. m, f[i] <= k
    PROVE  Cardinality(Tokens([f EXCEPT ![i] = k], m))
               = Cardinality(Tokens(f, m)) + k - f[i]
  <1> DEFINE g == [f EXCEPT ![i] = k]
             new == {i} \X (f[i] + 1 .. k)
  <1>1. f[i] \in 0 .. m /\ f[i] + 1 \in Int /\ k \in Int
    OBVIOUS
  <1>2. IsFiniteSet(f[i] + 1 .. k) /\ Cardinality(f[i] + 1 .. k) = k - f[i]
    <2>1. /\ IsFiniteSet(f[i] + 1 .. k)
          /\ Cardinality(f[i] + 1 .. k) = IF f[i] + 1 > k THEN 0 ELSE k - (f[i] + 1) + 1
      BY <1>1, FS_Interval
    <2> QED BY <1>1, <2>1
  <1>3. IsFiniteSet(new) /\ Cardinality(new) = k - f[i]
    BY <1>2, RowTokens
  <1>4. Tokens(g, m) = Tokens(f, m) \cup new
    <2>1. ASSUME NEW t \in Shards \X (1 .. m)
          PROVE  t \in Tokens(g, m) <=> t \in Tokens(f, m) \cup new
      <3>1. CASE t[1] = i
        BY <1>1, <2>1, <3>1 DEF Tokens
      <3>2. CASE t[1] # i
        BY <2>1, <3>2 DEF Tokens
      <3> QED BY <3>1, <3>2
    <2>2. new \subseteq Shards \X (1 .. m)
      BY <1>1
    <2>3. Tokens(f, m) \subseteq Shards \X (1 .. m) /\ Tokens(g, m) \subseteq Shards \X (1 .. m)
      BY DEF Tokens
    <2> QED BY <2>1, <2>2, <2>3
  <1>5. Tokens(f, m) \cap new = {}
    BY <1>1 DEF Tokens
  <1>6. IsFiniteSet(Tokens(f, m)) /\ Cardinality(Tokens(f, m)) \in Nat
    BY TokensFinite
  <1>7. Cardinality(Tokens(g, m)) = Cardinality(Tokens(f, m)) + Cardinality(new) - 0
    <2>1. Cardinality(Tokens(f, m) \cup new)
              = Cardinality(Tokens(f, m)) + Cardinality(new) - Cardinality(Tokens(f, m) \cap new)
      BY <1>3, <1>6, FS_Union
    <2> QED BY <1>4, <1>5, <2>1, FS_EmptySet
  <1> QED BY <1>1, <1>3, <1>6, <1>7

\* What lies in the shards.
InShards == Cardinality(Tokens(rflow, slimitMaxFlow))

\* Until UpdateParameter comes: what was granted in this second, lies in the
\* shards or may still be given to them is two bursts at most.
BurstInv ==
    /\ RateInv
    /\ steady => /\ rflow \in [Shards -> 0 .. slimitMaxFlow]
                 /\ granted + InShards + Budget <= 2 * readBurst

\* The shards together never hold more than one burst.
LEMMA OneBurst == ASSUME TypeOK PROVE InShards \in 0 .. readBurst
  <1>1. slimitMaxFlow \in Nat /\ LimitshareSize * slimitMaxFlow <= readBurst
    BY DivShare, SharesPositive DEF TypeOK
  <1> QED BY <1>1, TokensFinite, SharesPositive DEF InShards, TypeOK

LEMMA BurstTyped ==
    ASSUME TypeOK
    PROVE  Budget \in Nat /\ InShards \in Nat /\ granted \in Nat /\ readBurst \in Nat
  BY BudgetBounds, OneBurst DEF TypeOK

LEMMA InitBurst == Init => BurstInv
  <1> SUFFICES ASSUME Init PROVE BurstInv
    OBVIOUS
  <1>1. RateInv
    BY InitRate
  <1>2. rflow \in [Shards -> 0 .. slimitMaxFlow]
    <2>1. slimitMaxFlow \in Nat
      BY <1>1, BudgetBounds DEF RateInv, TypeInv, Typed
    <2> QED BY <2>1 DEF Init
  <1>3. Budget \in 0 .. readBurst /\ InShards \in 0 .. readBurst /\ granted = 0
    BY <1>1, BudgetBounds, OneBurst DEF RateInv, TypeInv, Typed, Init
  <1>4. readBurst \in Nat
    BY <1>1 DEF RateInv, TypeInv, Typed, TypeOK
  <1> QED BY <1>1, <1>2, <1>3, <1>4 DEF BurstInv

\* The refill of a spent shard takes from the budget what it puts in.
LEMMA RefillBurst ==
    ASSUME BurstInv, NEW r \in Readers, Refill(r) PROVE BurstInv'
  <1>1. RateInv'
    BY NextRate DEF BurstInv, Next, Read
  <1>0. InShards' \in Nat /\ Budget' \in Nat
    <2>1. slimitMaxFlow \in Nat /\ UNCHANGED slimitMaxFlow
      BY BudgetBounds DEF BurstInv, RateInv, TypeInv, Typed, Refill, actionVars
    <2> QED BY <1>1, <2>1, TokensFinite DEF InShards, Budget, RateInv, TypeInv, Typed, TypeOK
  <1>2. SUFFICES ASSUME steady
                 PROVE  /\ rflow' \in [Shards -> 0 .. slimitMaxFlow]
                        /\ InShards' + Budget' = InShards + Budget
    <2>1. UNCHANGED <<steady, granted, readBurst, slimitMaxFlow>>
      BY DEF Refill, actionVars
    <2>2. Budget \in Nat /\ InShards \in Nat /\ granted \in Nat /\ readBurst \in Nat
      BY BurstTyped DEF BurstInv, RateInv, TypeInv, Typed
    <2>3. ASSUME InShards' + Budget' = InShards + Budget
          PROVE  granted' + InShards' + Budget' = granted + InShards + Budget
      <3>1. PICK i \in Nat, j \in Nat : InShards' = i /\ Budget' = j
        BY <1>0
      <3> QED BY <2>1, <2>2, <2>3, <3>1
    <2> QED BY <1>1, <2>1, <2>3 DEF BurstInv
  <1>3. idx[r] \in Shards /\ rflow \in [Shards -> 0 .. slimitMaxFlow]
    BY <1>2 DEF BurstInv, RateInv, TypeInv, Typed, TypeOK
  <1>4. /\ Budget \in Nat /\ slimitMaxFlow \in Nat
        /\ Share \in 0 .. slimitMaxFlow /\ Share <= Budget
    BY BudgetBounds DEF BurstInv, RateInv, TypeInv, Typed, TypeOK
  <1>5. InShards \in Nat
    BY OneBurst DEF BurstInv, RateInv, TypeInv, Typed, TypeOK
  <1>6. CASE rflow[idx[r]] > 0
    BY <1>3, <1>6 DEF Refill, actionVars, InShards, Budget
  <1>7. CASE ~(rflow[idx[r]] > 0)
    <2>1. /\ nowTimeUnix' = clock /\ resid' = Budget - Share
          /\ UNCHANGED <<slimitMaxFlow, readBurst, clock>>
      BY <1>7 DEF Refill
    <2>2. Budget' = Budget - Share
      BY <2>1 DEF Budget
    <2>3. CASE Budget = 0
      <3>1. Share = 0 /\ UNCHANGED rflow
        BY <1>4, <1>7, <2>3 DEF Refill
      <3> QED BY <1>3, <1>5, <2>1, <2>2, <2>3, <3>1 DEF InShards
    <2>4. CASE Budget # 0
      <3>1. rflow' = [rflow EXCEPT ![idx[r]] = Share]
        BY <1>7, <2>4 DEF Refill
      <3>2. rflow[idx[r]] = 0
        BY <1>3, <1>4, <1>7
      <3>3. InShards' = InShards + Share
        <4>1. Cardinality(Tokens([rflow EXCEPT ![idx[r]] = Share], slimitMaxFlow))
                  = Cardinality(Tokens(rflow, slimitMaxFlow)) + Share - rflow[idx[r]]
          <5>1. rflow[idx[r]] <= Share
            BY <1>4, <3>2
          <5> QED BY <1>3, <1>4, <5>1, TokensRaised
        <4>2. InShards + Share - 0 = InShards + Share
          BY <1>4, <1>5
        <4> QED BY <2>1, <3>1, <3>2, <4>1, <4>2 DEF InShards
      <3> QED BY <1>3, <1>4, <1>5, <2>1, <2>2, <3>1, <3>3
    <2> QED BY <2>3, <2>4
  <1> QED BY <1>6, <1>7

\* A charge takes from the shard what it adds to granted.
LEMMA ChargesBurst ==
    ASSUME BurstInv, NEW r \in Readers, Charges(r) PROVE BurstInv'
  <1>1. RateInv'
    BY NextRate DEF BurstInv, Next, Read, Charges
  <1>2. UNCHANGED <<steady, readBurst, slimitMaxFlow>> /\ Budget' = Budget
    BY DEF Charges, Grant, GrantData, ChargeRate, restVars, Budget
  <1>3. SUFFICES ASSUME steady
                 PROVE  /\ rflow' \in [Shards -> 0 .. slimitMaxFlow]
                        /\ granted' + InShards' = granted + InShards
    BY <1>1, <1>2 DEF BurstInv
  <1>4. idx[r] \in Shards /\ rflow \in [Shards -> 0 .. slimitMaxFlow] /\ slimitMaxFlow \in Nat
    BY <1>3, BudgetBounds DEF BurstInv, RateInv, TypeInv, Typed, TypeOK
  <1>p. PICK n \in Nat : ChargedWith(r, n)
    BY Charged DEF BurstInv, RateInv
  <1>5. /\ rflow' = [rflow EXCEPT ![idx[r]] = rflow[idx[r]] - n]
        /\ granted' = granted + n
        /\ Undrawn => n <= rflow[idx[r]]
    BY <1>p DEF ChargedWith
  <1>6. n \in 0 .. rflow[idx[r]]
    BY <1>3, <1>4, <1>5 DEF BurstInv, RateInv
  <1>7. rflow' \in [Shards -> 0 .. slimitMaxFlow] /\ rflow'[idx[r]] = rflow[idx[r]] - n
    BY <1>4, <1>5, <1>6
  <1>8. rflow = [rflow' EXCEPT ![idx[r]] = rflow[idx[r]]]
    BY <1>4, <1>5, <1>7
  <1>9. /\ InShards = Cardinality(Tokens(rflow', slimitMaxFlow)) + rflow[idx[r]] - rflow'[idx[r]]
        /\ InShards' = Cardinality(Tokens(rflow', slimitMaxFlow))
    <2>1. rflow[idx[r]] \in 0 .. slimitMaxFlow /\ rflow'[idx[r]] <= rflow[idx[r]]
      BY <1>4, <1>6, <1>7
    <2>2. Cardinality(Tokens([rflow' EXCEPT ![idx[r]] = rflow[idx[r]]], slimitMaxFlow))
              = Cardinality(Tokens(rflow', slimitMaxFlow)) + rflow[idx[r]] - rflow'[idx[r]]
      BY <1>4, <1>7, <2>1, TokensRaised
    <2> QED BY <1>2, <1>8, <2>2 DEF InShards
  <1>10. /\ InShards \in Nat /\ InShards' \in Nat /\ granted \in Nat /\ rflow[idx[r]] \in Nat
    BY <1>4, <1>9, TokensFinite, BurstTyped DEF BurstInv, RateInv, TypeInv, Typed, TypeOK
  <1> QED BY <1>5, <1>7, <1>9, <1>10

\* Steps that touch neither the shards nor the budget.
LEMMA QuietBurst ==
    ASSUME BurstInv, RateInv',
           UNCHANGED <<readBurst, nowTimeUnix, resid, slimitMaxFlow, rflow, clock, granted, steady>>
    PROVE  BurstInv'
  BY DEF BurstInv, InShards, Budget

LEMMA TickBurst == ASSUME BurstInv, Tick PROVE BurstInv'
  <1>1. RateInv'
    BY NextRate DEF BurstInv, Next
  <1>2. Budget' \in 0 .. readBurst /\ granted' = 0 /\ UNCHANGED <<readBurst, steady>>
    BY <1>1 DEF RateInv, TypeInv, Typed, TypeOK, Budget, Tick, actionVars
  <1>3. InShards' = InShards /\ InShards \in 0 .. readBurst /\ readBurst \in Nat
    BY OneBurst DEF BurstInv, RateInv, TypeInv, Typed, TypeOK, Tick, actionVars, InShards
  <1>4. granted' + InShards' + Budget' <= 2 * readBurst'
    <2>1. PICK j \in 0 .. readBurst : Budget' = j
      BY <1>2
    <2> QED BY <1>2, <1>3, <2>1
  <1> QED BY <1>1, <1>2, <1>4 DEF BurstInv, Tick, actionVars

LEMMA NextBurst == ASSUME BurstInv, [Next]_vars PROVE BurstInv'
  <1>1. RateInv'
    BY NextRate DEF BurstInv
  <1>2. ASSUME NEW r \in Readers, Read(r) PROVE BurstInv'
    <2>1. CASE ReadStart(r) \/ PickShard(r) \/ ReturnRate(r) \/ CopyOut(r)
      BY <1>1, <2>1, QuietBurst
         DEF ReadStart, PickShard, ReturnRate, CopyOut, actionVars, restVars
    <2> QED BY <1>2, <2>1, RefillBurst, ChargesBurst DEF Read, Charges
  <1>3. ASSUME NEW p \in Params, UpdateParameter(p) PROVE BurstInv'
    BY <1>1, <1>3 DEF UpdateParameter, BurstInv
  <1>4. CASE Cancel \/ UNCHANGED vars
    BY <1>1, <1>4, QuietBurst DEF Cancel, vars, actionVars
  <1> QED BY <1>2, <1>3, <1>4, TickBurst DEF Next

\* While the parameters do not change, the readers of one limiter together are
\* granted at most two bursts in any second: the shards may be full when it
\* begins, and are refilled from one burst.
THEOREM BurstBound == Spec => []TwoBursts
  <1>1. BurstInv => TwoBursts
    <2> SUFFICES ASSUME BurstInv, steady PROVE granted <= 2 * readBurst
      BY DEF TwoBursts
    <2> QED BY BurstTyped DEF BurstInv, RateInv, TypeInv, Typed
  <1> QED BY InitBurst, NextBurst, <1>1, PTL DEF Spec
=============================================================================
