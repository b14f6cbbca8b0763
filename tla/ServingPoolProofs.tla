-------------------------- MODULE ServingPoolProofs --------------------------
(***************************************************************************)
(* TLAPS proofs about the serving pool, for any finite set of requests, any  *)
(* tenants, quotas, classes and ids, shared or not, and any capacity.       *)
(***************************************************************************)
EXTENDS ServingPool, FiniteSetTheorems, TLAPS

\* try_admit adds one slot, and one to the total.
LEMMA ChargeCounts ==
  ASSUME TypeOK, Counted, NEW t \in Tenants, Charge(t)
  PROVE  usage' \in [Tenants -> Nat] /\ total' \in Nat /\ Counted'
<1> DEFINE new == <<t, usage[t] + 1>>
<1>1. usage' \in [Tenants -> Nat] /\ total' = total + 1 /\ total' \in Nat
  BY DEF TypeOK, Charge
<1>2. SlotsInUse' = SlotsInUse \cup {new} /\ new \notin SlotsInUse
  BY <1>1 DEF TypeOK, Charge, SlotsInUse
<1> QED BY <1>1, <1>2, FS_AddElement DEF Counted

\* release takes one slot off and one from the total, or nothing: it never underflows.
LEMMA RefundCounts ==
  ASSUME TypeOK, Counted, NEW t \in Tenants, Refund(t)
  PROVE  usage' \in [Tenants -> Nat] /\ total' \in Nat /\ Counted'
<1>1. CASE usage[t] = 0
  BY <1>1 DEF TypeOK, Refund, Counted, SlotsInUse
<1>2. CASE usage[t] > 0
  <2> DEFINE old == <<t, usage[t]>>
  <2>1. usage' \in [Tenants -> Nat] /\ usage' = [usage EXCEPT ![t] = @ - 1] /\ total' = total - 1
    BY <1>2 DEF TypeOK, Refund
  <2>2. SlotsInUse' = SlotsInUse \ {old} /\ old \in SlotsInUse
    BY <1>2, <2>1 DEF TypeOK, SlotsInUse
  <2>3. IsFiniteSet(SlotsInUse') /\ Cardinality(SlotsInUse') = Cardinality(SlotsInUse) - 1
    BY <2>2, FS_RemoveElement DEF Counted
  <2>4. Cardinality(SlotsInUse') \in Nat
    BY <2>3, FS_CardinalityType
  <2> QED BY <2>1, <2>3, <2>4 DEF Counted
<1> QED BY <1>1, <1>2 DEF TypeOK

\* Taking a place, a victim's or a free one, keeps the pool well typed.
LEMMA StartTyped ==
  ASSUME TypeOK, Counted, NEW r \in Req, Start(r)
  PROVE  /\ running' \subseteq Req /\ preempted' \subseteq Req
         /\ usage' \in [Tenants -> Nat] /\ total' \in Nat /\ Counted'
         /\ queued' = queued /\ harm' \subseteq HarmKinds
<1>1. usage' \in [Tenants -> Nat] /\ total' \in Nat /\ Counted'
  BY PoolAssumption, ChargeCounts DEF Start
<1>2. running' \subseteq Req /\ preempted' \subseteq Req /\ harm' \subseteq HarmKinds
  <2>1. CASE ~IsFull
    BY <2>1 DEF TypeOK, Start
  <2>2. CASE IsFull
    BY <2>2 DEF TypeOK, Start, HarmKinds
  <2> QED BY <2>1, <2>2
<1> QED BY <1>1, <1>2 DEF Start

\* A step of the pool keeps the state well typed, and the total in step with the counts.
LEMMA PoolTypeStep == TypeOK /\ Counted /\ [Next]_vars => TypeOK' /\ Counted'
<1> SUFFICES ASSUME TypeOK, Counted, [Next]_vars PROVE TypeOK' /\ Counted'
  OBVIOUS
<1> USE PoolAssumption DEF TypeOK, Phases, HarmKinds, Req, pool, book, Goto
<1> DEFINE Good == TypeOK' /\ Counted'
<1>1. UNCHANGED <<usage, total>> => Counted'
  BY DEF Counted, SlotsInUse
<1>2. ASSUME NEW r \in Turn, PreServe(r) PROVE Good
  <2>1. pc' \in [Req -> Phases]
    BY <1>2 DEF PreServe
  <2> QED BY <1>2, <2>1, StartTyped DEF PreServe
<1>3. ASSUME NEW r \in Turn, Enqueue(r) PROVE Good
  <2>1. queued' \in 0..MaxQueue
    BY <1>3 DEF Enqueue, CanWait
  <2>2. pc' \in [Req -> Phases]
    BY <1>3 DEF Enqueue
  <2> QED BY <1>1, <1>3, <2>1, <2>2 DEF Enqueue
<1>4. ASSUME NEW r \in Turn, Refuse(r) \/ Submit(r) \/ ShedAfterReserve(r) PROVE Good
  <2>1. pc' \in [Req -> Phases]
    BY <1>4 DEF Refuse, Submit, ShedAfterReserve
  <2>2. harm' \subseteq HarmKinds
    BY <1>4 DEF Refuse, Submit, ShedAfterReserve
  <2> QED BY <1>1, <1>4, <2>1, <2>2 DEF Refuse, Submit, ShedAfterReserve
<1>5. ASSUME NEW r \in Turn, EndTurn(r) PROVE Good
  <2>1. usage' \in [Tenants -> Nat] /\ total' \in Nat /\ Counted'
    BY <1>5, RefundCounts DEF EndTurn
  <2>2. pc' \in [Req -> Phases] /\ queued' \in 0..MaxQueue
    BY <1>5 DEF EndTurn, Dequeue
  <2>3. running' \subseteq Req /\ harm' \subseteq HarmKinds
    BY <1>5 DEF EndTurn
  <2> QED BY <1>5, <2>1, <2>2, <2>3 DEF EndTurn
<1>6. ASSUME NEW r \in Turn, EndUnplaced(r) PROVE Good
  BY <1>1, <1>6 DEF EndUnplaced
<1>7. ASSUME NEW c \in Call, Lookup(c) \/ InferRefused(c) PROVE Good
  BY <1>1, <1>7 DEF Lookup, InferRefused
<1>8. ASSUME NEW c \in Call, Infer(c) PROVE Good
  <2>1. ledger' \in [Keys -> Hash \cup {"absent", "open"}]
    BY <1>8 DEF Infer, Begin, Keys
  <2>2. pc' \in [Req -> Phases]
    BY <1>8 DEF Infer
  <2> QED BY <1>8, <2>1, <2>2, StartTyped DEF Infer
<1>9. ASSUME NEW c \in Call, Release(c),
             UNCHANGED book \/ \E h \in Hash : Commit(Key(c), h)
      PROVE  Good
  <2>1. /\ ledger' \in [Keys -> Hash \cup {"absent", "open"}]
        /\ billed' \in [Keys -> Nat]
        /\ told' \in [Keys -> SUBSET Hash]
    <3>1. CASE UNCHANGED book
      BY <3>1
    <3>2. ASSUME NEW h \in Hash, Commit(Key(c), h) PROVE ledger' = ledger
            \/ ledger' = [ledger EXCEPT ![Key(c)] = h]
      BY <3>2 DEF Commit
    <3>3. ASSUME NEW h \in Hash, Commit(Key(c), h)
          PROVE  billed' \in [Keys -> Nat] /\ told' \in [Keys -> SUBSET Hash]
      BY <3>3 DEF Commit
    <3> QED BY <1>9, <3>1, <3>2, <3>3
  <2>2. usage' \in [Tenants -> Nat] /\ total' \in Nat /\ Counted'
    BY <1>9, RefundCounts DEF Release
  <2>3. pc' \in [Req -> Phases]
    BY <1>9 DEF Release
  <2>4. running' \subseteq Req /\ harm' \subseteq HarmKinds
    BY <1>9 DEF Release
  <2> QED BY <1>9, <2>1, <2>2, <2>3, <2>4 DEF Release
<1>10. CASE UNCHANGED vars
  BY <1>1, <1>10 DEF vars
<1> QED BY <1>2, <1>3, <1>4, <1>5, <1>6, <1>7, <1>8, <1>9, <1>10
     DEF Next, Complete, CompleteBilled

\* Initially no slot is in use.
LEMMA PoolTypeInit == Init => TypeOK /\ Counted
<1> SUFFICES ASSUME Init PROVE TypeOK /\ Counted
  OBVIOUS
<1>1. SlotsInUse = {}
  BY DEF Init, SlotsInUse
<1> QED BY <1>1, PoolAssumption, FS_EmptySet DEF Init, TypeOK, Counted, Phases, HarmKinds

\* Every reachable state of the pool is well typed: no counter of the limiter goes below
\* zero, though a completion may come twice and for a request that no longer runs.
THEOREM PoolTypeCorrect == Spec => [](TypeOK /\ Counted)
BY PoolTypeInit, PoolTypeStep, PTL DEF Spec

-----------------------------------------------------------------------------
(* Counting who holds a fairness slot *)

\* The sets that are counted are finite.
LEMMA HeldFinite ==
  IsFiniteSet(Held) /\ \A t \in Tenants : IsFiniteSet(HeldBy(t))
BY PoolAssumption, FS_Subset DEF Held, HeldBy

\* A request that takes a slot adds one to its tenant's count and to the pool's.
LEMMA HeldGains ==
  ASSUME TypeOK, NEW r \in Req, NEW p \in Holding, pc[r] \notin Holding, Goto(r, p)
  PROVE  /\ Cardinality(Held)' = Cardinality(Held) + 1
         /\ \A t \in Tenants : Cardinality(HeldBy(t))' =
              IF t = Tenant[r] THEN Cardinality(HeldBy(t)) + 1 ELSE Cardinality(HeldBy(t))
<1> USE DEF TypeOK, Goto
<1>1. Held' = Held \cup {r} /\ r \notin Held
  BY DEF Held
<1>2. \A t \in Tenants :
        HeldBy(t)' = IF t = Tenant[r] THEN HeldBy(t) \cup {r} ELSE HeldBy(t)
  BY <1>1 DEF HeldBy
<1>3. \A t \in Tenants : r \notin HeldBy(t)
  BY <1>1 DEF HeldBy
<1>4. Cardinality(Held') = Cardinality(Held) + 1
  BY <1>1, HeldFinite, FS_AddElement
<1>5. ASSUME NEW t \in Tenants
      PROVE  Cardinality(HeldBy(t)') =
               IF t = Tenant[r] THEN Cardinality(HeldBy(t)) + 1 ELSE Cardinality(HeldBy(t))
  BY <1>2, <1>3, HeldFinite, FS_AddElement
<1> QED BY <1>4, <1>5

\* A request that returns a slot takes one off both.
LEMMA HeldLoses ==
  ASSUME TypeOK, NEW r \in Req, NEW p, p \notin Holding, pc[r] \in Holding, Goto(r, p)
  PROVE  /\ Cardinality(Held)' = Cardinality(Held) - 1
         /\ Cardinality(HeldBy(Tenant[r])) > 0
         /\ \A t \in Tenants : Cardinality(HeldBy(t))' =
              IF t = Tenant[r] THEN Cardinality(HeldBy(t)) - 1 ELSE Cardinality(HeldBy(t))
<1> USE DEF TypeOK, Goto
<1>1. Held' = Held \ {r} /\ r \in Held
  BY DEF Held
<1>2. \A t \in Tenants :
        HeldBy(t)' = IF t = Tenant[r] THEN HeldBy(t) \ {r} ELSE HeldBy(t)
  BY <1>1 DEF HeldBy
<1>3. r \in HeldBy(Tenant[r]) /\ Tenant[r] \in Tenants
  BY <1>1, PoolAssumption DEF HeldBy
<1>4. Cardinality(HeldBy(Tenant[r])) > 0
  BY <1>3, HeldFinite, FS_EmptySet, FS_CardinalityType
<1>5. Cardinality(Held') = Cardinality(Held) - 1
  BY <1>1, HeldFinite, FS_RemoveElement
<1>6. Cardinality(HeldBy(Tenant[r]) \ {r}) = Cardinality(HeldBy(Tenant[r])) - 1
  <2>1. IsFiniteSet(HeldBy(Tenant[r]))
    BY <1>3, HeldFinite
  <2> HIDE DEF TypeOK, Goto
  <2> QED BY <1>3, <2>1, FS_RemoveElement
<1>7. ASSUME NEW t \in Tenants
      PROVE  Cardinality(HeldBy(t)') =
               IF t = Tenant[r] THEN Cardinality(HeldBy(t)) - 1 ELSE Cardinality(HeldBy(t))
  BY <1>2, <1>6
<1> QED BY <1>4, <1>5, <1>7

\* A request that moves between two phases alike changes no count.
LEMMA HeldKeeps ==
  ASSUME TypeOK, NEW r \in Req, NEW p, (pc[r] \in Holding) <=> (p \in Holding), Goto(r, p)
  PROVE  /\ Cardinality(Held)' = Cardinality(Held)
         /\ \A t \in Tenants : Cardinality(HeldBy(t))' = Cardinality(HeldBy(t))
<1>1. Held' = Held
  BY DEF Held, TypeOK, Goto
<1> QED BY <1>1 DEF HeldBy

-----------------------------------------------------------------------------
(* Fair share *)

\* Which phases are a turn's and which a call's, and what a running request holds.
Placed ==
  /\ \A r \in Req : pc[r] \in {"reserved", "waiting", "extra", "stranded"} => r \in Turn
  /\ Sound => \A r \in running : pc[r] \in Holding

\* The limits, which hold whatever a completion returns.
WithinQuota ==
  /\ \A t \in Tenants : usage[t] <= Quota[t]
  /\ total <= FairCap

\* The counts are those of the requests that hold a slot.
CountsHolders ==
  Sound => /\ \A t \in Tenants : Cardinality(HeldBy(t)) = usage[t]
           /\ Cardinality(Held) = total

PoolInv == TypeOK /\ Counted /\ Placed /\ WithinQuota /\ CountsHolders

\* Admission keeps the counts: one slot more, for one request more that holds one.
LEMMA StartKeepsCounts ==
  ASSUME PoolInv, NEW r \in Req, NEW p \in {"reserved", "serving"},
         pc[r] \in {"new", "checked"}, Start(r), Goto(r, p), p = "reserved" => r \in Turn
  PROVE  Placed' /\ WithinQuota' /\ CountsHolders'
<1> USE PoolAssumption DEF PoolInv, TypeOK
<1>1. Sound' => Sound
  BY DEF Start, Sound
<1>2. /\ usage' = [usage EXCEPT ![Tenant[r]] = @ + 1] /\ total' = total + 1
      /\ usage[Tenant[r]] < Quota[Tenant[r]] /\ total < FairCap
      /\ Tenant[r] \in Tenants
  BY DEF Start, CanRun, Fits, Charge
<1>3. WithinQuota'
  BY <1>2 DEF WithinQuota
<1>4. running' \subseteq running \cup {r}
  BY DEF Start
<1>5. Placed'
  BY <1>1, <1>4 DEF Placed, Goto, Holding
<1>6. /\ Cardinality(Held)' = Cardinality(Held) + 1
      /\ \A t \in Tenants : Cardinality(HeldBy(t))' =
           IF t = Tenant[r] THEN Cardinality(HeldBy(t)) + 1 ELSE Cardinality(HeldBy(t))
  BY HeldGains DEF Holding
<1>7. CountsHolders'
  BY <1>1, <1>2, <1>6 DEF CountsHolders
<1> QED BY <1>3, <1>5, <1>7

\* A release keeps the limits.
LEMMA RefundKeepsQuota ==
  ASSUME PoolInv, NEW t \in Tenants, Refund(t)
  PROVE  WithinQuota'
BY PoolAssumption DEF PoolInv, TypeOK, Refund, WithinQuota

\* The first completion of a request that holds a slot keeps the counts.
LEMMA RefundKeepsCounts ==
  ASSUME PoolInv, NEW r \in Req, NEW p \in {"ended", "over"},
         pc[r] \in Holding, Refund(Tenant[r]), Goto(r, p), Sound' => Sound
  PROVE  CountsHolders'
<1> USE PoolAssumption DEF PoolInv, TypeOK
<1>1. /\ Cardinality(Held)' = Cardinality(Held) - 1
      /\ Cardinality(HeldBy(Tenant[r])) > 0
      /\ \A t \in Tenants : Cardinality(HeldBy(t))' =
           IF t = Tenant[r] THEN Cardinality(HeldBy(t)) - 1 ELSE Cardinality(HeldBy(t))
  BY HeldLoses DEF Holding
<1>2. ASSUME Sound
      PROVE  usage' = [usage EXCEPT ![Tenant[r]] = @ - 1] /\ total' = total - 1
  BY <1>1, <1>2 DEF CountsHolders, Refund
<1> QED BY <1>1, <1>2 DEF CountsHolders

\* A step that moves one request between two phases alike, and touches no count.
LEMMA MoveKeepsCounts ==
  ASSUME PoolInv, NEW r \in Req, NEW p, (pc[r] \in Holding) <=> (p \in Holding),
         Goto(r, p), UNCHANGED <<usage, total>>, Sound' => Sound
  PROVE  WithinQuota' /\ CountsHolders'
BY HeldKeeps DEF PoolInv, WithinQuota, CountsHolders

\* Every step of the pool keeps the counts.
LEMMA PoolStep == PoolInv /\ [Next]_vars => PoolInv'
<1> SUFFICES ASSUME PoolInv, [Next]_vars PROVE PoolInv'
  OBVIOUS
<1> USE PoolAssumption DEF PoolInv
<1> DEFINE Good == Placed' /\ WithinQuota' /\ CountsHolders'
<1>1. TypeOK' /\ Counted'
  BY PoolTypeStep
<1>2. ASSUME NEW r \in Turn, PreServe(r) PROVE Good
  BY <1>2, StartKeepsCounts DEF PreServe, Req
<1>3. ASSUME NEW r \in Turn, Enqueue(r) \/ Refuse(r) \/ Submit(r) PROVE Good
  <2>1. PICK p \in {"waiting", "refused", "serving", "extra"} :
          Goto(r, p) /\ ((pc[r] \in Holding) <=> (p \in Holding))
    BY <1>3 DEF Enqueue, Refuse, Submit, Holding
  <2>2. UNCHANGED <<running, usage, total, harm>>
    BY <1>3 DEF Enqueue, Refuse, Submit
  <2>3. Placed'
    BY <2>1, <2>2 DEF Placed, Sound, Goto, TypeOK, Req
  <2> QED BY <2>1, <2>2, <2>3, MoveKeepsCounts DEF Sound, Req
<1>4. ASSUME NEW r \in Turn, ShedAfterReserve(r) \/ EndUnplaced(r) PROVE Good
  <2>1. PICK p \in {"stranded", "over"} :
          Goto(r, p) /\ ((pc[r] \in Holding) <=> (p \in Holding))
    BY <1>4 DEF ShedAfterReserve, EndUnplaced, Holding
  <2>2. UNCHANGED <<running, usage, total>> /\ (Sound' => Sound)
    BY <1>4 DEF ShedAfterReserve, EndUnplaced, Sound
  <2>3. Placed'
    BY <2>1, <2>2 DEF Placed, Goto, TypeOK, Req
  <2> QED BY <2>1, <2>2, <2>3, MoveKeepsCounts DEF Req
<1>5. ASSUME NEW r \in Turn, EndTurn(r) PROVE Good
  <2>1. Tenant[r] \in Tenants /\ r \in Req
    BY DEF Req
  <2>2. WithinQuota'
    BY <1>5, <2>1, RefundKeepsQuota DEF EndTurn
  <2>3. (Sound' => Sound) /\ (Sound' => Freed(r) = {r})
    BY <1>5 DEF EndTurn, Sound
  <2>4. Sound' => pc[r] = "serving"
    BY <1>5, <2>3 DEF EndTurn, Freed, Placed, Holding
  <2>5. Placed'
    BY <1>5, <2>1, <2>3, <2>4 DEF EndTurn, Placed, Goto, TypeOK, Freed
  <2>6. CASE Sound'
    BY <1>5, <2>1, <2>2, <2>3, <2>4, <2>5, <2>6, RefundKeepsCounts DEF EndTurn, Holding
  <2> QED BY <2>2, <2>5, <2>6 DEF CountsHolders
<1>6. ASSUME NEW c \in Call, Lookup(c) \/ InferRefused(c) PROVE Good
  <2>1. PICK p \in {"refused", "checked"} :
          Goto(c, p) /\ ((pc[c] \in Holding) <=> (p \in Holding))
    BY <1>6 DEF Lookup, InferRefused, Holding
  <2>2. UNCHANGED <<running, usage, total, harm>>
    BY <1>6 DEF Lookup, InferRefused
  <2>3. Placed'
    BY <2>1, <2>2, <1>6 DEF Placed, Sound, Goto, TypeOK, Req, Lookup, InferRefused, Holding
  <2> QED BY <2>1, <2>2, <2>3, MoveKeepsCounts DEF Sound, Req
<1>7. ASSUME NEW c \in Call, Infer(c) PROVE Good
  BY <1>7, StartKeepsCounts DEF Infer, Req
<1>8. ASSUME NEW c \in Call, Release(c) PROVE Good
  <2>1. Tenant[c] \in Tenants /\ c \in Req
    BY DEF Req
  <2>2. WithinQuota'
    BY <1>8, <2>1, RefundKeepsQuota DEF Release
  <2>3. Sound' => Sound /\ pc[c] = "serving" /\ Freed(c) \subseteq {c}
    BY <1>8 DEF Release, Sound
  <2>4. PICK p \in {"ended", "over"} : Goto(c, p)
    BY <1>8 DEF Release
  <2>5. Placed'
    BY <1>8, <2>1, <2>3, <2>4 DEF Release, Placed, Goto, TypeOK, Freed
  <2>6. CASE Sound'
    BY <1>8, <2>1, <2>2, <2>3, <2>4, <2>5, <2>6, RefundKeepsCounts DEF Release, Holding
  <2> QED BY <2>2, <2>5, <2>6 DEF CountsHolders
<1>9. CASE UNCHANGED vars
  <2>1. Held' = Held /\ \A t \in Tenants : HeldBy(t)' = HeldBy(t)
    BY <1>9 DEF vars, Held, HeldBy
  <2>2. CountsHolders'
    BY <1>9, <2>1 DEF vars, CountsHolders, Sound
  <2>3. Placed'
    BY <1>9 DEF vars, Placed, Sound
  <2>4. WithinQuota'
    BY <1>9 DEF vars, WithinQuota
  <2> QED BY <1>1, <2>2, <2>3, <2>4
<1> QED BY <1>1, <1>2, <1>3, <1>4, <1>5, <1>6, <1>7, <1>8, <1>9
     DEF Next, Complete, CompleteBilled

\* Initially nothing is held.
LEMMA PoolInit == Init => PoolInv
<1> SUFFICES ASSUME Init PROVE PoolInv
  OBVIOUS
<1>1. Held = {} /\ \A t \in Tenants : HeldBy(t) = {}
  BY DEF Init, Held, HeldBy, Holding
<1>2. CountsHolders
  BY <1>1, FS_EmptySet DEF Init, CountsHolders
<1>3. Placed /\ WithinQuota
  BY PoolAssumption DEF Init, Placed, WithinQuota
<1> QED BY <1>2, <1>3, PoolTypeInit DEF PoolInv

\* For any requests, quotas and ids: as long as no completion has returned what was not
\* its own, what the requests of a tenant hold is what is counted, within its quota.
THEOREM FairShareHolds == Spec => []FairShare
<1>1. PoolInv => FairShare
  BY DEF PoolInv, WithinQuota, CountsHolders, FairShare
<1> QED BY <1>1, PoolInit, PoolStep, PTL DEF Spec

-----------------------------------------------------------------------------
(* The guaranteed share *)

\* The slots that quotas add up to are finitely many.
LEMMA QuotaSlotsFinite == IsFiniteSet(SlotsOf(Tenants))
<1> DEFINE S == {{t} \X (1..Quota[t]) : t \in Tenants}
<1> DEFINE f == [t \in Tenants |-> {t} \X (1..Quota[t])]
<1>1. ASSUME NEW t \in Tenants PROVE IsFiniteSet({t} \X (1..Quota[t]))
  <2>1. Quota[t] \in Int
    BY PoolAssumption
  <2>2. IsFiniteSet({t}) /\ IsFiniteSet(1..Quota[t])
    <3>1. IsFiniteSet({t})
      BY FS_Singleton
    <3>2. 1 \in Int
      OBVIOUS
    <3>3. IsFiniteSet(1..Quota[t])
      BY <2>1, <3>2, FS_Interval
    <3> QED BY <3>1, <3>3
  <2> QED BY <2>2, FS_Product
<1>2. f \in Surjection(Tenants, S)
  BY DEF Surjection
<1>3. IsFiniteSet(S)
  BY <1>2, PoolAssumption, FS_Surjection
<1> QED BY <1>1, <1>3, FS_UNION DEF SlotsOf

\* If the quotas of all tenants fit into the pool, a tenant below its own quota always
\* finds a slot, whatever the others demand.
THEOREM GuaranteedShareHolds == Spec => []GuaranteedShare
<1>1. PoolInv => GuaranteedShare
  <2> SUFFICES ASSUME PoolInv, Cardinality(SlotsOf(Tenants)) <= FairCap,
                      NEW t \in Tenants, usage[t] < Quota[t]
               PROVE  total < FairCap
    BY DEF GuaranteedShare
  <2> USE PoolAssumption DEF PoolInv, TypeOK
  <2>1. SlotsInUse \subseteq SlotsOf(Tenants)
    BY DEF SlotsInUse, SlotsOf, WithinQuota
  <2>2. <<t, Quota[t]>> \in SlotsOf(Tenants) /\ <<t, Quota[t]>> \notin SlotsInUse
    BY DEF SlotsInUse, SlotsOf
  <2>3. Cardinality(SlotsInUse) < Cardinality(SlotsOf(Tenants))
    <3>1. SlotsInUse # SlotsOf(Tenants) /\ SlotsInUse \in SUBSET SlotsOf(Tenants)
      BY <2>1, <2>2
    <3>2. /\ Cardinality(SlotsInUse) <= Cardinality(SlotsOf(Tenants))
          /\ Cardinality(SlotsInUse) # Cardinality(SlotsOf(Tenants))
      BY <3>1, QuotaSlotsFinite, FS_Subset
    <3>3. Cardinality(SlotsInUse) \in Nat /\ Cardinality(SlotsOf(Tenants)) \in Nat
      BY QuotaSlotsFinite, FS_CardinalityType DEF Counted
    <3> QED BY <3>2, <3>3
  <2> QED BY <2>3, QuotaSlotsFinite, FS_CardinalityType DEF Counted
<1> QED BY <1>1, PoolInit, PoolStep, PTL DEF Spec

-----------------------------------------------------------------------------
(* The scheduler *)

\* One more element adds at most one; one for another adds nothing.
LEMMA CardinalityAfter ==
  ASSUME NEW S, NEW x, IsFiniteSet(S)
  PROVE  /\ Cardinality(S) \in Nat
         /\ Cardinality(S \cup {x}) <= Cardinality(S) + 1
         /\ \A v \in S : Cardinality((S \ {v}) \cup {x}) <= Cardinality(S)
<1>1. Cardinality(S) \in Nat /\ Cardinality(S \cup {x}) <= Cardinality(S) + 1
  <2>1. Cardinality(S) \in Nat
    BY FS_CardinalityType
  <2>2. Cardinality(S \cup {x}) = IF x \in S THEN Cardinality(S) ELSE Cardinality(S) + 1
    BY FS_AddElement
  <2> QED BY <2>1, <2>2
<1>2. ASSUME NEW v \in S PROVE Cardinality((S \ {v}) \cup {x}) <= Cardinality(S)
  <2>1. IsFiniteSet(S \ {v}) /\ Cardinality(S \ {v}) = Cardinality(S) - 1
    BY FS_RemoveElement
  <2>2. Cardinality((S \ {v}) \cup {x}) <= Cardinality(S \ {v}) + 1
    <3>1. Cardinality(S \ {v}) \in Nat
      BY <2>1, FS_CardinalityType
    <3>2. Cardinality((S \ {v}) \cup {x}) =
            IF x \in S \ {v} THEN Cardinality(S \ {v}) ELSE Cardinality(S \ {v}) + 1
      BY <2>1, FS_AddElement
    <3> QED BY <3>1, <3>2
  <2> QED BY <1>1, <2>1, <2>2
<1> QED BY <1>1, <1>2

\* At most Capacity requests run and every id is live once, evicted ones included.
THEOREM PlacesAreDistinct == Spec => []PlacesDistinct
<1> USE PoolAssumption
<1>1. Init => PlacesDistinct
  BY FS_EmptySet DEF Init, PlacesDistinct
<1>2. TypeOK /\ PlacesDistinct /\ [Next]_vars => PlacesDistinct'
  <2> SUFFICES ASSUME TypeOK, PlacesDistinct, [Next]_vars PROVE PlacesDistinct'
    OBVIOUS
  <2> USE DEF TypeOK
  <2>1. IsFiniteSet(running) /\ Cardinality(running) \in Nat
    BY FS_Subset, FS_CardinalityType
  <2>2. ASSUME NEW r \in Req, Start(r) PROVE PlacesDistinct'
    <3>1. \A q \in running \cup preempted : Seq[q] # Seq[r]
      BY <2>2 DEF Start, CanRun, IsLive
    <3>2. CASE ~IsFull
      <4>1. running' = running \cup {r} /\ preempted' = preempted
        BY <2>2, <3>2 DEF Start
      <4>2. Cardinality(running) < Capacity
        BY <2>1, <3>2 DEF IsFull
      <4>3. Cardinality(running \cup {r}) <= Capacity
        <5>1. IsFiniteSet(running \cup {r}) /\ Cardinality(running \cup {r}) \in Nat
          BY <2>1, FS_AddElement, FS_CardinalityType
        <5>2. Cardinality(running \cup {r}) <= Cardinality(running) + 1
          BY <2>1, CardinalityAfter
        <5> QED BY <2>1, <4>2, <5>1, <5>2
      <4> QED BY <3>1, <4>1, <4>3 DEF PlacesDistinct
    <3>3. CASE IsFull
      <4>1. PICK v \in running : /\ running' = (running \ {v}) \cup {r}
                                /\ preempted' = preempted \cup {v}
        BY <2>2, <3>3 DEF Start
      <4>2. Cardinality(running') <= Cardinality(running)
        BY <2>1, <4>1, CardinalityAfter
      <4>3. Cardinality(running') \in Nat
        BY <2>1, <4>1, FS_RemoveElement, FS_AddElement, FS_CardinalityType
      <4>4. Cardinality(running') <= Capacity
        BY <2>1, <4>2, <4>3 DEF PlacesDistinct
      <4> QED BY <3>1, <4>1, <4>4 DEF PlacesDistinct
    <3> QED BY <3>2, <3>3
  <2>3. ASSUME running' \subseteq running, preempted' = preempted PROVE PlacesDistinct'
    <3>1. Cardinality(running') <= Cardinality(running) /\ Cardinality(running') \in Nat
      BY <2>1, <2>3, FS_Subset, FS_CardinalityType
    <3> QED BY <2>1, <2>3, <3>1 DEF PlacesDistinct
  <2>4. ASSUME NEW r \in Turn, PreServe(r) PROVE PlacesDistinct'
    BY <2>2, <2>4 DEF PreServe, Req
  <2>5. ASSUME NEW c \in Call, Infer(c) PROVE PlacesDistinct'
    BY <2>2, <2>5 DEF Infer, Req
  <2>6. ASSUME NEW r \in Turn, \/ Enqueue(r) \/ Refuse(r) \/ Submit(r)
                               \/ ShedAfterReserve(r) \/ EndTurn(r) \/ EndUnplaced(r)
        PROVE  PlacesDistinct'
    BY <2>3, <2>6 DEF Enqueue, Refuse, Submit, ShedAfterReserve, EndTurn, EndUnplaced
  <2>7. ASSUME NEW c \in Call, Lookup(c) \/ InferRefused(c) \/ Release(c)
        PROVE  PlacesDistinct'
    BY <2>3, <2>7 DEF Lookup, InferRefused, Release
  <2>8. CASE UNCHANGED vars
    BY <2>3, <2>8 DEF vars
  <2> QED BY <2>4, <2>5, <2>6, <2>7, <2>8 DEF Next, Complete, CompleteBilled
<1> QED BY <1>1, <1>2, PoolTypeCorrect, PTL DEF Spec

\* A place belongs to a request still being served, unless a turn was shed after it
\* had reserved or a completion came for what was not its own.
THEOREM PlacesHaveOwners == Spec => []PlaceHasOwner
<1>1. Init => PlaceHasOwner
  BY DEF Init, PlaceHasOwner
<1>2. TypeOK /\ PlaceHasOwner /\ [Next]_vars => PlaceHasOwner'
  <2> SUFFICES ASSUME TypeOK, PlaceHasOwner, [Next]_vars,
                      Sound', "backpressure" \notin harm'
               PROVE  \A r \in running' : pc'[r] \in {"reserved", "serving"}
    BY DEF PlaceHasOwner
  <2> USE DEF TypeOK, PlaceHasOwner, Sound, Goto, Req
  <2>1. ASSUME NEW r \in Turn, PreServe(r) \/ Enqueue(r) \/ Refuse(r) \/ Submit(r)
        PROVE  \A q \in running' : pc'[q] \in {"reserved", "serving"}
    BY <2>1 DEF PreServe, Start, Enqueue, Refuse, Submit
  <2>2. ASSUME NEW r \in Turn, ShedAfterReserve(r) \/ EndTurn(r) \/ EndUnplaced(r)
        PROVE  \A q \in running' : pc'[q] \in {"reserved", "serving"}
    BY <2>2 DEF ShedAfterReserve, EndTurn, EndUnplaced, Freed
  <2>3. ASSUME NEW c \in Call, Lookup(c) \/ Infer(c) \/ InferRefused(c) \/ Release(c)
        PROVE  \A q \in running' : pc'[q] \in {"reserved", "serving"}
    BY <2>3 DEF Lookup, Infer, Start, InferRefused, Release, Freed
  <2>4. CASE UNCHANGED vars
    BY <2>4 DEF vars
  <2> QED BY <2>1, <2>2, <2>3, <2>4 DEF Next, Complete, CompleteBilled
<1> QED BY <1>1, <1>2, PoolTypeCorrect, PTL DEF Spec

-----------------------------------------------------------------------------
(* The idempotency ledger *)

\* For any number of attempts, drops, and late or repeated completions: a logical
\* request is billed once and only one answer is ever accepted for it.
THEOREM AnswersAreOne ==
  ASSUME {"absent", "open"} \cap Hash = {}
  PROVE  Spec => []OneAnswer
<1>1. Init => OneAnswer
  BY DEF Init, OneAnswer
<1>2. TypeOK /\ OneAnswer /\ [Next]_vars => OneAnswer'
  <2> SUFFICES ASSUME TypeOK, OneAnswer, [Next]_vars PROVE OneAnswer'
    OBVIOUS
  <2> USE DEF TypeOK, OneAnswer, book
  <2>1. ASSUME UNCHANGED book PROVE OneAnswer'
    BY <2>1
  <2>2. ASSUME NEW r \in Turn, \/ PreServe(r) \/ Enqueue(r) \/ Refuse(r) \/ Submit(r)
                               \/ ShedAfterReserve(r) \/ EndTurn(r) \/ EndUnplaced(r)
        PROVE  OneAnswer'
    BY <2>2 DEF PreServe, Enqueue, Refuse, Submit, ShedAfterReserve, EndTurn, EndUnplaced
  <2>3. ASSUME NEW c \in Call, Lookup(c) \/ InferRefused(c) \/ Complete(c) PROVE OneAnswer'
    BY <2>3 DEF Lookup, InferRefused, Complete
  <2>4. ASSUME NEW c \in Call, Infer(c) PROVE OneAnswer'
    BY <2>4 DEF Infer, Begin, Keys
  <2>5. ASSUME NEW c \in Call, NEW h \in Hash, Commit(Key(c), h) PROVE OneAnswer'
    <3>1. Key(c) \in Keys
      BY DEF Keys
    <3>2. CASE ledger[Key(c)] = "open"
      BY <2>5, <3>1, <3>2 DEF Commit
    <3> QED BY <2>5, <3>2 DEF Commit
  <2>6. CASE UNCHANGED vars
    BY <2>6 DEF vars
  <2> QED BY <2>2, <2>3, <2>4, <2>5, <2>6 DEF Next, CompleteBilled
<1> QED BY <1>1, <1>2, PoolTypeCorrect, PTL DEF Spec

=============================================================================
