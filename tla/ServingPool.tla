---------------------------- MODULE ServingPool ----------------------------
(***************************************************************************)
(* The pool of ainxt-serving behind its one mutex, and the two handlers of  *)
(* ainxt-server that share it: a chat turn takes a slot in pre_serve and    *)
(* returns it when its response stream is dropped, a model.infer call takes *)
(* one in model_infer and returns it in complete or complete_billed.        *)
(*                                                                         *)
(* A slot is two things: the fairness slot of the tenant (usage, total) and *)
(* the place in the scheduler (running). harm records what has happened so  *)
(* far that separates them, so that a property can say what it depends on.  *)
(***************************************************************************)
EXTENDS Naturals, FiniteSets

CONSTANTS
  Turn,      \* chat turns
  Call,      \* infer requests; a retry is another call with the same key
  Tenants,
  Tenant,    \* the department that pays for a request
  Seq,       \* its sequence id: a counter for turns, the client's for calls
  Class,     \* its priority: Batch < Standard < Interactive
  Hash,      \* the answers a generation may report
  Capacity, FairCap, MaxQueue,
  Quota,     \* a tenant's fairness slots: its own quota, or the default
  Configured, \* the tenants with a quota of their own
  Wfq,       \* the wait queue is the weighted scheduler, not a counter
  Faults     \* what the environment may do, of FaultKinds

FaultKinds == {"backpressure", "twice"}
HarmKinds  == {"backpressure", "twice", "evicted", "stolen"}
Req == Turn \cup Call

ASSUME PoolAssumption ==
  /\ IsFiniteSet(Req) /\ Turn \cap Call = {}
  /\ IsFiniteSet(Tenants) /\ Configured \subseteq Tenants
  /\ Tenant \in [Req -> Tenants] /\ Seq \in [Req -> Nat] /\ Class \in [Req -> Nat]
  /\ Capacity \in Nat /\ FairCap \in Nat /\ MaxQueue \in Nat
  /\ Quota \in [Tenants -> Nat]
  /\ Wfq \in BOOLEAN /\ Faults \subseteq FaultKinds

VARIABLES
  running,    \* the requests in the scheduler's slots
  preempted,  \* the ones it evicted; nothing resumes them
  usage,      \* fairness slots in use, per tenant
  total,      \* ... of all tenants
  queued,     \* depth of the wait queue
  ledger,     \* per key: "absent", "open" or the committed answer
  pc,         \* per request, see Phases
  billed,     \* history: how often each key was billed
  told,       \* history: the answers each key was committed with
  harm

pool == <<running, preempted, usage, total, queued>>
book == <<ledger, billed, told>>
vars == <<running, preempted, usage, total, queued, ledger, pc, billed, told, harm>>

Key(r) == <<Tenant[r], Seq[r]>>
Keys   == {Key(c) : c \in Call}

Phases == {
  "new",      \* not yet at the gate; a call: its key is not yet looked up
  "checked",  \* a call whose key was not committed when it looked
  "reserved", \* admitted, the turn not yet submitted
  "waiting",  \* Enqueued, which the handler treats as admitted
  "serving",  \* its stream is open, with a slot
  "extra",    \* its stream is open, without one
  "stranded", \* gone, with its fairness slot still taken
  "ended", "over", "refused"}

\* The phases in which a request has a fairness slot.
Holding == {"reserved", "serving", "stranded"}

Init ==
  /\ running = {} /\ preempted = {}
  /\ usage = [t \in Tenants |-> 0] /\ total = 0
  /\ queued = 0
  /\ ledger = [k \in Keys |-> "absent"]
  /\ pc = [r \in Req |-> "new"]
  /\ billed = [k \in Keys |-> 0]
  /\ told = [k \in Keys |-> {}]
  /\ harm = {}

Goto(r, p) == pc' = [pc EXCEPT ![r] = p]

-----------------------------------------------------------------------------
(* FairnessLimiter and PreemptionScheduler *)

\* Mutant: the tenant's quota is not looked at.
FitsCapacityOnly(r) == r \in Req /\ total < FairCap

\* try_admit says Admit: the tenant is under its quota and the pool under its own.
Fits(r) == usage[Tenant[r]] < Quota[Tenant[r]] /\ total < FairCap

Charge(t) == usage' = [usage EXCEPT ![t] = @ + 1] /\ total' = total + 1

\* Mutants: a tenant that has none is charged; the total is not given back.
RefundBlind(t) == usage' = [usage EXCEPT ![t] = @ - 1] /\ total' = total - 1

RefundUsageOnly(t) ==
  IF usage[t] > 0
  THEN usage' = [usage EXCEPT ![t] = @ - 1] /\ UNCHANGED total
  ELSE UNCHANGED <<usage, total>>

\* release: a tenant that has none is left alone.
Refund(t) ==
  IF usage[t] > 0
  THEN usage' = [usage EXCEPT ![t] = @ - 1] /\ total' = total - 1
  ELSE UNCHANGED <<usage, total>>

\* Mutant: an evicted id may come again.
IsLiveRunning(s) == \E q \in running : Seq[q] = s

\* DuplicateId: the id is running or preempted.
IsLive(s) == \E q \in running \cup preempted : Seq[q] = s

IsFull == Cardinality(running) >= Capacity

\* The running requests that r may displace: strictly below its class.
Lower(r) == {v \in running : Class[v] < Class[r]}

\* The lowest class first, among those the largest id.
IsVictim(v, r) ==
  /\ v \in Lower(r)
  /\ \A w \in Lower(r) :
       Class[v] < Class[w] \/ (Class[v] = Class[w] /\ Seq[v] >= Seq[w])

CanRun(r) == Fits(r) /\ ~IsLive(Seq[r]) /\ (~IsFull \/ Lower(r) # {})

\* Started or Preempted: r has both halves of a slot. A victim's stream goes on.
Start(r) ==
  /\ CanRun(r)
  /\ Charge(Tenant[r])
  /\ \/ /\ ~IsFull
        /\ running' = running \cup {r}
        /\ UNCHANGED <<preempted, harm>>
     \/ /\ IsFull
        /\ \E v \in running :
             /\ IsVictim(v, r)
             /\ running' = (running \ {v}) \cup {r}
             /\ preempted' = preempted \cup {v}
        /\ harm' = harm \cup {"evicted"}
  /\ UNCHANGED queued

\* Rejected by a full scheduler, with room in the wait queue.
CanWait(r) ==
  /\ Fits(r) /\ ~IsLive(Seq[r]) /\ IsFull /\ Lower(r) = {}
  /\ queued < MaxQueue

\* scheduler.complete: whatever runs under the id is removed.
Freed(r) == {q \in running : Seq[q] = Seq[r]}

-----------------------------------------------------------------------------
(* chat_handler *)

\* Admitted: QosRelease holds the reservation.
PreServe(r) ==
  /\ r \in Turn /\ pc[r] = "new"
  /\ Start(r)
  /\ Goto(r, "reserved")
  /\ UNCHANGED book

\* Enqueued: as Admitted, for the handler.
Enqueue(r) ==
  /\ r \in Turn /\ pc[r] = "new"
  /\ CanWait(r)
  /\ queued' = queued + 1
  /\ Goto(r, "waiting")
  /\ UNCHANGED <<running, preempted, usage, total, ledger, billed, told, harm>>

\* RejectedOverQuota or Shed: 429 or 503; nothing is left behind.
Refuse(r) ==
  /\ r \in Turn /\ pc[r] = "new"
  /\ ~CanRun(r) /\ ~CanWait(r)
  /\ Goto(r, "refused")
  /\ UNCHANGED <<running, preempted, usage, total, queued, ledger, billed, told, harm>>

\* submit returns Ok: DetachOnDrop takes the reservation over.
Submit(r) ==
  /\ pc[r] \in {"reserved", "waiting"}
  /\ Goto(r, IF pc[r] = "reserved" THEN "serving" ELSE "extra")
  /\ UNCHANGED <<running, preempted, usage, total, queued, ledger, billed, told, harm>>

\* submit returns Backpressure: the handler returns, and QosRelease has no Drop.
ShedAfterReserve(r) ==
  /\ "backpressure" \in Faults
  /\ pc[r] \in {"reserved", "waiting"}
  /\ Goto(r, IF pc[r] = "reserved" THEN "stranded" ELSE "over")
  /\ harm' = harm \cup {"backpressure"}
  /\ UNCHANGED <<running, preempted, usage, total, queued, ledger, billed, told>>

\* dequeue_head: with a counter for a queue, a completion takes one off it.
Dequeue == queued' = IF Wfq \/ queued = 0 THEN queued ELSE queued - 1

\* Mutant: the tenant is refunded and the scheduler not told.
EndTurnKeepsPlace(r) ==
  /\ r \in Turn /\ pc[r] \in {"serving", "extra"}
  /\ Freed(r) # {}
  /\ Refund(Tenant[r]) /\ Dequeue
  /\ Goto(r, IF pc[r] = "serving" THEN "ended" ELSE "over")
  /\ UNCHANGED <<running, preempted, ledger, billed, told, harm>>

\* The stream is dropped, at its end or with its client: pre_serve_complete.
EndTurn(r) ==
  /\ r \in Turn /\ pc[r] \in {"serving", "extra"}
  /\ Freed(r) # {}
  /\ running' = running \ Freed(r)
  /\ Refund(Tenant[r]) /\ Dequeue
  /\ Goto(r, IF pc[r] = "serving" THEN "ended" ELSE "over")
  /\ harm' = IF Freed(r) = {r} THEN harm ELSE harm \cup {"stolen"}
  /\ UNCHANGED <<preempted, ledger, billed, told>>

\* The same when the id no longer runs: NotRunning, before anything is released.
EndUnplaced(r) ==
  /\ r \in Turn /\ pc[r] \in {"serving", "extra"}
  /\ Freed(r) = {}
  /\ Goto(r, IF pc[r] = "serving" THEN "stranded" ELSE "over")
  /\ UNCHANGED <<running, preempted, usage, total, queued, ledger, billed, told, harm>>

-----------------------------------------------------------------------------
(* infer_handler, and the end of a generation *)

\* infer_is_committed, under a lock of its own: a committed key is answered at once.
Lookup(c) ==
  /\ c \in Call /\ pc[c] = "new"
  /\ Goto(c, IF ledger[Key(c)] \in Hash THEN "refused" ELSE "checked")
  /\ UNCHANGED <<running, preempted, usage, total, queued, ledger, billed, told, harm>>

\* Mutant: an attempt opens the key again, committed or not.
BeginReopens(k) == [ledger EXCEPT ![k] = "open"]

\* begin: a committed key stays committed (and its answer is not looked at).
Begin(k) == IF ledger[k] = "absent" THEN [ledger EXCEPT ![k] = "open"] ELSE ledger

\* model_infer: a place and a fairness slot, then the ledger, then the generation.
Infer(c) ==
  /\ pc[c] = "checked"
  /\ Start(c)
  /\ ledger' = Begin(Key(c))
  /\ Goto(c, "serving")
  /\ UNCHANGED <<billed, told>>

InferRefused(c) ==
  /\ pc[c] = "checked"
  /\ ~CanRun(c)
  /\ Goto(c, "refused")
  /\ UNCHANGED <<running, preempted, usage, total, queued, ledger, billed, told, harm>>

\* complete: the scheduler's error is ignored and the tenant refunded in any case.
Release(c) ==
  /\ c \in Call
  /\ \/ pc[c] = "serving" /\ Goto(c, "ended")
     \/ pc[c] = "ended" /\ "twice" \in Faults /\ Goto(c, "over")
  /\ running' = running \ Freed(c)
  /\ Refund(Tenant[c])
  /\ harm' = harm \cup (IF pc[c] = "ended" THEN {"twice"} ELSE {})
                  \cup (IF Freed(c) \subseteq {c} THEN {} ELSE {"stolen"})
  /\ UNCHANGED <<preempted, queued>>

\* complete without a bill: the node was drained, or the call dropped.
Complete(c) == Release(c) /\ UNCHANGED book

\* commit: bills an open key; the same answer again is free, another one rejected.
Commit(k, h) ==
  IF ledger[k] = "open"
  THEN /\ ledger' = [ledger EXCEPT ![k] = h]
       /\ billed' = [billed EXCEPT ![k] = @ + 1]
       /\ told' = [told EXCEPT ![k] = @ \cup {h}]
  ELSE UNCHANGED book

\* Mutant: a divergent answer returns before the slots are freed.
CompleteBilledOrReject(c, h) ==
  IF ledger[Key(c)] \in Hash \ {h} /\ pc[c] = "serving"
  THEN Goto(c, "ended") /\ UNCHANGED <<pool, ledger, billed, told, harm>>
  ELSE Release(c) /\ Commit(Key(c), h)

\* complete_billed: a rejected answer frees the slots like an accepted one.
CompleteBilled(c, h) == Release(c) /\ Commit(Key(c), h)

Next ==
  \/ \E r \in Turn :
       PreServe(r) \/ Enqueue(r) \/ Refuse(r) \/ Submit(r) \/ ShedAfterReserve(r)
         \/ EndTurn(r) \/ EndUnplaced(r)
  \/ \E c \in Call :
       Lookup(c) \/ Infer(c) \/ InferRefused(c) \/ Complete(c)
         \/ \E h \in Hash : CompleteBilled(c, h)

Spec == Init /\ [][Next]_vars

\* A handler runs on, and every stream ends: the engine's turn has a deadline.
TurnsEnd == \A r \in Turn :
  WF_vars(Submit(r) \/ ShedAfterReserve(r) \/ EndTurn(r) \/ EndUnplaced(r))

FairSpec == Spec /\ TurnsEnd

-----------------------------------------------------------------------------
Held == {r \in Req : pc[r] \in Holding}
HeldBy(t) == {r \in Held : Tenant[r] = t}

\* No completion has returned what its request did not have.
Sound == harm \cap {"twice", "stolen"} = {}

\* Every variable keeps its type.
TypeOK ==
  /\ running \subseteq Req /\ preempted \subseteq Req
  /\ usage \in [Tenants -> Nat] /\ total \in Nat
  /\ queued \in 0..MaxQueue
  /\ ledger \in [Keys -> Hash \cup {"absent", "open"}]
  /\ pc \in [Req -> Phases]
  /\ billed \in [Keys -> Nat]
  /\ told \in [Keys -> SUBSET Hash]
  /\ harm \subseteq HarmKinds

\* "A greedy tenant can never consume a sibling's share": what the requests of a tenant
\* really hold, evicted and abandoned ones included, is what the limiter has counted,
\* and within the tenant's quota and the pool's.
FairShare ==
  Sound =>
    /\ \A t \in Tenants :
         Cardinality(HeldBy(t)) = usage[t] /\ usage[t] <= Quota[t]
    /\ Cardinality(Held) = total /\ total <= FairCap

\* The slots in use, and the slots that the quotas of some tenants add up to.
SlotsInUse == UNION {{t} \X (1..usage[t]) : t \in Tenants}
SlotsOf(T) == UNION {{t} \X (1..Quota[t]) : t \in T}

\* The limiter's total is the sum of its counts.
Counted == IsFiniteSet(SlotsInUse) /\ Cardinality(SlotsInUse) = total

\* "Every under-quota tenant is guaranteed admission": if the quotas of all tenants fit
\* into the pool, no demand of the others, and nothing that goes wrong with a slot,
\* brings the total to the capacity before a tenant has its own quota.
GuaranteedShare ==
  Cardinality(SlotsOf(Tenants)) <= FairCap =>
    \A t \in Tenants : usage[t] < Quota[t] => total < FairCap

\* At most Capacity requests run, and no id is live twice: whatever order evictions,
\* completions of evicted requests and retries under the same id come in.
PlacesDistinct ==
  /\ Cardinality(running) <= Capacity
  /\ \A q, r \in running \cup preempted : Seq[q] = Seq[r] => q = r
  /\ running \cap preempted = {}

\* A place in the scheduler belongs to a request still being served, unless a turn was
\* shed between its reservation and its guard.
PlaceHasOwner ==
  Sound /\ "backpressure" \notin harm =>
    \A r \in running : pc[r] \in {"reserved", "serving"}

\* Exactly-once billing and one answer per logical request: across retries, drops,
\* late and repeated completions, and a key committed between lookup and dispatch.
OneAnswer ==
  \A k \in Keys :
    /\ billed[k] = IF ledger[k] \in Hash THEN 1 ELSE 0
    /\ told[k] = IF ledger[k] \in Hash THEN {ledger[k]} ELSE {}

\* "The caller MUST later call pre_serve_complete so the slot is never leaked": the
\* place a turn took comes back, unless the turn was shed after it had reserved.
PlacesComeBack ==
  \A r \in Turn : (r \in running) ~> (r \notin running \/ "backpressure" \in harm)

\* "A gone client never leaks fleet capacity": the slots of requests that are gone are free.
SlotNeverLeaked == \A r \in running : pc[r] \in {"reserved", "serving"}

\* The fairness slot of a turn that is over is free, whatever happened to its place.
ShareNeverLeaked == \A r \in Turn : pc[r] # "stranded"

\* is_starvation_proof: the same, of the quotas that were configured.
StarvationProof ==
  Cardinality(SlotsOf(Configured)) <= FairCap =>
    \A t \in Tenants : usage[t] < Quota[t] => total < FairCap

\* "A replay never re-touches fleet capacity".
ReplayTouchesNothing ==
  [][\A c \in Call : pc[c] = "checked" /\ pc'[c] = "serving" =>
       ledger[Key(c)] \notin Hash]_vars

\* The turns served at once are within the pool's capacity.
NoOvercommit == Cardinality({r \in Req : pc[r] \in {"serving", "extra"}}) <= Capacity

=============================================================================
