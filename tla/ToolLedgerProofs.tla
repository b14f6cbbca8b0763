-------------------------- MODULE ToolLedgerProofs --------------------------
(***************************************************************************)
(* TLAPS proofs about the side-effect ledger, for every number of nodes and *)
(* sweepers, every timeout, and any number of claims and crashes; and about *)
(* the saga that keeps a row of it per step, for any runners, steps,        *)
(* attempts and crashes.                                                    *)
(***************************************************************************)
EXTENDS ToolLedgerProps, LedgeredSaga, TLAPS

\* Every step of a dispatch, of a sweep or of the world keeps the state well typed.
LEMMA LedgerTypeStep == TypeOK /\ [Next]_vars => TypeOK'
<1> SUFFICES ASSUME TypeOK, [Next]_vars PROVE TypeOK'
  OBVIOUS
<1> USE LedgerAssumption DEF TypeOK, rowVars, worldVars, boundVars
<1>1. ASSUME NEW n \in Node, Dispatch(n) PROVE TypeOK'
  <2>1. CASE ClaimFresh(n)
    BY <2>1 DEF ClaimFresh, TakeRow
  <2>2. CASE ClaimInDoubt(n) \/ Send(n)
    BY <2>2 DEF ClaimInDoubt, Send
  <2>3. CASE CallReturns(n)
    BY <2>3 DEF CallReturns
  <2>4. CASE ProbeClaim(n)
    BY <2>4 DEF ProbeClaim, Verdicts
  <2>5. CASE Commit(n) \/ Fail(n)
    BY <2>5 DEF Commit, Fail, Write, Resolve
  <2> QED BY <1>1, <2>1, <2>2, <2>3, <2>4, <2>5 DEF Dispatch
<1>2. ASSUME NEW n \in Node, Sweep(n) PROVE TypeOK'
  <2> USE DEF SweepTo
  <2>1. CASE List(n) \/ SkipLeased(n)
    BY <2>1 DEF List, SkipLeased
  <2>2. CASE Lease(n)
    BY <2>2 DEF Lease
  <2>3. CASE ProbeRow(n)
    BY <2>3 DEF ProbeRow, Verdicts
  <2>4. CASE SweepCommit(n) \/ SweepFail(n)
    BY <2>4 DEF SweepCommit, SweepFail, Write, Resolve
  <2>5. CASE Escalate(n)
    BY <2>5 DEF Escalate, Write, Resolve
  <2>6. CASE Page(n)
    BY <2>6 DEF Page
  <2> QED BY <1>2, <2>1, <2>2, <2>3, <2>4, <2>5, <2>6 DEF Sweep
<1>3. ASSUME NEW n \in Node, Land(n) \/ Crash(n) PROVE TypeOK'
  BY <1>3 DEF Land, Crash
<1>4. CASE OrphanLands \/ OrphanLost
  BY <1>4 DEF OrphanLands, OrphanLost
<1>5. CASE Tick
  BY <1>5 DEF Tick
<1>6. CASE UNCHANGED vars
  BY <1>6 DEF vars
<1> QED BY <1>1, <1>2, <1>3, <1>4, <1>5, <1>6 DEF Next

\* Every reachable state of the ledger is well typed.
THEOREM LedgerTypeCorrect == Spec => []TypeOK
<1>1. Init => TypeOK
  BY LedgerAssumption DEF Init, TypeOK
<1> QED BY <1>1, LedgerTypeStep, PTL DEF Spec

-----------------------------------------------------------------------------
(* At most once, when no probe guesses *)

\* A dispatch keeps SlotInv: it claims only a clean row, and its outcome is
\* written by the node that owns the slot.
LEMMA DispatchStep ==
  ASSUME Probe = "manual", "claim" \notin LostWrites, AtMostOnceInv,
         NEW n \in Node, Dispatch(n) \/ Land(n)
  PROVE  SlotInv'
<1> USE DEF AtMostOnceInv, SlotInv, TypeOK, OneOwner, Owns, CallMatchesEffects,
            ClaimableIsClean, CommittedIsClosed, rowVars, worldVars, boundVars
<1>1. CASE ClaimFresh(n)
  BY <1>1 DEF ClaimFresh, TakeRow
<1>2. CASE ClaimInDoubt(n)
  BY <1>2 DEF ClaimInDoubt
<1>3. CASE Send(n)
  BY <1>3 DEF Send
<1>4. CASE Land(n)
  BY <1>4 DEF Land
<1>5. CASE CallReturns(n)
  BY <1>5 DEF CallReturns
<1>6. CASE ProbeClaim(n)
  <2>1. call' = [call EXCEPT ![n] = "idle"]
    BY <1>6 DEF ProbeClaim, Verdicts
  <2> QED BY <1>6, <2>1 DEF ProbeClaim
<1>7. CASE Commit(n)
  BY <1>7 DEF Commit, Write, Resolve
<1>8. CASE Fail(n)
  BY <1>8 DEF Fail, Write, Resolve
<1> QED BY <1>1, <1>2, <1>3, <1>4, <1>5, <1>6, <1>7, <1>8 DEF Dispatch

\* A sweep keeps SlotInv: without a verdict it only escalates PENDING rows.
LEMMA SweepStep ==
  ASSUME Probe = "manual", AtMostOnceInv, NEW n \in Node, Sweep(n)
  PROVE  SlotInv'
<1> USE DEF AtMostOnceInv, SlotInv, TypeOK, OneOwner, Owns, CallMatchesEffects,
            ClaimableIsClean, CommittedIsClosed, rowVars, worldVars, boundVars, SweepTo
<1>1. CASE ProbeRow(n)
  <2>1. sweep' = [sweep EXCEPT ![n] = "escalate"]
    BY <1>1 DEF ProbeRow, Verdicts
  <2> QED BY <1>1, <2>1 DEF ProbeRow
<1>2. CASE Escalate(n)
  BY <1>2 DEF Escalate, Write, Resolve
<1>3. CASE List(n) \/ Lease(n) \/ SkipLeased(n) \/ Page(n)
  BY <1>3 DEF List, Lease, SkipLeased, Page
<1> QED BY <1>1, <1>2, <1>3 DEF Sweep, SweepCommit, SweepFail

\* A crash keeps SlotInv: the effect its node had sent becomes an orphan, and the
\* row it leaves behind is not claimable.
LEMMA WorldStep ==
  ASSUME AtMostOnceInv,
         (\E n \in Node : Crash(n)) \/ OrphanLands \/ OrphanLost \/ Tick
  PROVE  SlotInv'
<1> USE DEF AtMostOnceInv, SlotInv, TypeOK, OneOwner, Owns, CallMatchesEffects,
            ClaimableIsClean, CommittedIsClosed, rowVars, worldVars, boundVars
<1>1. ASSUME NEW n \in Node, Crash(n) PROVE SlotInv'
  <2>1. CASE call[n] = "sent"
    <3>1. \A m \in Node : m # n => ~Owns(m)
      BY <2>1
    <3> QED BY <1>1, <2>1, <3>1 DEF Crash
  <2>2. CASE call[n] # "sent"
    BY <1>1, <2>2 DEF Crash
  <2> QED BY <2>1, <2>2
<1>2. CASE OrphanLands
  BY <1>2 DEF OrphanLands
<1>3. CASE OrphanLost
  BY <1>3 DEF OrphanLost
<1>4. CASE Tick
  BY <1>4 DEF Tick
<1> QED BY <1>1, <1>2, <1>3, <1>4

\* The invariant holds throughout.
LEMMA SlotInductive ==
  ASSUME Probe = "manual", "claim" \notin LostWrites
  PROVE  Spec => []AtMostOnceInv
<1>1. Init => AtMostOnceInv
  BY LedgerAssumption DEF Init, AtMostOnceInv, SlotInv, TypeOK, OneOwner, Owns,
     CallMatchesEffects, ClaimableIsClean, CommittedIsClosed
<1>2. AtMostOnceInv /\ [Next]_vars => AtMostOnceInv'
  <2> SUFFICES ASSUME AtMostOnceInv, [Next]_vars PROVE AtMostOnceInv'
    OBVIOUS
  <2>1. TypeOK'
    BY LedgerTypeStep DEF AtMostOnceInv
  <2>2. CASE UNCHANGED vars
    BY <2>1, <2>2 DEF vars, AtMostOnceInv, SlotInv, OneOwner, Owns, CallMatchesEffects,
       ClaimableIsClean, CommittedIsClosed
  <2>3. CASE Next
    <3>1. SlotInv'
      BY <2>3, LedgerAssumption, DispatchStep, SweepStep, WorldStep DEF Next
    <3> QED BY <2>1, <3>1 DEF AtMostOnceInv
  <2> QED BY <2>2, <2>3
<1> QED BY <1>1, <1>2, PTL DEF Spec

\* With the safe default reconciler, which never guesses, a side effect happens at
\* most once per idempotency key: for any number of nodes, retries, crashes and
\* sweeps, with requests that outlive their sender and with lost terminal writes.
THEOREM ManualIsAtMostOnce ==
  ASSUME Probe = "manual", "claim" \notin LostWrites
  PROVE  Spec => []AtMostOnce
<1>1. AtMostOnceInv => AtMostOnce
  BY DEF AtMostOnceInv, SlotInv, AtMostOnce, TypeOK
<1> QED BY <1>1, SlotInductive, PTL

\* "Exactly one concurrent caller across the whole cluster": no two nodes ever own the slot, a row
\* that was escalated or failed and claimed again in between included.
THEOREM SlotHasOneOwner ==
  ASSUME Probe = "manual", "claim" \notin LostWrites
  PROVE  Spec => []OneOwner
<1>1. AtMostOnceInv => OneOwner
  BY DEF AtMostOnceInv, SlotInv
<1> QED BY <1>1, SlotInductive, PTL

\* A row that may be claimed again has no effect behind it, and none to come.
THEOREM ReclaimsAreSafe ==
  ASSUME Probe = "manual", "claim" \notin LostWrites
  PROVE  Spec => []ReclaimIsSafe
<1>1. AtMostOnceInv => ReclaimIsSafe
  BY DEF AtMostOnceInv, SlotInv, TypeOK, ClaimableIsClean, ReclaimIsSafe, OnTheWire, Owns
<1> QED BY <1>1, SlotInductive, PTL

\* ... and no write ever replaces the row of a success, although every write of an
\* outcome is unconditional: only the owner of the slot makes one.
THEOREM ManualKeepsCommitted ==
  ASSUME Probe = "manual", "claim" \notin LostWrites
  PROVE  Spec => CommittedIsTerminal
<1>1. AtMostOnceInv /\ [Next]_vars => [row = "committed" => row' = "committed"]_vars
  <2> SUFFICES ASSUME AtMostOnceInv, Next, row = "committed"
               PROVE  row' = "committed"
    BY DEF vars
  <2> USE DEF AtMostOnceInv, SlotInv, CommittedIsClosed, Owns, rowVars
  <2>1. ASSUME NEW n \in Node, Dispatch(n) \/ Land(n) \/ Crash(n)
        PROVE  row' = "committed"
    BY <2>1 DEF Dispatch, ClaimFresh, TakeRow, ClaimInDoubt, Send, CallReturns,
       ProbeClaim, Commit, Fail, Land, Crash
  <2>2. ASSUME NEW n \in Node, Sweep(n)
        PROVE  row' = "committed"
    BY <2>2 DEF Sweep, List, Lease, SkipLeased, ProbeRow, SweepCommit, SweepFail,
       Escalate, Page
  <2>3. CASE OrphanLands \/ OrphanLost \/ Tick
    BY <2>3 DEF OrphanLands, OrphanLost, Tick
  <2> QED BY <2>1, <2>2, <2>3, LedgerAssumption DEF Next
<1> QED BY <1>1, SlotInductive, PTL DEF Spec, CommittedIsTerminal

-----------------------------------------------------------------------------
(* No fabricated success, with either kind of probe *)

\* Whoever is about to write COMMITTED has seen the effect, and no effect is taken back.
SuccessIsSeen ==
  /\ CommittedHasEffect
  /\ \A n \in Node : call[n] \in {"landed", "commit"} \/ sweep[n] = "commit" => effects > 0

\* A dispatch commits after its call has landed, or on the word of a probe.
LEMMA SuccessStep == TypeOK /\ SuccessIsSeen /\ [Next]_vars => SuccessIsSeen'
<1> SUFFICES ASSUME TypeOK, SuccessIsSeen, [Next]_vars PROVE SuccessIsSeen'
  OBVIOUS
<1> USE DEF TypeOK, SuccessIsSeen, CommittedHasEffect, rowVars, worldVars, boundVars
<1>1. ASSUME NEW n \in Node, Dispatch(n) PROVE SuccessIsSeen'
  <2>1. CASE ClaimFresh(n)
    BY <2>1 DEF ClaimFresh, TakeRow
  <2>2. CASE ClaimInDoubt(n) \/ Send(n) \/ CallReturns(n)
    BY <2>2 DEF ClaimInDoubt, Send, CallReturns
  <2>3. CASE ProbeClaim(n)
    <3>1. effects > 0 \/ \E p \in {"fail", "idle"} : call' = [call EXCEPT ![n] = p]
      BY <2>3 DEF ProbeClaim, Verdicts
    <3> QED BY <2>3, <3>1 DEF ProbeClaim
  <2>4. CASE Commit(n) \/ Fail(n)
    BY <2>4 DEF Commit, Fail, Write, Resolve
  <2> QED BY <1>1, <2>1, <2>2, <2>3, <2>4 DEF Dispatch
<1>2. ASSUME NEW n \in Node, Sweep(n) PROVE SuccessIsSeen'
  <2> USE DEF SweepTo
  <2>1. CASE List(n) \/ Lease(n) \/ SkipLeased(n) \/ Page(n)
    BY <2>1 DEF List, Lease, SkipLeased, Page
  <2>2. CASE ProbeRow(n)
    <3>1. effects > 0 \/ \E p \in {"fail", "escalate"} : sweep' = [sweep EXCEPT ![n] = p]
      BY <2>2 DEF ProbeRow, Verdicts
    <3> QED BY <2>2, <3>1 DEF ProbeRow
  <2>3. CASE SweepCommit(n) \/ SweepFail(n)
    BY <2>3 DEF SweepCommit, SweepFail, Write, Resolve
  <2>4. CASE Escalate(n)
    BY <2>4 DEF Escalate, Write, Resolve
  <2> QED BY <1>2, <2>1, <2>2, <2>3, <2>4 DEF Sweep
<1>3. ASSUME NEW n \in Node, Land(n) \/ Crash(n) PROVE SuccessIsSeen'
  BY <1>3 DEF Land, Crash
<1>4. CASE OrphanLands \/ OrphanLost \/ Tick
  BY <1>4 DEF OrphanLands, OrphanLost, Tick
<1>5. CASE UNCHANGED vars
  BY <1>5 DEF vars
<1> QED BY <1>1, <1>2, <1>3, <1>4, <1>5, LedgerAssumption DEF Next

\* A COMMITTED row reports an effect that has happened: with either probe, any lost writes
\* and claims, crashes, orphans and sweepers, although then it may have happened twice.
THEOREM CommittedIsReal == Spec => []CommittedHasEffect
<1>1. Init => SuccessIsSeen
  BY DEF Init, SuccessIsSeen, CommittedHasEffect
<1>2. TypeOK /\ SuccessIsSeen /\ [Next]_vars => SuccessIsSeen'
  BY SuccessStep
<1>3. SuccessIsSeen => CommittedHasEffect
  BY DEF SuccessIsSeen
<1> QED BY <1>1, <1>2, <1>3, LedgerTypeCorrect, PTL DEF Spec

-----------------------------------------------------------------------------
(***************************************************************************)
(* The saga: whatever runs of it overlap, are retried or crash, a step      *)
(* takes effect at most once, in order, and only what took effect is ever   *)
(* compensated.                                                             *)
(***************************************************************************)


AtWork(r) == phase[r] \in {"act", "commit", "fail"}

\* A runner at work on a step owns its pending row; the row tells whether the step
\* took effect, but for a pending one, where its owner knows.
RowInv ==
  /\ \A r \in Runner : AtWork(r) => rows[at[r]] = "pending"
  /\ \A r \in Runner : phase[r] \in {"act", "fail"} => executed[at[r]] = 0
  /\ \A r \in Runner : phase[r] = "commit" => executed[at[r]] = 1
  /\ \A r, q \in Runner : AtWork(r) /\ AtWork(q) /\ at[r] = at[q] => r = q
  /\ \A i \in Step : rows[i] \in {"absent", "failed"} => executed[i] = 0
  /\ \A i \in Step : rows[i] = "committed" => executed[i] = 1
  /\ \A i \in Step : executed[i] <= 1

\* The steps below where a runner is took effect, and so did those it undoes.
DoneInv ==
  /\ \A r \in Runner : phase[r] = "claim" \/ AtWork(r) =>
       \A i \in Step : i < at[r] => executed[i] = 1
  /\ \A r \in Runner : phase[r] = "undo" =>
       \A i \in Step : i <= at[r] => executed[i] = 1
  /\ OnlyAppliedIsUndone
  /\ InOrder

SagaInv == SagaTypeOK /\ RowInv /\ DoneInv

-----------------------------------------------------------------------------
Phases == {"idle", "claim", "act", "commit", "fail", "undo"}

PlaceOK ==
  /\ phase \in [Runner -> Phases]
  /\ at \in [Runner -> 0..Steps + 1]
  /\ \A r \in Runner : AtWork(r) => at[r] \in Step

\* A runner that goes on stays at a step while it acts on one.
LEMMA GotoType ==
  ASSUME SagaTypeOK, NEW r \in Runner, NEW p \in Phases, NEW i \in 0..Steps + 1,
         p \in {"act", "commit", "fail"} => i \in Step, Goto(r, p, i)
  PROVE  PlaceOK'
<1>1. /\ phase' = [phase EXCEPT ![r] = p] /\ at' = [at EXCEPT ![r] = i]
      /\ phase \in [Runner -> Phases] /\ at \in [Runner -> 0..Steps + 1]
      /\ \A q \in Runner : phase[q] \in {"act", "commit", "fail"} => at[q] \in Step
  BY DEF Goto, SagaTypeOK, Phases
<1>2. ASSUME NEW q \in Runner, phase'[q] \in {"act", "commit", "fail"}
      PROVE  at'[q] \in Step
  <2>1. CASE q = r
    BY <1>1, <1>2, <2>1
  <2>2. CASE q # r
    BY <1>1, <1>2, <2>2
  <2> QED BY <2>1, <2>2
<1> QED BY <1>1, <1>2 DEF PlaceOK, AtWork

LEMMA Neighbours ==
  ASSUME NEW i \in Step PROVE i + 1 \in 0..Steps + 1 /\ i - 1 \in 0..Steps + 1 /\ i \in 0..Steps + 1
BY SagaAssumption DEF Step

\* The step before, the step after, and the order of steps.
LEMMA Around ==
  ASSUME NEW i \in Nat, NEW k \in Nat
  PROVE  /\ i < k + 1 <=> i <= k
         /\ i <= k - 1 <=> i < k
         /\ i <= k <=> i < k \/ i = k
         /\ ~(i < i)
OBVIOUS

\* What is done below a step is done up to it once the step is, and what is done up to
\* a step is done below it.
LEMMA DoneThrough ==
  ASSUME NEW k \in Step, executed[k] = 1, \A i \in Step : i < k => executed[i] = 1
  PROVE  \A i \in Step : i < k + 1 => executed[i] = 1
<1>1. Step \subseteq Nat
  BY SagaAssumption DEF Step
<1> QED BY <1>1, Around

LEMMA DoneBelow ==
  ASSUME NEW k \in Step, \A i \in Step : i <= k => executed[i] = 1
  PROVE  \A i \in Step : i <= k - 1 => executed[i] = 1
<1>1. Step \subseteq Nat
  BY SagaAssumption DEF Step
<1>2. TAKE i \in Step
<1> QED BY <1>1, Around

LEMMA DoneBefore ==
  ASSUME NEW k \in Step, \A i \in Step : i < k => executed[i] = 1
  PROVE  \A i \in Step : i <= k - 1 => executed[i] = 1
<1>1. Step \subseteq Nat
  BY SagaAssumption DEF Step
<1> QED BY <1>1, Around

LEMMA SagaTypeStep == ASSUME SagaTypeOK, [SagaNext]_sagaVars PROVE SagaTypeOK'
<1>1. CASE UNCHANGED sagaVars
  BY <1>1 DEF sagaVars, SagaTypeOK
<1> DEFINE DataOK == /\ rows \in [Step -> {"absent", "pending", "committed", "failed"}]
                     /\ executed \in [Step -> Nat] /\ undone \in [Step -> Nat]
                     /\ stuck \in [Runner -> SUBSET Step]
                     /\ outcome \in [Runner -> {"none", "completed", "compensated", "partial"}]
                     /\ attempts \in Nat /\ runCrashes \in Nat
<1>a. PlaceOK' /\ DataOK' => SagaTypeOK'
  BY DEF PlaceOK, SagaTypeOK, AtWork, Phases
<1>b. DataOK
  BY DEF SagaTypeOK
<1>2. ASSUME NEW r \in Runner, Start(r) PROVE SagaTypeOK'
  <2>1. PlaceOK'
    BY <1>2, GotoType, SagaAssumption DEF Start, Phases
  <2> QED BY <1>a, <1>b, <1>2, <2>1 DEF Start, world
<1>3. ASSUME NEW r \in Runner, Claim(r) PROVE SagaTypeOK'
  <2>1. at[r] \in Step /\ at[r] \in 0..Steps + 1 /\ at[r] + 1 \in 0..Steps + 1
        /\ at[r] - 1 \in 0..Steps + 1
    BY <1>3, Neighbours DEF Claim
  <2>2. Goto(r, "claim", at[r] + 1) \/ Goto(r, "undo", at[r] - 1) \/ Goto(r, "act", at[r])
    BY <1>3 DEF Claim
  <2>3. PlaceOK'
    BY <2>1, <2>2, GotoType DEF Phases
  <2> QED BY <1>a, <1>b, <1>3, <2>3 DEF Claim, world, bounds
<1>4. ASSUME NEW r \in Runner, Act(r) PROVE SagaTypeOK'
  <2>1. at[r] \in Step
    BY <1>4 DEF Act, SagaTypeOK
  <2>2. Goto(r, "commit", at[r]) \/ Goto(r, "fail", at[r])
    BY <1>4 DEF Act
  <2>3. PlaceOK'
    BY <2>1, <2>2, Neighbours, GotoType DEF Phases
  <2> QED BY <1>a, <1>b, <1>4, <2>1, <2>3 DEF Act, bounds
<1>5. ASSUME NEW r \in Runner, CommitStep(r) \/ FailStep(r) PROVE SagaTypeOK'
  <2>1. at[r] \in Step
    BY <1>5 DEF CommitStep, FailStep, SagaTypeOK
  <2>2. Goto(r, "claim", at[r] + 1) \/ Goto(r, "undo", at[r] - 1)
    BY <1>5 DEF CommitStep, FailStep
  <2>3. PlaceOK'
    BY <2>1, <2>2, Neighbours, GotoType DEF Phases
  <2> QED BY <1>a, <1>b, <1>5, <2>1, <2>3 DEF CommitStep, FailStep, world, bounds
<1>6. ASSUME NEW r \in Runner, Undo(r) PROVE SagaTypeOK'
  <2>1. at[r] \in Step /\ Goto(r, "undo", at[r] - 1)
    BY <1>6 DEF Undo
  <2>2. PlaceOK'
    BY <2>1, Neighbours, GotoType DEF Phases
  <2> QED BY <1>a, <1>b, <1>6, <2>1, <2>2 DEF Undo, bounds
<1>7. ASSUME NEW r \in Runner, Completed(r) \/ RolledBack(r) \/ CrashRun(r) PROVE SagaTypeOK'
  <2>1. Goto(r, "idle", 0)
    BY <1>7 DEF Completed, RolledBack, CrashRun, Return
  <2>2. PlaceOK'
    BY <2>1, GotoType, SagaAssumption DEF Phases
  <2>3. UNCHANGED <<rows, executed, undone, stuck, attempts>> /\ runCrashes' \in {runCrashes, runCrashes + 1}
    BY <1>7 DEF Completed, RolledBack, CrashRun, world, bounds
  <2>4. \E o \in {"none", "completed", "compensated", "partial"} :
          outcome' = [outcome EXCEPT ![r] = o]
    BY <1>7 DEF Completed, RolledBack, CrashRun, Return
  <2>5. outcome' \in [Runner -> {"none", "completed", "compensated", "partial"}]
    BY <1>b, <2>4
  <2> QED BY <1>a, <1>b, <2>2, <2>3, <2>5
<1> QED BY <1>1, <1>2, <1>3, <1>4, <1>5, <1>6, <1>7 DEF SagaNext, Run

LEMMA SagaStarts == SagaInit => SagaInv
BY SagaAssumption
DEF SagaInit, SagaInv, SagaTypeOK, RowInv, DoneInv, AtWork, OnlyAppliedIsUndone, InOrder, Step

\* Every step keeps rows and effects in step.
LEMMA RowStep == ASSUME SagaTypeOK, RowInv, [SagaNext]_sagaVars PROVE RowInv'
<1> USE DEF SagaTypeOK, RowInv, AtWork
<1>1. CASE UNCHANGED sagaVars
  BY <1>1 DEF sagaVars
<1>2. ASSUME NEW r \in Runner,
             Start(r) \/ Undo(r) \/ Completed(r) \/ RolledBack(r) \/ CrashRun(r)
      PROVE  RowInv'
  <2>1. UNCHANGED <<rows, executed>>
    BY <1>2 DEF Start, Undo, Completed, RolledBack, CrashRun, world
  <2>2. PICK p \in {"idle", "claim", "undo"} : phase' = [phase EXCEPT ![r] = p]
    BY <1>2 DEF Start, Undo, Completed, RolledBack, CrashRun, Goto, Return
  <2>3. \A q \in Runner : AtWork(q)' => q # r /\ at'[q] = at[q] /\ phase'[q] = phase[q]
    BY <1>2, <2>2 DEF Start, Undo, Completed, RolledBack, CrashRun, Goto, Return
  <2> QED BY <2>1, <2>3
<1>3. ASSUME NEW r \in Runner, Claim(r) PROVE RowInv'
  <2>0. at[r] \in Step /\ phase[r] = "claim" /\ UNCHANGED executed
    BY <1>3 DEF Claim, world
  <2>1. CASE rows[at[r]] \in {"committed", "pending"}
    <3>1. UNCHANGED rows
      BY <1>3, <2>1 DEF Claim
    <3>2. \A q \in Runner : AtWork(q)' => q # r /\ at'[q] = at[q] /\ phase'[q] = phase[q]
      BY <1>3, <2>1 DEF Claim, Goto
    <3> QED BY <2>0, <3>1, <3>2
  <2>2. CASE rows[at[r]] \in {"absent", "failed"}
    <3>1. /\ rows' = [rows EXCEPT ![at[r]] = "pending"]
          /\ phase' = [phase EXCEPT ![r] = "act"]
          /\ at' = [at EXCEPT ![r] = at[r]]
      BY <1>3, <2>2 DEF Claim, Goto
    <3>2. \A q \in Runner : AtWork(q) => at[q] # at[r]
      BY <2>2
    <3>3. \A q \in Runner : q # r => at'[q] = at[q] /\ phase'[q] = phase[q]
      BY <3>1
    <3>4. phase'[r] = "act" /\ at'[r] = at[r]
      BY <3>1
    <3> QED BY <2>0, <2>2, <3>1, <3>2, <3>3, <3>4
  <2> QED BY <2>0, <2>1, <2>2
<1>4. ASSUME NEW r \in Runner, Act(r) PROVE RowInv'
  <2>0. at[r] \in Step /\ phase[r] = "act" /\ UNCHANGED rows
        /\ executed[at[r]] = 0 /\ at' = [at EXCEPT ![r] = at[r]]
    BY <1>4 DEF Act, Goto
  <2>1. \A q \in Runner : q # r => at'[q] = at[q] /\ phase'[q] = phase[q]
    BY <1>4 DEF Act, Goto
  <2>2. at'[r] = at[r]
    BY <2>0
  <2>3. CASE phase'[r] = "commit" /\ executed' = [executed EXCEPT ![at[r]] = @ + 1]
    <3>1. \A i \in Step : executed'[i] = IF i = at[r] THEN 1 ELSE executed[i]
      BY <2>0, <2>3
    <3> QED BY <2>0, <2>1, <2>2, <2>3, <3>1
  <2>4. CASE phase'[r] = "fail" /\ UNCHANGED executed
    BY <2>0, <2>1, <2>2, <2>4
  <2> QED BY <1>4, <2>3, <2>4 DEF Act, Goto
<1>5. ASSUME NEW r \in Runner, CommitStep(r) PROVE RowInv'
  <2>0. at[r] \in Step /\ phase[r] = "commit" /\ executed[at[r]] = 1
        /\ UNCHANGED executed /\ rows' = [rows EXCEPT ![at[r]] = "committed"]
    BY <1>5 DEF CommitStep, world
  <2>1. \A q \in Runner : q # r => at'[q] = at[q] /\ phase'[q] = phase[q]
    BY <1>5 DEF CommitStep, Goto
  <2>2. phase'[r] = "claim"
    BY <1>5 DEF CommitStep, Goto
  <2>3. \A q \in Runner : q # r /\ AtWork(q) => at[q] # at[r]
    BY <2>0
  <2> QED BY <2>0, <2>1, <2>2, <2>3
<1>6. ASSUME NEW r \in Runner, FailStep(r) PROVE RowInv'
  <2>0. at[r] \in Step /\ phase[r] = "fail" /\ executed[at[r]] = 0
        /\ UNCHANGED executed /\ rows' = [rows EXCEPT ![at[r]] = "failed"]
    BY <1>6 DEF FailStep, world
  <2>1. \A q \in Runner : q # r => at'[q] = at[q] /\ phase'[q] = phase[q]
    BY <1>6 DEF FailStep, Goto
  <2>2. phase'[r] = "undo"
    BY <1>6 DEF FailStep, Goto
  <2>3. \A q \in Runner : q # r /\ AtWork(q) => at[q] # at[r]
    BY <2>0
  <2> QED BY <2>0, <2>1, <2>2, <2>3
<1> QED BY <1>1, <1>2, <1>3, <1>4, <1>5, <1>6 DEF SagaNext, Run

\* Every step leaves the steps below each runner done.
LEMMA DoneStep == ASSUME SagaTypeOK, RowInv, DoneInv, [SagaNext]_sagaVars PROVE DoneInv'
<1> USE DEF DoneInv, AtWork, OnlyAppliedIsUndone, InOrder
<1>0. /\ Step \subseteq Nat
      /\ at \in [Runner -> 0..Steps + 1] /\ phase \in [Runner -> Phases]
      /\ executed \in [Step -> Nat] /\ undone \in [Step -> Nat]
  BY SagaAssumption DEF SagaTypeOK, Phases, Step
<1>1. CASE UNCHANGED sagaVars
  BY <1>1 DEF sagaVars
<1>2. ASSUME NEW r \in Runner, Start(r) \/ Completed(r) \/ RolledBack(r) \/ CrashRun(r)
      PROVE  DoneInv'
  <2>1. UNCHANGED <<executed, undone>>
    BY <1>2 DEF Start, Completed, RolledBack, CrashRun, world
  <2>2. /\ \A q \in Runner : q # r => at'[q] = at[q] /\ phase'[q] = phase[q]
        /\ phase'[r] = "idle" \/ (phase'[r] = "claim" /\ at'[r] = 1)
    BY <1>0, <1>2 DEF Start, Completed, RolledBack, CrashRun, Goto, Return
  <2>3. \A i \in Step : ~(i < 1)
    BY DEF Step
  <2> QED BY <2>1, <2>2, <2>3
<1>3. ASSUME NEW r \in Runner, Claim(r) PROVE DoneInv'
  <2>1. /\ at[r] \in Step /\ phase[r] = "claim"
        /\ UNCHANGED <<executed, undone>>
        /\ \A q \in Runner : q # r => at'[q] = at[q] /\ phase'[q] = phase[q]
    BY <1>0, <1>3 DEF Claim, Goto, world
  <2>2. \A i \in Step : i < at[r] => executed[i] = 1
    BY <2>1
  <2>3. CASE rows[at[r]] = "committed" /\ phase'[r] = "claim" /\ at'[r] = at[r] + 1
    <3>1. executed[at[r]] = 1
      BY <2>1, <2>3 DEF RowInv
    <3>2. \A i \in Step : i < at'[r] => executed[i] = 1
      BY <2>1, <2>2, <2>3, <3>1, DoneThrough
    <3> QED BY <2>1, <2>3, <3>2
  <2>4. CASE phase'[r] = "undo" /\ at'[r] = at[r] - 1
    <3>1. \A i \in Step : i <= at'[r] => executed[i] = 1
      BY <2>1, <2>2, <2>4, DoneBefore
    <3> QED BY <2>1, <2>4, <3>1
  <2>5. CASE phase'[r] = "act" /\ at'[r] = at[r]
    BY <2>1, <2>2, <2>5
  <2> QED BY <1>0, <1>3, <2>3, <2>4, <2>5 DEF Claim, Goto
<1>4. ASSUME NEW r \in Runner, Act(r) PROVE DoneInv'
  <2>1. /\ at[r] \in Step /\ phase[r] = "act" /\ executed[at[r]] = 0
        /\ UNCHANGED undone
        /\ \A q \in Runner : q # r => at'[q] = at[q] /\ phase'[q] = phase[q]
        /\ at'[r] = at[r] /\ phase'[r] \in {"commit", "fail"}
    BY <1>0, <1>4 DEF Act, Goto, SagaTypeOK, RowInv
  <2>2. \A i \in Step : i < at[r] => executed[i] = 1
    BY <2>1
  <2>3. CASE UNCHANGED executed
    BY <2>1, <2>3
  <2>4. CASE executed' = [executed EXCEPT ![at[r]] = @ + 1]
    <3>1. \A i \in Step : executed'[i] = IF i = at[r] THEN 1 ELSE executed[i]
      BY <1>0, <2>1, <2>4
    <3>2. InOrder'
      BY <1>0, <2>1, <2>2, <3>1
    <3> QED BY <2>1, <3>1, <3>2
  <2> QED BY <1>4, <2>3, <2>4 DEF Act
<1>5. ASSUME NEW r \in Runner, CommitStep(r) \/ FailStep(r) PROVE DoneInv'
  <2>1. /\ at[r] \in Step /\ phase[r] \in {"commit", "fail"}
        /\ UNCHANGED <<executed, undone>>
        /\ \A q \in Runner : q # r => at'[q] = at[q] /\ phase'[q] = phase[q]
    BY <1>0, <1>5 DEF CommitStep, FailStep, Goto, SagaTypeOK, world
  <2>2. \A i \in Step : i < at[r] => executed[i] = 1
    BY <2>1
  <2>3. CASE phase[r] = "commit" /\ phase'[r] = "claim" /\ at'[r] = at[r] + 1
    <3>1. executed[at[r]] = 1
      BY <2>3 DEF RowInv
    <3>2. \A i \in Step : i < at'[r] => executed[i] = 1
      BY <2>1, <2>2, <2>3, <3>1, DoneThrough
    <3> QED BY <2>1, <2>3, <3>2
  <2>4. CASE phase'[r] = "undo" /\ at'[r] = at[r] - 1
    <3>1. \A i \in Step : i <= at'[r] => executed[i] = 1
      BY <2>1, <2>2, <2>4, DoneBefore
    <3> QED BY <2>1, <2>4, <3>1
  <2> QED BY <1>0, <1>5, <2>3, <2>4 DEF CommitStep, FailStep, Goto
<1>6. ASSUME NEW r \in Runner, Undo(r) PROVE DoneInv'
  <2>1. /\ at[r] \in Step /\ phase[r] = "undo" /\ executed[at[r]] = 1
        /\ UNCHANGED executed
        /\ \A q \in Runner : q # r => at'[q] = at[q] /\ phase'[q] = phase[q]
        /\ phase'[r] = "undo" /\ at'[r] = at[r] - 1
    BY <1>0, <1>6 DEF Undo, Goto
  <2>2. \A i \in Step : i # at[r] => undone'[i] = undone[i]
    BY <1>0, <1>6 DEF Undo
  <2>3. OnlyAppliedIsUndone'
    BY <1>0, <2>1, <2>2
  <2>4. \A i \in Step : i <= at'[r] => executed[i] = 1
    BY <2>1, DoneBelow
  <2> QED BY <2>1, <2>3, <2>4
<1> QED BY <1>1, <1>2, <1>3, <1>4, <1>5, <1>6 DEF SagaNext, Run

LEMMA SagaInductive == SagaInv /\ [SagaNext]_sagaVars => SagaInv'
BY SagaTypeStep, RowStep, DoneStep DEF SagaInv

\* Every reachable state of the saga's runners and rows is well typed.
THEOREM SagaTypeCorrect == SagaSpec => []SagaTypeOK
<1>1. SagaInv => SagaTypeOK
  BY DEF SagaInv
<1> QED BY <1>1, SagaStarts, SagaInductive, PTL DEF SagaSpec

\* "a step already COMMITTED on a prior saga attempt is not re-executed", nor one in
\* doubt: over all runs, retries and crashes a step takes effect at most once.
THEOREM SagaStepOnce == SagaSpec => []StepAtMostOnce
<1>1. SagaInv => StepAtMostOnce
  BY DEF SagaInv, RowInv, StepAtMostOnce
<1> QED BY <1>1, SagaStarts, SagaInductive, PTL DEF SagaSpec

\* Compensation only ever reaches a step that took effect, in this run or in the one
\* whose commit this run adopted.
THEOREM SagaUndoesApplied == SagaSpec => []OnlyAppliedIsUndone
<1>1. SagaInv => OnlyAppliedIsUndone
  BY DEF SagaInv, DoneInv
<1> QED BY <1>1, SagaStarts, SagaInductive, PTL DEF SagaSpec

\* The steps of the composite action take effect in order, whoever runs them.
THEOREM SagaInOrder == SagaSpec => []InOrder
<1>1. SagaInv => InOrder
  BY DEF SagaInv, DoneInv
<1> QED BY <1>1, SagaStarts, SagaInductive, PTL DEF SagaSpec

-----------------------------------------------------------------------------
(* The first run, when nothing interrupts it *)

Fresh(i) == executed[i] = 0 /\ undone[i] = 0
Done(i) == executed[i] = 1 /\ undone[i] = 0

\* What run r, the only one so far, has left behind it: the steps below are done, those
\* above untouched; going back, those above are undone but for the ones it is stuck with.
FirstRun(r) ==
  /\ \A q \in Runner : q # r => phase[q] = "idle"
  /\ phase[r] = "claim" => \A i \in Step :
       IF i < at[r] THEN Done(i) ELSE Fresh(i) /\ rows[i] = "absent"
  /\ phase[r] \in {"act", "fail"} => \A i \in Step :
       IF i < at[r] THEN Done(i) ELSE Fresh(i) /\ (i = at[r] \/ rows[i] = "absent")
  /\ phase[r] = "commit" => \A i \in Step :
       IF i <= at[r] THEN Done(i) ELSE Fresh(i) /\ rows[i] = "absent"
  /\ phase[r] = "undo" => \A i \in Step :
       IF i <= at[r] THEN Done(i) /\ i \notin stuck[r] ELSE i \in stuck[r] <=> Applied(i)
  /\ phase[r] # "undo" => stuck[r] = {}

\* Before the first run nothing has happened; during it no run has an outcome.
FirstInv ==
  /\ attempts = 0 =>
       /\ \A r \in Runner : phase[r] = "idle" /\ outcome[r] = "none"
       /\ \A i \in Step : Fresh(i) /\ rows[i] = "absent"
  /\ attempts <= 1 /\ runCrashes = 0 => \A r \in Runner : phase[r] # "idle" =>
       FirstRun(r) /\ \A q \in Runner : outcome[q] = "none"
  /\ FirstRunIsExact

\* The run leaves exactly what it has left behind so far, when it returns.
LEMMA FirstReturn ==
  ASSUME SagaTypeOK, NEW r \in Runner, FirstRun(r), Completed(r) \/ RolledBack(r)
  PROVE  /\ outcome'[r] = "completed" => \A i \in Step : Applied(i)
         /\ outcome'[r] = "compensated" => \A i \in Step : ~Applied(i)
         /\ outcome'[r] = "partial" => {i \in Step : Applied(i)} = stuck[r]
<1>1. CASE Completed(r)
  <2>1. phase[r] = "claim" /\ at[r] = Steps + 1 /\ outcome'[r] = "completed"
    BY <1>1 DEF Completed, Return, SagaTypeOK
  <2>2. \A i \in Step : i < at[r]
    BY <2>1, SagaAssumption DEF Step
  <2> QED BY <2>1, <2>2 DEF FirstRun, Done, Applied
<1>2. CASE RolledBack(r)
  <2>1. /\ phase[r] = "undo" /\ at[r] = 0
        /\ outcome'[r] = IF stuck[r] = {} THEN "compensated" ELSE "partial"
    BY <1>2 DEF RolledBack, Return, SagaTypeOK
  <2>2. \A i \in Step : ~(i <= at[r])
    BY <2>1, SagaAssumption DEF Step
  <2>3. \A i \in Step : i \in stuck[r] <=> Applied(i)
    BY <2>1, <2>2 DEF FirstRun
  <2>4. stuck[r] \subseteq Step
    BY DEF SagaTypeOK
  <2> QED BY <2>1, <2>3, <2>4
<1> QED BY <1>1, <1>2

\* While the first run goes on, each of its steps leaves behind what it says.
LEMMA FirstGoesOn ==
  ASSUME SagaTypeOK, NEW r \in Runner, FirstRun(r), RowInv,
         Claim(r) \/ Act(r) \/ CommitStep(r) \/ FailStep(r) \/ Undo(r)
  PROVE  FirstRun(r)'
<1> USE DEF SagaTypeOK
<1>0. /\ Step \subseteq Nat /\ Steps \in Nat
      /\ at[r] \in 0..Steps + 1 /\ at[r] \in Step
      /\ \A q \in Runner : q # r => phase'[q] = phase[q]
  BY SagaAssumption DEF Step, Claim, Act, CommitStep, FailStep, Undo, Goto
<1>1. \A q \in Runner : q # r => phase'[q] = "idle"
  BY <1>0 DEF FirstRun
<1>2. CASE Claim(r)
  <2>1. phase[r] = "claim" /\ UNCHANGED <<executed, undone, stuck>> /\ rows[at[r]] = "absent"
    BY <1>0, <1>2 DEF Claim, FirstRun, world
  <2>2. /\ rows' = [rows EXCEPT ![at[r]] = "pending"]
        /\ phase'[r] = "act" /\ at'[r] = at[r]
    BY <1>2, <2>1 DEF Claim, Goto
  <2> QED BY <1>0, <1>1, <2>1, <2>2 DEF FirstRun, Fresh, Done
<1>3. CASE Act(r)
  <2>1. phase[r] = "act" /\ UNCHANGED <<undone, stuck, rows>> /\ at'[r] = at[r]
    BY <1>0, <1>3 DEF Act, Goto
  <2>2. CASE phase'[r] = "commit" /\ executed' = [executed EXCEPT ![at[r]] = @ + 1]
    <3>1. Fresh(at[r])
      BY <1>0, <2>1 DEF FirstRun
    <3>2. \A i \in Step : executed'[i] = IF i = at[r] THEN 1 ELSE executed[i]
      BY <1>0, <2>2, <3>1 DEF Fresh
    <3>3. \A i \in Step : i <= at[r] <=> i < at[r] \/ i = at[r]
      BY <1>0
    <3> QED BY <1>0, <1>1, <2>1, <2>2, <3>1, <3>2, <3>3 DEF FirstRun, Fresh, Done
  <2>3. CASE phase'[r] = "fail" /\ UNCHANGED executed
    BY <1>0, <1>1, <2>1, <2>3 DEF FirstRun, Fresh, Done
  <2> QED BY <1>0, <1>3, <2>2, <2>3 DEF Act, Goto
<1>4. CASE CommitStep(r)
  <2>1. /\ phase[r] = "commit" /\ UNCHANGED <<executed, undone, stuck>>
        /\ rows' = [rows EXCEPT ![at[r]] = "committed"]
        /\ phase'[r] = "claim" /\ at'[r] = at[r] + 1
    BY <1>0, <1>4 DEF CommitStep, Goto, world
  <2>2. \A i \in Step : (i < at'[r] <=> i <= at[r]) /\ (~(i <= at[r]) => i # at[r])
    <3>1. PICK n \in Nat : n = at[r] /\ at'[r] = n + 1
      BY <1>0, <2>1
    <3> SUFFICES ASSUME NEW i \in Step PROVE (i < at'[r] <=> i <= at[r]) /\ (~(i <= at[r]) => i # at[r])
      OBVIOUS
    <3>2. i \in Nat
      BY <1>0
    <3> HIDE DEF SagaTypeOK
    <3> QED BY <3>1, <3>2, Around
  <2> QED BY <1>0, <1>1, <2>1, <2>2 DEF FirstRun, Fresh, Done
<1>5. CASE FailStep(r)
  <2>1. /\ phase[r] = "fail" /\ UNCHANGED <<executed, undone, stuck>> /\ stuck[r] = {}
        /\ phase'[r] = "undo" /\ at'[r] = at[r] - 1
    BY <1>0, <1>5 DEF FailStep, Goto, world, FirstRun
  <2>2. \A i \in Step : i <= at'[r] <=> i < at[r]
    <3>1. PICK n \in Nat : n = at[r] /\ at'[r] = n - 1
      BY <1>0, <2>1
    <3> SUFFICES ASSUME NEW i \in Step PROVE i <= at'[r] <=> i < at[r]
      OBVIOUS
    <3>2. i \in Nat
      BY <1>0
    <3> HIDE DEF SagaTypeOK
    <3> QED BY <3>1, <3>2, Around
  <2>3. \A i \in Step : i <= at'[r] => Done(i)'
    BY <2>1, <2>2 DEF FirstRun, Done
  <2>4. \A i \in Step : ~(i <= at'[r]) => ~Applied(i)'
    BY <2>1, <2>2 DEF FirstRun, Fresh, Applied
  <2> QED BY <1>1, <2>1, <2>3, <2>4 DEF FirstRun
<1>6. CASE Undo(r)
  <2>1. /\ phase[r] = "undo" /\ UNCHANGED <<executed, rows>>
        /\ phase'[r] = "undo" /\ at'[r] = at[r] - 1
    BY <1>0, <1>6 DEF Undo, Goto
  <2>2. \A i \in Step : (i <= at'[r] => i <= at[r] /\ i # at[r])
                        /\ (~(i <= at'[r]) => i = at[r] \/ ~(i <= at[r]))
    <3>1. PICK n \in Nat : n = at[r] /\ at'[r] = n - 1
      BY <1>0, <2>1
    <3> SUFFICES ASSUME NEW i \in Step PROVE (i <= at'[r] => i <= at[r] /\ i # at[r])
                               /\ (~(i <= at'[r]) => i = at[r] \/ ~(i <= at[r]))
      OBVIOUS
    <3>2. i \in Nat
      BY <1>0
    <3> HIDE DEF SagaTypeOK
    <3> QED BY <3>1, <3>2, Around
  <2> PICK k \in Step : k = at[r]
    BY <1>0
  <2>3. Done(k) /\ k \notin stuck[r]
    BY <1>0, <2>1, Around DEF FirstRun
  <2>4. \A i \in Step : i # k =>
          undone'[i] = undone[i] /\ (i \in stuck'[r] <=> i \in stuck[r])
    BY <1>0, <1>6 DEF Undo
  <2>5. k \in stuck'[r] <=> Applied(k)'
    <3>1. CASE undone' = [undone EXCEPT ![at[r]] = @ + 1] /\ UNCHANGED stuck
      <4>1. undone'[k] = 1 /\ executed'[k] = 1
        BY <1>0, <2>1, <2>3, <3>1 DEF Done
      <4> QED BY <2>3, <3>1, <4>1 DEF Applied
    <3>2. CASE stuck' = [stuck EXCEPT ![r] = @ \cup {at[r]}] /\ UNCHANGED undone
      BY <1>0, <2>1, <2>3, <3>2 DEF Applied, Done
    <3> QED BY <1>6, <3>1, <3>2 DEF Undo
  <2>6. ASSUME NEW i \in Step, i <= at'[r] PROVE Done(i)' /\ i \notin stuck'[r]
    BY <2>1, <2>2, <2>4, <2>6 DEF FirstRun, Done
  <2>7. ASSUME NEW i \in Step, ~(i <= at'[r]) PROVE i \in stuck'[r] <=> Applied(i)'
    <3>1. CASE i = k
      BY <2>5, <3>1
    <3>2. CASE i # k
      BY <2>1, <2>2, <2>4, <2>7, <3>2 DEF FirstRun, Applied
    <3> QED BY <3>1, <3>2
  <2> QED BY <1>1, <2>1, <2>6, <2>7 DEF FirstRun
<1> QED BY <1>2, <1>3, <1>4, <1>5, <1>6

\* A run that starts, goes on, returns or crashes keeps what is known of the first one.
LEMMA FirstStep == ASSUME SagaTypeOK, RowInv, FirstInv, [SagaNext]_sagaVars PROVE FirstInv'
<1> USE DEF FirstInv
<1>1. CASE UNCHANGED sagaVars
  BY <1>1 DEF sagaVars, FirstRun, FirstRunIsExact, Fresh, Done, Applied
<1>2. ASSUME NEW r \in Runner, Start(r) PROVE FirstInv'
  <2>1. /\ attempts' = attempts + 1 /\ attempts \in Nat /\ runCrashes' = runCrashes
        /\ UNCHANGED <<rows, executed, undone>>
        /\ phase' = [phase EXCEPT ![r] = "claim"] /\ at' = [at EXCEPT ![r] = 1]
        /\ stuck' = [stuck EXCEPT ![r] = {}] /\ outcome' = [outcome EXCEPT ![r] = "none"]
    BY <1>2 DEF Start, Goto, world, SagaTypeOK
  <2>2. attempts' # 0 /\ (attempts' <= 1 => attempts = 0)
    BY <2>1
  <2>3. ASSUME attempts = 0
        PROVE  /\ \A q \in Runner : outcome'[q] = "none" /\ (q # r => phase'[q] = "idle")
               /\ FirstRun(r)'
    <3>1. \A q \in Runner : outcome'[q] = "none" /\ (q # r => phase'[q] = "idle")
      BY <2>1, <2>3 DEF SagaTypeOK
    <3>2. \A i \in Step : (Fresh(i) /\ rows[i] = "absent")'
      BY <2>1, <2>3 DEF Fresh
    <3>3. phase'[r] = "claim" /\ at'[r] = 1 /\ stuck'[r] = {}
      BY <2>1 DEF SagaTypeOK
    <3>4. \A i \in Step : ~(i < at'[r])
      BY <3>3 DEF Step
    <3> QED BY <3>1, <3>2, <3>3, <3>4 DEF FirstRun
  <2>4. FirstRunIsExact'
    BY <2>2, <2>3 DEF FirstRunIsExact
  <2> QED BY <2>2, <2>3, <2>4
\* The other steps are of a run that is under way.
<1>3. ASSUME NEW r \in Runner, phase[r] # "idle", UNCHANGED bounds
      PROVE  /\ attempts' # 0
             /\ attempts' <= 1 /\ runCrashes' = 0 =>
                  FirstRun(r) /\ \A q \in Runner : outcome[q] = "none"
  BY <1>3 DEF bounds
<1>4. ASSUME NEW r \in Runner, Claim(r) \/ Act(r) \/ CommitStep(r) \/ FailStep(r) \/ Undo(r)
      PROVE  FirstInv'
  <2>1. phase[r] # "idle" /\ UNCHANGED bounds /\ UNCHANGED outcome
    BY <1>4 DEF Claim, Act, CommitStep, FailStep, Undo
  <2>2. ASSUME attempts' <= 1, runCrashes' = 0
        PROVE  FirstRun(r)' /\ \A q \in Runner : outcome'[q] = "none"
    BY <1>3, <1>4, <2>1, <2>2, FirstGoesOn
  <2>3. ASSUME attempts' <= 1, runCrashes' = 0, NEW q \in Runner, phase'[q] # "idle"
        PROVE  q = r
    BY <2>2, <2>3 DEF FirstRun
  <2>4. FirstRunIsExact'
    BY <2>2 DEF FirstRunIsExact
  <2> QED BY <1>3, <2>1, <2>2, <2>3, <2>4
<1>5. ASSUME NEW r \in Runner, Completed(r) \/ RolledBack(r) PROVE FirstInv'
  <2>1. /\ phase[r] # "idle" /\ UNCHANGED bounds /\ UNCHANGED <<executed, undone, stuck>>
        /\ phase' = [phase EXCEPT ![r] = "idle"]
        /\ \A q \in Runner : q # r => outcome'[q] = outcome[q]
    BY <1>5 DEF Completed, RolledBack, Return, Goto, world, SagaTypeOK
  <2>2. ASSUME attempts' <= 1, runCrashes' = 0, NEW q \in Runner
        PROVE  /\ phase'[q] = "idle"
               /\ q # r => outcome'[q] = "none"
    BY <1>3, <2>1, <2>2 DEF FirstRun, SagaTypeOK
  <2>3. ASSUME attempts' <= 1, runCrashes' = 0
        PROVE  /\ outcome'[r] = "completed" => \A i \in Step : Applied(i)
               /\ outcome'[r] = "compensated" => \A i \in Step : ~Applied(i)
               /\ outcome'[r] = "partial" => {i \in Step : Applied(i)} = stuck[r]
    BY <1>3, <1>5, <2>1, <2>3, FirstReturn
  <2>4. FirstRunIsExact'
    <3> SUFFICES ASSUME attempts' <= 1, runCrashes' = 0, NEW q \in Runner
                 PROVE  /\ outcome'[q] = "completed" => \A i \in Step : Applied(i)'
                        /\ outcome'[q] = "compensated" => \A i \in Step : ~Applied(i)'
                        /\ outcome'[q] = "partial" =>
                             {i \in Step : Applied(i)'} = stuck'[q]
      BY DEF FirstRunIsExact
    <3>1. \A i \in Step : Applied(i)' <=> Applied(i)
      BY <2>1 DEF Applied
    <3>2. {i \in Step : Applied(i)'} = {i \in Step : Applied(i)}
      BY <3>1
    <3>3. CASE q = r
      BY <2>1, <2>3, <3>1, <3>2, <3>3
    <3>4. CASE q # r
      BY <2>2, <3>4
    <3> QED BY <3>3, <3>4
  <2> QED BY <1>3, <2>1, <2>2, <2>4
<1>6. ASSUME NEW r \in Runner, CrashRun(r) PROVE FirstInv'
  <2>1. phase[r] # "idle" /\ attempts' = attempts /\ runCrashes' # 0
    BY <1>6 DEF CrashRun, SagaTypeOK
  <2> QED BY <2>1 DEF FirstRunIsExact
<1> QED BY <1>1, <1>2, <1>4, <1>5, <1>6 DEF SagaNext, Run

\* A first run that nothing interrupts says exactly what it leaves behind, for any number
\* of steps: all of them, none of them, or those it names as uncompensated.
THEOREM SagaFirstRun == SagaSpec => []FirstRunIsExact
<1>1. SagaInit => FirstInv
  BY DEF SagaInit, FirstInv, Fresh, FirstRunIsExact
<1>2. SagaInv /\ FirstInv /\ [SagaNext]_sagaVars => FirstInv'
  BY FirstStep DEF SagaInv
<1>3. FirstInv => FirstRunIsExact
  BY DEF FirstInv
<1> QED BY <1>1, <1>2, <1>3, SagaStarts, SagaInductive, PTL DEF SagaSpec

=============================================================================
