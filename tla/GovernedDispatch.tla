--------------------------- MODULE GovernedDispatch ---------------------------
(***************************************************************************)
(* One ToolRuntime of ainxt-tools, shared by the turns and sagas of the     *)
(* process: the two phases of a HighRisk action, the gate of the payment-   *)
(* adjacent mandates, the tables of resource and key locks, the pre- and    *)
(* post-hooks, and the compensation of dispatch_saga. The ledger row of a   *)
(* key is as in ToolLedger; here one process dispatches to many keys, and a  *)
(* tool that panics leaves its row PENDING and its locks poisoned, which    *)
(* are recovered.                                                          *)
(***************************************************************************)
EXTENDS Naturals, FiniteSets

CONSTANTS
  Call, NoCall,
  Together,   \* the sets of calls that are made in one run
  Kind,       \* how a call is dispatched, of Kinds
  Keys, Key,  \* its idempotency key, with its user's id folded in
  Runs,       \* ... and the one of its arguments after the pre-hooks
  Resources, NoResource, Resource,
  Mandates, NoMandate, Mandate,  \* the one it presents
  MaxUses, NotAfter,  \* of each mandate
  Prev,       \* the step of its saga before it
  Undoable,   \* the calls of tools with a compensate
  Ttl,        \* of a preview
  SoftCap,    \* RESOURCE_LOCK_SOFT_CAP
  MaxTime,
  Faults      \* of FaultKinds

Kinds == {
  "plain",     \* dispatch_for, or a step of dispatch_saga
  "free",      \* the same, of a pure or idempotent tool: no ledger
  "phased",    \* dry_run_for, then commit_for
  "adjacent"}  \* dispatch_obo_with_pam
FaultKinds == {"panic", "refusal"} \* a tool panics; a post-hook refuses

ASSUME DispatchAssumption ==
  /\ NoCall \notin Call /\ NoResource \notin Resources /\ NoMandate \notin Mandates
  /\ IsFiniteSet(Call) /\ Together \subseteq SUBSET Call
  /\ Kind \in [Call -> Kinds]
  /\ Key \in [Call -> Keys] /\ Runs \in [Call -> Keys]
  /\ Resource \in [Call -> Resources \cup {NoResource}]
  /\ Mandate \in [Call -> Mandates \cup {NoMandate}]
  /\ MaxUses \in [Mandates -> Nat] /\ NotAfter \in [Mandates -> Nat]
  /\ Prev \in [Call -> Call \cup {NoCall}]
  /\ \A c \in Call : Kind[c] \in {"phased", "adjacent"} => Prev[c] = NoCall
  /\ Ttl \in Nat /\ SoftCap \in Nat /\ MaxTime \in Nat
  /\ Faults \subseteq FaultKinds

VARIABLES
  now,
  pc,        \* per call, see Places
  tick,      \* per call: the clock its caller read
  result,    \* per call: its DispatchResult
  prepared,  \* two_phase: the keys with a preview
  expires,   \* ... and when each expires
  used,      \* per mandate: uses consumed
  resTable,  \* resource_locks: each lock goes by the call that created it
  keyTable,  \* key_locks
  resArc, keyArc,    \* per call: the locks it has a reference to
  resHeld, keyHeld,  \* the calls that hold theirs
  row,       \* per key: the ledger row
  cursor,    \* per failed step: the step of its saga to be compensated next
  rollback,  \* per failed step: what its saga reports
  acted,     \* history: the calls whose effect took place
  undone,    \* history: which call's saga has compensated which step
  shown,     \* history: previews issued, per key
  granted    \* history: commits authorized, per key

Places == {
  "new",
  "shown",    \* previewed
  "cleared",  \* commit authorized
  "hooked",   \* past the pre-hooks and the egress check
  "at_res",   \* waiting for its resource
  "gate", "keyed",
  "at_key",   \* waiting for its key
  "claim", "run",
  "ran", "broke", \* execute_as has returned
  "undo", "over"}

Results   == {"none", "ok", "deduped", "blocked", "failed", "doubt", "panic"}
Rollbacks == {"none", "compensated", "partial"}
Rows      == {"absent", "pending", "committed", "failed"}

phases  == <<prepared, expires, shown, granted>>
tables  == <<resTable, keyTable, resArc, keyArc>>
locks   == <<tables, resHeld, keyHeld>>
sagas   == <<cursor, rollback, undone>>
effects == <<row, acted>>
vars == <<now, pc, tick, result, prepared, expires, used, resTable, keyTable, resArc,
          keyArc, resHeld, keyHeld, row, cursor, rollback, acted, undone, shown, granted>>

Init ==
  /\ now = 0
  /\ \E made \in Together : pc = [c \in Call |-> IF c \in made THEN "new" ELSE "over"]
  /\ tick = [c \in Call |-> 0]
  /\ result = [c \in Call |-> "none"]
  /\ prepared = {} /\ expires = [k \in Keys |-> 0]
  /\ used = [m \in Mandates |-> 0]
  /\ resTable = [r \in Resources |-> NoCall] /\ keyTable = [k \in Keys |-> NoCall]
  /\ resArc = [c \in Call |-> NoCall] /\ keyArc = [c \in Call |-> NoCall]
  /\ resHeld = {} /\ keyHeld = {}
  /\ row = [k \in Keys |-> "absent"]
  /\ cursor = [c \in Call |-> NoCall] /\ rollback = [c \in Call |-> "none"]
  /\ acted = {} /\ undone = {}
  /\ shown = [k \in Keys |-> 0] /\ granted = [k \in Keys |-> 0]

Goto(c, p) == pc' = [pc EXCEPT ![c] = p]

\* The call returns r and drops its locks and references; a step that has not
\* succeeded sends its saga back over the steps before it.
Answer(c, r) ==
  /\ result' = [result EXCEPT ![c] = r]
  /\ resArc' = [resArc EXCEPT ![c] = NoCall] /\ keyArc' = [keyArc EXCEPT ![c] = NoCall]
  /\ resHeld' = resHeld \ {c} /\ keyHeld' = keyHeld \ {c}
  /\ IF r \in {"blocked", "failed", "doubt"} /\ Prev[c] # NoCall
     THEN /\ Goto(c, "undo")
          /\ cursor' = [cursor EXCEPT ![c] = Prev[c]]
          /\ rollback' = [rollback EXCEPT ![c] = "compensated"]
     ELSE Goto(c, "over") /\ UNCHANGED <<cursor, rollback>>
  /\ UNCHANGED <<now, tick, prepared, expires, shown, granted, resTable, keyTable, undone>>

\* Ok and Deduped pass the post-hooks, and a refusal there makes them Failed.
Release(c, r) ==
  \/ Answer(c, r)
  \/ "refusal" \in Faults /\ Answer(c, "failed")

-----------------------------------------------------------------------------
(* The two phases of a HighRisk action *)

\* dry_run_inner: the preview replaces any earlier one for the key.
DryRun(c) ==
  /\ pc[c] = "new" /\ Kind[c] = "phased"
  /\ tick' = [tick EXCEPT ![c] = now]
  /\ prepared' = prepared \cup {Key[c]}
  /\ expires' = [expires EXCEPT ![Key[c]] = now + Ttl]
  /\ shown' = [shown EXCEPT ![Key[c]] = @ + 1]
  /\ Goto(c, "shown")
  /\ UNCHANGED <<now, result, granted, used, locks, effects, sagas>>

\* Mutant: the preview is looked up, and stays.
TakePeeks(c) == c \in Call /\ UNCHANGED prepared

\* commit_inner takes the preview out, expired or not.
Take(c) == prepared' = prepared \ {Key[c]}

\* The engine presents the clock of its dry run, another caller the clock it reads.
Commit(c) ==
  /\ pc[c] = "shown"
  /\ Key[c] \in prepared
  /\ \E t \in {tick[c], now} : t <= expires[Key[c]]
  /\ Take(c)
  /\ granted' = [granted EXCEPT ![Key[c]] = @ + 1]
  /\ Goto(c, "cleared")
  /\ UNCHANGED <<now, tick, result, expires, shown, used, locks, effects, sagas>>

\* No preview, or an expired one.
CommitRefused(c) ==
  /\ pc[c] = "shown"
  /\ Key[c] \in prepared => now > expires[Key[c]]
  /\ Take(c)
  /\ result' = [result EXCEPT ![c] = "blocked"]
  /\ Goto(c, "over")
  /\ UNCHANGED <<now, tick, expires, shown, granted, used, locks, effects, sagas>>

-----------------------------------------------------------------------------
(* execute_dispatch, up to the ledger *)

\* A call arrives; a step of a saga after its predecessor has succeeded. The OBO gate,
\* the pre-hooks and the egress check have passed.
Enter(c) ==
  /\ \/ pc[c] = "cleared" /\ UNCHANGED tick
     \/ /\ pc[c] = "new" /\ Kind[c] # "phased"
        /\ Prev[c] # NoCall => result[Prev[c]] \in {"ok", "deduped"}
        /\ tick' = [tick EXCEPT ![c] = now]
  /\ Goto(c, "hooked")
  /\ UNCHANGED <<now, result, phases, used, locks, effects, sagas>>

\* One of them has refused, or the dry run has.
EnterRefused(c) ==
  /\ \/ pc[c] = "cleared"
     \/ /\ pc[c] = "new"
        /\ Prev[c] # NoCall => result[Prev[c]] \in {"ok", "deduped"}
  /\ Answer(c, "blocked")
  /\ UNCHANGED <<used, effects>>

\* Mutant: locks are dropped from a full table whether they are referenced or not.
PrunedAll(table, arc) ==
  IF Cardinality({n \in DOMAIN table : table[n] # NoCall}) > SoftCap
  THEN [n \in DOMAIN table |-> IF table[n] \in DOMAIN arc THEN NoCall ELSE table[n]]
  ELSE table

\* get_or_create_lock drops the locks that nobody references from a table past its cap.
Pruned(table, arc) ==
  IF Cardinality({n \in DOMAIN table : table[n] # NoCall}) > SoftCap
  THEN [n \in DOMAIN table |->
          IF \E c \in DOMAIN arc : arc[c] = table[n] THEN table[n] ELSE NoCall]
  ELSE table

\* ... and finds or creates the lock of a name.
Found(table, arc, name, c) ==
  LET kept == Pruned(table, arc)
  IN  [kept EXCEPT ![name] = IF @ = NoCall THEN c ELSE @]

LookupResource(c) ==
  /\ pc[c] = "hooked"
  /\ IF Resource[c] = NoResource
     THEN Goto(c, "gate") /\ UNCHANGED <<resTable, resArc>>
     ELSE /\ Goto(c, "at_res")
          /\ resTable' = Found(resTable, resArc, Resource[c], c)
          /\ resArc' = [resArc EXCEPT ![c] = resTable'[Resource[c]]]
  /\ UNCHANGED <<now, tick, result, phases, used, keyTable, keyArc, resHeld, keyHeld,
                 effects, sagas>>

LockResource(c) ==
  /\ pc[c] = "at_res"
  /\ \A d \in resHeld : resArc[d] # resArc[c]
  /\ resHeld' = resHeld \cup {c}
  /\ Goto(c, "gate")
  /\ UNCHANGED <<now, tick, result, phases, used, tables, keyHeld, effects, sagas>>

\* Mutant: the last use of a mandate is granted once more.
AuthorizesOnceMore(m, t) == t <= NotAfter[m] /\ used[m] <= MaxUses[m]

\* MandateRegistry::authorize at the tick t: in time and not exhausted.
Authorizes(m, t) == t <= NotAfter[m] /\ used[m] < MaxUses[m]

\* Mutant: the mandate is verified and no use consumed.
GateLooks(c) ==
  /\ pc[c] = "gate"
  /\ Kind[c] = "adjacent" => Mandate[c] # NoMandate /\ Authorizes(Mandate[c], tick[c])
  /\ Goto(c, IF Kind[c] = "free" THEN "run" ELSE "keyed")
  /\ UNCHANGED <<now, tick, result, phases, used, locks, effects, sagas>>

\* The fourth gate consumes a use, whatever becomes of the call.
Gate(c) ==
  /\ pc[c] = "gate"
  /\ IF Kind[c] # "adjacent" THEN UNCHANGED used
     ELSE /\ Mandate[c] # NoMandate /\ Authorizes(Mandate[c], tick[c])
          /\ used' = [used EXCEPT ![Mandate[c]] = @ + 1]
  /\ Goto(c, IF Kind[c] = "free" THEN "run" ELSE "keyed")
  /\ UNCHANGED <<now, tick, result, phases, locks, effects, sagas>>

\* Mutant: the refusal returns with the resource locked.
GateRefusedHolding(c) ==
  /\ pc[c] = "gate" /\ Kind[c] = "adjacent"
  /\ Mandate[c] # NoMandate => ~Authorizes(Mandate[c], tick[c])
  /\ result' = [result EXCEPT ![c] = "blocked"]
  /\ Goto(c, "over")
  /\ UNCHANGED <<now, tick, phases, used, locks, effects, sagas>>

GateRefused(c) ==
  /\ pc[c] = "gate" /\ Kind[c] = "adjacent"
  /\ Mandate[c] # NoMandate => ~Authorizes(Mandate[c], tick[c])
  /\ Answer(c, "blocked")
  /\ UNCHANGED <<used, effects>>

LookupKey(c) ==
  /\ pc[c] = "keyed"
  /\ keyTable' = Found(keyTable, keyArc, Runs[c], c)
  /\ keyArc' = [keyArc EXCEPT ![c] = keyTable'[Runs[c]]]
  /\ Goto(c, "at_key")
  /\ UNCHANGED <<now, tick, result, phases, used, resTable, resArc, resHeld, keyHeld,
                 effects, sagas>>

LockKey(c) ==
  /\ pc[c] = "at_key"
  /\ \A d \in keyHeld : keyArc[d] # keyArc[c]
  /\ keyHeld' = keyHeld \cup {c}
  /\ Goto(c, "claim")
  /\ UNCHANGED <<now, tick, result, phases, used, tables, resHeld, effects, sagas>>

-----------------------------------------------------------------------------
(* ... and under the key's lock *)

\* Mutant: a row somebody left PENDING is taken for an absent one.
ClaimBlind(c) ==
  /\ pc[c] = "claim"
  /\ row[Runs[c]] # "committed"
  /\ row' = [row EXCEPT ![Runs[c]] = "pending"]
  /\ Goto(c, "run")
  /\ UNCHANGED <<now, tick, result, phases, used, locks, acted, sagas>>

\* Fresh: no row, or one that failed.
Claim(c) ==
  /\ pc[c] = "claim"
  /\ row[Runs[c]] \in {"absent", "failed"}
  /\ row' = [row EXCEPT ![Runs[c]] = "pending"]
  /\ Goto(c, "run")
  /\ UNCHANGED <<now, tick, result, phases, used, locks, acted, sagas>>

Dedup(c) ==
  /\ pc[c] = "claim" /\ row[Runs[c]] = "committed"
  /\ Release(c, "deduped")
  /\ UNCHANGED <<used, effects>>

\* The effect of a key has taken place, by whatever call.
Fired(k) == \E c \in acted : Kind[c] # "free" /\ Runs[c] = k

\* InDoubt: the reconciler cannot tell, or tells what the downstream shows.
Reconcile(c) ==
  /\ pc[c] = "claim" /\ row[Runs[c]] = "pending"
  /\ \/ Answer(c, "doubt") /\ UNCHANGED row
     \/ /\ Fired(Runs[c])
        /\ row' = [row EXCEPT ![Runs[c]] = "committed"]
        /\ Release(c, "deduped")
     \/ /\ ~Fired(Runs[c])
        /\ row' = [row EXCEPT ![Runs[c]] = "failed"]
        /\ Answer(c, "failed")
  /\ UNCHANGED <<used, acted>>

\* execute_as returns: Ok with the effect, Err without.
Execute(c) ==
  /\ pc[c] = "run"
  /\ \/ Goto(c, "ran") /\ acted' = acted \cup {c}
     \/ Goto(c, "broke") /\ UNCHANGED acted
  /\ UNCHANGED <<now, tick, result, phases, used, locks, row, sagas>>

\* It panics, before or after its effect; the thread unwinds through the locks.
Panic(c) ==
  /\ "panic" \in Faults
  /\ pc[c] \in {"run", "ran"}
  /\ Answer(c, "panic")
  /\ UNCHANGED <<used, effects>>

\* The row is committed or failed, if there is one, and the call returns.
Settle(c) ==
  /\ \/ pc[c] = "ran" /\ Release(c, "ok")
     \/ pc[c] = "broke" /\ Answer(c, "failed")
  /\ row' = IF Kind[c] = "free" THEN row
            ELSE [row EXCEPT ![Runs[c]] = IF pc[c] = "ran" THEN "committed" ELSE "failed"]
  /\ UNCHANGED <<used, acted>>

-----------------------------------------------------------------------------
(* dispatch_saga *)

\* The step before is compensated, if its tool can, under no lock; its row stays.
Compensate(c) ==
  /\ pc[c] = "undo" /\ cursor[c] # NoCall
  /\ LET p == cursor[c] IN
     /\ \/ p \in Undoable /\ undone' = undone \cup {<<c, p>>} /\ UNCHANGED rollback
        \/ /\ UNCHANGED undone
           /\ rollback' = [rollback EXCEPT ![c] = "partial"]
     /\ cursor' = [cursor EXCEPT ![c] = Prev[p]]
  /\ UNCHANGED <<now, pc, tick, result, phases, used, locks, effects>>

EndSaga(c) ==
  /\ pc[c] = "undo" /\ cursor[c] = NoCall
  /\ Goto(c, "over")
  /\ UNCHANGED <<now, tick, result, phases, used, locks, effects, sagas>>

Tick ==
  /\ now < MaxTime /\ now' = now + 1
  /\ UNCHANGED <<pc, tick, result, phases, used, locks, effects, sagas>>

Step(c) ==
  \/ DryRun(c) \/ Commit(c) \/ CommitRefused(c) \/ Enter(c) \/ EnterRefused(c)
  \/ LookupResource(c) \/ LockResource(c) \/ Gate(c) \/ GateRefused(c)
  \/ LookupKey(c) \/ LockKey(c) \/ Claim(c) \/ Dedup(c) \/ Reconcile(c)
  \/ Execute(c) \/ Panic(c) \/ Settle(c) \/ Compensate(c) \/ EndSaga(c)

Next == (\E c \in Call : Step(c)) \/ Tick

Spec == Init /\ [][Next]_vars

\* Every thread runs on and every tool returns. Nothing is assumed of the mutexes but
\* that one which stays free is taken.
FairSpec == Spec /\ \A c \in Call : WF_vars(Step(c))

-----------------------------------------------------------------------------
\* Every variable keeps its type.
TypeOK ==
  /\ now \in 0..MaxTime
  /\ pc \in [Call -> Places] /\ tick \in [Call -> Nat] /\ result \in [Call -> Results]
  /\ prepared \subseteq Keys /\ expires \in [Keys -> Nat]
  /\ used \in [Mandates -> Nat] /\ \A m \in Mandates : used[m] <= MaxUses[m]
  /\ resTable \in [Resources -> Call \cup {NoCall}]
  /\ keyTable \in [Keys -> Call \cup {NoCall}]
  /\ resArc \in [Call -> Call \cup {NoCall}] /\ keyArc \in [Call -> Call \cup {NoCall}]
  /\ resHeld \subseteq Call /\ keyHeld \subseteq Call
  /\ row \in [Keys -> Rows]
  /\ cursor \in [Call -> Call \cup {NoCall}] /\ rollback \in [Call -> Rollbacks]
  /\ acted \subseteq Call /\ undone \subseteq Call \X Call
  /\ shown \in [Keys -> Nat] /\ granted \in [Keys -> Nat]

\* "Two callers resolving the same key get the same mutex, so they serialize", while the
\* tables are pruned and the locks recreated around them: no two calls are inside one
\* resource, nor one key, at a time.
OneAtATime ==
  /\ \A c, d \in resHeld : Resource[c] = Resource[d] => c = d
  /\ \A c, d \in keyHeld : Runs[c] = Runs[d] => c = d

\* "The capability runs exactly once": a key has its effect once, over duplicates in
\* flight, retries, panics that lose the acknowledgement, and saga rollbacks.
EffectOnce ==
  \A c, d \in acted : Kind[c] # "free" /\ Kind[d] # "free" /\ Runs[c] = Runs[d] => c = d

\* The calls that have got past the fourth gate with the mandate m and had their effect.
ActedUnder(m) == {c \in acted : Kind[c] = "adjacent" /\ Mandate[c] = m}

\* "A single-use PAM cannot fire twice": there are no more effects under a mandate than
\* uses were signed for, whatever calls present it at the same time.
UsesBoundEffects == \A m \in Mandates : Cardinality(ActedUnder(m)) <= MaxUses[m]

\* "A single preview cannot authorize two commits", whoever of several callers with one
\* key previews and commits in what order.
PreviewBuysOneCommit ==
  \A k \in Keys : granted[k] + (IF k \in prepared THEN 1 ELSE 0) <= shown[k]

\* "Rather than deadlocking every future call": a call that has entered returns, past
\* panicked holders and refusals, and its saga is rolled back to the end.
CallReturns == \A c \in Call : (pc[c] = "hooked") ~> (pc[c] = "over")

\* "Hard expiry (inclusive)": nothing is done under a mandate after its expiry.
MandateIsTimely ==
  [][\A c \in acted' \ acted : Kind[c] = "adjacent" => now <= NotAfter[Mandate[c]]]_vars

\* The commit runs "for this exact (tool, commit_key)": what was previewed.
PreviewedIsRun == \A c \in acted : Kind[c] = "phased" => Runs[c] = Key[c]

\* "Never a false rolled-back claim": a saga that reports Compensated has left nothing.
RolledBackIsGone ==
  \A c \in Call :
    pc[c] = "over" /\ rollback[c] = "compensated" =>
      c \notin acted /\ (Prev[c] \in acted => <<c, Prev[c]>> \in undone)

\* What a step that has returned Ok or Deduped answers for is done, and not undone by
\* the rollback of another saga or of an earlier run of this one.
SucceededStands ==
  \A c \in Call :
    pc[c] = "over" /\ result[c] \in {"ok", "deduped"} =>
      \A u \in undone : Runs[u[2]] = Runs[c] => u[2] = c
=============================================================================
