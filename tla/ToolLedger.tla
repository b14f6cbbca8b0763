----------------------------- MODULE ToolLedger -----------------------------
(***************************************************************************)
(* The side-effect ledger of ainxt-tools, for one idempotency key: the      *)
(* dispatch path (execute_dispatch_core), the ledger row it claims, commits *)
(* and fails, the reconciliation of an in-doubt claim, and the background   *)
(* sweeper, on several nodes over one shared row.                          *)
(*                                                                         *)
(* Rows of different keys do not interact, so one key is the whole ledger.  *)
(* A node's key lock lets one dispatch of the key run at a time; the        *)
(* sweeper of the node does not take it.  A step is one ledger call or one  *)
(* effect of the downstream.  A crash loses what both threads of a node     *)
(* knew; the row survives it, and so may a request already on the wire.     *)
(***************************************************************************)
EXTENDS Naturals

CONSTANTS
  Node,        \* processes that dispatch
  Sweeper,     \* the nodes that also run a ReconcilerSweeper
  Probe,       \* what the reconciler can tell about the downstream, see Verdicts
  MinAge,      \* ReconcilerSweeper.min_age, in ticks
  LeaseTtl,    \* ReconcilerSweeper.lease_ttl, in ticks
  LostWrites,  \* the ledger writes whose error the ledger discards; "query": a
               \* claim, lease or metadata statement that the database refuses
  MaxCalls,    \* bound: fresh claims
  MaxCrashes   \* bound: crashes

ASSUME LedgerAssumption ==
  /\ Sweeper \subseteq Node
  /\ Probe \in {"manual", "snapshot"}
  /\ MinAge \in Nat /\ LeaseTtl \in Nat
  /\ LostWrites \subseteq {"claim", "commit", "fail", "manual", "query"}
  /\ MaxCalls \in Nat /\ MaxCrashes \in Nat

VARIABLES
  row,        \* the ledger row
  meta,       \* the probe metadata (tool and args) the row carries, "none" or "tool"
  age,        \* now - claimed_at of a PENDING row, counted up to MinAge
  lease,      \* ticks the row's lease still lives
  call,       \* where each node's dispatch of the key is
  sweep,      \* where each node's sweep of the row is
  listed,     \* the metadata the sweep's listing of the row carried
  effects,    \* how often the downstream has executed the effect
  orphans,    \* requests on the wire whose node has crashed
  incidents,  \* escalations filed
  calls,      \* fresh claims so far
  crashes     \* crashes so far

vars == <<row, meta, age, lease, call, sweep, listed, effects, orphans,
          incidents, calls, crashes>>

rowVars  == <<row, meta, age, lease>>
worldVars == <<effects, orphans, incidents>>
boundVars == <<calls, crashes>>

Init ==
  /\ row = "absent" /\ meta = "none" /\ age = 0 /\ lease = 0
  /\ call = [n \in Node |-> "idle"]
  /\ sweep = [n \in Node |-> "idle"]
  /\ listed = [n \in Node |-> "none"]
  /\ effects = 0 /\ orphans = 0 /\ incidents = 0
  /\ calls = 0 /\ crashes = 0

-----------------------------------------------------------------------------
(* The ledger *)

\* commit and fail resolve the row, whatever it was: in memory they replace it, in a database
\* they leave its metadata and its lease alone.
Resolve(r) ==
  /\ row' = r /\ age' = 0
  /\ (meta' = "none" /\ lease' = 0) \/ UNCHANGED <<meta, lease>>

\* A write of the row's outcome; it is silently lost where errors are dropped.
Write(op, r) ==
  \/ Resolve(r)
  \/ op \in LostWrites /\ UNCHANGED rowVars

(***************************************************************************)
(* Reconciler::reconcile, an external probe of the downstream's state:      *)
(*   "manual"   ManualReconciler: it never guesses;                         *)
(*   "snapshot" it reports what the downstream shows at the moment.         *)
(* Any probe may be inconclusive, and one without metadata must be.         *)
(***************************************************************************)
Verdicts(known) ==
  {"manual"} \cup
  IF known = "none" \/ Probe = "manual" THEN {}
  ELSE IF effects > 0 THEN {"committed"}
  ELSE {"failed"}

-----------------------------------------------------------------------------
(* execute_dispatch_core, on a side-effecting tool *)

\* A claim that wins the row, among the rows that may be won: the row is PENDING.  The database
\* leaves the metadata of the earlier call in a row that is claimed again.
TakeRow(n, rows) ==
  /\ call[n] = "idle"
  /\ row \in rows
  /\ calls < MaxCalls
  /\ \/ row' = "pending" /\ meta' \in {"none", meta} /\ age' = 0 /\ lease' = 0
     \/ "claim" \in LostWrites /\ UNCHANGED rowVars
  /\ call' = [call EXCEPT ![n] = "claimed"]
  /\ calls' = calls + 1
  /\ UNCHANGED <<sweep, listed, worldVars, crashes>>

\* Mutants: an escalated, an in-doubt, a committed row is claimed afresh.
ClaimEscalated(n) == TakeRow(n, {"absent", "failed", "manual"})
ClaimPending(n)   == TakeRow(n, {"absent", "failed", "pending"})
ClaimCommitted(n) == TakeRow(n, {"absent", "failed", "committed"})

\* claim of an absent or cleanly failed row: Fresh.
ClaimFresh(n) == TakeRow(n, {"absent", "failed"})

\* claim of a PENDING or MANUAL row, or of one that the database does not show:
\* InDoubt, never blindly re-executed.  (A claim of a COMMITTED row that it shows
\* answers Deduped and changes nothing.)
ClaimInDoubt(n) ==
  /\ call[n] = "idle"
  /\ row \in {"pending", "manual"} \/ "query" \in LostWrites
  /\ call' = [call EXCEPT ![n] = "doubt"]
  /\ UNCHANGED <<rowVars, sweep, listed, worldVars, boundVars>>

\* record_pending_meta, if the row is still PENDING, then the call goes out.
Send(n) ==
  /\ call[n] = "claimed"
  /\ \/ meta' = IF row = "pending" THEN "tool" ELSE meta
     \/ "query" \in LostWrites /\ UNCHANGED meta
  /\ call' = [call EXCEPT ![n] = "sent"]
  /\ UNCHANGED <<row, age, lease, sweep, listed, worldVars, boundVars>>

\* The downstream executes the request, of a live call or of an orphan.
Land(n) ==
  /\ call[n] = "sent"
  /\ effects' = effects + 1
  /\ call' = [call EXCEPT ![n] = "landed"]
  /\ UNCHANGED <<rowVars, sweep, listed, orphans, incidents, boundVars>>

OrphanLands ==
  /\ orphans > 0
  /\ orphans' = orphans - 1
  /\ effects' = effects + 1
  /\ UNCHANGED <<rowVars, call, sweep, listed, incidents, boundVars>>

OrphanLost ==
  /\ orphans > 0
  /\ orphans' = orphans - 1
  /\ UNCHANGED <<rowVars, call, sweep, listed, effects, incidents, boundVars>>

\* execute_as returns: Ok once the effect landed, Err only if it never will.
CallReturns(n) ==
  /\ \/ call[n] = "landed" /\ call' = [call EXCEPT ![n] = "commit"]
     \/ call[n] = "sent" /\ call' = [call EXCEPT ![n] = "fail"]
  /\ UNCHANGED <<rowVars, sweep, listed, worldVars, boundVars>>

\* The in-doubt claim is probed at once, whatever the age of the row.
ProbeClaim(n) ==
  /\ call[n] = "doubt"
  /\ \E v \in Verdicts("tool") :
       call' = [call EXCEPT ![n] = CASE v = "committed" -> "commit"
                                     [] v = "failed" -> "fail"
                                     [] v = "manual" -> "idle"]
  /\ UNCHANGED <<rowVars, sweep, listed, worldVars, boundVars>>

Commit(n) ==
  /\ call[n] = "commit"
  /\ Write("commit", "committed")
  /\ call' = [call EXCEPT ![n] = "idle"]
  /\ UNCHANGED <<sweep, listed, worldVars, boundVars>>

Fail(n) ==
  /\ call[n] = "fail"
  /\ Write("fail", "failed")
  /\ call' = [call EXCEPT ![n] = "idle"]
  /\ UNCHANGED <<sweep, listed, worldVars, boundVars>>

Dispatch(n) ==
  \/ ClaimFresh(n) \/ ClaimInDoubt(n) \/ Send(n) \/ CallReturns(n)
  \/ ProbeClaim(n) \/ Commit(n) \/ Fail(n)

-----------------------------------------------------------------------------
(* ReconcilerSweeper::sweep_once, for this row *)

SweepTo(n, p) == sweep' = [sweep EXCEPT ![n] = p]

\* pending_beyond lists the row: PENDING and old enough, leased or not.
List(n) ==
  /\ sweep[n] = "idle"
  /\ row = "pending" /\ age >= MinAge
  /\ SweepTo(n, "listed")
  /\ listed' = [listed EXCEPT ![n] = meta]
  /\ UNCHANGED <<rowVars, call, worldVars, boundVars>>

\* try_lease: granted if the row is (still, or again) PENDING and not leased.
Lease(n) ==
  /\ sweep[n] = "listed"
  /\ row = "pending" /\ lease = 0
  /\ lease' = LeaseTtl
  /\ SweepTo(n, "leased")
  /\ UNCHANGED <<row, meta, age, call, listed, worldVars, boundVars>>

SkipLeased(n) ==
  /\ sweep[n] = "listed"
  /\ row # "pending" \/ lease > 0 \/ "query" \in LostWrites
  /\ SweepTo(n, "idle")
  /\ UNCHANGED <<rowVars, call, listed, worldVars, boundVars>>

\* Mutant: an inconclusive probe is taken for success.
ProbeRowGuesses(n) ==
  /\ sweep[n] = "leased"
  /\ \E v \in Verdicts(listed[n]) : SweepTo(n, IF v = "failed" THEN "fail" ELSE "commit")
  /\ UNCHANGED <<rowVars, call, listed, worldVars, boundVars>>

ProbeRow(n) ==
  /\ sweep[n] = "leased"
  /\ \E v \in Verdicts(listed[n]) :
       SweepTo(n, CASE v = "committed" -> "commit"
                    [] v = "failed" -> "fail"
                    [] v = "manual" -> "escalate")
  /\ UNCHANGED <<rowVars, call, listed, worldVars, boundVars>>

SweepCommit(n) ==
  /\ sweep[n] = "commit"
  /\ Write("commit", "committed")
  /\ SweepTo(n, "idle")
  /\ UNCHANGED <<call, listed, worldVars, boundVars>>

SweepFail(n) ==
  /\ sweep[n] = "fail"
  /\ Write("fail", "failed")
  /\ SweepTo(n, "idle")
  /\ UNCHANGED <<call, listed, worldVars, boundVars>>

\* Mutant: what nobody can decide is marked failed.
EscalateAsFailed(n) ==
  /\ sweep[n] = "escalate"
  /\ IF row = "pending" THEN Write("manual", "failed") ELSE UNCHANGED rowVars
  /\ SweepTo(n, "page")
  /\ UNCHANGED <<call, listed, worldVars, boundVars>>

\* escalate_manual moves a row that is still PENDING ...
Escalate(n) ==
  /\ sweep[n] = "escalate"
  /\ IF row = "pending" THEN Write("manual", "manual") ELSE UNCHANGED rowVars
  /\ SweepTo(n, "page")
  /\ UNCHANGED <<call, listed, worldVars, boundVars>>

\* ... and the incident is filed in any case.
\* (Bound: incidents are counted up to one more than there were fresh claims.)
Page(n) ==
  /\ sweep[n] = "page"
  /\ incidents' = IF incidents <= calls THEN incidents + 1 ELSE incidents
  /\ SweepTo(n, "idle")
  /\ UNCHANGED <<rowVars, call, listed, effects, orphans, boundVars>>

Sweep(n) ==
  \/ List(n) \/ Lease(n) \/ SkipLeased(n) \/ ProbeRow(n)
  \/ SweepCommit(n) \/ SweepFail(n) \/ Escalate(n) \/ Page(n)

-----------------------------------------------------------------------------
(* The environment *)

\* Mutants: the age is not capped; the lease never runs out.
TickUncapped ==
  /\ row = "pending"
  /\ age < MinAge \/ lease > 0
  /\ age' = age + 1
  /\ lease' = IF lease > 0 THEN lease - 1 ELSE 0
  /\ UNCHANGED <<row, meta, call, sweep, listed, worldVars, boundVars>>

TickKeepsLease ==
  /\ row = "pending"
  /\ age < MinAge
  /\ age' = age + 1
  /\ UNCHANGED <<row, meta, lease, call, sweep, listed, worldVars, boundVars>>

\* The ledger clock advances: the row ages and its lease runs out.
Tick ==
  /\ row = "pending"
  /\ age < MinAge \/ lease > 0
  /\ age' = IF age < MinAge THEN age + 1 ELSE age
  /\ lease' = IF lease > 0 THEN lease - 1 ELSE 0
  /\ UNCHANGED <<row, meta, call, sweep, listed, worldVars, boundVars>>

\* A node crashes and restarts; a request it had sent may stay on the wire.
Crash(n) ==
  /\ crashes < MaxCrashes
  /\ orphans' = IF call[n] = "sent" THEN orphans + 1 ELSE orphans
  /\ call' = [call EXCEPT ![n] = "idle"]
  /\ sweep' = [sweep EXCEPT ![n] = "idle"]
  /\ crashes' = crashes + 1
  /\ UNCHANGED <<rowVars, listed, effects, incidents, calls>>

Next ==
  \/ \E n \in Node : Dispatch(n) \/ Land(n) \/ Crash(n)
  \/ \E n \in Sweeper : Sweep(n)
  \/ OrphanLands \/ OrphanLost
  \/ Tick

Spec == Init /\ [][Next]_vars

\* The sweep loop repeats its pass for ever and the clock advances.  Nothing is
\* assumed of the dispatching threads: the downstream may never answer them.
FairSpec ==
  /\ Spec
  /\ WF_vars(Tick)
  /\ \A n \in Sweeper : WF_vars(Sweep(n))

=============================================================================
