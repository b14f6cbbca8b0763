--------------------------- MODULE ToolLedgerProps ---------------------------
(***************************************************************************)
(* The correctness properties of the side-effect ledger.                   *)
(***************************************************************************)
EXTENDS ToolLedger

\* Every variable keeps its type.
TypeOK ==
  /\ row \in {"absent", "pending", "committed", "failed", "manual"}
  /\ meta \in {"none", "tool"} /\ age \in 0..MinAge /\ lease \in 0..LeaseTtl
  /\ call \in [Node -> {"idle", "claimed", "sent", "landed", "commit", "fail", "doubt"}]
  /\ sweep \in [Node -> {"idle", "listed", "leased", "commit", "fail", "escalate", "page"}]
  /\ listed \in [Node -> {"none", "tool"}]
  /\ effects \in Nat /\ orphans \in Nat /\ incidents \in Nat
  /\ calls \in Nat /\ crashes \in Nat

\* The payment-critical guarantee of the crate: a side-effecting tool "executes
\* at most once per idempotency key", across retries, nodes, crashes, requests
\* that outlive their sender, and the sweeper.
AtMostOnce == effects <= 1

\* A node owns the slot from the claim it won until it has written the outcome.
Owns(n) == call[n] \in {"claimed", "sent", "landed", "commit", "fail"}

\* "Exactly one concurrent caller across the whole cluster gets this": no two
\* nodes ever own the slot together, also when the row was escalated, failed and
\* claimed again in between.
OneOwner == \A m, n \in Node : Owns(m) /\ Owns(n) => m = n

\* A COMMITTED row is never fabricated: the effect it reports, which every later
\* dispatch is answered from, has happened downstream.
CommittedHasEffect == row = "committed" => effects > 0

\* A request of the key is executing or may still execute downstream.
OnTheWire == orphans > 0 \/ \E n \in Node : call[n] \in {"claimed", "sent"}

\* A row that may be claimed again has no effect behind it and none to come: the
\* re-claim of a FAILED row is safe because the failure is final.
ReclaimIsSafe ==
  row = "failed" => effects = 0 /\ ~OnTheWire /\ \A n \in Node : call[n] # "landed"

\* "the terminal success write": a COMMITTED row stays COMMITTED.
CommittedIsTerminal == [][row = "committed" => row' = "committed"]_vars

\* A row escalated to MANUAL_RECONCILIATION is "the honest terminal state": a later
\* retry does not execute, until a human has reconciled it.
ManualIsTerminal == [][row = "manual" => row' \in {"manual", "committed"}]_vars

\* "The row is no longer swept (no duplicate incidents)": the sweepers of all nodes
\* together file at most one incident for the one claim of the row.
OneIncidentPerClaim == incidents <= calls

\* "Escalation must be honest and loud - never swallowed": the incident of an
\* escalated row has been filed, or a sweeper is about to file it.
EscalationIsLoud ==
  row = "manual" => incidents > 0 \/ \E n \in Node : sweep[n] = "page"

\* A PENDING row does not stay so: some sweeper resolves or escalates it, although
\* nodes crash in the middle of a call or of a sweep, and leases outlive them.
PendingResolved == row = "pending" ~> row # "pending"

-----------------------------------------------------------------------------
(* The inductive invariant of AtMostOnce when no probe guesses. *)

\* Where a call is tells what the downstream has done for it.
CallMatchesEffects ==
  \A n \in Node :
    /\ call[n] \in {"claimed", "sent", "fail"} => effects = 0 /\ orphans = 0
    /\ call[n] \in {"landed", "commit"} => effects = 1 /\ orphans = 0

\* The slot is owned only behind a row that nobody can claim; a claimable row has
\* neither an effect nor an orphan behind it.
ClaimableIsClean ==
  row \in {"absent", "failed"} =>
    /\ effects = 0 /\ orphans = 0
    /\ \A n \in Node : ~Owns(n)

\* Nobody owns the slot behind a row that is committed.
CommittedIsClosed == row = "committed" => \A n \in Node : ~Owns(n)

\* The parts that the steps of the system may disturb.
SlotInv ==
  /\ OneOwner
  /\ CommittedIsClosed
  /\ effects + orphans <= 1
  /\ CallMatchesEffects
  /\ ClaimableIsClean
  /\ \A n \in Node : sweep[n] \notin {"commit", "fail"}

AtMostOnceInv == TypeOK /\ SlotInv

=============================================================================
