---------------------------- MODULE LedgeredSaga ----------------------------
(***************************************************************************)
(* run_saga_ledgered of ainxt-tools: a composite action whose steps each    *)
(* claim a row of the exactly-once ledger, compensated in reverse when a    *)
(* step fails.  Several runners may run the same saga (the ledger is shared *)
(* and no lock covers a run), each may be retried, and a crash leaves the   *)
(* rows and the world as they are.                                         *)
(***************************************************************************)
EXTENDS Naturals

CONSTANTS
  Runner,        \* callers of run_saga_ledgered with the same steps
  Steps,         \* number of steps
  MaxAttempts,   \* bound: runs started, over all runners
  MaxRunCrashes  \* bound: crashes

ASSUME SagaAssumption ==
  Steps \in Nat \ {0} /\ MaxAttempts \in Nat /\ MaxRunCrashes \in Nat

Step == 1..Steps

VARIABLES
  rows,      \* the ledger row of each step
  executed,  \* how often a step's action took effect
  undone,    \* how often its compensation took effect
  phase,     \* what each runner does next
  at,        \* the step it does it to
  stuck,     \* the steps whose compensation failed in this run
  outcome,   \* what the runner's last run returned
  attempts, runCrashes

sagaVars == <<rows, executed, undone, phase, at, stuck, outcome, attempts, runCrashes>>

world  == <<executed, undone>>
bounds == <<attempts, runCrashes>>

SagaInit ==
  /\ rows = [i \in Step |-> "absent"]
  /\ executed = [i \in Step |-> 0]
  /\ undone = [i \in Step |-> 0]
  /\ phase = [r \in Runner |-> "idle"]
  /\ at = [r \in Runner |-> 0]
  /\ stuck = [r \in Runner |-> {}]
  /\ outcome = [r \in Runner |-> "none"]
  /\ attempts = 0 /\ runCrashes = 0

\* Runner r goes on with phase p at step i.
Goto(r, p, i) ==
  /\ phase' = [phase EXCEPT ![r] = p]
  /\ at' = [at EXCEPT ![r] = i]

Return(r, o) ==
  /\ Goto(r, "idle", 0)
  /\ outcome' = [outcome EXCEPT ![r] = o]

Start(r) ==
  /\ phase[r] = "idle"
  /\ attempts < MaxAttempts
  /\ attempts' = attempts + 1
  /\ Goto(r, "claim", 1)
  /\ stuck' = [stuck EXCEPT ![r] = {}]
  /\ outcome' = [outcome EXCEPT ![r] = "none"]
  /\ UNCHANGED <<rows, world, runCrashes>>

\* Mutant: a step in doubt is executed again.
ClaimBlindly(r) ==
  /\ phase[r] = "claim" /\ at[r] \in Step
  /\ \/ /\ rows[at[r]] = "committed"
        /\ Goto(r, "claim", at[r] + 1)
        /\ UNCHANGED rows
     \/ /\ rows[at[r]] # "committed"
        /\ rows' = [rows EXCEPT ![at[r]] = "pending"]
        /\ Goto(r, "act", at[r])
  /\ UNCHANGED <<world, stuck, outcome, bounds>>

\* The ledger arbitrates the step: adopt what is committed, fail into
\* compensation on what is in doubt, execute what is fresh or cleanly failed.
Claim(r) ==
  /\ phase[r] = "claim" /\ at[r] \in Step
  /\ \/ /\ rows[at[r]] = "committed"
        /\ Goto(r, "claim", at[r] + 1)
        /\ UNCHANGED rows
     \/ /\ rows[at[r]] = "pending"
        /\ Goto(r, "undo", at[r] - 1)
        /\ UNCHANGED rows
     \/ /\ rows[at[r]] \in {"absent", "failed"}
        /\ rows' = [rows EXCEPT ![at[r]] = "pending"]
        /\ Goto(r, "act", at[r])
  /\ UNCHANGED <<world, stuck, outcome, bounds>>

\* The action takes effect, or fails without effect.
Act(r) ==
  /\ phase[r] = "act"
  /\ \/ /\ executed' = [executed EXCEPT ![at[r]] = @ + 1]
        /\ Goto(r, "commit", at[r])
     \/ /\ Goto(r, "fail", at[r])
        /\ UNCHANGED executed
  /\ UNCHANGED <<rows, undone, stuck, outcome, bounds>>

\* Mutant: the loop skips a step.
CommitSkips(r) ==
  /\ phase[r] = "commit"
  /\ rows' = [rows EXCEPT ![at[r]] = "committed"]
  /\ Goto(r, "claim", at[r] + 2)
  /\ UNCHANGED <<world, stuck, outcome, bounds>>

CommitStep(r) ==
  /\ phase[r] = "commit"
  /\ rows' = [rows EXCEPT ![at[r]] = "committed"]
  /\ Goto(r, "claim", at[r] + 1)
  /\ UNCHANGED <<world, stuck, outcome, bounds>>

\* Mutant: the failed step is compensated too.
FailUndoesItself(r) ==
  /\ phase[r] = "fail"
  /\ rows' = [rows EXCEPT ![at[r]] = "failed"]
  /\ Goto(r, "undo", at[r])
  /\ UNCHANGED <<world, stuck, outcome, bounds>>

FailStep(r) ==
  /\ phase[r] = "fail"
  /\ rows' = [rows EXCEPT ![at[r]] = "failed"]
  /\ Goto(r, "undo", at[r] - 1)
  /\ UNCHANGED <<world, stuck, outcome, bounds>>

\* Mutant: a failed compensation is forgotten.
UndoForgets(r) ==
  /\ phase[r] = "undo" /\ at[r] \in Step
  /\ undone' \in {undone, [undone EXCEPT ![at[r]] = @ + 1]}
  /\ Goto(r, "undo", at[r] - 1)
  /\ UNCHANGED <<rows, executed, stuck, outcome, bounds>>

\* Compensate the next step down; its ledger row is not touched.
Undo(r) ==
  /\ phase[r] = "undo" /\ at[r] \in Step
  /\ \/ undone' = [undone EXCEPT ![at[r]] = @ + 1] /\ UNCHANGED stuck
     \/ stuck' = [stuck EXCEPT ![r] = @ \cup {at[r]}] /\ UNCHANGED undone
  /\ Goto(r, "undo", at[r] - 1)
  /\ UNCHANGED <<rows, executed, outcome, bounds>>

Completed(r) ==
  /\ phase[r] = "claim" /\ at[r] = Steps + 1
  /\ Return(r, "completed")
  /\ UNCHANGED <<rows, world, stuck, bounds>>

RolledBack(r) ==
  /\ phase[r] = "undo" /\ at[r] = 0
  /\ Return(r, IF stuck[r] = {} THEN "compensated" ELSE "partial")
  /\ UNCHANGED <<rows, world, stuck, bounds>>

CrashRun(r) ==
  /\ phase[r] # "idle"
  /\ runCrashes < MaxRunCrashes
  /\ runCrashes' = runCrashes + 1
  /\ Return(r, "none")
  /\ UNCHANGED <<rows, world, stuck, attempts>>

Run(r) ==
  \/ Start(r) \/ Claim(r) \/ Act(r) \/ CommitStep(r) \/ FailStep(r)
  \/ Undo(r) \/ Completed(r) \/ RolledBack(r)

SagaNext == \E r \in Runner : Run(r) \/ CrashRun(r)

SagaSpec == SagaInit /\ [][SagaNext]_sagaVars

-----------------------------------------------------------------------------
\* The effect of the step is in the world.
Applied(i) == executed[i] > undone[i]

\* Every variable keeps its type, and a runner is at a step when it acts on one.
SagaTypeOK ==
  /\ rows \in [Step -> {"absent", "pending", "committed", "failed"}]
  /\ executed \in [Step -> Nat] /\ undone \in [Step -> Nat]
  /\ phase \in [Runner -> {"idle", "claim", "act", "commit", "fail", "undo"}]
  /\ at \in [Runner -> 0..Steps + 1]
  /\ \A r \in Runner : phase[r] \in {"act", "commit", "fail"} => at[r] \in Step
  /\ stuck \in [Runner -> SUBSET Step]
  /\ outcome \in [Runner -> {"none", "completed", "compensated", "partial"}]
  /\ attempts \in Nat /\ runCrashes \in Nat

\* "a step already COMMITTED on a prior saga attempt is not re-executed", and one in
\* doubt never blindly: a step takes effect at most once over all runs and crashes.
StepAtMostOnce == \A i \in Step : executed[i] <= 1

\* Only a step that took effect is ever compensated, by this run or by another
\* that adopted it: never one in doubt, never the failed one.
OnlyAppliedIsUndone == \A i \in Step : undone[i] > 0 => executed[i] > 0

\* The steps take effect in order, whichever runs execute them.
InOrder ==
  \A i, j \in Step : i < j /\ executed[j] > 0 => executed[i] > 0

\* A first run that nothing interrupts tells exactly what it leaves in the world:
\* all of the steps, none of them, or those it names as uncompensated.
FirstRunIsExact ==
  attempts <= 1 /\ runCrashes = 0 =>
    \A r \in Runner :
      /\ outcome[r] = "completed" => \A i \in Step : Applied(i)
      /\ outcome[r] = "compensated" => \A i \in Step : ~Applied(i)
      /\ outcome[r] = "partial" => {i \in Step : Applied(i)} = stuck[r]

\* The composite action "is safe to retry as a whole": a run that answers Completed,
\* the first or a retry, leaves every step's effect in the world.
CompletedIsApplied ==
  \A r \in Runner : outcome[r] = "completed" => \A i \in Step : Applied(i)

\* Compensated means "all completed steps were compensated (world restored)", also
\* for a run that found a step in doubt.
WorldRestored ==
  \A r \in Runner : outcome[r] = "compensated" => \A i \in Step : ~Applied(i)

=============================================================================
