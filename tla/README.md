# A TLA+ model of the ainxt-os core

TLA+ specifications of the concurrent and crash-prone core of **ainxt-os** (a Rust
workspace of some sixty crates that runs LLM turns, tools and sagas for a regulated
payments organisation), the TLC configurations that check them on small instances, and
TLAPS proofs of what matters most for instances of any size.

`tlc -config X.cfg M.tla` runs one check, `tlapm M.tla` one module of proofs.
`PROJECT.json` ties every definition to the source lines it translates and every hazard
to the properties that cover it.

## 1. The system

A client opens a *session* on a surface (chat, CLI, console). The server takes a place for
the turn in the **serving pool** and hands it to the **session manager**, which queues the
session's *turns* to one actor. The actor runs each turn in the **engine**: the engine routes
model streams, screens what comes back, asks a human through the **approval gate** where it
must, and dispatches *tools* through the **tool runtime**, where every side effect passes the
**side-effect ledger**: a row per idempotency key, claimed before the call and resolved after
it. Rows that a crash left unresolved are taken up by the **reconciler sweeper** of any node;
several tools chained into one business action run as a **ledgered saga**. Connectors obtain
credentials from the **token refresh coordinator**. Commands and events of the session are
appended to the hash-chained **event log**; served turns are kept in the session store under
the **retention** rules, which erase them on demand unless a floor or a legal matter forbids.

```
 client --> server --place--> serving pool
   |          |--submit/turn.stop--> session manager --> engine (one turn) --> event log
   |          '--approval.respond--> approval gate <--ask--'  |
   |                                                          | dispatch, commit, saga
   '--erase, DELETE /memory--> retention <--served turn--     v
                                  |  session store     tool runtime: previews, mandates, locks
                                  '- memory fabric            | claim/commit/fail
                vault <-- refresh coordinator <-- connectors  v
                               |                       side-effect ledger <-- sweepers, saga runner
                          lock store, provider
```

### Components that carry the core logic

| component (crate) | state | operations | what is hard | correct means |
|---|---|---|---|---|
| session manager (`session`) | `sessions` map id -> inbox sender, `cancels` map id -> (turn, token), an inbox and a task per session | submit, resume, revoke, turn.stop, ticket cancel, idle reap | two mutexes, tasks that reap themselves, revoke in two critical sections, panics, timeouts, receivers that stall | serial turns in order, no lost turn, bounded maps, no stale token, every turn answered |
| engine (`runtime`) | one turn: class, taint, provider chain, calls and their batch, session approvals, cancel token | route, stream, retry, fail over, screen, gate, dispatch in batches or serially, end | a stop at any point, results that finish in any order, taint and data class that change after a choice was made | answers in order, no gate bypassed, regulated data stays in the house, every turn ends |
| approval gate (`server`, `client`) | one pending sender per session, a channel per ask | register, wait, respond, expire | blocking wait on a worker thread, late, crossed and repeated answers, two askers of one session | an ask is cleared by one accepted answer and by nothing else |
| serving pool (`serving`, `server`) | fairness counts per tenant, scheduler slots, wait queue, idempotency ledger | pre_serve, model_infer, evict, complete, begin, commit | two counts of one slot, eviction of a request that is being served, a guard that is created late, late commits of retries | quotas kept and guaranteed, places come back, one bill and one answer |
| tool runtime (`tools`) | previews, mandates' uses, tables of locks, ledger rows | dry_run, commit, dispatch, dispatch_saga | pruned lock tables, panics under a lock, check and use of a mandate, refusals after the effect | one call at a time per resource and key, one effect, uses bound effects |
| side-effect ledger and dispatch (`tools`) | row (state, claimed_at, probe metadata, lease) per key | claim, record_pending_meta, commit, fail, deduplicate | several nodes on one row, crash between claim and commit, requests that outlive their sender, unconditional terminal writes, discarded write errors | at most once, one owner per slot, a re-claim only of what can no longer happen |
| reconciler sweeper (`tools`) | the rows a pass listed, leases | list, lease, probe, resolve, escalate, page | stale listing, lease that runs out during a probe, crash before the page | every PENDING row is resolved or escalated, never guessed |
| ledgered saga (`tools`) | the ledger rows of its steps | claim/act/commit/fail a step, compensate | overlapping and retried runs, steps in doubt, failing compensations | a step once, in order, only what happened is undone |
| refresh coordinator (`refresh`) | lock key with TTL and fence, vault record | check, lock, recheck, load, refresh, save, release | thundering herd, lock lapsing under its holder, rotation of refresh tokens, holder death | one refresh per stale token, no log-out, no stuck key |
| event log (`eventlog`) | JSONL file per session, cached head per handle | append, replay, verify | torn and half-failed writes, unreadable files, reopening, two handles | the chain verifies and holds what was acknowledged |
| retention (`lifecycle`, `runtimed`, `server`, `memory`) | mirrored rows with age anchors, deferred erasures, matters, policies; the sessions' text; the memory items | persist a turn, erase, sweep, hold, replace a policy, delete memory | the store decides under a mutex that the writers of the sessions do not take, at a tick that its caller may name; a mirror that can be rebuilt; three tiers | what is erased is gone and was owed, what must be kept is kept, deferred erasures fire |

The remaining crates are sequential functions of their arguments, policy evaluators,
model-driven text transformations or I/O adapters; `PROJECT.json` lists each with the reason
it is left out, and section 7 sums them up.

## 2. Modules

| module | role | source |
|---|---|---|
| `Sessions` | the session manager | `ainxt-session/src/lib.rs` |
| `SessionsProps` | its properties, and the refinement mapping to `TurnService` | |
| `TurnService` | what the manager promises, without actors, locks or channels | same |
| `TurnLoop` | one turn of the engine, with its properties; extends `Approvals` | `ainxt-runtime/src/lib.rs` |
| `TurnContract` | what the engine promises the client of a turn, without providers, batches or gates | same |
| `Approvals` | the approval round trip of one session | `ainxt-server/src/lib.rs` |
| `ServingPool` | the pool and the two handlers that share it, with its properties | `ainxt-serving/src`, `ainxt-server/src/lib.rs` |
| `GovernedDispatch` | previews, mandates, locks and sagas of one process, with its properties | `ainxt-tools/src/lib.rs`, `ainxt-payments/src/mandate.rs` |
| `ToolLedger`, `ToolLedgerProps` | ledger, dispatch core and sweeper over one row, on several nodes | `ainxt-tools/src/lib.rs` |
| `LedgeredSaga` | `run_saga_ledgered`, with its properties | `ainxt-tools/src/lib.rs` |
| `TokenRefresh` | `ensure_fresh_in`, with its properties | `ainxt-refresh/src/lib.rs` |
| `EventLog` | one session's `JsonlEventLog`, with its properties | `ainxt-eventlog/src/lib.rs` |
| `Retention` | precedence store, session store and memory fabric, with its properties | `ainxt-lifecycle/src`, `ainxt-runtimed`, `ainxt-server` |

`MC...` modules give TLC its instances, `...Proofs` modules hold the theorems of
`Sessions`, `TurnLoop` (with `Approvals`), `ServingPool`, `GovernedDispatch`, `ToolLedger` (with
`LedgeredSaga`), `TokenRefresh`, `EventLog` and `Retention`.

The compositions are `TurnLoop` over `Approvals` (the engine, the gate, a harness run of the
same session and the clients, on a given number of worker threads), `ServingPool` (two
handlers over one pool) and `Retention` (writers, erasures and administrators over three
stores). `GovernedDispatch` and `ToolLedger` look at one ledger from two sides: many keys in one
process, and one key on many nodes.

Definitions introduced by a comment "Mutant:" are not part of the model: each is a plausible
bug of a definition of its module, and replacing that definition by it makes TLC refute
one property of a run.

### Sessions

The `sessions` and `cancels` maps are variables of those names. A task is a program counter
`pc[a]`, an incarnation that never returns once exited: a channel sender is modelled by the
actor that receives from it, so "the entry still names the dead actor" is expressible.
One action is one critical section (`submit` holds the `sessions` lock from look-up to
`try_send`) or one actor step between two awaits. `revoke` is two actions, because it takes
`cancels` and then `sessions`. `run_actor` is `Receive`, `SendersGone`, `IdleElapsed`
(the timer), and, under the lock, `TakeStraggler` or `Reap`; `process` is `Register`,
the handler's end (`HandlerReturns`, or `HandlerAborts` for a panic and for the timeout),
`TerminateStream` and `Finish`. The receiver of a turn's event stream (`client`) may stall,
drain again or hang up. It decides whether the bounded sink accepts an event.

Abstracted: event payloads, what the handler does with a fired token (`TurnLoop` says that), the
command kinds other than the ones above (they only read), the clock (timers are enabled
whenever their await is).

### TurnLoop and Approvals

`TurnLoop` is `run_turn_cancellable` as a program counter: admission, the loop over model
rounds (`Route`, the events of the stream, retry, failover), the screening of each tool call
in the order the model made them, the flush of the batch, the approval gate, the serial
dispatch, and the end on the sink, the wire and the audit trail. One action is what the task
does between two awaits, and less where a `Stop` on another worker can fall in between. `Begin` looks at the cancel token
before any work, and `Refuse` and `Admit` are what follows without another look. The futures of the batch are polled
in passes: a call looks at the token, enters and yields once; polled again it looks once more (both looks are
`Poll`) and is then dispatched (`Dispatch`), and a `Stop` can fall between any two of these, also between the last look
and the dispatch. Calls that edit one file wait for its mutex in order. When the last future is
through, the results are shown one by one (`ShowResult`, each an `await` on the sink at which the token may be
set), and what is next is done (`FlushEnds`). `calls` records how far each call is (streamed, queued, in flight,
cleared, fired, dropped, answered, refused), `shown` in which order the sink saw the answers.

`TurnContract` is the turn as its client sees it: it is opened or turned away, calls are shown and answered
round by round and in order, a round begins when all before it is answered, the turn ends once, and with
everything answered unless it was stopped or failed. In `TurnLoop`, `Contract` maps the engine to it: the phase is
read off `pc`, the calls shown are `Len(calls)`, those of the rounds before `base`, the answers `shown`.

`Approvals` is the other side of the gate: `decide` registers a sender under the session's id,
blocks its worker thread in `recv_timeout`, and returns the answer, or a rejection when the
time is up or its sender has been replaced. `Respond` is the `approval.respond` route. Harness
runs of the session ask through the same coordinator, without an announcement. `credit` counts
acceptances (202) against cleared asks. `yes` are the calls whose own ask came back from `decide` with a plain approve.
The coordinator goes by the session and looks at no `approval_id`, so the human may have meant another ask:
`GatedNeedsYes` does not say otherwise, and `AnswersItsOwn`, which would, is refuted (section 4).

Abstracted: texts, the contents of results (an injection may or may not be found, in a result or in
arguments), router scores (any order of the eligible providers), cost and capacity (a refusal at
admission), the stuck detector (it may say so after any round without a new call), and one edited
file stands for all. A missing tool runtime is the failure of a turn at its first round with
calls. What happens after the turn has ended is not followed. A gate that answers from a policy without
asking is not modelled; an engine without a gate rejects. Injection defence, where it is on, has
`gate_side_effects_on_taint` as its constructors set it, on. `Route` takes eligible providers only, as the router
does by definition; what is checked is that the class it goes by is the turn's class of the moment. Of a stream's
events the model has text, reasoning and tool calls; `OneVoice` says nothing of the other kinds, which are forwarded without
counting as output, and which no provider of the repository puts in its stream.

### ServingPool

A slot is two things: a count of the tenant in the fairness limiter and a place in the
preemption scheduler. `pre_serve` and `model_infer` take both under the pool's mutex;
what happens afterwards may separate them, and `harm` records what has. `EndTurn` is the
completion by the guard that lives in the response stream, `EndUnplaced` the same when the turn
was evicted meanwhile, `ShedAfterReserve` the return between the reservation and the guard.
`Lookup`, `Infer` and `Release` are `infer_handler` with its idempotency ledger: a retry is
another call with the same key, `Commit` the end of a generation. Turn ids come from a counter
and call ids from the client, so they may meet. The kill switch never matches a served turn;
`resume`, `drain`, rollout, health and attestation, and the order inside the weighted queue, are not
modelled.

### GovernedDispatch

One process: `DryRun`/`Commit` over the table of previews, the OBO mandate's uses, and
`execute_dispatch` as the sequence of its look-ups and locks. A lock is named by the call
that created it, which is how pruning one that is in use would show: the next caller would
get another lock for the same name. A panicking tool leaves its row PENDING, and its locks, which the next
caller recovers from poison. `dispatch_saga` is a chain of calls (`Prev`) with a cursor that walks
back over the steps. Policy, DLP and hooks may refuse (`EnterRefused`) and a post-hook may turn a
success into a failure (`Release`).

### ToolLedger

One idempotency key, since rows of different keys never meet. `row`, `meta`, `age`,
`lease` are the columns of the row; `age` is `now - claimed_at` up to `MinAge`, the only
comparison made of it. `call[n]` is where node *n*'s `execute_dispatch_core` is; the key lock
makes it one per node (`OneAtATime` of `GovernedDispatch` is that assumption). `sweep[n]` is where its
`sweep_once` is. Each ledger method and each
effect of the downstream is a step. `Crash` forgets what both threads of a node knew; a
request that was already sent becomes an orphan, which may still execute. `LostWrites` names
the ledger writes whose error the implementation discards (`let _ = self.log.append(..)` in
`EventLogLedger`, the ignored results of the Postgres driver); `"query"` adds the statements
whose failure the driver reads as a refusal (an in-doubt claim, a lease not granted). `Probe` is the kind of
`Reconciler`: `"manual"` is the shipped `ManualReconciler`, `"snapshot"` one that reports
what the downstream shows at the moment.

Assumed: a tool answers `Err` only when its effect will not happen (`CallReturns`). The
code states the same of the tools registered as side-effecting by writing FAILED, which
permits a re-claim. `incidents` is counted up to one more than the
fresh claims, the only comparison made of it.

A row that is taken or resolved keeps or drops its probe metadata and its lease: the in-memory ledger
replaces the row, the Postgres driver leaves the columns as they are.

### LedgeredSaga

The loop of `run_saga_ledgered` over shared rows: `Claim` has the three branches of
`ClaimOutcome`, `Undo` walks back from the failed step and never touches a row, and
`RolledBack` chooses between Compensated and PartiallyCompensated by what could not be
undone. Runs overlap, are retried, and crash between any two calls.

### TokenRefresh

One `(tenant, user, connector)`. Tokens are generations. `due` holds the generations that have
come within the skew of expiry; a caller takes its `now_unix` once (`seen`), as the code does,
and rechecks with it under the lock. The lock is `SharedLockKv` with its TTL and fence; the
provider may rotate refresh tokens and end the grant on a replay. A lock may lapse under a
holder that waits for the provider, whose call has no timeout of its own here; `lapsed` records
that it has, and `faults` that a caller died or an answer was lost.

### EventLog

The file is what a reader can get out of it: the records that parse, whether the file as a
whole is UTF-8, and what its last unterminated line holds. `append` is `Begin` (load the head
on the first touch, chain the record), `WriteLine`, `EndLine`; it can be `Refused` before a
byte is written, `Torn` inside the line, or `Unended` before the newline; a read of the head can
fail (`Misread`). `harm` records which of the harmful faults have happened, so that the
properties say exactly what survives which fault. A crash is one of these followed by
`Reopen`. SHA-256 is taken to be free of collisions: a record's hash is its identity.

### Retention

The text of a turn is one record, in its session (`sess`) and, once mirrored, as a row with an
age anchor (`rows`, `created`). `persist_served_turn` is three steps, `Load`, `Save`, `Mirror`; only the last
takes the store's mutex. An erasure and the sweep decide under the mutex and then
rewrite one session after another (`Fetch`, `Clear`), holding it. The commands of
`POST /v1/regfi/hold` act on the store alone; `DELETE /memory` exports, decides and cascades over the memory
fabric in three steps. Ids are chosen by clients and unique within a session only. `harm` records
whether two rewrites of a session have crossed. A policy is replaced as a whole (`SetPolicy`): ttl, floor and legal hold.

`now` is the daemon's clock, which dates the turns, the sweep and `DELETE /memory`. An erasure and a command of
`POST /v1/regfi/hold` are decided at the tick that the body of the request names, which the handler takes as it is, and at
the daemon's only where the body names none: `Ticks` are the ticks a caller may name, any of the modelled time, and
`by` remembers the one by which the last rows left. What is promised of floors and ttls (`HeldTextSurvives`,
`ErasedIsOwed`) is promised by that tick; by the daemon's clock it is refuted (`FloorOutlastsCallers`, section 4).

Abstracted: a turn's user and assistant text are one record; the sessions are read by an erasure in
one step and rewritten one by one; the period of the sweep is a fairness condition. A restart is
not modelled: the shipped daemon keeps sessions, rows and holds in memory and loses them together.

## 3. Runs

All bounds are constants of the configurations. Under `checks` stand the properties that the
configuration hands to TLC; the ones after *also* hold on the same instance and are named in a
comment of the configuration.

| run | instance | checks | also |
|---|---|---|---|
| `Sessions_serial` | 3 sessions, 3 turns, 3 actors, cap 2, inbox 2, no revocation | `SerialPerSession`, `TurnInFlightIsStoppable`, refinement of `TurnService` | `EveryTaskIsMapped` |
| `Sessions_revoke` | 2 sessions (one revocable), 2 turns, 2 actors, cap 1, inbox 1, draining receivers | `NoTurnLost`, `TokenNamesTurnInFlight`, `EveryTurnAnswered`, `EveryActorReaped` | `TypeOK`, `Bounded`, `EntryNamesLiveActor` |
| `TurnLoop_gated` | 2 rounds, 2 calls, 3 tools (a reader of regulated data, an editor, a gated payment tool), 2 providers (one in the house), a harness run, 2 workers, 2 responses | refinement of `TurnContract`, `EveryCallAnswered`, `GatedNeedsYes`, `RegulatedStaysHome`, `LateIsOneOfEach`, `AnswerClearsOne`, `TaintIsHeeded`, `TurnEnds` | `TypeOK`, `ResultsInOrder`, `EditsInOrder`, `OneVoice` |
| `TurnLoop_late` | as `TurnLoop_gated`, with 3 workers | `StopBeatsApproval`, which is refuted | |
| `ServingPool_slots` | 3 turns, 2 calls that retry one key, 2 tenants (quotas 2 and 1), 2 places, 3 slots, queue 1, backpressure, repeated completions | `FairShare`, `GuaranteedShare`, `PlaceHasOwner`, `OneAnswer`, `PlacesComeBack` | `TypeOK`, `PlacesDistinct` |
| `GovernedDispatch_locks` | 2 phased calls of one key, 2 calls of one mandate, a saga of 2 steps whose first shares key and resource with another call; tables pruned at every look-up, panics and refusals | `OneAtATime`, `EffectOnce`, `UsesBoundEffects`, `PreviewBuysOneCommit`, `CallReturns` | `TypeOK` |
| `ToolLedger_manual` | 3 nodes, all sweeping, 2 claims, 2 crashes, lost outcome writes and failing queries | `AtMostOnce`, `CommittedIsTerminal` | `TypeOK`, `OneOwner`, `ReclaimIsSafe` |
| `ToolLedger_sweep` | 2 sweeping nodes, snapshot probe, lost claims, 1 crash | `CommittedHasEffect`, `PendingResolved` | |
| `LedgeredSaga_shared` | 2 runners, 3 steps, 3 runs, 1 crash | `StepAtMostOnce`, `OnlyAppliedIsUndone`, `FirstRunIsExact` | `SagaTypeOK`, `InOrder` |
| `TokenRefresh_herd` | 3 callers, 3 calls, rotating provider, lapsing locks, 1 fault | `OneRefreshPerToken`, `CallReturns` | `TypeOK`, `FreshIsNotRefreshed`, `UserStaysLoggedIn`, `OnlyHolderReleases`, `LockComesFree` |
| `EventLog_chain` | 1 handle, all five faults, 6 appends, 3 restarts | `ChainVerifies`, `AcknowledgedKept` | `TypeOK`, `SeqIncreases`, `AcknowledgedStays` |
| `Retention_guarded` | a payment turn and another of one subject in one session, 1 memory item, 1 matter, 3 policies, 2 erasures, every kind of command, at any tick | `ErasedIsGone`, `FloorAnchored`, `HeldTextSurvives`, `DeferredFires` | `TypeOK`, `ErasedIsOwed`, `NeverDropped` |

`TokenRefresh_live.cfg` takes the refresh deeper: 4 calls and 2 faults of two callers, all
properties of the module.

**Why the bounds are enough.** The interference is between two parties and whatever
replaced one of them. Two actors suffice for the actor a revoke detached and its successor,
and three in the run without revocation let a session be reaped and respawned beside another one.
An inbox of one and a cap of one are reached in a few steps; the run with two of each has
refusals with work queued behind a turn. One row, two claims and two crashes let a slot be
claimed, orphaned, failed or escalated, and claimed again by a third node. In the saga, three
steps have a first, a middle and a last to fail, and three runs a first, an overlapping
and a retry. In the refresh, a herd of three has a holder, one that waits through the refresh and one that
arrives after it. Six appends and three restarts put every sequence of two faults between
acknowledged records.

In the turn, two calls can be in one batch, in a batch and a gate, or in two rounds, so that what
the first brings in (taint, regulated data, an approval for the session) meets the second; the
harness run is the second asker, and two responses leave one to come late or twice. Two workers are
as many as askers: both can wait at once, and then nobody else gets on, neither the turn, a stop nor an answer
(`WorkerLeft` is refuted), which is the situation that `TurnEnds` has to survive. `TurnLoop_busy.cfg` goes further, with one worker that
either asker blocks, and two asks of the run. With three workers no interleaving is excluded for want of one: the configuration's
safety properties hold there too, and section 5 proves them for any number. The pool of two places under three turns evicts, refuses and queues, and
its calls can meet a turn under one id. Four sets of three calls share, pairwise, a resource, a key, a mandate or a
saga, which is all that calls share; `SoftCap = 0` prunes at every look-up. In the retention one tick
separates a floor and a ttl from their end; two turns of one session are what a crossed rewrite
takes. Where a proof exists (section 5) the bounds do not matter.

`CHECK_DEADLOCK FALSE` is given everywhere: with the bounds used up, or with every job
answered and every actor reaped, the system has nothing left to do.

**Fairness.** In `Sessions`, tokio polls every runnable task and fires every timer, so an
actor that can step does (weak fairness of `Task`), and a revoke that has begun finishes.
Callers promise nothing. Liveness is stated under `DrainingSpec`, which adds that a stalled
receiver reads again or hangs up; `TerminateStream` has strong fairness, because a receiver may
stall again any number of times and a sender waiting on a tokio channel is woken in order when a
permit is freed. In `TurnLoop`, `FairSpec` assumes three things, and
`TurnEnds` is no stronger than they are. `Scheduled`: the turn's task runs on when a worker is free (strong
fairness, because harness runs may take and leave the workers any number of times, and tokio's queue is first in, first
out). Every `await` of the task, but the one on its provider, is taken to return, those on the bounded sink included: that
is the draining receiver of `Sessions`, and with a receiver that neither reads nor hangs up the turn does not end, as
`TurnNeverPinsActor` shows there. `StreamsEnd`: a provider closes its stream or fails (strong fairness of `OutputEnds` only:
the events themselves, `Output`, are not required). The code does not enforce it: the HTTP clients' `read_timeout`
ends a stream that falls silent, not one that is fed for ever. `GatesReturn`: each asker's `decide` goes on because
`recv_timeout` does. No client is assumed to answer. In `ServingPool`, a response stream ends or is dropped.
In `GovernedDispatch` every dispatch goes on; a tool's call returns, panics or is bounded by
its own timeout. In `ToolLedger`, the sweep loop repeats its pass and the ledger clock
advances; nothing is assumed of the dispatching threads, since a downstream may never answer.
In `TokenRefresh`, callers run and time passes for the lock; no caller is assumed to win the
lock, and `CallReturns` holds because a waiter gives up at its deadline. In `Retention`, time passes, the
sweep comes round and the holder of the mutex goes on.

## 4. Promises the code does not keep

`TurnLoop_late` is a run of the project, and `findings` in `PROJECT.json` quotes its promise. The
others are stated in the modules, each under the words of the source it is about, and the
configuration named reproduces each counterexample: it hands the first of its properties to TLC and
lists the others as comments, to be put in its place.

| property | configuration | what happens |
|---|---|---|
| `StopBeatsApproval` | `TurnLoop_late` (a run) | the engine does not look at the cancel token between an approval and the dispatch it allows; doc: "no further tool is dispatched" |
| `NothingLate` | `TurnLoop_refuted` | the same for any serial call whose turn is stopped after the call was screened, and for a batched call between its last look and its dispatch |
| `DroppedIsReported` | `TurnLoop_refuted` | the last flush of the last round drops its calls on a stop, and the turn then reports complete or capped |
| `EndIsOnWire` | `TurnLoop_refuted` | a turn blocked by its output rails ends on the sink and not on the wire |
| `EndIsAudited` | `TurnLoop_refuted` | a turn that finds no provider fails without an audit record |
| `AnswersItsOwn` | `TurnLoop_refuted` | the coordinator goes by the session: an answer to the turn's ask decides whatever waits there |
| `AcceptedIsHeeded` | `TurnLoop_refuted` | 202 is answered to a response that reaches the channel of an ask already timed out |
| `WorkerLeft` | `TurnLoop_refuted` | `decide` blocks a worker thread; as many asks as workers leave none for the answers until one times out |
| `ShareNeverLeaked` | `ServingPool_refuted` | an evicted turn completes with NotRunning before its fairness slot is released |
| `ReplayTouchesNothing` | `ServingPool_refuted` | a key committed between the look-up and the dispatch takes a slot again |
| `NoOvercommit` | `ServingPool_refuted` | an evicted or queued turn is served beside the ones in the places |
| `SlotNeverLeaked` | `ServingPool_leak` | a turn shed by backpressure after its reservation: no guard exists yet |
| `StarvationProof` | `ServingPool_default` | tenants without a quota of their own share the pool that the configured quotas were fitted to |
| `MandateIsTimely` | `GovernedDispatch_refuted` | the time is read once; the effect comes after the locks, whenever that is |
| `RolledBackIsGone` | `GovernedDispatch_refuted` | a step that failed in its post-hook has had its effect and is not compensated |
| `SucceededStands` | `GovernedDispatch_refuted` | a saga compensates a step another call has been told is its own, by the key |
| `PreviewedIsRun` | `GovernedDispatch_rewrite` | a pre-hook rewrites the arguments after the commit was authorized; no shipped hook does |
| `HeldTextSurvivesAlias` | `Retention_refuted` | two sessions' turns with one id: the mirror knows one of them, and the erasure goes by the id |
| `HeldItemSurvives` | `Retention_refuted` | the cascade of `DELETE /memory` erases every item the subject has by then, also one stored after the export, or put under a matter after the decision |
| `FiredItemIsGone` | `Retention_refuted` | a deferred erasure of a memory item fires in the sweep, which routes to the session tier only |
| `ClassHoldHolds` | `Retention_refuted` | the legal hold of a class stops the purge and not an erasure |
| `StruckIsGone` | `Retention_refuted` | commands of `POST /v1/regfi/hold` delete the row and leave the text |
| `ErasedStaysGone` | `Retention_overlap` | a turn that loaded its session before an erasure saves the text back |
| `FloorOutlastsCallers` | `Retention_overlap` | the tick of an erasure is the caller's, unclamped: a request that names a later one destroys text within its floor |
| `SerialPerSession` | `Sessions_refuted` | revoke drops the entry of an actor that is still in a turn, a submit spawns a second actor |
| `EntryRemovedOnce` | `Sessions_refuted` | the detached actor, reaping later, removes its successor's entry by session id |
| `TurnNeverPinsActor` | `Sessions_refuted` | after a timeout, `terminate_stream` awaits a receiver that neither reads nor hangs up |
| `AtMostOnce` | `ToolLedger_refuted` | dispatch probes a claim of any age; with a probe of the moment a call in flight is judged failed and repeated |
| `CommittedIsTerminal` | `ToolLedger_refuted` | a sweeper that probed before a commit writes FAILED over COMMITTED |
| `ManualIsTerminal` | `ToolLedger_refuted` | the dispatch in flight fails after its row was escalated, and MANUAL becomes FAILED, which is claimable |
| `OneIncidentPerClaim` | `ToolLedger_refuted` | a sweep whose lease ran out during its probe pages for a row another node has escalated |
| `EscalationIsLoud` | `ToolLedger_refuted` | a crash between the escalation and the page leaves a row nobody lists and nobody was paged for |
| `AtMostOnce` | `ToolLedger_append` | `EventLogLedger` answers Fresh although the append of the claim failed; a restart knows nothing of it |
| `CompletedIsApplied` | `LedgeredSaga_refuted` | compensated steps stay COMMITTED, a retry adopts them and answers Completed |
| `WorldRestored` | `LedgeredSaga_refuted` | a step in doubt may have happened, and the run answers Compensated |
| `OneRefreshAlways` | `TokenRefresh_refuted` | the lock lapses while its holder waits for the provider |
| `LoggedInAlways` | `TokenRefresh_refuted` | the same lapse with rotation replays a used refresh token |
| `VerifiedIsComplete` | `EventLog_refuted` | an acknowledged record joined to a torn line is skipped, and the chain verifies without it |
| `FailedAppendIsHarmless` | `EventLog_refuted` | the newline fails after the line is written, the next append reuses its number |
| `HistoryStaysReadable` | `EventLog_refuted` | a line torn inside a character makes `read_to_string` fail for the whole file |
| `SeqIncreases` | `EventLog_handles` | two handles on one directory each number their own records |
| `HeadSurvivesRestart` | `EventLog_handles` | a failed read of the head is taken for an empty file |

Two of these need a composition that the shipped daemon does not make. The daemon gives the approval
coordinator to its harness runs, and an engine gets the wire gate from the compositions of
`ainxt-client`; so `AnswersItsOwn` with a turn and a run at once is a matter of embedding both.
`PreviewedIsRun` needs a rewriting pre-hook.

## 5. Proofs

All proofs hold for every value of the constants that satisfies the named assumptions
(`LimitsAssumption`, `NoneAssumption`, `TurnAssumption`, `ApprovalsAssumption`, `PoolAssumption`,
`DispatchAssumption`, `LedgerAssumption`, `SagaAssumption`, `RefreshAssumption`, `LogAssumption`, `RetentionAssumption`: the constants are
numbers and sets of the right kind, `None` is none of the others, ids are unique where the code says so).

**Sessions.** `TypeCorrect`, `EntriesLive`, `TokensLive`, `TurnsAreKept` and `LiveStateIsBounded` hold
with any revocations; `TasksAreMapped`, `Serial`, `Stoppable` and `ServiceIsImplemented` assume `Revocable = {}`. The invariant
is `TaskInv`: types, `TaskShape` (a task has an owner from birth and a turn exactly from dequeue to
answer), and the two claims about entries and tokens. A reaping task removes the entry of its *owner*, and a
finishing one the token of its *turn*; neither claim is inductive without knowing who owns what.

- `TurnsAreKept` (`NoTurnLost`) adds `TurnsHeld`: whatever waits or runs is an accepted turn, every
  accepted turn waits or runs somewhere, and its place is the only one. A submit puts a turn into the
  inbox of a task that exists, which is what `EntryNamesLiveActor` says, and a task that exits has an empty inbox,
  since it looks again under the lock.
- `LiveStateIsBounded` counts the map: the map is finite, and grows by one only below the cap.
- `TasksAreMapped` (`EveryTaskIsMapped`): every living task is the one its session's entry names. With
  `LiveStateIsBounded` it makes the cap on entries a cap on tasks. `Serial` follows, as a session has one entry. This is
  where revocation breaks it. `Stoppable` follows: nobody else registers or removes a token of the session.
- `ServiceIsImplemented` is the refinement of `TurnService`, step by step: submits are `Accept` or `Refuse`, a
  resume is `Open`, a dequeue (by `recv` or as a straggler) is `Begin`, the end of `process` is `Answer`, reaping is
  `Close`, and all else is a stutter. It needs `EveryTaskIsMapped`, as the service sees only the tasks with an entry.

**TurnLoop and Approvals.** For any askers, providers, tools and bounds: `TurnTypeCorrect`, `ContractIsImplemented`,
`AnswersAreInOrder`, `CallsAreAnswered`, `GatedCallsHaveYes`, `RegulatedIsHome`, `OneAttemptIsHeard`,
`EditsEnterInOrder`, `OneOfEachIsLate`, `AsksNeedAnswers`, `TaintStopsDanger`. They share the invariant `TurnInv`, whose parts
are proved one by one, each from the parts it needs:

- `PlaceInv` says where the loop is: a call is unscreened exactly from the loop's place on, and a round and a turn that
  ends of itself have gone past the last.
- `BatchInv`: only calls without approval, in a turn without injection defence, are in a batch, and a batch is through
  before anything but screening, queueing and the flush itself. From it follow `TaintIsHeeded` (a tainted turn has
  no batch) and the gates (nothing reaches the batch round them).
- `ShownInv`: what is shown is what is answered, is in order, and is below all that is left in the batch. A refusal is
  shown at once, and that is right only because the batch before it was flushed, or is empty. The order needs that the
  least fired call is shown next, which exists because the numbers are well-founded.
- `StreamInv`: in a stream the chain is of providers that may see the turn's class *now*. Regulated data comes in where
  there is no chain, so that no retry and no failover can take a chain chosen before.
- `HumanInv`: what is on its way to be fired was cleared, by this call's ask or for the session. `LateInv`: a stop
  ends the round at the next look at the token, so that of the batch only the call that is past its last look is still dispatched,
  and behind the batch only the call that the loop is at. `CreditInv`: each channel that holds a yes is covered by the credit; the
  channels that hold one, counted, grow by at most the one a response reaches. `EditsInOrder` is inductive with the types.

`ContractIsImplemented` maps each step: `StopEarly` and `Refuse` are `TurnAway`, `Admit` is `Open`, `Route` is `NextRound`,
`ToolCall` is `ShowCall`, each result shown and each refusal is `Answer`, every way out is `End`, and all else, polls,
retries, questions and what other askers and clients do, is nothing to the client. It adds `EndInv`, that a
batch is of the round and a turn is cancelled by a stop only, and the lemma `PastIsAnswered`: when no batch is open and the turn
is not stopped, exactly what the loop is past has been shown.

**ServingPool.** `PoolTypeCorrect`, `FairShareHolds`, `GuaranteedShareHolds`, `PlacesAreDistinct`,
`PlacesHaveOwners`, and `AnswersAreOne` (where no answer's hash is spelled like the two states of an open key), for any tenants,
quotas, requests and faults. The invariant `PoolInv` adds to the types that the total is the number of the tenants'
slots (`Counted`), who is placed is held (`Placed`), the counts are within their quotas (`WithinQuota`) and, as
long as no completion has returned what was not its own, count the holders (`CountsHolders`). The last makes
`FairShare` a statement about requests and not about counters.

**GovernedDispatch.** `DispatchTypeCorrect`, `OneCallAtATime`, `EffectsAreOnce`, `OnePreviewOneCommit`,
`MandatesAreHonoured`. `LocksInv` says that a lock which a caller refers to is the one its table names, which
pruning preserves because it keeps what is referenced; with `PlacesInv`, where each call has which lock, it
gives mutual exclusion. `RowInv` says that a row is PENDING from the claim to the settlement, and that a row which may
be claimed has no effect behind it. `UsesInv` counts, per mandate, the calls that have
passed the gate (`Spent`) against the uses: an effect is always of a call that has spent.

**ToolLedger.** `LedgerTypeCorrect` always; `ManualIsAtMostOnce`, `SlotHasOneOwner`, `ReclaimsAreSafe` and
`ManualKeepsCommitted` for the shipped `ManualReconciler` and a ledger that loses no claim,
with any nodes, sweepers, timeouts, crashes, orphans, lost outcome writes and failing queries. The invariant is
`SlotInv`: one owner; effects and orphans together at most one; where a call
is tells what the downstream has done for it; a claimable row has no owner, effect or orphan
behind it; nobody owns the slot behind a committed row; and no sweep is about to write a
verdict. Counting orphans is what makes it inductive: a crash
turns a request into an orphan, and the orphan into an effect, without the sum growing. `CommittedIsReal` needs
none of these assumptions: with either kind of probe and any lost write, a success that a call or a sweep is about to write
was seen in the world before (`SuccessIsSeen`).

**LedgeredSaga** (in `ToolLedgerProofs`). `SagaTypeCorrect`, `SagaStepOnce`, `SagaUndoesApplied`, `SagaInOrder`, without assumptions
on runners, runs or crashes. `RowInv` says that a runner at work on a step owns its pending row and
what each row tells about the world; `DoneInv`, that everything below a runner's place
has taken effect. The two are proved separately, as `DoneInv` needs `RowInv` of
the state before the step only. `SagaFirstRun` (`FirstRunIsExact`) follows one runner: below its place every step is
done, above it none is touched, and on the way back `stuck` names exactly what is still applied (`FirstRun`).

**TokenRefresh.** `RefreshTypeCorrect`; `RefreshedOnce`, `OnlyDueRefreshed`, `NeverLoggedOut`, `VaultMovesOn`
for any number of callers, TTL and rotation, as long as no lock has lapsed under its holder and no answer or caller is
lost (`Undisturbed`, which each property states for itself). `LockInv` makes the locked section
exclusive; `TokenInv` says that the vault is one behind the provider between grant and
save and in step otherwise; `DueInv`, that what is refreshed was due. Since a disturbed system stays
disturbed, the invariants need hold only in front of steps that leave it undisturbed. `LocksAreFenced`
(`OnlyHolderReleases`) needs no such proviso: whatever lapses or is lost, no two callers in their
locked sections carry one fence (`FencesDistinct`).

**EventLog.** `LogTypeCorrect` for any handles; `SoleWriterChain` and `SoleWriterKeeps` for
one handle and any faults, while nothing has harmed the file. `LogInv` ties the cached head to
the last record that ended, and the pending record to it. Two handles break it. `SoleWriterCounts`
(`SeqIncreases`) holds for one handle also in a harmed file, as long as no head was misread: the handle's next number is above all
in the file but that of a line without an end, which the next line spoils (`RiseInv`). `AcknowledgedNeverMoves` (`AcknowledgedStays`) holds for any number of handles and any faults:
a record is acknowledged when its line has ended, and only a line without an end can be lost to the next (`AckInv`).

**Retention.** `RetentionTypeCorrect`, `FloorsAreAnchored`, `ErasuresAreOwed`, `ErasuresAreComplete`,
`QueueForgetsNothing`, `HeldTextIsSafe`, for any turns, items, sessions, matters, scopes, policies and clocks, and
whatever ticks callers name. The invariant `IInv` says that every record the state names has been written (`Written`); that
a row is as old as its text and a queued erasure was asked for and is not lost (`Accounted`), so that an entry fires
for its own record only; that what the holder of the mutex is about to erase may be erased at the tick `by` (`Lawful`:
neither matters nor policies nor the tick can change under it); and that an erased text that is still there
is in a session it has yet to rewrite, unless two rewrites have crossed (`Pending`). `ErasuresAreOwed` is a statement about
steps, since only the step in which a row leaves knows the tick that was named for it.

## 6. Only model-checked

Everything temporal with fairness (`EveryTurnAnswered`, `EveryActorReaped`, `TurnEnds`, `PlacesComeBack`,
`DeferredFires`, `PendingResolved`, both `CallReturns`, `LockComesFree`): liveness and ENABLED are out of
the prover's reach. Every other property that a run checks is proved, under the assumptions
given above.
No module needs a recursive operator, and none is proved about one.

## 7. Not modelled

The workspace is large, and most of it is sequential: text processing, policy evaluation, model-driven
transformation, wire formats and I/O, whose correctness is that of a function of its arguments and is better
tested on examples than model-checked. The models cover the parts where several tasks, nodes or requests share
state, and so only a small share of the lines. Left out of them:

- `SweepHandle`: stopping the sweep thread through its condition variable; a lost wake-up costs one period.
- `EventLogLedger`'s rebuilding of rows from a log file with faults. `LostWrites` of `ToolLedger` and the faults
  of `EventLog` are the two halves; the composition is not made.
- The tail that `flush` without a sync may lose with the machine; `verify` accepts the shorter file.
- A crash between a provider's rotation and the save of the new token: the user has to log in again, and nothing
  in the code promises otherwise.
- `program_exec` and the planner: checkpoints are values that one owner writes; payment settlement, which is a saga
  over the ledger already modelled; the interaction tree of `replay`; the MCP client's lazy connection; cache
  generations; canary; incident clocks; identity and OAuth: each is one map or state machine behind one mutex, or with
  one owner.
- In the modelled components: capacity permits and the ranking of the router; drain, rollout, health and `resume` of
  the pool; restoring the retention store from a snapshot, which no shipped code does; break-glass and subject-access
  requests; memory items with a validity window of their own; and the composition of `Sessions` with `TurnLoop` and of
  `TurnLoop` with `GovernedDispatch` (a session's turns and a turn's dispatches meet only through the actions named
  above: the cancel token, and a call's result).
