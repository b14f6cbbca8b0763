---------------------------- MODULE TokenRefresh ----------------------------
(***************************************************************************)
(* The OAuth refresh coordinator of ainxt-refresh, for one (tenant, user,   *)
(* connector): double-checked locking over a distributed lock with a TTL    *)
(* and a fencing token, the token vault it reads and re-seals, and the      *)
(* provider that mints tokens.                                             *)
(*                                                                         *)
(* Tokens are generations 0, 1, 2, ...; generation g carries the access and *)
(* the refresh token of one provider answer.  Other keys have locks and     *)
(* vault records of their own.                                             *)
(***************************************************************************)
EXTENDS Naturals

CONSTANTS
  Caller,      \* concurrent calls of ensure_fresh_in, in any process
  LockTtl,     \* lock_ttl_ms, in ticks
  Rotating,    \* the provider rotates the refresh token on use
  MaxGen,      \* bound: generations that may go stale
  MaxCalls,    \* bound: calls
  MaxFaults    \* bound: callers that die, and answers that are not saved

ASSUME RefreshAssumption ==
  /\ LockTtl \in Nat \ {0}
  /\ Rotating \in BOOLEAN
  /\ MaxGen \in Nat /\ MaxCalls \in Nat /\ MaxFaults \in Nat

VARIABLES
  stored,   \* the generation in the vault
  due,      \* the generations whose expiry is within the skew by now
  latest,   \* the last generation the provider minted
  loggedIn, \* the provider still honours the user's grant
  used,     \* how often the provider was presented each refresh token
  lock,     \* fence of the lock's holder, 0 when the key is absent
  ttl,      \* ticks until the lock expires
  fence,    \* the last fence issued
  pc,       \* where each caller is
  seen,     \* the generations due at the caller's now_unix
  mine,     \* the fence the caller was granted
  token,    \* the generation it refreshes, then the one it was answered
  lapsed,   \* history: a lock ran out on a caller still in its locked section
  calls, faults

vars == <<stored, due, latest, loggedIn, used, lock, ttl, fence, pc, seen, mine,
          token, lapsed, calls, faults>>

providerVars == <<latest, loggedIn, used>>
lockVars     == <<lock, ttl, fence, lapsed>>
boundVars    == <<calls, faults>>

Init ==
  /\ stored = 0 /\ due = {} /\ latest = 0 /\ loggedIn = "yes"
  /\ used = [g \in 0..MaxCalls |-> 0]
  /\ lock = 0 /\ ttl = 0 /\ fence = 0
  /\ pc = [c \in Caller |-> "idle"]
  /\ seen = [c \in Caller |-> {}]
  /\ mine = [c \in Caller |-> 0]
  /\ token = [c \in Caller |-> 0]
  /\ lapsed = "no" /\ calls = 0 /\ faults = 0

Goto(c, p) == pc' = [pc EXCEPT ![c] = p]

\* The caller is between its acquire and its release.
Locked(c) == pc[c] \in {"recheck", "load", "execute", "save", "release"}

-----------------------------------------------------------------------------
(* ensure_fresh_in *)

\* The lock-free check of the metadata at the caller's now_unix: a token that is
\* not due is returned at once, otherwise the caller wants the lock.
Call(c) ==
  /\ pc[c] = "idle"
  /\ calls < MaxCalls
  /\ calls' = calls + 1
  /\ seen' = [seen EXCEPT ![c] = due]
  /\ Goto(c, IF stored \in due THEN "acquire" ELSE "idle")
  /\ UNCHANGED <<stored, due, providerVars, lockVars, mine, token, faults>>

\* Mutant: the key is taken although it is held.
AcquireHeld(c) ==
  /\ pc[c] = "acquire"
  /\ fence' = fence + 1
  /\ lock' = fence + 1
  /\ ttl' = LockTtl
  /\ mine' = [mine EXCEPT ![c] = fence + 1]
  /\ Goto(c, "recheck")
  /\ UNCHANGED <<stored, due, providerVars, seen, token, lapsed, boundVars>>

\* try_lock: the key is absent, or expired (a lapsed lock has ttl 0).
Acquire(c) ==
  /\ pc[c] = "acquire"
  /\ ttl = 0
  /\ fence' = fence + 1
  /\ lock' = fence + 1
  /\ ttl' = LockTtl
  /\ mine' = [mine EXCEPT ![c] = fence + 1]
  /\ Goto(c, "recheck")
  /\ UNCHANGED <<stored, due, providerVars, seen, token, lapsed, boundVars>>

\* The wait deadline passes while the lock is held: LockTimeout.
GiveUp(c) ==
  /\ pc[c] = "acquire"
  /\ ttl > 0
  /\ Goto(c, "idle")
  /\ UNCHANGED <<stored, due, providerVars, lockVars, seen, mine, token, boundVars>>

\* Mutant: the check under the lock is left out.
RecheckSkipped(c) ==
  /\ pc[c] = "recheck"
  /\ Goto(c, "load")
  /\ UNCHANGED <<stored, due, providerVars, lockVars, seen, mine, token, boundVars>>

\* The double check: a peer may have refreshed while this caller waited.
Recheck(c) ==
  /\ pc[c] = "recheck"
  /\ Goto(c, IF stored \in seen[c] THEN "load" ELSE "release")
  /\ UNCHANGED <<stored, due, providerVars, lockVars, seen, mine, token, boundVars>>

\* current_in: read the blob and take its refresh token.
Load(c) ==
  /\ pc[c] = "load"
  /\ token' = [token EXCEPT ![c] = stored]
  /\ Goto(c, "execute")
  /\ UNCHANGED <<stored, due, providerVars, lockVars, seen, mine, boundVars>>

\* The refresh request reaches the provider, which mints the next generation.
Granted(c) ==
  /\ pc[c] = "execute"
  /\ loggedIn = "yes"
  /\ Rotating => token[c] = latest
  /\ latest' = latest + 1
  /\ used' = [used EXCEPT ![token[c]] = @ + 1]
  /\ token' = [token EXCEPT ![c] = latest + 1]
  /\ Goto(c, "save")
  /\ UNCHANGED <<stored, due, loggedIn, lockVars, seen, mine, boundVars>>

\* A rotating provider takes a refresh token it has rotated away for a replay, and
\* ends the grant.
Replayed(c) ==
  /\ pc[c] = "execute"
  /\ Rotating /\ token[c] # latest
  /\ loggedIn' = "no"
  /\ used' = [used EXCEPT ![token[c]] = @ + 1]
  /\ Goto(c, "release")
  /\ UNCHANGED <<stored, due, latest, lockVars, seen, mine, token, boundVars>>

\* The request never reaches the provider, or finds the grant ended.
Unserved(c) ==
  /\ pc[c] = "execute"
  /\ Goto(c, "release")
  /\ UNCHANGED <<stored, due, providerVars, lockVars, seen, mine, token, boundVars>>

\* Mutant: the answer is used and not re-sealed.
SaveForgets(c) ==
  /\ pc[c] = "save"
  /\ Goto(c, "release")
  /\ UNCHANGED <<stored, due, providerVars, lockVars, seen, mine, token, boundVars>>

\* Re-seal what the provider answered.  The fence plays no part in it.
Save(c) ==
  /\ pc[c] = "save"
  /\ stored' = token[c]
  /\ Goto(c, "release")
  /\ UNCHANGED <<due, providerVars, lockVars, seen, mine, token, boundVars>>

\* The answer is lost: the executor fails after the provider granted the refresh, or
\* the vault does not take it.  The caller still releases.
AnswerLost(c) ==
  /\ pc[c] = "save"
  /\ faults < MaxFaults
  /\ faults' = faults + 1
  /\ Goto(c, "release")
  /\ UNCHANGED <<stored, due, providerVars, lockVars, seen, mine, token, calls>>

\* Mutants: the key is deleted whoever holds it; the release insists on its own.
ReleaseUnfenced(c) ==
  /\ pc[c] = "release"
  /\ lock' = 0 /\ ttl' = 0
  /\ Goto(c, "idle")
  /\ UNCHANGED <<stored, due, providerVars, fence, seen, mine, token, lapsed, boundVars>>

ReleaseInsists(c) ==
  /\ pc[c] = "release"
  /\ lock = mine[c]
  /\ lock' = 0 /\ ttl' = 0
  /\ Goto(c, "idle")
  /\ UNCHANGED <<stored, due, providerVars, fence, seen, mine, token, lapsed, boundVars>>

\* unlock: delete the key only if it still holds this caller's fence.
Release(c) ==
  /\ pc[c] = "release"
  /\ IF lock = mine[c] THEN lock' = 0 /\ ttl' = 0 ELSE UNCHANGED <<lock, ttl>>
  /\ Goto(c, "idle")
  /\ UNCHANGED <<stored, due, providerVars, fence, seen, mine, token, lapsed, boundVars>>

Step(c) ==
  \/ Acquire(c) \/ GiveUp(c) \/ Recheck(c) \/ Load(c)
  \/ Granted(c) \/ Replayed(c) \/ Unserved(c) \/ Save(c) \/ Release(c)

-----------------------------------------------------------------------------
(* The environment *)

\* A caller dies; what it held stays held until the TTL ends it.
Crash(c) ==
  /\ Locked(c)
  /\ faults < MaxFaults
  /\ faults' = faults + 1
  /\ Goto(c, "idle")
  /\ UNCHANGED <<stored, due, providerVars, lockVars, seen, mine, token, calls>>

\* The lock is in its last tick and its holder has not released it.
RunsOut == ttl = 1 /\ \E c \in Caller : Locked(c) /\ mine[c] = lock

\* Mutants: expiry is off by one; a key set without its TTL never expires.
TickPastZero ==
  /\ ttl >= 0
  /\ ttl' = ttl - 1
  /\ lapsed' = IF RunsOut THEN "yes" ELSE lapsed
  /\ UNCHANGED <<stored, due, providerVars, lock, fence, pc, seen, mine, token, boundVars>>

TickStopped ==
  /\ ttl > LockTtl
  /\ ttl' = ttl - 1
  /\ lapsed' = IF RunsOut THEN "yes" ELSE lapsed
  /\ UNCHANGED <<stored, due, providerVars, lock, fence, pc, seen, mine, token, boundVars>>

\* Time passes for the lock, whatever its holder is doing.
Tick ==
  /\ ttl > 0
  /\ ttl' = ttl - 1
  /\ lapsed' = IF RunsOut THEN "yes" ELSE lapsed
  /\ UNCHANGED <<stored, due, providerVars, lock, fence, pc, seen, mine, token, boundVars>>

\* The stored token comes within the skew of its expiry.
GoesStale ==
  /\ stored \notin due /\ stored < MaxGen
  /\ due' = due \cup {stored}
  /\ UNCHANGED <<stored, providerVars, lockVars, pc, seen, mine, token, boundVars>>

Next ==
  \/ \E c \in Caller : Call(c) \/ Step(c) \/ AnswerLost(c) \/ Crash(c)
  \/ Tick \/ GoesStale

Spec == Init /\ [][Next]_vars

\* Callers run, and time passes.  (Strong fairness of acquire is not assumed: a
\* waiter may lose every race and give up.)
FairSpec == Spec /\ WF_vars(Tick) /\ \A c \in Caller : WF_vars(Step(c))

-----------------------------------------------------------------------------
\* Every variable keeps its type; fences are issued once.
TypeOK ==
  /\ stored \in Nat /\ latest \in Nat /\ due \subseteq 0..MaxGen
  /\ loggedIn \in {"yes", "no"}
  /\ used \in [0..MaxCalls -> Nat]
  /\ lock \in 0..fence /\ ttl \in 0..LockTtl /\ fence \in Nat
  /\ pc \in [Caller -> {"idle", "acquire", "recheck", "load", "execute", "save",
                        "release"}]
  /\ seen \in [Caller -> SUBSET (0..MaxGen)]
  /\ mine \in [Caller -> 0..fence] /\ token \in [Caller -> Nat]
  /\ lapsed \in {"yes", "no"} /\ calls \in Nat /\ faults \in Nat

\* What the coordinator's claims rest on: every lock outlived its holder's locked
\* section, and nobody died or lost the provider's answer while holding it.
Undisturbed == lapsed = "no" /\ faults = 0

\* "at most one refresh happens ... for a given stale token", whoever notices it.
OneRefreshPerToken == Undisturbed => \A g \in DOMAIN used : used[g] <= 1

\* Only a token that has come due is ever refreshed: the double check sends the
\* callers that waited behind the one refresh home with its result.
FreshIsNotRefreshed == Undisturbed => \A g \in DOMAIN used : used[g] > 0 => g \in due

\* Concurrent refreshes do not "invalidate each other, logging the user out".
UserStaysLoggedIn == Undisturbed => loggedIn = "yes"

\* The same without the proviso, as the module's documentation makes the promises.
OneRefreshAlways == \A g \in DOMAIN used : used[g] <= 1
LoggedInAlways   == loggedIn = "yes"

\* The vault never goes back to an older token, while nothing disturbs the lock.
VaultNeverRegresses == [][Undisturbed' => stored' >= stored]_vars

\* Fencing: the lock of a caller that acquired last is given up only by itself or
\* by its TTL; "a stale holder cannot release a newer holder's lock".
OnlyHolderReleases ==
  [][\A c \in Caller :
       Locked(c) /\ mine[c] = lock /\ ttl > 0 /\ ttl' = 0 =>
         \/ pc[c] = "release" /\ pc'[c] = "idle"
         \/ ttl = 1 /\ UNCHANGED pc]_vars

\* Every call returns: neither the wait for the lock, nor a holder that died, nor
\* a lock that lapsed under its holder leaves a caller hanging.
CallReturns == \A c \in Caller : pc[c] # "idle" ~> pc[c] = "idle"

\* "a crashed holder cannot deadlock the key": a held lock becomes free, or goes to
\* a later holder.
LockComesFree ==
  \A f \in 1..MaxCalls : (lock = f /\ ttl > 0) ~> ~(lock = f /\ ttl > 0)

=============================================================================
