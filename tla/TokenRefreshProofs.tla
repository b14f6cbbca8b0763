------------------------- MODULE TokenRefreshProofs -------------------------
(***************************************************************************)
(* As long as no lock ran out on its holder and nothing died between the    *)
(* grant and the save, each token is refreshed at most once and the user    *)
(* stays logged in: for any callers, TTL, number of calls and rotation      *)
(* policy.                                                                 *)
(***************************************************************************)
EXTENDS TokenRefresh, TLAPS

Places == {"idle", "acquire", "recheck", "load", "execute", "save", "release"}

\* The lock is a lock: a caller in its locked section holds the key, alone.
LockInv ==
  /\ pc \in [Caller -> Places]
  /\ mine \in [Caller -> Nat]
  /\ fence \in Nat /\ ttl \in Nat
  /\ \A c \in Caller : Locked(c) => mine[c] = lock /\ ttl > 0
  /\ \A c, d \in Caller : Locked(c) /\ Locked(d) => c = d

\* What the holder carries against what the vault and the provider hold: the vault
\* is one behind the provider between the grant and the save, else in step, and no
\* refresh token from the vault's on was ever presented.
TokenInv ==
  /\ stored \in Nat /\ latest \in Nat
  /\ token \in [Caller -> Nat]
  /\ used \in [0..MaxCalls -> Nat]
  /\ faults = 0
  /\ loggedIn = "yes"
  /\ \A c \in Caller : pc[c] = "execute" => token[c] = stored
  /\ \A c \in Caller : pc[c] = "save" => token[c] = latest /\ latest = stored + 1
  /\ (\A c \in Caller : pc[c] # "save") => stored = latest
  /\ \A g \in 0..MaxCalls : used[g] <= 1
  /\ \A g \in 0..MaxCalls : g >= latest => used[g] = 0

\* What a caller refreshes has come due: its view of the clock is one that was, and
\* while it holds the lock nobody else replaces the token it rechecked.
DueInv ==
  /\ \A c \in Caller : \A g \in seen[c] : g \in due
  /\ \A c \in Caller : pc[c] = "load" => stored \in due
  /\ \A c \in Caller : pc[c] = "execute" => token[c] \in due
  /\ \A g \in 0..MaxCalls : used[g] > 0 => g \in due
  /\ seen = [c \in Caller |-> seen[c]]

\* All of it up to the first disturbance.
RefreshInv ==
  /\ faults \in Nat /\ lapsed \in {"yes", "no"}
  /\ Undisturbed => LockInv /\ TokenInv /\ DueInv

-----------------------------------------------------------------------------
LEMMA RefreshInit == Init => RefreshInv
BY RefreshAssumption
DEF Init, RefreshInv, Undisturbed, LockInv, TokenInv, DueInv, Locked, Places

\* Every step keeps the locked section exclusive.
LEMMA LockStep ==
  ASSUME Undisturbed', LockInv, [Next]_vars
  PROVE  LockInv'
<1> USE DEF LockInv
<1>1. CASE UNCHANGED vars
  BY <1>1 DEF vars, Locked
<1>2. ASSUME NEW c \in Caller, Call(c) PROVE LockInv'
  BY <1>2 DEF Call, lockVars, Goto, Locked, Places
<1>3. ASSUME NEW c \in Caller, Acquire(c) PROVE LockInv'
  <2>1. \A d \in Caller : ~Locked(d)
    BY <1>3 DEF Acquire
  <2>2. /\ pc' = [pc EXCEPT ![c] = "recheck"]
        /\ mine' = [mine EXCEPT ![c] = fence + 1]
        /\ lock' = fence + 1 /\ fence' = fence + 1 /\ ttl' = LockTtl
    BY <1>3 DEF Acquire, Goto
  <2>3. \A d \in Caller : Locked(d)' => d = c
    BY <2>1, <2>2 DEF Locked
  <2>4. LockTtl \in Nat /\ LockTtl > 0
    BY RefreshAssumption
  <2> QED BY <2>2, <2>3, <2>4 DEF Places
<1>4. ASSUME NEW c \in Caller, GiveUp(c) PROVE LockInv'
  BY <1>4 DEF GiveUp, lockVars, Goto, Locked, Places
<1>5. ASSUME NEW c \in Caller, Recheck(c) PROVE LockInv'
  BY <1>5 DEF Recheck, lockVars, Goto, Locked, Places
<1>6. ASSUME NEW c \in Caller, Load(c) PROVE LockInv'
  BY <1>6 DEF Load, lockVars, Goto, Locked, Places
<1>7. ASSUME NEW c \in Caller, Granted(c) \/ Replayed(c) \/ Unserved(c) PROVE LockInv'
  BY <1>7 DEF Granted, Replayed, Unserved, lockVars, Goto, Locked, Places
<1>8. ASSUME NEW c \in Caller, Save(c) \/ AnswerLost(c) PROVE LockInv'
  BY <1>8 DEF Save, AnswerLost, lockVars, Goto, Locked, Places
<1>9. ASSUME NEW c \in Caller, Release(c) PROVE LockInv'
  <2>1. Locked(c)
    BY <1>9 DEF Release, Locked
  <2>2. \A d \in Caller : ~Locked(d)'
    BY <1>9, <2>1 DEF Release, Goto, Locked
  <2> QED BY <1>9, <2>2 DEF Release, Goto, Places
<1>10. ASSUME NEW c \in Caller, Crash(c) PROVE LockInv'
  BY <1>10 DEF Crash, lockVars, Goto, Locked, Places
<1>11. CASE Tick
  <2>1. ttl = 1 => \A d \in Caller : ~Locked(d)
    BY <1>11 DEF Tick, RunsOut, Undisturbed
  <2> QED BY <1>11, <2>1 DEF Tick, Locked
<1>12. CASE GoesStale
  BY <1>12 DEF GoesStale, lockVars, Locked
<1> QED
  BY <1>1, <1>2, <1>3, <1>4, <1>5, <1>6, <1>7, <1>8, <1>9, <1>10, <1>11, <1>12
  DEF Next, Step

\* Every step keeps the vault and the provider in step.
LEMMA TokenStep ==
  ASSUME Undisturbed', LockInv, TokenInv, [Next]_vars
  PROVE  TokenInv'
<1> USE DEF TokenInv
<1>0. pc \in [Caller -> Places]
  BY DEF LockInv
<1>1. CASE UNCHANGED vars
  BY <1>1 DEF vars
<1>2. ASSUME NEW c \in Caller, Call(c) \/ Acquire(c) \/ GiveUp(c) \/ Recheck(c)
      PROVE  TokenInv'
  BY <1>0, <1>2 DEF Call, Acquire, GiveUp, Recheck, providerVars, boundVars, Goto, Places
<1>3. ASSUME NEW c \in Caller, Load(c) PROVE TokenInv'
  BY <1>0, <1>3 DEF Load, providerVars, boundVars, Goto, Places
<1>4. ASSUME NEW c \in Caller, Granted(c) PROVE TokenInv'
  <2>1. \A d \in Caller : d # c => pc[d] \notin {"execute", "save"}
    BY <1>4 DEF Granted, LockInv, Locked
  <2>2. stored = latest /\ token[c] = latest
    BY <1>4, <2>1 DEF Granted
  <2>3. /\ pc' = [pc EXCEPT ![c] = "save"]
        /\ token' = [token EXCEPT ![c] = latest + 1]
        /\ latest' = latest + 1
        /\ used' = [used EXCEPT ![latest] = @ + 1]
        /\ UNCHANGED <<stored, loggedIn, faults>>
    BY <1>4, <2>2 DEF Granted, Goto, boundVars
  <2>4. /\ \A g \in 0..MaxCalls : used'[g] <= 1
        /\ \A g \in 0..MaxCalls : g >= latest' => used'[g] = 0
        /\ used' \in [0..MaxCalls -> Nat]
    <3>1. \A g \in 0..MaxCalls : used'[g] = IF g = latest THEN used[g] + 1 ELSE used[g]
      BY <2>3
    <3>2. \A g \in 0..MaxCalls : g >= latest => used[g] = 0
      OBVIOUS
    <3>3. \A g \in 0..MaxCalls : g \in Nat
      BY RefreshAssumption
    <3>4. used' \in [0..MaxCalls -> Nat]
      <4>1. DOMAIN used' = 0..MaxCalls /\ used' = [g \in 0..MaxCalls |-> used'[g]]
        BY <2>3
      <4>2. \A g \in 0..MaxCalls : used'[g] \in Nat
        BY <3>1
      <4> QED BY <4>1, <4>2
    <3> QED BY <2>3, <3>1, <3>2, <3>3, <3>4
  <2>5. \A d \in Caller : pc'[d] = "save" => d = c
    BY <1>0, <2>1, <2>3
  <2>6. \A d \in Caller : pc'[d] # "execute"
    BY <1>0, <2>1, <2>3
  <2>7. pc'[c] = "save" /\ token'[c] = latest + 1 /\ token' \in [Caller -> Nat]
    BY <1>0, <2>3
  <2> QED BY <2>2, <2>3, <2>4, <2>5, <2>6, <2>7
<1>5. ASSUME NEW c \in Caller, Replayed(c) PROVE TokenInv'
  <2>1. \A d \in Caller : pc[d] # "save"
    BY <1>5 DEF Replayed, LockInv, Locked
  <2> QED BY <1>5, <2>1 DEF Replayed
<1>6. ASSUME NEW c \in Caller, Unserved(c) PROVE TokenInv'
  BY <1>0, <1>6 DEF Unserved, providerVars, boundVars, Goto, Places
<1>7. ASSUME NEW c \in Caller, Save(c) PROVE TokenInv'
  <2>1. \A d \in Caller : d # c => pc[d] \notin {"execute", "save"}
    BY <1>7 DEF Save, LockInv, Locked
  <2>2. stored' = latest /\ pc' = [pc EXCEPT ![c] = "release"]
        /\ UNCHANGED <<latest, token, used, loggedIn, faults>>
    BY <1>7 DEF Save, Goto, providerVars, boundVars
  <2>3. \A d \in Caller : pc'[d] \notin {"execute", "save"}
    BY <1>0, <2>1, <2>2
  <2> QED BY <2>2, <2>3
<1>8. ASSUME NEW c \in Caller, AnswerLost(c) \/ Crash(c) PROVE TokenInv'
  BY <1>8 DEF AnswerLost, Crash, Undisturbed
<1>9. ASSUME NEW c \in Caller, Release(c) PROVE TokenInv'
  BY <1>0, <1>9 DEF Release, providerVars, boundVars, Goto, Places
<1>10. CASE Tick \/ GoesStale
  BY <1>10 DEF Tick, GoesStale, providerVars, boundVars
<1> QED
  BY <1>1, <1>2, <1>3, <1>4, <1>5, <1>6, <1>7, <1>8, <1>9, <1>10 DEF Next, Step

\* Every step keeps what is refreshed due.
LEMMA DueStep ==
  ASSUME LockInv, TokenInv, DueInv, [Next]_vars
  PROVE  DueInv'
<1> USE DEF DueInv
<1>0. pc \in [Caller -> Places] /\ token \in [Caller -> Nat]
  BY DEF LockInv, TokenInv
<1>1. CASE UNCHANGED vars
  BY <1>1 DEF vars
<1>2. ASSUME NEW c \in Caller, Call(c) PROVE DueInv'
  <2>1. /\ seen' = [seen EXCEPT ![c] = due]
        /\ \A d \in Caller : pc'[d] \in {"load", "execute"} => pc[d] = pc'[d]
        /\ UNCHANGED <<stored, due, used, token>>
    BY <1>0, <1>2 DEF Call, Goto, providerVars
  <2> QED BY <2>1
<1>3. ASSUME NEW c \in Caller, Acquire(c) \/ GiveUp(c) \/ Release(c) PROVE DueInv'
  BY <1>0, <1>3 DEF Acquire, GiveUp, Release, Goto, providerVars
<1>4. ASSUME NEW c \in Caller, Recheck(c) PROVE DueInv'
  BY <1>0, <1>4 DEF Recheck, Goto, providerVars
<1>5. ASSUME NEW c \in Caller, Load(c) PROVE DueInv'
  BY <1>0, <1>5 DEF Load, Goto, providerVars
<1>6. ASSUME NEW c \in Caller, Granted(c) \/ Replayed(c) PROVE DueInv'
  <2>1. /\ used' = [used EXCEPT ![token[c]] = @ + 1] /\ token[c] \in due
        /\ UNCHANGED <<stored, due, seen>>
    BY <1>6 DEF Granted, Replayed
  <2>2. \A d \in Caller : d # c => pc[d] \notin {"load", "execute"}
    BY <1>6 DEF Granted, Replayed, LockInv, Locked
  <2>3. \A d \in Caller : pc'[d] \notin {"load", "execute"}
    BY <1>0, <1>6, <2>2 DEF Granted, Replayed, Goto
  <2>4. \A g \in 0..MaxCalls : used'[g] > 0 => g \in due
    <3> SUFFICES ASSUME NEW g \in 0..MaxCalls, used'[g] > 0 PROVE g \in due
      OBVIOUS
    <3>1. CASE g = token[c]
      BY <2>1, <3>1
    <3>2. CASE g # token[c]
      BY <2>1, <3>2 DEF TokenInv
    <3> QED BY <3>1, <3>2
  <2> QED BY <2>1, <2>3, <2>4
<1>7. ASSUME NEW c \in Caller, Unserved(c) \/ AnswerLost(c) \/ Crash(c) PROVE DueInv'
  BY <1>0, <1>7 DEF Unserved, AnswerLost, Crash, Goto, providerVars
<1>8. ASSUME NEW c \in Caller, Save(c) PROVE DueInv'
  <2>1. \A d \in Caller : d # c => pc[d] \notin {"load", "execute"}
    BY <1>8 DEF Save, LockInv, Locked
  <2>2. pc' = [pc EXCEPT ![c] = "release"] /\ UNCHANGED <<due, used, seen, token>>
    BY <1>8 DEF Save, Goto, providerVars
  <2>3. \A d \in Caller : pc'[d] \notin {"load", "execute"}
    BY <1>0, <2>1, <2>2
  <2> QED BY <2>2, <2>3
<1>9. CASE Tick
  BY <1>9 DEF Tick, providerVars
<1>10. CASE GoesStale
  BY <1>10 DEF GoesStale, providerVars
<1> QED
  BY <1>1, <1>2, <1>3, <1>4, <1>5, <1>6, <1>7, <1>8, <1>9, <1>10 DEF Next, Step

\* Faults are counted and a lapse is remembered: what is undisturbed now was before.
LEMMA DisturbedStep ==
  ASSUME faults \in Nat, lapsed \in {"yes", "no"}, [Next]_vars
  PROVE  /\ faults' \in Nat /\ lapsed' \in {"yes", "no"}
         /\ Undisturbed' => Undisturbed
<1>1. CASE UNCHANGED vars
  BY <1>1 DEF vars, Undisturbed
<1>2. ASSUME NEW c \in Caller, Call(c) \/ Step(c)
      PROVE  UNCHANGED <<faults, lapsed>>
  BY <1>2 DEF Call, Step, Acquire, GiveUp, Recheck, Load, Granted, Replayed, Unserved, Save,
     Release, lockVars, boundVars
<1>3. ASSUME NEW c \in Caller, AnswerLost(c) \/ Crash(c)
      PROVE  faults' = faults + 1 /\ UNCHANGED lapsed
  BY <1>3 DEF AnswerLost, Crash, lockVars
<1>4. CASE Tick
  BY <1>4 DEF Tick, boundVars, Undisturbed
<1>5. CASE GoesStale
  BY <1>5 DEF GoesStale, lockVars, boundVars, Undisturbed
<1> QED BY <1>1, <1>2, <1>3, <1>4, <1>5 DEF Next, Undisturbed

LEMMA RefreshInductive == RefreshInv /\ [Next]_vars => RefreshInv'
BY LockStep, TokenStep, DueStep, DisturbedStep DEF RefreshInv

\* However many callers notice the stale token at once, its refresh token is
\* presented to the provider at most once.
THEOREM RefreshedOnce == Spec => []OneRefreshPerToken
<1>1. RefreshInv => OneRefreshPerToken
  <2>1. TokenInv => \A g \in DOMAIN used : used[g] <= 1
    BY DEF TokenInv
  <2> QED BY <2>1 DEF RefreshInv, OneRefreshPerToken
<1> QED BY <1>1, RefreshInit, RefreshInductive, PTL DEF Spec

\* Nobody refreshes a token that is still fresh: a caller that waited sees what the
\* one before it stored.
THEOREM OnlyDueRefreshed == Spec => []FreshIsNotRefreshed
<1>1. RefreshInv => FreshIsNotRefreshed
  <2>1. TokenInv /\ DueInv => \A g \in DOMAIN used : used[g] > 0 => g \in due
    BY DEF TokenInv, DueInv
  <2> QED BY <2>1 DEF RefreshInv, FreshIsNotRefreshed
<1> QED BY <1>1, RefreshInit, RefreshInductive, PTL DEF Spec

\* Hence a provider that rotates never sees a replay and never ends the grant.
THEOREM NeverLoggedOut == Spec => []UserStaysLoggedIn
<1>1. RefreshInv => UserStaysLoggedIn
  BY DEF RefreshInv, TokenInv, UserStaysLoggedIn
<1> QED BY <1>1, RefreshInit, RefreshInductive, PTL DEF Spec

\* The vault only moves on: a save re-seals the generation after the stored one.
THEOREM VaultMovesOn == Spec => VaultNeverRegresses
<1>1. RefreshInv /\ [Next]_vars => [Undisturbed' => stored' >= stored]_vars
  <2> SUFFICES ASSUME RefreshInv, Next, Undisturbed' PROVE stored' >= stored
    BY DEF vars
  <2>0. TokenInv
    BY DisturbedStep DEF RefreshInv
  <2>1. stored \in Nat /\ latest \in Nat
    BY <2>0 DEF TokenInv
  <2>2. ASSUME NEW c \in Caller, Save(c) PROVE stored' >= stored
    BY <2>0, <2>1, <2>2 DEF Save, TokenInv
  <2>3. CASE UNCHANGED stored
    BY <2>1, <2>3
  <2> QED
    BY <2>2, <2>3
    DEF Next, Step, Call, Acquire, GiveUp, Recheck, Load, Granted, Replayed, Unserved,
        AnswerLost, Release, Crash, Tick, GoesStale
<1> QED BY <1>1, RefreshInit, RefreshInductive, PTL DEF Spec, VaultNeverRegresses

-----------------------------------------------------------------------------
(* Types, whatever is disturbed *)

\* Presenting a refresh token once more keeps the counts counts.
LEMMA UsedOnceMore ==
  ASSUME used \in [0..MaxCalls -> Nat], NEW t \in Nat
  PROVE  [used EXCEPT ![t] = @ + 1] \in [0..MaxCalls -> Nat]
<1> DEFINE u == [used EXCEPT ![t] = @ + 1]
<1>1. DOMAIN u = 0..MaxCalls /\ u = [g \in 0..MaxCalls |-> u[g]]
  OBVIOUS
<1>2. ASSUME NEW g \in 0..MaxCalls PROVE u[g] \in Nat
  <2>1. u[g] = IF g = t THEN used[g] + 1 ELSE used[g]
    OBVIOUS
  <2> QED BY <2>1
<1> QED BY <1>1, <1>2

LEMMA RefreshTypeStep == TypeOK /\ [Next]_vars => TypeOK'
<1> SUFFICES ASSUME TypeOK, [Next]_vars PROVE TypeOK'
  OBVIOUS
<1> USE RefreshAssumption DEF TypeOK, providerVars, lockVars, boundVars, Goto
<1>1. CASE UNCHANGED vars
  BY <1>1 DEF vars
<1>2. ASSUME NEW c \in Caller, Call(c) \/ GiveUp(c) \/ Recheck(c) \/ Load(c) PROVE TypeOK'
  <2>1. CASE Call(c)
    <3>1. seen' \in [Caller -> SUBSET (0..MaxGen)] /\ calls' \in Nat
      BY <2>1 DEF Call
    <3> QED BY <2>1, <3>1 DEF Call
  <2>2. CASE GiveUp(c)
    BY <2>2 DEF GiveUp
  <2>3. CASE Recheck(c)
    BY <2>3 DEF Recheck
  <2>4. CASE Load(c)
    BY <2>4 DEF Load
  <2> QED BY <1>2, <2>1, <2>2, <2>3, <2>4
<1>3. ASSUME NEW c \in Caller, Acquire(c) PROVE TypeOK'
  <2>1. /\ fence' = fence + 1 /\ lock' = fence + 1 /\ ttl' = LockTtl
        /\ mine' = [mine EXCEPT ![c] = fence + 1]
        /\ pc' = [pc EXCEPT ![c] = "recheck"]
        /\ UNCHANGED <<stored, due, latest, loggedIn, used, seen, token, lapsed, calls, faults>>
    BY <1>3 DEF Acquire
  <2>2. fence' \in Nat /\ lock' \in 0..fence' /\ ttl' \in 0..LockTtl
    BY <2>1
  <2>3. mine' \in [Caller -> 0..fence']
    <3>1. \A d \in Caller : mine'[d] \in 0..fence'
      BY <2>1
    <3> QED BY <2>1, <3>1
  <2> QED BY <2>1, <2>2, <2>3
<1>4. ASSUME NEW c \in Caller, Granted(c) PROVE TypeOK'
  <2>1. used' \in [0..MaxCalls -> Nat]
    BY <1>4, UsedOnceMore DEF Granted
  <2> QED BY <1>4, <2>1 DEF Granted
<1>5. ASSUME NEW c \in Caller, Replayed(c) PROVE TypeOK'
  <2>1. used' \in [0..MaxCalls -> Nat]
    BY <1>5, UsedOnceMore DEF Replayed
  <2> QED BY <1>5, <2>1 DEF Replayed
<1>6. ASSUME NEW c \in Caller, Unserved(c) \/ Save(c) \/ AnswerLost(c) \/ Crash(c)
      PROVE  TypeOK'
  <2>1. CASE Unserved(c)
    BY <2>1 DEF Unserved
  <2>2. CASE Save(c)
    <3>1. stored' \in Nat
      BY <2>2 DEF Save
    <3> QED BY <2>2, <3>1 DEF Save
  <2>3. CASE AnswerLost(c)
    BY <2>3 DEF AnswerLost
  <2>4. CASE Crash(c)
    BY <2>4 DEF Crash
  <2> QED BY <1>6, <2>1, <2>2, <2>3, <2>4
<1>7. ASSUME NEW c \in Caller, Release(c) PROVE TypeOK'
  BY <1>7 DEF Release
<1>8. CASE Tick
  BY <1>8 DEF Tick
<1>9. CASE GoesStale
  BY <1>9 DEF GoesStale
<1> QED BY <1>1, <1>2, <1>3, <1>4, <1>5, <1>6, <1>7, <1>8, <1>9 DEF Next, Step

\* Every reachable state is well typed: no fence is handed out that was not issued,
\* and the lock's clock never leaves 0..LockTtl.
THEOREM RefreshTypeCorrect == Spec => []TypeOK
<1>1. Init => TypeOK
  BY RefreshAssumption DEF Init, TypeOK
<1> QED BY <1>1, RefreshTypeStep, PTL DEF Spec

-----------------------------------------------------------------------------
(* Fencing, whatever is disturbed *)

\* No two callers in their locked sections carry one fence, not even after a lapse.
FencesDistinct ==
  \A c, d \in Caller : Locked(c) /\ Locked(d) /\ mine[c] = mine[d] => c = d

\* A fence that is handed out is larger than all that are carried.
LEMMA FenceStep == TypeOK /\ FencesDistinct /\ [Next]_vars => FencesDistinct'
<1> SUFFICES ASSUME TypeOK, FencesDistinct, [Next]_vars PROVE FencesDistinct'
  OBVIOUS
<1>1. ASSUME UNCHANGED mine, \A c \in Caller : Locked(c)' => Locked(c) PROVE FencesDistinct'
  BY <1>1 DEF FencesDistinct
<1>2. CASE UNCHANGED <<pc, mine>>
  BY <1>1, <1>2 DEF Locked
<1>3. ASSUME NEW c \in Caller, Acquire(c) PROVE FencesDistinct'
  <2>1. /\ pc' = [pc EXCEPT ![c] = "recheck"] /\ mine' = [mine EXCEPT ![c] = fence + 1]
        /\ fence \in Nat /\ mine \in [Caller -> 0..fence]
    BY <1>3 DEF Acquire, Goto, TypeOK
  <2>2. \A d \in Caller : d # c => (Locked(d)' <=> Locked(d)) /\ mine'[d] = mine[d] /\ mine[d] # fence + 1
    BY <2>1 DEF Locked, TypeOK
  <2>3. mine'[c] = fence + 1
    BY <2>1
  <2> QED BY <2>2, <2>3 DEF FencesDistinct
<1>4. ASSUME NEW c \in Caller,
             Call(c) \/ (Step(c) /\ ~Acquire(c)) \/ AnswerLost(c) \/ Crash(c)
      PROVE  FencesDistinct'
  <2>1. UNCHANGED mine
    BY <1>4 DEF Call, Step, GiveUp, Recheck, Load, Granted, Replayed, Unserved, Save, Release, AnswerLost, Crash
  <2>2. PICK p : pc' = [pc EXCEPT ![c] = p] /\ (p \in {"idle", "acquire"} \/ Locked(c))
    BY <1>4 DEF Call, Step, GiveUp, Recheck, Load, Granted, Replayed, Unserved, Save, Release, AnswerLost, Crash,
                Goto, Locked
  <2>3. \A d \in Caller : Locked(d)' => Locked(d)
    BY <2>2 DEF Locked, TypeOK
  <2> QED BY <1>1, <2>1, <2>3
<1> QED BY <1>2, <1>3, <1>4 DEF Next, Tick, GoesStale, vars

\* "A stale holder cannot release a newer holder's lock": the lock of a caller in its locked
\* section is given up by itself, or by its TTL, also after lapses, deaths and lost answers.
THEOREM LocksAreFenced == Spec => OnlyHolderReleases
<1>1. Init => TypeOK /\ FencesDistinct
  BY RefreshAssumption DEF Init, TypeOK, FencesDistinct, Locked
<1>2. TypeOK /\ FencesDistinct /\ [Next]_vars
        => [\A c \in Caller :
              Locked(c) /\ mine[c] = lock /\ ttl > 0 /\ ttl' = 0 =>
                \/ pc[c] = "release" /\ pc'[c] = "idle"
                \/ ttl = 1 /\ UNCHANGED pc]_vars
  <2> SUFFICES ASSUME TypeOK, FencesDistinct, Next, NEW c \in Caller,
                      Locked(c), mine[c] = lock, ttl > 0, ttl' = 0
               PROVE  \/ pc[c] = "release" /\ pc'[c] = "idle"
                      \/ ttl = 1 /\ UNCHANGED pc
    OBVIOUS
  <2>1. ttl \in Nat /\ LockTtl \in Nat \ {0}
    BY RefreshAssumption DEF TypeOK
  <2>2. CASE Tick
    BY <2>1, <2>2 DEF Tick
  <2>3. ASSUME NEW d \in Caller, Release(d) PROVE pc[c] = "release" /\ pc'[c] = "idle"
    <3>1. lock = mine[d] /\ Locked(d) /\ pc[d] = "release" /\ pc' = [pc EXCEPT ![d] = "idle"]
      BY <2>3 DEF Release, Locked, Goto
    <3>2. c = d
      BY <3>1 DEF FencesDistinct
    <3> QED BY <3>1, <3>2 DEF TypeOK
  <2>4. ~\E d \in Caller : Acquire(d)
    BY <2>1 DEF Acquire
  <2>5. CASE UNCHANGED ttl
    BY <2>5
  <2> QED BY <2>2, <2>3, <2>4, <2>5
          DEF Next, Step, Call, GiveUp, Recheck, Load, Granted, Replayed, Unserved, Save, AnswerLost, Crash,
              GoesStale, lockVars
<1> QED BY <1>1, <1>2, FenceStep, RefreshTypeStep, PTL DEF Spec, OnlyHolderReleases

=============================================================================
