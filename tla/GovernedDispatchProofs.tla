------------------------ MODULE GovernedDispatchProofs ------------------------
(***************************************************************************)
(* Proofs about GovernedDispatch, for any calls, keys, resources and        *)
(* mandates, any saga chains and hooks, and tools that may panic.           *)
(***************************************************************************)
EXTENDS GovernedDispatch, FiniteSetTheorems, TLAPS

-----------------------------------------------------------------------------
(* Types *)

Maybe == Call \cup {NoCall}

\* The variables of an answer keep their types.
LEMMA AnswerTyped ==
  ASSUME TypeOK, NEW c \in Call, NEW r \in Results, Answer(c, r)
  PROVE  /\ result' \in [Call -> Results] /\ pc' \in [Call -> Places]
         /\ resArc' \in [Call -> Maybe] /\ keyArc' \in [Call -> Maybe]
         /\ resHeld' \subseteq Call /\ keyHeld' \subseteq Call
         /\ cursor' \in [Call -> Maybe] /\ rollback' \in [Call -> Rollbacks]
         /\ UNCHANGED <<now, tick, prepared, expires, shown, granted, resTable, keyTable, undone>>
<1> USE DispatchAssumption DEF TypeOK, Answer, Maybe
<1>1. /\ result' \in [Call -> Results]
      /\ resArc' \in [Call -> Maybe] /\ keyArc' \in [Call -> Maybe]
      /\ resHeld' \subseteq Call /\ keyHeld' \subseteq Call
      /\ UNCHANGED <<now, tick, prepared, expires, shown, granted, resTable, keyTable, undone>>
  OBVIOUS
<1>2. pc' \in [Call -> Places]
  BY DEF Goto, Places
<1>3. cursor' \in [Call -> Maybe] /\ rollback' \in [Call -> Rollbacks]
  <2>1. \/ /\ cursor' = [cursor EXCEPT ![c] = Prev[c]]
           /\ rollback' = [rollback EXCEPT ![c] = "compensated"]
        \/ cursor' = cursor /\ rollback' = rollback
    OBVIOUS
  <2>2. Prev[c] \in Maybe
    OBVIOUS
  <2> QED BY <2>1, <2>2 DEF Rollbacks
<1> QED BY <1>1, <1>2, <1>3

\* A lookup leaves a table of locks, and finds one.
LEMMA FoundTyped ==
  ASSUME NEW S, NEW table \in [S -> Maybe], NEW arc \in [Call -> Maybe],
         NEW name \in S, NEW c \in Call
  PROVE  /\ Found(table, arc, name, c) \in [S -> Maybe]
         /\ Found(table, arc, name, c)[name] \in Maybe
<1>1. PICK kept \in [S -> Maybe] : kept = Pruned(table, arc)
  <2>1. Pruned(table, arc) \in [S -> Maybe]
    BY DEF Pruned, Maybe
  <2> QED BY <2>1
<1>2. Found(table, arc, name, c) =
        [kept EXCEPT ![name] = IF kept[name] = NoCall THEN c ELSE kept[name]]
  BY <1>1 DEF Found
<1> QED BY <1>1, <1>2 DEF Maybe

\* A released call is answered.
LEMMA ReleaseIsAnswer ==
  ASSUME NEW c \in Call, NEW r \in Results, Release(c, r)
  PROVE  \E s \in Results : Answer(c, s)
BY DEF Release, Results

\* The types of the phases, after a step.
Previews == prepared' \subseteq Keys /\ expires' \in [Keys -> Nat]
            /\ shown' \in [Keys -> Nat] /\ granted' \in [Keys -> Nat]

LEMMA TypeInit == Init => TypeOK
<1> SUFFICES ASSUME Init PROVE TypeOK
  OBVIOUS
<1>1. PICK made \in Together : pc = [c \in Call |-> IF c \in made THEN "new" ELSE "over"]
  BY DEF Init
<1>2. pc \in [Call -> Places]
  BY <1>1 DEF Places
<1>3. result \in [Call -> Results] /\ rollback \in [Call -> Rollbacks] /\ row \in [Keys -> Rows]
  BY DEF Init, Results, Rollbacks, Rows
<1> QED BY <1>2, <1>3, DispatchAssumption DEF Init, TypeOK

\* The type invariant is kept.
LEMMA TypeStep == TypeOK /\ [Next]_vars => TypeOK'
<1> SUFFICES ASSUME TypeOK, [Next]_vars PROVE TypeOK'
  OBVIOUS
<1> USE DispatchAssumption
<1>1. CASE UNCHANGED vars
  BY <1>1 DEF TypeOK, vars
<1>2. CASE Tick
  BY <1>2 DEF TypeOK, Tick, phases, locks, tables, effects, sagas
<1>3. ASSUME NEW c \in Call,
             DryRun(c) \/ Commit(c) \/ CommitRefused(c) \/ LockResource(c) \/ LockKey(c)
      PROVE  TypeOK'
  <2>1. /\ pc' \in [Call -> Places] /\ result' \in [Call -> Results] /\ tick' \in [Call -> Nat]
        /\ now' = now
    BY <1>3 DEF TypeOK, DryRun, Commit, CommitRefused, LockResource, LockKey, Goto, Places,
       Results
  <2>2. Previews
    BY <1>3 DEF TypeOK, DryRun, Commit, CommitRefused, LockResource, LockKey, Take, phases,
       Previews
  <2>3. resHeld' \subseteq Call /\ keyHeld' \subseteq Call
    BY <1>3 DEF TypeOK, DryRun, Commit, CommitRefused, LockResource, LockKey, locks
  <2>4. UNCHANGED <<used, tables, effects, sagas>>
    BY <1>3 DEF DryRun, Commit, CommitRefused, LockResource, LockKey, locks
  <2> QED BY <2>1, <2>2, <2>3, <2>4 DEF TypeOK, Previews, tables, effects, sagas
<1>4. ASSUME NEW c \in Call, Enter(c) PROVE TypeOK'
  <2>1. pc' \in [Call -> Places] /\ tick' \in [Call -> Nat]
    BY <1>4 DEF TypeOK, Enter, Goto, Places
  <2> QED BY <1>4, <2>1 DEF TypeOK, Enter, phases, locks, tables, effects, sagas
<1>5. ASSUME NEW c \in Call, NEW r \in Results, Answer(c, r), UNCHANGED <<used, acted>>,
             row' \in [Keys -> Rows]
      PROVE  TypeOK'
  BY <1>5, AnswerTyped DEF TypeOK, Maybe
<1>6. ASSUME NEW c \in Call, EnterRefused(c) \/ GateRefused(c) \/ Panic(c) PROVE TypeOK'
  <2>1. /\ \E r \in Results : Answer(c, r)
        /\ UNCHANGED <<used, acted, row>>
    BY <1>6 DEF EnterRefused, GateRefused, Panic, Results, effects
  <2> QED BY <1>5, <2>1 DEF TypeOK
<1>7. ASSUME NEW c \in Call, Dedup(c) \/ Reconcile(c) \/ Settle(c) PROVE TypeOK'
  <2>1. \E r \in Results : Answer(c, r)
    BY <1>7, ReleaseIsAnswer DEF Dedup, Reconcile, Settle, Results
  <2>2. row' \in [Keys -> Rows]
    BY <1>7 DEF TypeOK, Dedup, Reconcile, Settle, Rows, effects
  <2>3. UNCHANGED <<used, acted>>
    BY <1>7 DEF Dedup, Reconcile, Settle, effects
  <2> QED BY <1>5, <2>1, <2>2, <2>3
<1>8. ASSUME NEW c \in Call, LookupResource(c) PROVE TypeOK'
  <2>1. pc' \in [Call -> Places]
    BY <1>8 DEF TypeOK, LookupResource, Goto, Places
  <2>2. resTable' \in [Resources -> Maybe] /\ resArc' \in [Call -> Maybe]
    <3>1. CASE Resource[c] = NoResource
      BY <1>8, <3>1 DEF LookupResource, TypeOK, Maybe
    <3>2. CASE Resource[c] # NoResource
      <4>1. Resource[c] \in Resources
        BY <3>2
      <4>2. /\ Found(resTable, resArc, Resource[c], c) \in [Resources -> Maybe]
            /\ Found(resTable, resArc, Resource[c], c)[Resource[c]] \in Maybe
        BY <4>1, FoundTyped DEF TypeOK, Maybe
      <4> QED BY <1>8, <3>2, <4>2 DEF LookupResource, TypeOK, Maybe
    <3> QED BY <3>1, <3>2
  <2> QED BY <1>8, <2>1, <2>2 DEF LookupResource, TypeOK, Maybe, phases, effects, sagas
<1>9. ASSUME NEW c \in Call, LookupKey(c) PROVE TypeOK'
  <2>1. pc' \in [Call -> Places]
    BY <1>9 DEF TypeOK, LookupKey, Goto, Places
  <2>2. /\ Found(keyTable, keyArc, Runs[c], c) \in [Keys -> Maybe]
        /\ Found(keyTable, keyArc, Runs[c], c)[Runs[c]] \in Maybe
    BY FoundTyped DEF TypeOK, Maybe
  <2>3. keyTable' \in [Keys -> Maybe] /\ keyArc' \in [Call -> Maybe]
    BY <1>9, <2>2 DEF LookupKey, TypeOK, Maybe
  <2> QED BY <1>9, <2>1, <2>3 DEF LookupKey, TypeOK, Maybe, phases, effects, sagas
<1>10. ASSUME NEW c \in Call, Gate(c) PROVE TypeOK'
  <2>1. pc' \in [Call -> Places]
    BY <1>10 DEF TypeOK, Gate, Goto, Places
  <2>2. used' \in [Mandates -> Nat] /\ \A m \in Mandates : used'[m] <= MaxUses[m]
    BY <1>10 DEF TypeOK, Gate, Authorizes
  <2> QED BY <1>10, <2>1, <2>2 DEF Gate, TypeOK, phases, locks, tables, effects, sagas
<1>11. ASSUME NEW c \in Call, Claim(c) \/ Execute(c) PROVE TypeOK'
  <2>1. pc' \in [Call -> Places]
    BY <1>11 DEF TypeOK, Claim, Execute, Goto, Places
  <2>2. row' \in [Keys -> Rows] /\ acted' \subseteq Call
    BY <1>11 DEF TypeOK, Claim, Execute, Rows
  <2> QED BY <1>11, <2>1, <2>2 DEF Claim, Execute, TypeOK, phases, locks, tables, sagas
<1>12. ASSUME NEW c \in Call, Compensate(c) \/ EndSaga(c) PROVE TypeOK'
  <2>1. pc' \in [Call -> Places]
    BY <1>12 DEF TypeOK, Compensate, EndSaga, Goto, Places
  <2>2. /\ cursor' \in [Call -> Maybe] /\ rollback' \in [Call -> Rollbacks]
        /\ undone' \subseteq Call \X Call
    BY <1>12 DEF TypeOK, Compensate, EndSaga, Maybe, Rollbacks, sagas
  <2> QED BY <1>12, <2>1, <2>2 DEF Compensate, EndSaga, TypeOK, Maybe, phases, locks, tables,
       effects
<1> QED BY <1>1, <1>2, <1>3, <1>4, <1>6, <1>7, <1>8, <1>9, <1>10, <1>11, <1>12 DEF Next, Step

\* Every variable keeps its type, and no mandate is used more often than it was signed for.
THEOREM DispatchTypeCorrect == Spec => []TypeOK
<1> QED BY TypeInit, TypeStep, PTL DEF Spec

-----------------------------------------------------------------------------
(* A table of locks *)

\* A referenced lock stays in the table under its name, and has one holder.
LockInv(table, arc, held, name) ==
  /\ \A c \in Call : arc[c] # NoCall => name[c] \in DOMAIN table /\ table[name[c]] = arc[c]
  /\ \A c \in held : arc[c] # NoCall
  /\ \A c, d \in held : arc[c] = arc[d] => c = d

\* A lookup finds the lock that is referenced under a name, and drops none.
LEMMA LookupKeeps ==
  ASSUME NEW S, NEW table \in [S -> Maybe], NEW arc \in [Call -> Maybe],
         NEW held \in SUBSET Call, NEW name, NEW c \in Call, c \notin held, name[c] \in S,
         LockInv(table, arc, held, name), NEW new, new = Found(table, arc, name[c], c),
         NEW brc, brc = [arc EXCEPT ![c] = new[name[c]]]
  PROVE  LockInv(new, brc, held, name) /\ new[name[c]] # NoCall
<1> USE DispatchAssumption DEF LockInv
<1>1. PICK kept \in [S -> Maybe] : kept = Pruned(table, arc)
  <2>1. Pruned(table, arc) \in [S -> Maybe]
    BY DEF Pruned, Maybe
  <2> QED BY <2>1
<1>2. \A d \in Call : arc[d] # NoCall => kept[name[d]] = arc[d]
  BY <1>1 DEF Pruned
<1>3. /\ new \in [S -> Maybe]
      /\ new = [kept EXCEPT ![name[c]] = IF kept[name[c]] = NoCall THEN c ELSE kept[name[c]]]
  <2>1. Found(table, arc, name[c], c) =
          [kept EXCEPT ![name[c]] = IF kept[name[c]] = NoCall THEN c ELSE kept[name[c]]]
    BY <1>1 DEF Found
  <2>2. [kept EXCEPT ![name[c]] = IF kept[name[c]] = NoCall THEN c ELSE kept[name[c]]]
          \in [S -> Maybe]
    BY DEF Maybe
  <2> QED BY <2>1, <2>2
<1>4. new[name[c]] # NoCall
  BY <1>3
<1>5. \A d \in Call : arc[d] # NoCall => new[name[d]] = arc[d]
  BY <1>2, <1>3
<1>6. brc \in [Call -> Maybe] /\ brc = [arc EXCEPT ![c] = new[name[c]]]
  BY <1>3
<1>7. \A d \in Call : brc[d] # NoCall => name[d] \in DOMAIN new /\ new[name[d]] = brc[d]
  BY <1>3, <1>5, <1>6
<1>8. /\ \A d \in held : brc[d] # NoCall
      /\ \A d, e \in held : brc[d] = brc[e] => d = e
  BY <1>6
<1>9. LockInv(new, brc, held, name)
  BY <1>7, <1>8
<1> QED BY <1>4, <1>6, <1>9

\* ... of the resource of a call, and of its key.
LEMMA ResourceLookup ==
  ASSUME NEW c \in Call, c \notin resHeld, Resource[c] \in Resources,
         resTable \in [Resources -> Maybe], resArc \in [Call -> Maybe], resHeld \in SUBSET Call,
         LockInv(resTable, resArc, resHeld, Resource),
         NEW new, new = Found(resTable, resArc, Resource[c], c),
         NEW brc, brc = [resArc EXCEPT ![c] = new[Resource[c]]]
  PROVE  LockInv(new, brc, resHeld, Resource) /\ new[Resource[c]] # NoCall
BY LookupKeeps

LEMMA KeyLookup ==
  ASSUME NEW c \in Call, c \notin keyHeld, Runs[c] \in Keys,
         keyTable \in [Keys -> Maybe], keyArc \in [Call -> Maybe], keyHeld \in SUBSET Call,
         LockInv(keyTable, keyArc, keyHeld, Runs),
         NEW new, new = Found(keyTable, keyArc, Runs[c], c),
         NEW brc, brc = [keyArc EXCEPT ![c] = new[Runs[c]]]
  PROVE  LockInv(new, brc, keyHeld, Runs) /\ new[Runs[c]] # NoCall
BY LookupKeeps

LEMMA LockKeeps ==
  ASSUME NEW table, NEW arc, NEW held \in SUBSET Call, NEW name, NEW c \in Call,
         LockInv(table, arc, held, name), arc[c] # NoCall, \A d \in held : arc[d] # arc[c]
  PROVE  LockInv(table, arc, held \cup {c}, name)
BY DEF LockInv

LEMMA DropKeeps ==
  ASSUME NEW table, NEW arc \in [Call -> Maybe], NEW held \in SUBSET Call, NEW name,
         NEW c \in Call, LockInv(table, arc, held, name)
  PROVE  LockInv(table, [arc EXCEPT ![c] = NoCall], held \ {c}, name)
BY DEF LockInv

\* Holders of locks of one name are one.
LEMMA HoldersDiffer ==
  ASSUME NEW table, NEW arc, NEW held \in SUBSET Call, NEW name,
         LockInv(table, arc, held, name)
  PROVE  \A c, d \in held : name[c] = name[d] => c = d
BY DEF LockInv

-----------------------------------------------------------------------------
(* The locks of the calls *)

Inside == {"claim", "run", "ran", "broke"}

\* Which call holds what, by its place.
PlacesInv ==
  \A c \in Call :
    /\ c \in resHeld => pc[c] \in {"gate", "keyed", "at_key"} \cup Inside
    /\ pc[c] = "at_res" => resArc[c] # NoCall
    /\ pc[c] = "at_key" => keyArc[c] # NoCall
    /\ c \in keyHeld <=> Kind[c] # "free" /\ pc[c] \in Inside
    /\ pc[c] \in {"keyed", "at_key", "claim"} => Kind[c] # "free"

LocksInv ==
  /\ LockInv(resTable, resArc, resHeld, Resource)
  /\ LockInv(keyTable, keyArc, keyHeld, Runs)

\* What an answer does to the locks.
LEMMA AnswerKeeps ==
  ASSUME TypeOK, LocksInv, PlacesInv, NEW c \in Call, NEW r \in Results, Answer(c, r)
  PROVE  LocksInv' /\ PlacesInv'
<1>1. LocksInv'
  <2>1. LockInv(resTable, [resArc EXCEPT ![c] = NoCall], resHeld \ {c}, Resource)
    BY DropKeeps DEF LocksInv, TypeOK, Maybe
  <2>2. LockInv(keyTable, [keyArc EXCEPT ![c] = NoCall], keyHeld \ {c}, Runs)
    BY DropKeeps DEF LocksInv, TypeOK, Maybe
  <2>3. /\ resTable' = resTable /\ resArc' = [resArc EXCEPT ![c] = NoCall]
        /\ keyTable' = keyTable /\ keyArc' = [keyArc EXCEPT ![c] = NoCall]
        /\ resHeld' = resHeld \ {c} /\ keyHeld' = keyHeld \ {c}
    BY DEF Answer
  <2> QED BY <2>1, <2>2, <2>3 DEF LocksInv
<1>2. PlacesInv'
  <2>1. \E p \in {"undo", "over"} : pc' = [pc EXCEPT ![c] = p]
    BY DEF Answer, Goto
  <2> QED BY <2>1 DEF PlacesInv, Inside, Answer, TypeOK
<1> QED BY <1>1, <1>2

LEMMA LocksInit == Init => LocksInv /\ PlacesInv
<1> SUFFICES ASSUME Init PROVE LocksInv /\ PlacesInv
  OBVIOUS
<1>1. PICK made \in Together : pc = [c \in Call |-> IF c \in made THEN "new" ELSE "over"]
  BY DEF Init
<1> QED BY <1>1 DEF Init, LocksInv, LockInv, PlacesInv, Inside

\* An answered call, whatever the action.
LEMMA AnswersAre ==
  ASSUME NEW c \in Call,
         EnterRefused(c) \/ GateRefused(c) \/ Dedup(c) \/ Reconcile(c) \/ Panic(c) \/ Settle(c)
  PROVE  \E r \in Results : Answer(c, r)
BY ReleaseIsAnswer DEF EnterRefused, GateRefused, Dedup, Reconcile, Panic, Settle, Results

LEMMA LocksStep ==
  ASSUME TypeOK, LocksInv, PlacesInv, [Next]_vars
  PROVE  LocksInv' /\ PlacesInv'
<1> USE DispatchAssumption
<1>1. CASE UNCHANGED vars \/ Tick
  BY <1>1 DEF LocksInv, PlacesInv, vars, Tick, locks, tables
<1>2. ASSUME NEW c \in Call,
             EnterRefused(c) \/ GateRefused(c) \/ Dedup(c) \/ Reconcile(c) \/ Panic(c) \/ Settle(c)
      PROVE  LocksInv' /\ PlacesInv'
  BY <1>2, AnswersAre, AnswerKeeps
<1>3. ASSUME NEW c \in Call, UNCHANGED locks
      PROVE  LocksInv'
  BY <1>3 DEF LocksInv, locks, tables
<1>4. ASSUME NEW c \in Call,
             DryRun(c) \/ Commit(c) \/ CommitRefused(c) \/ Enter(c) \/ Compensate(c) \/ EndSaga(c)
      PROVE  LocksInv' /\ PlacesInv'
  <2>1. UNCHANGED locks
    BY <1>4 DEF DryRun, Commit, CommitRefused, Enter, Compensate, EndSaga
  <2>2. \/ pc' = pc
        \/ /\ pc[c] \in {"new", "shown", "cleared", "undo"}
           /\ \E p \in {"shown", "cleared", "hooked", "over"} : pc' = [pc EXCEPT ![c] = p]
    BY <1>4 DEF DryRun, Commit, CommitRefused, Enter, Compensate, EndSaga, Goto
  <2>3. PlacesInv'
    BY <2>1, <2>2 DEF PlacesInv, Inside, locks, tables, TypeOK
  <2> QED BY <1>3, <2>1, <2>3
<1>5. ASSUME NEW c \in Call, Gate(c) \/ Claim(c) \/ Execute(c)
      PROVE  LocksInv' /\ PlacesInv'
  <2>1. UNCHANGED locks
    BY <1>5 DEF Gate, Claim, Execute
  <2>2. \/ /\ pc[c] = "gate"
           /\ pc' = [pc EXCEPT ![c] = IF Kind[c] = "free" THEN "run" ELSE "keyed"]
        \/ pc[c] = "claim" /\ pc' = [pc EXCEPT ![c] = "run"]
        \/ pc[c] = "run" /\ pc' = [pc EXCEPT ![c] = "ran"]
        \/ pc[c] = "run" /\ pc' = [pc EXCEPT ![c] = "broke"]
    BY <1>5 DEF Gate, Claim, Execute, Goto
  <2>3. PlacesInv'
    BY <2>1, <2>2 DEF PlacesInv, Inside, locks, tables, TypeOK
  <2> QED BY <1>3, <2>1, <2>3
<1>6. ASSUME NEW c \in Call, LookupResource(c) PROVE LocksInv' /\ PlacesInv'
  <2>1. pc[c] = "hooked" /\ c \notin resHeld
    BY <1>6 DEF LookupResource, PlacesInv, Inside
  <2>2. CASE Resource[c] = NoResource
    <3>1. UNCHANGED locks /\ pc' = [pc EXCEPT ![c] = "gate"]
      BY <1>6, <2>2 DEF LookupResource, locks, tables, Goto
    <3>2. PlacesInv'
      BY <2>1, <3>1 DEF PlacesInv, Inside, locks, tables, TypeOK
    <3> QED BY <1>3, <3>1, <3>2
  <2>3. CASE Resource[c] # NoResource
    <3>0. PICK new : new = Found(resTable, resArc, Resource[c], c)
      OBVIOUS
    <3>1. Resource[c] \in Resources
      BY <2>3
    <3>3. /\ resTable' = new /\ resArc' = [resArc EXCEPT ![c] = new[Resource[c]]]
          /\ pc' = [pc EXCEPT ![c] = "at_res"]
          /\ UNCHANGED <<resHeld, keyTable, keyArc, keyHeld>>
      BY <1>6, <2>3, <3>0 DEF LookupResource, Goto
    <3>2. LockInv(new, resArc', resHeld, Resource) /\ new[Resource[c]] # NoCall
      <4>0. PICK brc : brc = [resArc EXCEPT ![c] = new[Resource[c]]]
        OBVIOUS
      <4>1. /\ resTable \in [Resources -> Maybe] /\ resArc \in [Call -> Maybe]
            /\ resHeld \in SUBSET Call
        BY DEF TypeOK, Maybe
      <4>2. LockInv(resTable, resArc, resHeld, Resource)
        BY DEF LocksInv
      <4>3. LockInv(new, brc, resHeld, Resource) /\ new[Resource[c]] # NoCall
        BY <2>1, <3>0, <3>1, <4>0, <4>1, <4>2, ResourceLookup
      <4> QED BY <3>3, <4>0, <4>3
    <3>4. LocksInv'
      BY <3>2, <3>3 DEF LocksInv
    <3>5. PICK l : l # NoCall /\ resArc' = [resArc EXCEPT ![c] = l]
      BY <3>2, <3>3
    <3>6. PlacesInv'
      BY <2>1, <3>3, <3>5 DEF PlacesInv, Inside, TypeOK
    <3> QED BY <3>4, <3>6
  <2> QED BY <2>2, <2>3
<1>7. ASSUME NEW c \in Call, LookupKey(c) PROVE LocksInv' /\ PlacesInv'
  <2>0. PICK new : new = Found(keyTable, keyArc, Runs[c], c)
    OBVIOUS
  <2>1. pc[c] = "keyed" /\ c \notin keyHeld
    BY <1>7 DEF LookupKey, PlacesInv, Inside
  <2>3. /\ keyTable' = new /\ keyArc' = [keyArc EXCEPT ![c] = new[Runs[c]]]
        /\ pc' = [pc EXCEPT ![c] = "at_key"]
        /\ UNCHANGED <<keyHeld, resTable, resArc, resHeld>>
    BY <1>7, <2>0 DEF LookupKey, Goto
  <2>2. LockInv(new, keyArc', keyHeld, Runs) /\ new[Runs[c]] # NoCall
    <3>0. PICK brc : brc = [keyArc EXCEPT ![c] = new[Runs[c]]]
      OBVIOUS
    <3>1. /\ keyTable \in [Keys -> Maybe] /\ keyArc \in [Call -> Maybe]
          /\ keyHeld \in SUBSET Call /\ Runs[c] \in Keys
      BY DEF TypeOK, Maybe
    <3>2. LockInv(keyTable, keyArc, keyHeld, Runs)
      BY DEF LocksInv
    <3>3. LockInv(new, brc, keyHeld, Runs) /\ new[Runs[c]] # NoCall
      BY <2>0, <2>1, <3>0, <3>1, <3>2, KeyLookup
    <3> QED BY <2>3, <3>0, <3>3
  <2>4. LocksInv'
    BY <2>2, <2>3 DEF LocksInv
  <2>5. PICK l : l # NoCall /\ keyArc' = [keyArc EXCEPT ![c] = l]
    BY <2>2, <2>3
  <2>6. PlacesInv'
    BY <2>1, <2>3, <2>5 DEF PlacesInv, Inside, TypeOK
  <2> QED BY <2>4, <2>6
<1>8. ASSUME NEW c \in Call, LockResource(c) PROVE LocksInv' /\ PlacesInv'
  <2>1. /\ pc[c] = "at_res" /\ pc' = [pc EXCEPT ![c] = "gate"]
        /\ resHeld' = resHeld \cup {c} /\ UNCHANGED <<tables, keyHeld>>
        /\ \A d \in resHeld : resArc[d] # resArc[c]
    BY <1>8 DEF LockResource, Goto
  <2>2. LockInv(resTable, resArc, resHeld \cup {c}, Resource)
    BY <2>1, LockKeeps DEF LocksInv, PlacesInv, TypeOK
  <2>3. LocksInv'
    BY <2>1, <2>2 DEF LocksInv, tables
  <2>4. PlacesInv'
    BY <2>1 DEF PlacesInv, Inside, tables, TypeOK
  <2> QED BY <2>3, <2>4
<1>9. ASSUME NEW c \in Call, LockKey(c) PROVE LocksInv' /\ PlacesInv'
  <2>1. /\ pc[c] = "at_key" /\ pc' = [pc EXCEPT ![c] = "claim"]
        /\ keyHeld' = keyHeld \cup {c} /\ UNCHANGED <<tables, resHeld>>
        /\ \A d \in keyHeld : keyArc[d] # keyArc[c]
    BY <1>9 DEF LockKey, Goto
  <2>2. LockInv(keyTable, keyArc, keyHeld \cup {c}, Runs)
    BY <2>1, LockKeeps DEF LocksInv, PlacesInv, TypeOK
  <2>3. LocksInv'
    BY <2>1, <2>2 DEF LocksInv, tables
  <2>4. PlacesInv'
    BY <2>1 DEF PlacesInv, Inside, tables, TypeOK
  <2> QED BY <2>3, <2>4
<1> QED BY <1>1, <1>2, <1>4, <1>5, <1>6, <1>7, <1>8, <1>9 DEF Next, Step

\* One call at a time inside a resource, and inside a key.
LEMMA Apart == LocksInv /\ TypeOK => OneAtATime
<1>1. ASSUME LocksInv, TypeOK
      PROVE  \A c, d \in resHeld : Resource[c] = Resource[d] => c = d
  BY <1>1, HoldersDiffer DEF LocksInv, TypeOK
<1>2. ASSUME LocksInv, TypeOK
      PROVE  \A c, d \in keyHeld : Runs[c] = Runs[d] => c = d
  BY <1>2, HoldersDiffer DEF LocksInv, TypeOK
<1> QED BY <1>1, <1>2 DEF OneAtATime

\* No pruning of the lock tables, and no panic, lets two calls into one resource or key.
THEOREM OneCallAtATime == Spec => []OneAtATime
<1>1. TypeOK /\ LocksInv /\ PlacesInv /\ [Next]_vars => (TypeOK /\ LocksInv /\ PlacesInv)'
  BY TypeStep, LocksStep
<1> QED BY TypeInit, LocksInit, Apart, <1>1, PTL DEF Spec

-----------------------------------------------------------------------------
(* The previews *)

\* A preview is consumed by the commit it authorizes.
THEOREM OnePreviewOneCommit == Spec => []PreviewBuysOneCommit
<1>1. Init => PreviewBuysOneCommit
  BY DEF Init, PreviewBuysOneCommit
<1>2. ASSUME TypeOK, PreviewBuysOneCommit, [Next]_vars
      PROVE  PreviewBuysOneCommit'
  <2>1. CASE UNCHANGED <<prepared, shown, granted>>
    BY <1>2, <2>1 DEF PreviewBuysOneCommit
  <2>2. ASSUME NEW c \in Call, DryRun(c) \/ Commit(c) \/ CommitRefused(c)
        PROVE  PreviewBuysOneCommit'
    <3>1. Key[c] \in Keys
      BY DispatchAssumption
    <3>2. CASE DryRun(c)
      BY <1>2, <3>1, <3>2 DEF DryRun, PreviewBuysOneCommit, TypeOK
    <3>3. CASE Commit(c)
      BY <1>2, <3>1, <3>3 DEF Commit, Take, PreviewBuysOneCommit, TypeOK
    <3>4. CASE CommitRefused(c)
      BY <1>2, <3>1, <3>4 DEF CommitRefused, Take, PreviewBuysOneCommit, TypeOK
    <3> QED BY <2>2, <3>2, <3>3, <3>4
  <2>3. CASE UNCHANGED vars \/ Tick
    BY <2>1, <2>3 DEF vars, Tick, phases
  <2>4. ASSUME NEW c \in Call, NEW r \in Results, Answer(c, r)
        PROVE  UNCHANGED <<prepared, shown, granted>>
    BY <2>4 DEF Answer
  <2>5. ASSUME NEW c \in Call, Step(c)
        PROVE  PreviewBuysOneCommit'
    <3>1. CASE DryRun(c) \/ Commit(c) \/ CommitRefused(c)
      BY <2>2, <3>1
    <3>2. CASE \/ EnterRefused(c) \/ GateRefused(c) \/ Dedup(c) \/ Reconcile(c) \/ Panic(c)
               \/ Settle(c)
      BY <2>1, <2>4, <3>2, AnswersAre
    <3>3. CASE \/ Enter(c) \/ LookupResource(c) \/ LockResource(c) \/ Gate(c) \/ LookupKey(c)
               \/ LockKey(c) \/ Claim(c) \/ Execute(c) \/ Compensate(c) \/ EndSaga(c)
      <4>1. UNCHANGED phases
        BY <3>3 DEF Enter, LookupResource, LockResource, Gate, LookupKey, LockKey, Claim,
           Execute, Compensate, EndSaga
      <4> QED BY <2>1, <4>1 DEF phases
    <3> QED BY <2>5, <3>1, <3>2, <3>3 DEF Step
  <2> QED BY <1>2, <2>3, <2>5 DEF Next
<1>3. TypeOK /\ PreviewBuysOneCommit /\ [Next]_vars => (TypeOK /\ PreviewBuysOneCommit)'
  BY <1>2, TypeStep
<1> QED BY TypeInit, <1>1, <1>3, PTL DEF Spec

-----------------------------------------------------------------------------
(* The ledger of the keys *)

\* A row is PENDING from the claim to the settlement; one that may be claimed has had no
\* effect.
RowInv ==
  /\ \A c \in Call :
       Kind[c] # "free" =>
         /\ pc[c] \in {"run", "ran", "broke"} => row[Runs[c]] = "pending"
         /\ pc[c] \in {"run", "broke"} => ~Fired(Runs[c])
  /\ \A k \in Keys : row[k] \in {"absent", "failed"} => ~Fired(k)

\* A call inside its key is alone there.
LEMMA Alone ==
  ASSUME OneAtATime, PlacesInv, NEW c \in Call, NEW d \in Call,
         Kind[c] # "free", Kind[d] # "free", pc[c] \in Inside, pc[d] \in Inside,
         Runs[c] = Runs[d]
  PROVE  c = d
BY DEF OneAtATime, PlacesInv

\* A step that answers without writing the row, or for another reason leaves it.
LEMMA RowAnswered ==
  ASSUME TypeOK, RowInv, NEW c \in Call, NEW r \in Results, Answer(c, r),
         UNCHANGED <<row, acted>>
  PROVE  RowInv'
<1>1. PICK p \in {"undo", "over"} : pc' = [pc EXCEPT ![c] = p]
  BY DEF Answer, Goto
<1> QED BY <1>1 DEF RowInv, Fired, TypeOK

\* A step inside the key writes its row, or makes its effect.
LEMMA RowWritten ==
  ASSUME TypeOK, RowInv, OneAtATime, PlacesInv, EffectOnce, NEW c \in Call,
         Claim(c) \/ Reconcile(c) \/ Execute(c) \/ Settle(c)
  PROVE  RowInv' /\ EffectOnce'
<1> USE DispatchAssumption
<1>0. Runs[c] \in Keys
  OBVIOUS
<1>1. CASE Claim(c)
  <2>1. \A d \in Call : Kind[d] # "free" /\ pc[d] \in Inside /\ Runs[d] = Runs[c] => d = c
    BY <1>1, Alone DEF Claim, PlacesInv, Inside
  <2>2. /\ pc[c] = "claim" /\ ~Fired(Runs[c])
        /\ row' = [row EXCEPT ![Runs[c]] = "pending"]
        /\ pc' = [pc EXCEPT ![c] = "run"] /\ acted' = acted
    BY <1>0, <1>1 DEF Claim, Goto, RowInv
  <2> QED BY <1>0, <2>1, <2>2 DEF RowInv, Fired, EffectOnce, TypeOK, Inside
<1>2. CASE Reconcile(c)
  <2>1. \A d \in Call : Kind[d] # "free" /\ pc[d] \in Inside /\ Runs[d] = Runs[c] => d = c
    BY <1>2, Alone DEF Reconcile, PlacesInv, Inside
  <2>2. \E r \in Results : Answer(c, r)
    BY <1>2, AnswersAre
  <2>3. PICK p \in {"undo", "over"} : pc' = [pc EXCEPT ![c] = p]
    BY <2>2 DEF Answer, Goto
  <2>4. /\ pc[c] = "claim" /\ acted' = acted
        /\ \/ row' = row
           \/ row' = [row EXCEPT ![Runs[c]] = "committed"]
           \/ ~Fired(Runs[c]) /\ row' = [row EXCEPT ![Runs[c]] = "failed"]
    BY <1>2 DEF Reconcile
  <2> QED BY <1>0, <2>1, <2>3, <2>4 DEF RowInv, Fired, EffectOnce, TypeOK, Inside
<1>3. CASE Execute(c)
  <2>1. /\ pc[c] = "run" /\ row' = row
        /\ \/ pc' = [pc EXCEPT ![c] = "ran"] /\ acted' = acted \cup {c}
           \/ pc' = [pc EXCEPT ![c] = "broke"] /\ acted' = acted
    BY <1>3 DEF Execute, Goto
  <2>2. CASE Kind[c] = "free"
    BY <2>1, <2>2 DEF RowInv, Fired, EffectOnce, TypeOK
  <2>3. CASE Kind[c] # "free"
    <3>1. \A d \in Call : Kind[d] # "free" /\ pc[d] \in Inside /\ Runs[d] = Runs[c] => d = c
      BY <2>1, <2>3, Alone DEF Inside
    <3>2. row[Runs[c]] = "pending" /\ ~Fired(Runs[c])
      BY <2>1, <2>3 DEF RowInv
    <3>3. RowInv'
      BY <2>1, <2>3, <3>1, <3>2 DEF RowInv, Fired, TypeOK, Inside
    <3>4. EffectOnce'
      BY <2>1, <3>2 DEF Fired, EffectOnce
    <3> QED BY <3>3, <3>4
  <2> QED BY <2>2, <2>3
<1>4. CASE Settle(c)
  <2>1. \E r \in Results : Answer(c, r)
    BY <1>4, AnswersAre
  <2>2. PICK p \in {"undo", "over"} : pc' = [pc EXCEPT ![c] = p]
    BY <2>1 DEF Answer, Goto
  <2>3. /\ pc[c] \in {"ran", "broke"} /\ acted' = acted
        /\ row' = IF Kind[c] = "free" THEN row
                  ELSE [row EXCEPT ![Runs[c]] = IF pc[c] = "ran" THEN "committed" ELSE "failed"]
    BY <1>4 DEF Settle
  <2>4. CASE Kind[c] = "free"
    BY <2>2, <2>3, <2>4 DEF RowInv, Fired, EffectOnce, TypeOK
  <2>5. CASE Kind[c] # "free"
    <3>1. \A d \in Call : Kind[d] # "free" /\ pc[d] \in Inside /\ Runs[d] = Runs[c] => d = c
      BY <2>3, <2>5, Alone DEF Inside
    <3> QED BY <1>0, <2>2, <2>3, <2>5, <3>1 DEF RowInv, Fired, EffectOnce, TypeOK, Inside
  <2> QED BY <2>4, <2>5
<1> QED BY <1>1, <1>2, <1>3, <1>4

\* A step that neither claims nor answers leaves the rows and the effects.
LEMMA RowKept ==
  ASSUME TypeOK, RowInv, PlacesInv, NEW c \in Call,
         \/ DryRun(c) \/ Commit(c) \/ CommitRefused(c) \/ Enter(c) \/ LookupResource(c)
         \/ LockResource(c) \/ Gate(c) \/ LookupKey(c) \/ LockKey(c) \/ Compensate(c)
         \/ EndSaga(c)
  PROVE  RowInv' /\ UNCHANGED effects
<1>1. UNCHANGED effects
  BY DEF DryRun, Commit, CommitRefused, Enter, LookupResource, LockResource, Gate, LookupKey,
     LockKey, Compensate, EndSaga
<1>2. \/ pc' = pc
      \/ \E p \in Places \ {"run", "ran", "broke"} : pc' = [pc EXCEPT ![c] = p]
      \/ Kind[c] = "free" /\ pc' = [pc EXCEPT ![c] = "run"]
  BY DEF DryRun, Commit, CommitRefused, Enter, LookupResource, LockResource, Gate, LookupKey,
     LockKey, Compensate, EndSaga, Goto, Places
<1> QED BY <1>1, <1>2 DEF RowInv, Fired, TypeOK, effects

LEMMA RowStep ==
  ASSUME TypeOK, RowInv, OneAtATime, PlacesInv, EffectOnce, [Next]_vars
  PROVE  RowInv' /\ EffectOnce'
<1>1. CASE UNCHANGED vars \/ Tick
  BY <1>1 DEF RowInv, Fired, EffectOnce, vars, Tick, effects
<1>2. ASSUME NEW c \in Call, Step(c) PROVE RowInv' /\ EffectOnce'
  <2>1. CASE Claim(c) \/ Reconcile(c) \/ Execute(c) \/ Settle(c)
    BY <2>1, RowWritten
  <2>2. CASE EnterRefused(c) \/ GateRefused(c) \/ Dedup(c) \/ Panic(c)
    <3>1. UNCHANGED effects
      BY <2>2 DEF EnterRefused, GateRefused, Dedup, Panic
    <3>2. RowInv'
      BY <2>2, <3>1, AnswersAre, RowAnswered DEF effects
    <3> QED BY <3>1, <3>2 DEF EffectOnce, effects
  <2>3. CASE \/ DryRun(c) \/ Commit(c) \/ CommitRefused(c) \/ Enter(c) \/ LookupResource(c)
             \/ LockResource(c) \/ Gate(c) \/ LookupKey(c) \/ LockKey(c) \/ Compensate(c)
             \/ EndSaga(c)
    BY <2>3, RowKept DEF EffectOnce, effects
  <2> QED BY <1>2, <2>1, <2>2, <2>3 DEF Step
<1> QED BY <1>1, <1>2 DEF Next

\* No duplicate, retry, panic or rollback makes the effect of a key take place twice.
THEOREM EffectsAreOnce == Spec => []EffectOnce
<1>1. Init => RowInv /\ EffectOnce
  BY DEF Init, RowInv, Fired, EffectOnce
<1>2. /\ TypeOK /\ LocksInv /\ PlacesInv /\ RowInv /\ EffectOnce /\ [Next]_vars
      => (TypeOK /\ LocksInv /\ PlacesInv /\ RowInv /\ EffectOnce)'
  BY TypeStep, LocksStep, RowStep, Apart
<1> QED BY TypeInit, LocksInit, <1>1, <1>2, PTL DEF Spec

-----------------------------------------------------------------------------
(* The uses of the mandates *)

\* The adjacent calls a use of m has been consumed for: in flight, or with their effect.
Spent(m) ==
  {c \in Call : /\ Kind[c] = "adjacent" /\ Mandate[c] = m
                /\ c \in acted \/ pc[c] \in {"keyed", "at_key", "claim", "run"}}

UsesInv == \A m \in Mandates : Cardinality(Spent(m)) <= used[m]

\* What is spent, if no call has passed the gate, is not more.
LEMMA SpentShrinks ==
  ASSUME NEW m, Cardinality(Spent(m)) <= used[m], used[m] \in Nat, used' = used,
         Spent(m)' \subseteq Spent(m)
  PROVE  Cardinality(Spent(m)') <= used'[m]
<1>1. IsFiniteSet(Spent(m))
  BY DispatchAssumption, FS_Subset DEF Spent
<1>2. Cardinality(Spent(m)') <= Cardinality(Spent(m))
  BY <1>1, FS_Subset
<1>3. Cardinality(Spent(m)') \in Nat /\ Cardinality(Spent(m)) \in Nat
  BY <1>1, FS_Subset, FS_CardinalityType
<1> QED BY <1>2, <1>3

\* One that has passed it is one more.
LEMMA SpentGrows ==
  ASSUME NEW m, NEW c \in Call, Cardinality(Spent(m)) <= used[m], used[m] \in Nat,
         used'[m] = used[m] + 1, Spent(m)' \subseteq Spent(m) \cup {c}
  PROVE  Cardinality(Spent(m)') <= used'[m]
<1>1. IsFiniteSet(Spent(m))
  BY DispatchAssumption, FS_Subset DEF Spent
<1>2. /\ IsFiniteSet(Spent(m) \cup {c})
      /\ Cardinality(Spent(m) \cup {c}) <= Cardinality(Spent(m)) + 1
  BY <1>1, FS_AddElement, FS_CardinalityType
<1>3. Cardinality(Spent(m)') <= Cardinality(Spent(m) \cup {c})
  BY <1>2, FS_Subset
<1>4. /\ Cardinality(Spent(m)') \in Nat /\ Cardinality(Spent(m)) \in Nat
      /\ Cardinality(Spent(m) \cup {c}) \in Nat
  BY <1>1, <1>2, FS_Subset, FS_CardinalityType
<1> QED BY <1>2, <1>3, <1>4

LEMMA UsesStep ==
  ASSUME TypeOK, UsesInv, [Next]_vars
  PROVE  UsesInv'
<1> USE DispatchAssumption
<1>1. ASSUME used' = used, \A m \in Mandates : Spent(m)' \subseteq Spent(m)
      PROVE  UsesInv'
  BY <1>1, SpentShrinks DEF UsesInv, TypeOK
<1>2. CASE UNCHANGED vars \/ Tick
  BY <1>1, <1>2 DEF vars, Tick, effects, Spent
<1>3. ASSUME NEW c \in Call,
             EnterRefused(c) \/ GateRefused(c) \/ Dedup(c) \/ Reconcile(c) \/ Panic(c) \/ Settle(c)
      PROVE  UsesInv'
  <2>1. UNCHANGED <<used, acted>>
    BY <1>3 DEF EnterRefused, GateRefused, Dedup, Reconcile, Panic, Settle, effects
  <2>2. PICK p \in {"undo", "over"} : pc' = [pc EXCEPT ![c] = p]
    BY <1>3, AnswersAre DEF Answer, Goto
  <2>3. \A m \in Mandates : Spent(m)' \subseteq Spent(m)
    BY <2>1, <2>2 DEF Spent, TypeOK
  <2> QED BY <1>1, <2>1, <2>3
<1>4. ASSUME NEW c \in Call, Execute(c) PROVE UsesInv'
  <2>1. /\ pc[c] = "run" /\ used' = used
        /\ \/ pc' = [pc EXCEPT ![c] = "ran"] /\ acted' = acted \cup {c}
           \/ pc' = [pc EXCEPT ![c] = "broke"] /\ acted' = acted
    BY <1>4 DEF Execute, Goto
  <2>2. \A m \in Mandates : Spent(m)' \subseteq Spent(m)
    BY <2>1 DEF Spent, TypeOK
  <2> QED BY <1>1, <2>1, <2>2
<1>5. ASSUME NEW c \in Call, Gate(c) PROVE UsesInv'
  <2>1. /\ acted' = acted
        /\ \E p \in {"run", "keyed"} : pc' = [pc EXCEPT ![c] = p]
    BY <1>5 DEF Gate, Goto, effects
  <2>2. CASE Kind[c] # "adjacent"
    <3>1. used' = used
      BY <1>5, <2>2 DEF Gate
    <3>2. \A m \in Mandates : Spent(m)' \subseteq Spent(m)
      BY <2>1, <2>2 DEF Spent, TypeOK
    <3> QED BY <1>1, <3>1, <3>2
  <2>3. CASE Kind[c] = "adjacent"
    <3>1. Mandate[c] \in Mandates /\ used' = [used EXCEPT ![Mandate[c]] = used[Mandate[c]] + 1]
      BY <1>5, <2>3 DEF Gate
    <3>2. \A m \in Mandates : Spent(m)' \subseteq Spent(m) \cup {c}
      BY <2>1 DEF Spent, TypeOK
    <3>3. ASSUME NEW m \in Mandates, m # Mandate[c]
          PROVE  Cardinality(Spent(m)') <= used'[m]
      <4>1. Spent(m)' \subseteq Spent(m) /\ used'[m] = used[m]
        BY <2>1, <3>1, <3>3 DEF Spent, TypeOK
      <4>2. IsFiniteSet(Spent(m))
        BY FS_Subset DEF Spent
      <4>3. /\ Cardinality(Spent(m)') <= Cardinality(Spent(m))
            /\ Cardinality(Spent(m)') \in Nat /\ Cardinality(Spent(m)) \in Nat
        BY <4>1, <4>2, FS_Subset, FS_CardinalityType
      <4>4. Cardinality(Spent(m)) <= used[m] /\ used[m] \in Nat
        BY DEF UsesInv, TypeOK
      <4> QED BY <4>1, <4>3, <4>4
    <3>4. Cardinality(Spent(Mandate[c])') <= used'[Mandate[c]]
      <4>1. used'[Mandate[c]] = used[Mandate[c]] + 1
        BY <3>1 DEF TypeOK
      <4>2. Cardinality(Spent(Mandate[c])) <= used[Mandate[c]] /\ used[Mandate[c]] \in Nat
        BY <3>1 DEF UsesInv, TypeOK
      <4> QED BY <3>1, <3>2, <4>1, <4>2, SpentGrows
    <3> QED BY <3>3, <3>4 DEF UsesInv
  <2> QED BY <2>2, <2>3
<1>6. ASSUME NEW c \in Call, LookupKey(c) \/ LockKey(c) \/ Claim(c) PROVE UsesInv'
  <2>1. UNCHANGED <<used, acted>>
    BY <1>6 DEF LookupKey, LockKey, Claim, effects
  <2>2. /\ pc[c] \in {"keyed", "at_key", "claim"}
        /\ \E p \in {"at_key", "claim", "run"} : pc' = [pc EXCEPT ![c] = p]
    BY <1>6 DEF LookupKey, LockKey, Claim, Goto
  <2>3. \A m \in Mandates : Spent(m)' \subseteq Spent(m)
    BY <2>1, <2>2 DEF Spent, TypeOK
  <2> QED BY <1>1, <2>1, <2>3
<1>7. ASSUME NEW c \in Call,
             \/ DryRun(c) \/ Commit(c) \/ CommitRefused(c) \/ Enter(c) \/ LookupResource(c)
             \/ LockResource(c) \/ Compensate(c) \/ EndSaga(c)
      PROVE  UsesInv'
  <2>1. UNCHANGED <<used, acted>>
    BY <1>7 DEF DryRun, Commit, CommitRefused, Enter, LookupResource, LockResource,
       Compensate, EndSaga, effects
  <2>2. \/ pc' = pc
        \/ \E p \in {"shown", "cleared", "hooked", "at_res", "gate", "over"} :
             pc' = [pc EXCEPT ![c] = p]
    BY <1>7 DEF DryRun, Commit, CommitRefused, Enter, LookupResource, LockResource,
       Compensate, EndSaga, Goto
  <2>3. \A m \in Mandates : Spent(m)' \subseteq Spent(m)
    BY <2>1, <2>2 DEF Spent, TypeOK
  <2> QED BY <1>1, <2>1, <2>3
<1> QED BY <1>2, <1>3, <1>4, <1>5, <1>6, <1>7 DEF Next, Step

LEMMA UsesInit == Init => UsesInv
<1> SUFFICES ASSUME Init, NEW m \in Mandates PROVE Cardinality(Spent(m)) <= used[m]
  BY DEF UsesInv
<1>1. PICK made \in Together : pc = [c \in Call |-> IF c \in made THEN "new" ELSE "over"]
  BY DEF Init
<1>2. Spent(m) = {}
  BY <1>1 DEF Spent, Init
<1> QED BY <1>2, FS_EmptySet DEF Init

\* The effects under a mandate are among what is spent.
LEMMA EffectsAreSpent == TypeOK /\ UsesInv => UsesBoundEffects
<1> SUFFICES ASSUME TypeOK, UsesInv, NEW m \in Mandates
             PROVE  Cardinality(ActedUnder(m)) <= MaxUses[m]
  BY DEF UsesBoundEffects
<1>1. ActedUnder(m) \subseteq Spent(m)
  BY DEF ActedUnder, Spent, TypeOK
<1>2. IsFiniteSet(Spent(m))
  BY DispatchAssumption, FS_Subset DEF Spent
<1>3. /\ Cardinality(ActedUnder(m)) <= Cardinality(Spent(m))
      /\ Cardinality(ActedUnder(m)) \in Nat /\ Cardinality(Spent(m)) \in Nat
  BY <1>1, <1>2, FS_Subset, FS_CardinalityType
<1>4. Cardinality(Spent(m)) <= used[m] /\ used[m] <= MaxUses[m]
  BY DEF UsesInv, TypeOK
<1>5. used[m] \in Nat /\ MaxUses[m] \in Nat
  BY DispatchAssumption DEF TypeOK
<1> QED BY <1>3, <1>4, <1>5

\* There are no more effects under a mandate than uses were signed for.
THEOREM MandatesAreHonoured == Spec => []UsesBoundEffects
<1>1. TypeOK /\ UsesInv /\ [Next]_vars => (TypeOK /\ UsesInv)'
  BY TypeStep, UsesStep
<1> QED BY TypeInit, UsesInit, EffectsAreSpent, <1>1, PTL DEF Spec
=============================================================================
