-------------------------- MODULE RetentionProofs --------------------------
(***************************************************************************)
(* TLAPS proofs about retention and erasure, for any turns, items, subjects, *)
(* sessions, classes and matters, and any horizon.                          *)
(***************************************************************************)
EXTENDS Retention, TLAPS

\* What mirror_write does to the rows: none is lost, and only the records are added.
LEMMA MirroredFacts ==
  ASSUME NEW cs, NEW rs, NEW S \in Mirrored(cs, rs)
  PROVE  rs \subseteq S /\ S \subseteq rs \cup cs
BY DEF Mirrored

LEMMA AnchorsTyped ==
  ASSUME created \in [Text -> Nat], NEW new, NEW anchor,
         \A c \in new \cap Text : anchor[c] \in Nat
  PROVE  /\ Anchors(new, anchor) \in [Text -> Nat]
         /\ \A c \in new \cap Text : Anchors(new, anchor)[c] = anchor[c]
         /\ \A c \in Text \ new : Anchors(new, anchor)[c] = created[c]
BY DEF Anchors

LEMMA StillDeferredFacts ==
  ASSUME NEW n
  PROVE  StillDeferred(n) \subseteq deferred
BY DEF StillDeferred

LEMMA DeferredFacts ==
  ASSUME NEW o, NEW rs, NEW anchor, NEW n
  PROVE  /\ deferred \subseteq Deferred(o, rs, anchor, n)
         /\ Deferred(o, rs, anchor, n) \subseteq deferred \cup {r \in rs : Owner[r] = o}
BY DEF Deferred

LEMMA RouteTyped ==
  ASSUME NEW dead \in SUBSET Text, Route(dead), erased \subseteq Text
  PROVE  /\ job' = dead \cap Turn /\ todo' \subseteq Subject \X Session
         /\ erased' = erased \cup dead /\ erased' \subseteq Text
BY RetentionAssumption DEF Route, Text

\* A named tick is one of the modelled time, and so is the one that rows leave by.
LEMMA TicksTyped ==
  ASSUME TypeOK
  PROVE  /\ Ticks \subseteq 0..MaxTime /\ now \in 0..MaxTime
         /\ \A dead \in SUBSET Text, n \in 0..MaxTime : DecidedAt(dead, n) \in 0..MaxTime
BY DEF Ticks, DecidedAt, TypeOK

\* Every step keeps the state well typed.
LEMMA RetentionTypeStep == TypeOK /\ [Next]_vars => TypeOK'
<1> SUFFICES ASSUME TypeOK, [Next]_vars PROVE TypeOK'
  OBVIOUS
<1> USE RetentionAssumption DEF TypeOK, store, clock, duty, holder, deletes, writers, past,
                                Content
<1>1. ASSUME NEW t \in Turn, Load(t) PROVE TypeOK'
  <2>1. draft' \in [Turn -> Content]
    BY <1>1 DEF Load
  <2>2. pc' \in [Text -> {"new", "loaded", "saved", "done"}] /\ at' \in [Text -> Nat]
    BY <1>1 DEF Load, Text
  <2> QED BY <1>1, <2>1, <2>2 DEF Load
<1>2. ASSUME NEW t \in Turn, Save(t) PROVE TypeOK'
  <2>1. sess' \in [Session -> Content] /\ draft' \in [Turn -> Content]
    BY <1>2 DEF Save, NoSession
  <2>2. pc' \in [Text -> {"new", "loaded", "saved", "done"}]
    BY <1>2 DEF Save, Text
  <2>3. harm' \subseteq HarmKinds
    BY <1>2 DEF Save, HarmKinds
  <2> QED BY <1>2, <2>1, <2>2, <2>3 DEF Save
<1>3. ASSUME NEW t \in Turn, Mirror(t) PROVE TypeOK'
  <2>1. pc' \in [Text -> {"new", "loaded", "saved", "done"}]
    BY <1>3 DEF Mirror, Text
  <2>2. rows' \subseteq Text
    BY <1>3, MirroredFacts DEF Mirror, Text
  <2>3. created' \in [Text -> Nat]
    BY <1>3, AnchorsTyped DEF Mirror
  <2> QED BY <1>3, <2>1, <2>2, <2>3 DEF Mirror
<1>4. ASSUME NEW i \in Item, Remember(i) PROVE TypeOK'
  <2>1. pc' \in [Text -> {"new", "loaded", "saved", "done"}] /\ at' \in [Text -> Nat]
    BY <1>4 DEF Remember, Text
  <2> QED BY <1>4, <2>1 DEF Remember
<1>5. ASSUME NEW o \in Subject, NEW n \in Ticks, Erase(o, n) PROVE TypeOK'
  <2> DEFINE mine == {t \in UNION {sess[s].turns : s \in Session} : Owner[t] = o}
  <2>1. PICK all \in Mirrored(mine, rows) : \E anchor, dead :
          /\ anchor = Anchors(all \ rows, at) /\ created' = anchor
          /\ dead = EraseNow(o, all, anchor, n) /\ rows' = all \ dead
          /\ deferred' = Deferred(o, all, anchor, n)
          /\ by' = DecidedAt(dead, n) /\ Route(dead)
    BY <1>5 DEF Erase
  <2>0. PICK anchor, dead :
          /\ anchor = Anchors(all \ rows, at) /\ created' = anchor
          /\ dead = EraseNow(o, all, anchor, n) /\ rows' = all \ dead
          /\ deferred' = Deferred(o, all, anchor, n)
          /\ by' = DecidedAt(dead, n) /\ Route(dead)
    BY <2>1
  <2>2. mine \subseteq Turn
    OBVIOUS
  <2>3. all \subseteq Text
    BY <2>2, MirroredFacts DEF Text
  <2>4. created' \in [Text -> Nat]
    BY <2>0, AnchorsTyped
  <2>5. deferred' \subseteq Text
    BY <2>0, <2>3, DeferredFacts
  <2>6. dead \subseteq Text /\ rows' \subseteq Text
    BY <2>0, <2>3 DEF EraseNow
  <2>7. job' \subseteq Turn /\ todo' \subseteq Subject \X Session /\ erased' \subseteq Text
    BY <2>0, <2>6, RouteTyped
  <2>8. asked' \in [Subject -> 0..MaxAsk]
    BY <1>5 DEF Erase
  <2>9. by' \in 0..MaxTime
    BY <2>0, <2>6, TicksTyped
  <2> QED BY <1>5, <2>4, <2>5, <2>6, <2>7, <2>8, <2>9 DEF Erase
<1>6. CASE Sweep
  <2> DEFINE dead == Fires(now) \cup {r \in rows \ Fires(now) : Expired(r, now)}
  <2>1. dead \subseteq Text
    BY DEF Fires
  <2>2. /\ Route(dead) /\ by' = DecidedAt(dead, now)
        /\ rows' = rows \ dead /\ deferred' = StillDeferred(now)
    BY <1>6 DEF Sweep
  <2> HIDE DEF dead
  <2>3. /\ job' \subseteq Turn /\ todo' \subseteq Subject \X Session /\ erased' \subseteq Text
        /\ by' \in 0..MaxTime
    BY <2>1, <2>2, RouteTyped, TicksTyped
  <2> QED BY <1>6, <2>2, <2>3, StillDeferredFacts DEF Sweep
<1>7. ASSUME NEW o \in Subject, NEW s \in Session, Fetch(o, s) PROVE TypeOK'
  BY <1>7 DEF Fetch
<1>8. ASSUME NEW f \in fetched, Clear(f) PROVE TypeOK'
  <2>1. sess' \in [Session -> Content]
    BY <1>8 DEF Clear, Cleared
  <2>2. harm' \subseteq HarmKinds
    BY <1>8 DEF Clear, HarmKinds
  <2> QED BY <1>8, <2>1, <2>2 DEF Clear
<1>9. ASSUME NEW m \in Matter, OpenHold(m) \/ ReleaseHold(m) PROVE TypeOK'
  BY <1>9 DEF OpenHold, ReleaseHold
<1>10. ASSUME NEW p \in Policies, SetPolicy(p) PROVE TypeOK'
  <2>1. p.class \in Classes
    BY DEF Policy
  <2>2. policy' = [policy EXCEPT ![p.class] = p]
    BY <1>10 DEF SetPolicy
  <2>3. policy' \in [Classes -> Policies] /\ \A k \in Classes : policy'[k].class = k
    BY <2>1, <2>2
  <2> QED BY <1>10, <2>3 DEF SetPolicy
<1>11. ASSUME NEW o \in Subject, NEW n \in Ticks, RequestErasure(o, n) PROVE TypeOK'
  <2>1. asked' \in [Subject -> 0..MaxAsk]
    BY <1>11 DEF RequestErasure
  <2>2. deferred' \subseteq Text
    BY <1>11, DeferredFacts DEF RequestErasure
  <2>3. EraseNow(o, rows, created, n) \subseteq Text
    BY DEF EraseNow
  <2>4. by' \in 0..MaxTime
    BY <1>11, <2>3, TicksTyped DEF RequestErasure, Strike
  <2> QED BY <1>11, <2>1, <2>2, <2>3, <2>4 DEF RequestErasure, Strike
<1>12. ASSUME NEW n \in Ticks, RunDeferred(n) \/ Purge(n) PROVE TypeOK'
  <2>1. Fires(n) \subseteq Text /\ {r \in rows : Expired(r, n)} \subseteq Text
    BY DEF Fires
  <2>2. by' \in 0..MaxTime
    BY <1>12, <2>1, TicksTyped DEF RunDeferred, Purge, Strike
  <2> QED BY <1>12, <2>1, <2>2, StillDeferredFacts DEF RunDeferred, Purge, Strike
<1>13. ASSUME NEW o \in Subject, Export(o) PROVE TypeOK'
  <2>1. asked' \in [Subject -> 0..MaxAsk]
    BY <1>13 DEF Export
  <2> QED BY <1>13, <2>1 DEF Export
<1>14. ASSUME NEW o \in Subject, Decide(o) PROVE TypeOK'
  <2>1. PICK all \in Mirrored(exported[o], rows), from \in [exported[o] -> 0..MaxTime] :
          LET anchor == Anchors(all \ rows, from)
              dead   == EraseNow(o, all, anchor, now)
              kept   == {r \in all \ dead : Owner[r] = o} IN
          /\ rows' = all \ dead
          /\ created' = anchor
          /\ deferred' = Deferred(o, all, anchor, now)
          /\ by' = DecidedAt(dead, now)
          /\ struck' = struck \cup dead
          /\ wipe' = [wipe EXCEPT ![o] = IF kept = {} THEN "cleared" ELSE "idle"]
    BY <1>14 DEF Decide
  <2>0. PICK anchor, dead :
          /\ anchor = Anchors(all \ rows, from) /\ created' = anchor
          /\ dead = EraseNow(o, all, anchor, now) /\ rows' = all \ dead
          /\ deferred' = Deferred(o, all, anchor, now)
          /\ by' = DecidedAt(dead, now) /\ struck' = struck \cup dead
          /\ \/ wipe' = [wipe EXCEPT ![o] = "cleared"]
             \/ wipe' = [wipe EXCEPT ![o] = "idle"]
    BY <2>1
  <2>2. all \subseteq Text /\ all \ rows \subseteq exported[o]
    BY MirroredFacts DEF Text
  <2>3. created' \in [Text -> Nat]
    <3>1. \A c \in (all \ rows) \cap Text : from[c] \in Nat
      BY <2>2
    <3> QED BY <2>0, <3>1, AnchorsTyped
  <2>4. dead \subseteq Text
    BY <2>0, <2>2 DEF EraseNow
  <2>5. /\ deferred' \subseteq Text /\ struck' \subseteq Text /\ rows' \subseteq Text
        /\ by' \in 0..MaxTime /\ wipe' \in [Subject -> {"idle", "exported", "cleared"}]
    <3>1. deferred' \subseteq Text
      BY <2>0, <2>2, DeferredFacts
    <3>2. struck' \subseteq Text /\ rows' \subseteq Text
      BY <2>0, <2>2, <2>4
    <3>3. by' \in 0..MaxTime
      BY <2>0, <2>4, TicksTyped
    <3>4. wipe' \in [Subject -> {"idle", "exported", "cleared"}]
      BY <2>0
    <3> QED BY <3>1, <3>2, <3>3, <3>4
  <2>6. exported' \in [Subject -> SUBSET Item]
    BY <1>14 DEF Decide
  <2> QED BY <1>14, <2>3, <2>5, <2>6 DEF Decide
<1>15. ASSUME NEW o \in Subject, Cascade(o) PROVE TypeOK'
  BY <1>15 DEF Cascade
<1>16. CASE Tick
  BY <1>16 DEF Tick
<1>17. CASE UNCHANGED vars
  BY <1>17 DEF vars
<1> QED BY <1>1, <1>2, <1>3, <1>4, <1>5, <1>6, <1>7, <1>8, <1>9, <1>10, <1>11, <1>12,
           <1>13, <1>14, <1>15, <1>16, <1>17 DEF Next

-----------------------------------------------------------------------------
\* The records that have been written. What the state names is one of them.
Stored == {c \in Text : pc[c] \in {"saved", "done"}}

Written ==
  /\ rows \cup deferred \cup erased \cup struck \cup job \cup fabric \subseteq Stored
  /\ \A s \in Session : sess[s].turns \subseteq Stored /\ sess[s].text \subseteq Stored
  /\ \A t \in Turn : draft[t].turns \subseteq Stored /\ draft[t].text \subseteq Stored
  /\ \A f \in fetched : f.was.turns \subseteq Stored /\ f.was.text \subseteq Stored
  /\ \A o \in Subject : exported[o] \subseteq Stored

\* A delete of memory that will decide has been asked for.
Requested == \A o \in Subject : wipe[o] = "exported" => asked[o] > 0

\* What a record was written with does not change, and requests only add up.
LEMMA Monotone ==
  ASSUME TypeOK, [Next]_vars
  PROVE  /\ Stored \subseteq Stored'
         /\ \A c \in Stored : at'[c] = at[c]
         /\ \A o \in Subject : asked[o] <= asked'[o]
<1> DEFINE Good == /\ Stored \subseteq Stored' /\ \A c \in Stored : at'[c] = at[c]
                   /\ \A o \in Subject : asked[o] <= asked'[o]
<1> USE RetentionAssumption DEF TypeOK, Stored, store, clock, duty, holder, deletes, writers, past
<1>1. ASSUME NEW t \in Turn, Load(t) \/ Save(t) \/ Mirror(t) PROVE Good
  BY <1>1 DEF Load, Save, Mirror
<1>2. ASSUME NEW i \in Item, Remember(i) PROVE Good
  BY <1>2 DEF Remember
<1>3. ASSUME NEW o \in Subject,
             \/ \E n \in Ticks : Erase(o, n) \/ RequestErasure(o, n)
             \/ Export(o) \/ Decide(o) \/ Cascade(o)
             \/ \E s \in Session : Fetch(o, s)
      PROVE  Good
  <2>1. CASE \E n \in Ticks : Erase(o, n) \/ RequestErasure(o, n)
    BY <2>1 DEF Erase, RequestErasure, Strike
  <2>2. CASE Export(o) \/ Cascade(o)
    BY <2>2 DEF Export, Cascade
  <2>3. CASE Decide(o)
    BY <2>3 DEF Decide
  <2>4. ASSUME NEW s \in Session, Fetch(o, s) PROVE Good
    BY <2>4 DEF Fetch
  <2> QED BY <1>3, <2>1, <2>2, <2>3, <2>4
<1>4. CASE (\E f \in fetched : Clear(f)) \/ Sweep \/ (\E n \in Ticks : RunDeferred(n) \/ Purge(n))
  <2>1. pc' = pc /\ at' = at /\ asked' = asked
    BY <1>4 DEF Clear, Sweep, RunDeferred, Purge, Strike
  <2> QED BY <2>1
<1>5. CASE (\E m \in Matter : OpenHold(m) \/ ReleaseHold(m)) \/ (\E p \in Policies : SetPolicy(p))
  BY <1>5 DEF OpenHold, ReleaseHold, SetPolicy
<1>6. CASE Tick
  BY <1>6 DEF Tick
<1>7. CASE UNCHANGED vars
  BY <1>7 DEF vars
<1> QED BY <1>1, <1>2, <1>3, <1>4, <1>5, <1>6, <1>7 DEF Next

LEMMA RequestedStep == TypeOK /\ Requested /\ [Next]_vars => Requested'
<1> SUFFICES ASSUME TypeOK, Requested, [Next]_vars PROVE Requested'
  OBVIOUS
<1> USE RetentionAssumption DEF TypeOK, Requested, store, clock, duty, holder, deletes,
                                writers, past
<1>1. ASSUME NEW t \in Turn, Load(t) \/ Save(t) \/ Mirror(t) PROVE Requested'
  BY <1>1 DEF Load, Save, Mirror
<1>2. ASSUME NEW i \in Item, Remember(i) PROVE Requested'
  BY <1>2 DEF Remember
<1>3. ASSUME NEW o \in Subject,
             \/ \E n \in Ticks : Erase(o, n) \/ RequestErasure(o, n)
             \/ Export(o) \/ Decide(o) \/ Cascade(o)
             \/ \E s \in Session : Fetch(o, s)
      PROVE  Requested'
  <2>1. CASE \E n \in Ticks : Erase(o, n) \/ RequestErasure(o, n)
    BY <2>1 DEF Erase, RequestErasure, Strike
  <2>2. CASE Export(o) \/ Cascade(o)
    <3>1. CASE Export(o)
      <4>1. asked'[o] > 0 /\ \A q \in Subject \ {o} : asked'[q] = asked[q] /\ wipe'[q] = wipe[q]
        BY <3>1 DEF Export
      <4> QED BY <4>1
    <3>2. CASE Cascade(o)
      BY <3>2 DEF Cascade
    <3> QED BY <2>2, <3>1, <3>2
  <2>3. CASE Decide(o)
    BY <2>3 DEF Decide
  <2>4. ASSUME NEW s \in Session, Fetch(o, s) PROVE Requested'
    BY <2>4 DEF Fetch
  <2> QED BY <1>3, <2>1, <2>2, <2>3, <2>4
<1>4. CASE (\E f \in fetched : Clear(f)) \/ Sweep \/ (\E n \in Ticks : RunDeferred(n) \/ Purge(n))
  BY <1>4 DEF Clear, Sweep, RunDeferred, Purge, Strike
<1>5. CASE (\E m \in Matter : OpenHold(m) \/ ReleaseHold(m)) \/ (\E p \in Policies : SetPolicy(p))
  BY <1>5 DEF OpenHold, ReleaseHold, SetPolicy
<1>6. CASE Tick
  BY <1>6 DEF Tick
<1>7. CASE UNCHANGED vars
  BY <1>7 DEF vars
<1> QED BY <1>1, <1>2, <1>3, <1>4, <1>5, <1>6, <1>7 DEF Next

\* What is named is written: the mutex is not needed for that.
LEMMA WrittenStep == TypeOK /\ Written /\ [Next]_vars => Written'
<1> SUFFICES ASSUME TypeOK, Written, [Next]_vars PROVE Written'
  OBVIOUS
<1> USE RetentionAssumption DEF TypeOK, store, clock, duty, holder, deletes, writers, past,
                                Content
<1> DEFINE W == Stored'
<1>0. Stored \subseteq W
  BY Monotone
<1>1. ASSUME NEW t \in Turn, Load(t) PROVE Written'
  <2>1. \A u \in Turn : draft'[u].turns \subseteq Stored /\ draft'[u].text \subseteq Stored
    BY <1>1 DEF Load, Written
  <2> QED BY <1>0, <1>1, <2>1 DEF Load, Written
<1>2. ASSUME NEW t \in Turn, Save(t) PROVE Written'
  <2>1. t \in W
    BY <1>2 DEF Save, Stored, Text
  <2>2. \A s \in Session : sess'[s].turns \subseteq W /\ sess'[s].text \subseteq W
    BY <1>0, <1>2, <2>1 DEF Save, Written
  <2>3. \A u \in Turn : draft'[u].turns \subseteq W /\ draft'[u].text \subseteq W
    BY <1>0, <1>2 DEF Save, Written, NoSession
  <2> QED BY <1>0, <1>2, <2>2, <2>3 DEF Save, Written
<1>3. ASSUME NEW t \in Turn, Mirror(t) PROVE Written'
  <2>1. rows' \subseteq rows \cup {t}
    BY <1>3, MirroredFacts DEF Mirror
  <2>2. t \in W
    BY <1>3 DEF Mirror, Stored, Text
  <2> QED BY <1>0, <1>3, <2>1, <2>2 DEF Mirror, Written
<1>4. ASSUME NEW i \in Item, Remember(i) PROVE Written'
  <2>1. i \in W
    BY <1>4 DEF Remember, Stored, Text
  <2> QED BY <1>0, <1>4, <2>1 DEF Remember, Written
<1>5. ASSUME NEW o \in Subject, NEW n \in Ticks, Erase(o, n) PROVE Written'
  <2> DEFINE mine == {t \in UNION {sess[s].turns : s \in Session} : Owner[t] = o}
  <2>1. PICK all \in Mirrored(mine, rows) : \E anchor, dead :
          /\ rows' = all \ dead /\ dead = EraseNow(o, all, anchor, n)
          /\ deferred' = Deferred(o, all, anchor, n)
          /\ Route(dead)
    BY <1>5 DEF Erase
  <2>2. PICK anchor, dead :
          /\ rows' = all \ dead /\ dead = EraseNow(o, all, anchor, n)
          /\ deferred' = Deferred(o, all, anchor, n)
          /\ Route(dead)
    BY <2>1
  <2>3. mine \subseteq Stored
    BY DEF Written
  <2>4. all \subseteq Stored
    BY <2>3, MirroredFacts DEF Written
  <2>5. deferred' \subseteq Stored /\ dead \subseteq Stored
    BY <2>2, <2>4, DeferredFacts DEF EraseNow, Written
  <2>6. job' \subseteq Stored /\ erased' \subseteq Stored
    BY <2>2, <2>5 DEF Route, Written
  <2> QED BY <1>0, <1>5, <2>2, <2>4, <2>5, <2>6 DEF Erase, Written
<1>6. CASE Sweep
  <2>1. job' \subseteq Stored /\ erased' \subseteq Stored
    BY <1>6 DEF Sweep, Route, Written, Fires
  <2> QED BY <1>0, <1>6, <2>1, StillDeferredFacts DEF Sweep, Written
<1>7. ASSUME NEW o \in Subject, NEW s \in Session, Fetch(o, s) PROVE Written'
  BY <1>0, <1>7 DEF Fetch, Written
<1>8. ASSUME NEW f \in fetched, Clear(f) PROVE Written'
  <2>1. \A s \in Session : sess'[s].turns \subseteq Stored /\ sess'[s].text \subseteq Stored
    <3>1. f.was.turns \subseteq Stored /\ f.was.text \subseteq Stored /\ f.session \in Session
      BY DEF Written
    <3>2. sess' = sess \/ sess' = [sess EXCEPT ![f.session] = Cleared(f)]
      BY <1>8 DEF Clear
    <3> QED BY <3>1, <3>2 DEF Cleared, Written
  <2> QED BY <1>0, <1>8, <2>1 DEF Clear, Written
<1>9. CASE (\E m \in Matter : OpenHold(m) \/ ReleaseHold(m)) \/ (\E p \in Policies : SetPolicy(p))
  BY <1>0, <1>9 DEF OpenHold, ReleaseHold, SetPolicy, Written
<1>10. ASSUME NEW o \in Subject, NEW n \in Ticks, RequestErasure(o, n) PROVE Written'
  <2>1. deferred' \subseteq Stored
    BY <1>10, DeferredFacts DEF RequestErasure, Written
  <2> QED BY <1>0, <1>10, <2>1 DEF RequestErasure, Strike, EraseNow, Written
<1>11. CASE (\E n \in Ticks : RunDeferred(n) \/ Purge(n))
  BY <1>0, <1>11, StillDeferredFacts DEF RunDeferred, Purge, Strike, Fires, Written
<1>12. ASSUME NEW o \in Subject, Export(o) PROVE Written'
  <2>1. \A q \in Subject : exported'[q] \subseteq Stored
    BY <1>12 DEF Export, Written
  <2> QED BY <1>0, <1>12, <2>1 DEF Export, Written
<1>13. ASSUME NEW o \in Subject, Decide(o) PROVE Written'
  <2>1. PICK all \in Mirrored(exported[o], rows), from \in [exported[o] -> 0..MaxTime] :
          LET anchor == Anchors(all \ rows, from)
              dead   == EraseNow(o, all, anchor, now) IN
          /\ rows' = all \ dead
          /\ deferred' = Deferred(o, all, anchor, now)
          /\ struck' = struck \cup dead
    BY <1>13 DEF Decide
  <2>2. PICK anchor, dead :
          /\ rows' = all \ dead /\ dead = EraseNow(o, all, anchor, now)
          /\ deferred' = Deferred(o, all, anchor, now)
          /\ struck' = struck \cup dead
    BY <2>1
  <2>3. all \subseteq Stored
    BY MirroredFacts DEF Written
  <2>4. deferred' \subseteq Stored /\ struck' \subseteq Stored
    BY <2>2, <2>3, DeferredFacts DEF EraseNow, Written
  <2>5. \A q \in Subject : exported'[q] \subseteq Stored
    BY <1>13 DEF Decide, Written
  <2> QED BY <1>0, <1>13, <2>2, <2>3, <2>4, <2>5 DEF Decide, Written
<1>14. ASSUME NEW o \in Subject, Cascade(o) PROVE Written'
  BY <1>0, <1>14 DEF Cascade, Written
<1>15. CASE Tick
  BY <1>0, <1>15 DEF Tick, Written
<1>16. CASE UNCHANGED vars
  BY <1>0, <1>16 DEF vars, Written
<1> QED BY <1>1, <1>2, <1>3, <1>4, <1>5, <1>6, <1>7, <1>8, <1>9, <1>10, <1>11, <1>12,
           <1>13, <1>14, <1>15, <1>16 DEF Next

-----------------------------------------------------------------------------
\* All that a step may do to the precedence store: the rows grow to all, a new one with
\* the age of its text, and dead leaves; what is dead was asked for or has expired.
Effect(all, dead) ==
  /\ rows \subseteq all /\ all \subseteq Stored /\ dead \subseteq all
  /\ rows' = all \ dead
  /\ erased' \cup struck' = erased \cup struck \cup dead
  /\ \A c \in rows : created'[c] = created[c]
  /\ \A c \in (all \ rows) \cap Turn : created'[c] = at[c]
  /\ \A c \in dead :
       \/ asked'[Owner[c]] > 0
       \/ created'[c] + policy[Class[c]].ttl < by'
       \/ Known(c, deferred)
  /\ \A d \in deferred' : d \in deferred \/ (d \in all /\ asked'[Owner[d]] > 0)
  /\ \A d \in (deferred \ deferred') \cap rows : d \in dead

\* A step that leaves the store alone is such a step.
LEMMA NoEffect ==
  ASSUME TypeOK, Written, UNCHANGED <<rows, created, deferred, erased, struck>>
  PROVE  Effect(rows, {})
BY DEF Effect, Written

\* A request mirrors some records, erases what the store lets go and queues the rest.
LEMMA RequestEffect ==
  ASSUME TypeOK, Written,
         NEW o \in Subject, NEW n, NEW all \in SUBSET Stored, NEW anchor \in [Text -> Nat],
         rows \subseteq all,
         \A c \in rows : anchor[c] = created[c],
         \A c \in (all \ rows) \cap Turn : anchor[c] = at[c],
         rows' = all \ EraseNow(o, all, anchor, n),
         created' = anchor,
         deferred' = Deferred(o, all, anchor, n),
         erased' \cup struck' = erased \cup struck \cup EraseNow(o, all, anchor, n),
         asked'[o] > 0
  PROVE  Effect(all, EraseNow(o, all, anchor, n))
<1>1. \A c \in EraseNow(o, all, anchor, n) : c \in all /\ asked'[Owner[c]] > 0
  BY DEF EraseNow
<1>2. \A d \in deferred' : d \in deferred \/ (d \in all /\ asked'[Owner[d]] > 0)
  BY DeferredFacts
<1>3. deferred \ deferred' = {}
  BY DeferredFacts
<1> HIDE DEF TypeOK
<1> QED BY <1>1, <1>2, <1>3 DEF Effect

\* A run of the queue, a purge, or both.
LEMMA RunEffect ==
  ASSUME TypeOK, Written, NEW dead, NEW n \in 0..MaxTime,
         dead \subseteq Fires(n) \cup {r \in rows : Expired(r, n)},
         rows' = rows \ dead, created' = created, by' = DecidedAt(dead, n),
         erased' \cup struck' = erased \cup struck \cup dead,
         \/ deferred' = StillDeferred(n) /\ Fires(n) \subseteq dead
         \/ deferred' = deferred
  PROVE  Effect(rows, dead)
<1>1. \A c \in dead :
        c \in rows /\ (Known(c, deferred) \/ created'[c] + policy[Class[c]].ttl < by')
  <2> SUFFICES ASSUME NEW c \in dead
               PROVE  /\ c \in rows
                      /\ Known(c, deferred) \/ created'[c] + policy[Class[c]].ttl < by'
    OBVIOUS
  <2>1. CASE c \in Fires(n)
    BY <2>1 DEF Fires
  <2>2. CASE c \in rows /\ Expired(c, n)
    <3>1. c \in Text /\ created[c] \in Nat /\ Class[c] \in Classes /\ n \in Nat
      BY <2>2, RetentionAssumption DEF TypeOK
    <3>2. policy[Class[c]].ttl \in Nat
      BY <3>1, RetentionAssumption DEF TypeOK, Policy
    <3>3. by' = n
      BY DEF DecidedAt
    <3> QED BY <2>2, <3>1, <3>2, <3>3 DEF Expired
  <2> QED BY <2>1, <2>2
<1>2. \A d \in deferred' : d \in deferred
  BY StillDeferredFacts
<1>3. \A d \in (deferred \ deferred') \cap rows : d \in Fires(n) /\ Fires(n) \subseteq dead
  BY DEF StillDeferred, Fires, Known
<1>4. rows \subseteq Stored
  BY DEF Written
<1> HIDE DEF TypeOK
<1> QED BY <1>1, <1>2, <1>3, <1>4 DEF Effect

\* Every step is such a step.
LEMMA StoreStep ==
  ASSUME TypeOK, Written, Requested, [Next]_vars
  PROVE  \E all, dead : Effect(all, dead)
<1> DEFINE Good == \E all, dead : Effect(all, dead)
           Idle == UNCHANGED <<rows, created, deferred, erased, struck>>
<1>0. Idle => Good
  BY NoEffect
<1> USE RetentionAssumption DEF store, clock, duty, holder, deletes, writers, past
<1>1. ASSUME NEW t \in Turn, Mirror(t) PROVE Good
  <2>1. rows \subseteq rows' /\ rows' \subseteq rows \cup {t}
    BY <1>1, MirroredFacts DEF Mirror
  <2>2. t \in Stored /\ t \in Text
    BY <1>1 DEF Mirror, Stored, Text
  <2>3. rows' \subseteq Stored
    BY <2>1, <2>2 DEF Written
  <2>4. \A c \in rows : created'[c] = created[c]
    BY <1>1 DEF Mirror, Anchors, TypeOK
  <2>5. \A c \in rows' \ rows : created'[c] = at[c]
    BY <1>1, <2>1, <2>2 DEF Mirror, Anchors, TypeOK
  <2>6. UNCHANGED <<deferred, erased, struck>>
    BY <1>1 DEF Mirror
  <2>7. Effect(rows', {})
    BY <2>1, <2>3, <2>4, <2>5, <2>6 DEF Effect
  <2> QED BY <2>7
<1>2. ASSUME NEW o \in Subject, NEW n \in Ticks, Erase(o, n) PROVE Good
  <2> DEFINE mine == {t \in UNION {sess[s].turns : s \in Session} : Owner[t] = o}
  <2>1. PICK all \in Mirrored(mine, rows), anchor \in {created'} :
          /\ anchor = Anchors(all \ rows, at)
          /\ rows' = all \ EraseNow(o, all, anchor, n) /\ created' = anchor
          /\ deferred' = Deferred(o, all, anchor, n)
          /\ Route(EraseNow(o, all, anchor, n))
    BY <1>2 DEF Erase
  <2>2. mine \subseteq Stored
    BY DEF Written
  <2>3. all \subseteq Stored /\ rows \subseteq all /\ all \subseteq Text
    BY <2>2, MirroredFacts DEF Written, Stored
  <2>4. anchor \in [Text -> Nat] /\ \A c \in rows : anchor[c] = created[c]
    BY <2>1 DEF TypeOK, Anchors
  <2>5. \A c \in (all \ rows) \cap Turn : anchor[c] = at[c]
    BY <2>1, <2>3 DEF TypeOK, Anchors
  <2>6. asked'[o] > 0
    BY <1>2 DEF Erase, TypeOK
  <2>7. erased' \cup struck' = erased \cup struck \cup EraseNow(o, all, anchor, n)
    <3>1. struck' = struck
      BY <1>2 DEF Erase
    <3> QED BY <2>1, <3>1 DEF Route
  <2>8. Effect(all, EraseNow(o, all, anchor, n))
    BY <2>1, <2>3, <2>4, <2>5, <2>6, <2>7, RequestEffect
  <2> QED BY <2>8
<1>3. CASE Sweep
  <2> DEFINE dead == Fires(now) \cup {r \in rows \ Fires(now) : Expired(r, now)}
  <2>1. Effect(rows, dead)
    <3>1. erased' \cup struck' = erased \cup struck \cup dead
      BY <1>3 DEF Sweep, Route
    <3>2. /\ rows' = rows \ dead /\ created' = created /\ by' = DecidedAt(dead, now)
          /\ deferred' = StillDeferred(now)
      BY <1>3 DEF Sweep
    <3>3. /\ Fires(now) \subseteq dead
          /\ dead \subseteq Fires(now) \cup {r \in rows : Expired(r, now)}
      OBVIOUS
    <3> HIDE DEF dead
    <3> QED BY <3>1, <3>2, <3>3, RunEffect, TicksTyped
  <2> QED BY <2>1
<1>4. ASSUME NEW o \in Subject, NEW n \in Ticks, RequestErasure(o, n) PROVE Good
  <2>1. rows \subseteq Stored /\ \A c \in rows \ rows : FALSE
    BY DEF Written
  <2>2. asked'[o] > 0
    BY <1>4 DEF RequestErasure, TypeOK
  <2>3. Effect(rows, EraseNow(o, rows, created, n))
    BY <1>4, <2>1, <2>2, RequestEffect DEF RequestErasure, Strike, TypeOK
  <2> QED BY <2>3
<1>5. ASSUME NEW n \in Ticks, RunDeferred(n) PROVE Good
  <2>1. Effect(rows, Fires(n))
    BY <1>5, RunEffect, TicksTyped DEF RunDeferred, Strike
  <2> QED BY <2>1
<1>6. ASSUME NEW n \in Ticks, Purge(n) PROVE Good
  <2>1. Effect(rows, {r \in rows : Expired(r, n)})
    BY <1>6, RunEffect, TicksTyped DEF Purge, Strike
  <2> QED BY <2>1
<1>7. ASSUME NEW o \in Subject, Decide(o) PROVE Good
  <2>1. PICK all \in Mirrored(exported[o], rows), from \in [exported[o] -> 0..MaxTime],
             anchor \in {created'} :
          /\ anchor = Anchors(all \ rows, from)
          /\ rows' = all \ EraseNow(o, all, anchor, now) /\ created' = anchor
          /\ deferred' = Deferred(o, all, anchor, now)
          /\ struck' = struck \cup EraseNow(o, all, anchor, now)
    BY <1>7 DEF Decide
  <2>2. all \subseteq Stored /\ rows \subseteq all /\ all \subseteq Text
    BY MirroredFacts DEF Written, Stored
  <2>3. all \ rows \subseteq exported[o] /\ all \ rows \subseteq Item
    BY MirroredFacts DEF TypeOK
  <2>4. anchor \in [Text -> Nat] /\ \A c \in rows : anchor[c] = created[c]
    <3>1. created \in [Text -> Nat] /\ \A c \in (all \ rows) \cap Text : from[c] \in Nat
      BY <2>3 DEF TypeOK
    <3> QED BY <2>1, <2>2, <3>1, AnchorsTyped
  <2>5. \A c \in (all \ rows) \cap Turn : anchor[c] = at[c]
    BY <2>3
  <2>6. asked'[o] > 0
    BY <1>7 DEF Decide, Requested
  <2>7. erased' \cup struck' = erased \cup struck \cup EraseNow(o, all, anchor, now)
    BY <1>7, <2>1 DEF Decide
  <2>8. Effect(all, EraseNow(o, all, anchor, now))
    BY <2>1, <2>2, <2>4, <2>5, <2>6, <2>7, RequestEffect
  <2> QED BY <2>8
<1>8. ASSUME NEW t \in Turn, Load(t) \/ Save(t) PROVE Good
  BY <1>0, <1>8 DEF Load, Save
<1>9. ASSUME NEW i \in Item, Remember(i) PROVE Good
  BY <1>0, <1>9 DEF Remember
<1>10. ASSUME NEW o \in Subject, Export(o) \/ Cascade(o) \/ \E s \in Session : Fetch(o, s)
       PROVE  Good
  BY <1>0, <1>10 DEF Export, Cascade, Fetch
<1>11. CASE \E f \in fetched : Clear(f)
  BY <1>0, <1>11 DEF Clear
<1>12. CASE (\E m \in Matter : OpenHold(m) \/ ReleaseHold(m)) \/ (\E p \in Policies : SetPolicy(p))
  BY <1>0, <1>12 DEF OpenHold, ReleaseHold, SetPolicy
<1>13. CASE Tick \/ UNCHANGED vars
  BY <1>0, <1>13 DEF Tick, vars
<1> QED BY <1>1, <1>2, <1>3, <1>4, <1>5, <1>6, <1>7, <1>8, <1>9, <1>10, <1>11, <1>12,
           <1>13 DEF Next

-----------------------------------------------------------------------------
\* The age of a turn's row is that of its text; a queued erasure was asked for, and its
\* record is a row unless it has been erased.
Accounted ==
  /\ FloorAnchored
  /\ \A d \in deferred : asked[Owner[d]] > 0 /\ d \in rows \cup erased \cup struck

LEMMA SameId ==
  ASSUME NEW c \in Text, NEW d \in Text, Id[c] = Id[d], c \in Turn => Alone(c)
  PROVE  c = d
BY RetentionAssumption DEF Alone, Text

LEMMA AccountedStep == TypeOK /\ Written /\ Requested /\ Accounted /\ [Next]_vars => Accounted'
<1> SUFFICES ASSUME TypeOK, Written, Requested, Accounted, [Next]_vars PROVE Accounted'
  OBVIOUS
<1>1. PICK all, dead : Effect(all, dead)
  BY StoreStep
<1>2. /\ \A c \in Stored : at'[c] = at[c]
      /\ \A o \in Subject : asked[o] <= asked'[o]
      /\ TypeOK'
  BY Monotone, RetentionTypeStep
<1>3. rows \subseteq Stored /\ Stored \subseteq Text /\ all \subseteq Text
  BY <1>1 DEF Written, Stored, Effect
<1>4. ASSUME NEW c \in rows' \cap Turn PROVE created'[c] = at'[c]
  <2>1. CASE c \in rows
    BY <1>1, <1>2, <1>3, <2>1 DEF Effect, Accounted, FloorAnchored
  <2>2. CASE c \notin rows
    BY <1>1, <1>2, <2>2 DEF Effect
  <2> QED BY <2>1, <2>2
<1>5. \A c \in Stored : asked[Owner[c]] <= asked'[Owner[c]]
                        /\ asked[Owner[c]] \in Nat /\ asked'[Owner[c]] \in Nat
  BY <1>2, <1>3, RetentionAssumption DEF TypeOK
<1>6. ASSUME NEW d \in deferred'
      PROVE  asked'[Owner[d]] > 0 /\ d \in rows' \cup erased' \cup struck'
  <2>1. CASE d \in deferred
    <3>1. d \in Stored
      BY <2>1 DEF Written
    <3>2. asked'[Owner[d]] > 0
      BY <1>5, <2>1, <3>1 DEF Accounted
    <3> QED BY <1>1, <2>1, <3>2 DEF Effect, Accounted
  <2>2. CASE d \notin deferred
    BY <1>1, <1>6, <2>2 DEF Effect
  <2> QED BY <2>1, <2>2
<1> QED BY <1>4, <1>6 DEF Accounted, FloorAnchored

\* What leaves the store was asked for or has expired: no other record's entry fires for it.
LEMMA OwedStep ==
  ASSUME TypeOK, Written, Requested, Accounted, [Next]_vars,
         NEW c \in rows \ rows', c \in Turn => Alone(c)
  PROVE  asked'[Owner[c]] > 0 \/ created[c] + policy[Class[c]].ttl < by'
<1>1. PICK all, dead : Effect(all, dead)
  BY StoreStep
<1>2. c \in dead /\ created'[c] = created[c]
  BY <1>1 DEF Effect
<1>3. c \in Text /\ Owner[c] \in Subject
  BY RetentionAssumption DEF TypeOK
<1>4. CASE Known(c, deferred)
  <2>1. PICK d \in deferred : Id[d] = Id[c]
    BY <1>4 DEF Known
  <2>2. d = c
    BY <1>3, <2>1, SameId DEF TypeOK
  <2>3. asked[Owner[c]] > 0
    BY <2>1, <2>2 DEF Accounted
  <2>4. asked[Owner[c]] <= asked'[Owner[c]]
    BY <1>3, Monotone
  <2>5. asked[Owner[c]] \in Nat /\ asked'[Owner[c]] \in Nat
    BY <1>3, RetentionTypeStep DEF TypeOK
  <2> QED BY <2>3, <2>4, <2>5
<1> QED BY <1>1, <1>2, <1>4 DEF Effect

\* An entry leaves the queue only with its record.
LEMMA DroppedStep ==
  TypeOK /\ Written /\ Requested /\ Accounted /\ [Next]_vars
    => \A d \in deferred \ deferred' : d \in erased' \cup struck'
<1> SUFFICES ASSUME TypeOK, Written, Requested, Accounted, [Next]_vars,
                    NEW d \in deferred \ deferred'
             PROVE  d \in erased' \cup struck'
  OBVIOUS
<1>1. PICK all, dead : Effect(all, dead)
  BY StoreStep
<1> QED BY <1>1 DEF Effect, Accounted

-----------------------------------------------------------------------------
\* What the holder of the mutex is about to erase is neither held nor, at the tick it was
\* decided at, within its floor.
Lawful == Held => \A t \in job : ~Kept(t, at, by)

\* Text that is still there although it is erased is what the holder has yet to rewrite.
Pending ==
  "overlap" \notin harm =>
    /\ \A f, g \in fetched : f = g
    /\ \A t \in erased \cap Turn, s \in Session :
         t \in sess[s].text =>
           /\ t \in job
           /\ \/ <<Owner[t], s>> \in todo
              \/ \E f \in fetched : f.owner = Owner[t] /\ f.session = s /\ t \in f.was.text

\* An erasure or a sweep takes the mutex; no other step does, or moves its job, its tick,
\* a matter or a policy under it.
LEMMA HolderStep ==
  ASSUME TypeOK, Written, Accounted, [Next]_vars
  PROVE  \/ /\ ~Held /\ UNCHANGED <<open, policy, at, sess, fetched, harm>>
            /\ \E dead : Route(dead) /\ \A t \in dead \cap Turn : ~Kept(t, at, by')
         \/ /\ job' = job /\ (Held' => Held) /\ (Held => UNCHANGED <<open, policy, by>>)
            /\ erased' = erased
<1> DEFINE Takes == /\ ~Held /\ UNCHANGED <<open, policy, at, sess, fetched, harm>>
                    /\ \E dead : Route(dead) /\ \A t \in dead \cap Turn : ~Kept(t, at, by')
           Goes  == /\ job' = job /\ (Held' => Held) /\ (Held => UNCHANGED <<open, policy, by>>)
                    /\ erased' = erased
<1> USE RetentionAssumption DEF store, clock, duty, holder, deletes, writers, past
<1>1. ASSUME NEW o \in Subject, NEW n \in Ticks, Erase(o, n) PROVE Takes
  <2> DEFINE mine == {t \in UNION {sess[s].turns : s \in Session} : Owner[t] = o}
  <2>1. PICK all \in Mirrored(mine, rows) : \E anchor, dead :
          /\ anchor = Anchors(all \ rows, at) /\ dead = EraseNow(o, all, anchor, n)
          /\ by' = DecidedAt(dead, n) /\ Route(dead)
    BY <1>1 DEF Erase
  <2>2. PICK anchor, dead :
          /\ anchor = Anchors(all \ rows, at) /\ dead = EraseNow(o, all, anchor, n)
          /\ by' = DecidedAt(dead, n) /\ Route(dead)
    BY <2>1
  <2>3. all \subseteq Text
    BY MirroredFacts DEF Written, Stored
  <2>4. \A t \in all \cap Turn : anchor[t] = at[t]
    BY <2>2, <2>3 DEF Anchors, Accounted, FloorAnchored
  <2>5. \A t \in dead \cap Turn : ~Kept(t, at, by')
    BY <2>2, <2>4 DEF EraseNow, Kept, DecidedAt
  <2> QED BY <1>1, <2>2, <2>5 DEF Erase
<1>2. CASE Sweep
  <2> DEFINE dead == Fires(now) \cup {r \in rows \ Fires(now) : Expired(r, now)}
  <2>1. \A t \in dead : t \in rows /\ ~Kept(t, created, now)
    BY DEF Fires, Expired
  <2>2. Route(dead) /\ by' = DecidedAt(dead, now)
    BY <1>2 DEF Sweep
  <2>3. \A t \in dead \cap Turn : ~Kept(t, at, by')
    BY <2>1, <2>2 DEF Kept, Accounted, FloorAnchored, DecidedAt
  <2> QED BY <1>2, <2>2, <2>3 DEF Sweep
<1>3. ASSUME NEW o \in Subject, NEW s \in Session, Fetch(o, s) PROVE Goes
  BY <1>3 DEF Fetch, Held
<1>4. ASSUME NEW f \in fetched, Clear(f) PROVE Goes
  BY <1>4 DEF Clear, Held
<1>5. ASSUME NEW t \in Turn, Load(t) \/ Save(t) \/ Mirror(t) PROVE Goes
  BY <1>5 DEF Load, Save, Mirror, Held
<1>6. ASSUME NEW i \in Item, Remember(i) PROVE Goes
  BY <1>6 DEF Remember, Held
<1>7. ASSUME NEW o \in Subject,
             (\E n \in Ticks : RequestErasure(o, n)) \/ Export(o) \/ Decide(o) \/ Cascade(o)
      PROVE  Goes
  BY <1>7 DEF RequestErasure, Strike, Export, Decide, Cascade, Held
<1>8. CASE (\E m \in Matter : OpenHold(m) \/ ReleaseHold(m)) \/ (\E p \in Policies : SetPolicy(p))
  BY <1>8 DEF OpenHold, ReleaseHold, SetPolicy, Held
<1>9. CASE (\E n \in Ticks : RunDeferred(n) \/ Purge(n)) \/ Tick \/ UNCHANGED vars
  BY <1>9 DEF RunDeferred, Purge, Strike, Tick, vars, Held
<1> QED BY <1>1, <1>2, <1>3, <1>4, <1>5, <1>6, <1>7, <1>8, <1>9 DEF Next

LEMMA LawfulStep == TypeOK /\ Written /\ Accounted /\ Lawful /\ [Next]_vars => Lawful'
<1> SUFFICES ASSUME TypeOK, Written, Accounted, Lawful, [Next]_vars, Held', NEW t \in job'
             PROVE  ~Kept(t, at, by)'
  BY DEF Lawful
<1>1. \A c \in Stored : at'[c] = at[c]
  BY Monotone
<1>2. CASE /\ UNCHANGED <<open, policy, at>>
           /\ \E dead : Route(dead) /\ \A u \in dead \cap Turn : ~Kept(u, at, by')
  BY <1>2 DEF Route, Kept, Covered
<1>3. CASE job' = job /\ (Held' => Held) /\ (Held => UNCHANGED <<open, policy, by>>)
  <2>1. t \in Stored /\ ~Kept(t, at, by) /\ UNCHANGED <<open, policy, by>>
    BY <1>3 DEF Lawful, Written
  <2>2. at'[t] = at[t]
    BY <1>1, <2>1
  <2> QED BY <2>1, <2>2 DEF Kept, Covered
<1> QED BY <1>2, <1>3, HolderStep

LEMMA PendingStep ==
  TypeOK /\ Written /\ Accounted /\ Pending /\ [Next]_vars => Pending'
<1> SUFFICES ASSUME TypeOK, Written, Accounted, Pending, [Next]_vars, "overlap" \notin harm'
             PROVE  /\ \A f, g \in fetched' : f = g
                    /\ \A t \in erased' \cap Turn, s \in Session :
                         t \in sess'[s].text =>
                           /\ t \in job'
                           /\ \/ <<Owner[t], s>> \in todo'
                              \/ \E f \in fetched' :
                                   f.owner = Owner[t] /\ f.session = s /\ t \in f.was.text
  BY DEF Pending
<1> USE RetentionAssumption DEF store, clock, duty, holder, deletes, writers, past
<1> DEFINE Good == /\ \A f, g \in fetched' : f = g
                   /\ \A t \in erased' \cap Turn, s \in Session :
                         t \in sess'[s].text =>
                           /\ t \in job'
                           /\ \/ <<Owner[t], s>> \in todo'
                              \/ \E f \in fetched' :
                                   f.owner = Owner[t] /\ f.session = s /\ t \in f.was.text
<1>1. ASSUME ~Held, UNCHANGED <<sess, fetched, harm>>, NEW dead, Route(dead) PROVE Good
  <2>1. "overlap" \notin harm /\ todo = {} /\ fetched = {}
    BY <1>1 DEF Held
  <2>2. \A t \in erased \cap Turn, s \in Session : t \notin sess[s].text
    BY <2>1 DEF Pending
  <2>3. ASSUME NEW t \in erased' \cap Turn, NEW s \in Session, t \in sess'[s].text
        PROVE  t \in job' /\ <<Owner[t], s>> \in todo'
    BY <1>1, <2>2, <2>3 DEF Route
  <2> QED BY <1>1, <2>1, <2>3
<1>2. ASSUME NEW o \in Subject, NEW s \in Session, Fetch(o, s) PROVE Good
  <2>1. "overlap" \notin harm /\ fetched = {} /\ sess' = sess /\ erased' = erased /\ job' = job
    BY <1>2 DEF Fetch
  <2>2. /\ fetched' = {[owner |-> o, session |-> s, was |-> sess[s]]}
        /\ todo' = todo \ {<<o, s>>}
    BY <1>2 DEF Fetch
  <2>3. ASSUME NEW t \in erased' \cap Turn, NEW q \in Session, t \in sess'[q].text
        PROVE  /\ t \in job'
               /\ \/ <<Owner[t], q>> \in todo'
                  \/ \E f \in fetched' : f.owner = Owner[t] /\ f.session = q /\ t \in f.was.text
    <3>1. t \in job /\ <<Owner[t], q>> \in todo
      BY <2>1, <2>3 DEF Pending
    <3> QED BY <2>1, <2>2, <2>3, <3>1
  <2> QED BY <2>2, <2>3
<1>3. ASSUME NEW f \in fetched, Clear(f) PROVE Good
  <2>1. /\ "overlap" \notin harm /\ fetched' = {}
        /\ UNCHANGED <<erased, job, todo>>
    BY <1>3 DEF Clear
  <2>2. f.session \in Session
    BY DEF TypeOK
  <2>3. ASSUME NEW t \in erased' \cap Turn, NEW q \in Session, t \in sess'[q].text
        PROVE  t \in job' /\ <<Owner[t], q>> \in todo'
    <3>1. t \in sess[q].text /\ (q = f.session => t \notin Doomed(f) \/ Doomed(f) = {})
      <4>1. CASE Doomed(f) = {}
        BY <1>3, <2>3, <4>1 DEF Clear
      <4>2. CASE Doomed(f) # {}
        <5>1. sess' = [sess EXCEPT ![f.session] = Cleared(f)] /\ sess[f.session] = f.was
          BY <1>3, <4>2 DEF Clear
        <5> QED BY <2>2, <2>3, <5>1 DEF Cleared, TypeOK
      <4> QED BY <4>1, <4>2
    <3>2. t \in job /\ \/ <<Owner[t], q>> \in todo
                       \/ f.owner = Owner[t] /\ f.session = q /\ t \in f.was.text
      BY <2>1, <2>3, <3>1 DEF Pending
    <3> QED BY <2>1, <3>1, <3>2 DEF Doomed
  <2> QED BY <2>1, <2>3
<1>4. ASSUME NEW u \in Turn, Save(u) PROVE Good
  <2>1. /\ "overlap" \notin harm /\ UNCHANGED <<erased, job, todo, fetched>>
        /\ sess[Of[u]] = draft[u]
        /\ sess' = [sess EXCEPT ![Of[u]] = [turns |-> draft[u].turns \cup {u},
                                            text  |-> draft[u].text \cup {u}]]
    BY <1>4 DEF Save
  <2>2. u \notin erased
    BY <1>4 DEF Save, Written, Stored
  <2>3. \A t \in erased, s \in Session : t \in sess'[s].text => t \in sess[s].text
    BY <2>1, <2>2 DEF TypeOK
  <2> QED BY <2>1, <2>3 DEF Pending
<1>5. ASSUME UNCHANGED <<sess, job, todo, fetched, erased, harm>> PROVE Good
  BY <1>5 DEF Pending
<1>6. ASSUME NEW t \in Turn, Load(t) \/ Mirror(t) PROVE Good
  BY <1>5, <1>6 DEF Load, Mirror
<1>7. ASSUME NEW i \in Item, Remember(i) PROVE Good
  BY <1>5, <1>7 DEF Remember
<1>8. ASSUME NEW o \in Subject,
             (\E n \in Ticks : RequestErasure(o, n)) \/ Export(o) \/ Decide(o) \/ Cascade(o)
      PROVE  Good
  BY <1>5, <1>8 DEF RequestErasure, Strike, Export, Decide, Cascade
<1>9. CASE (\E m \in Matter : OpenHold(m) \/ ReleaseHold(m)) \/ (\E p \in Policies : SetPolicy(p))
  BY <1>5, <1>9 DEF OpenHold, ReleaseHold, SetPolicy
<1>10. CASE (\E n \in Ticks : RunDeferred(n) \/ Purge(n)) \/ Tick \/ UNCHANGED vars
  BY <1>5, <1>10 DEF RunDeferred, Purge, Strike, Tick, vars
<1>11. ASSUME NEW o \in Subject, NEW n \in Ticks, Erase(o, n) PROVE Good
  <2>1. ~Held /\ UNCHANGED <<sess, fetched, harm>> /\ \E dead : Route(dead)
    BY <1>11 DEF Erase
  <2> QED BY <1>1, <2>1
<1>12. CASE Sweep
  BY <1>1, <1>12 DEF Sweep
<1> QED BY <1>2, <1>3, <1>4, <1>6, <1>7, <1>8, <1>9, <1>10, <1>11, <1>12 DEF Next

\* The text of a turn leaves a session only for an erasure that was lawful when decided.
LEMMA SurvivesStep ==
  ASSUME TypeOK, Written, Lawful, [Next]_vars,
         NEW t \in Turn, t \in Bytes, t \notin Bytes', Alone(t), "overlap" \notin harm'
  PROVE  ~Kept(t, at, by)
<1> USE RetentionAssumption DEF store, clock, duty, holder, deletes, writers, past
<1>0. t \notin fabric
  BY DEF TypeOK
<1>1. PICK s \in Session : t \in sess[s].text /\ t \notin sess'[s].text
  <2>1. PICK s \in Session : t \in sess[s].text
    BY <1>0 DEF Bytes
  <2>2. t \notin sess'[s].text
    BY <2>1 DEF Bytes
  <2> QED BY <2>1, <2>2
<1>2. ASSUME NEW f \in fetched, Clear(f) PROVE ~Kept(t, at, by)
  <2>1. /\ s = f.session /\ sess' = [sess EXCEPT ![f.session] = Cleared(f)]
        /\ sess[f.session] = f.was
    BY <1>1, <1>2 DEF Clear, TypeOK
  <2>2. t \in Doomed(f)
    BY <1>1, <2>1 DEF Cleared, TypeOK
  <2>3. PICK r \in job : Id[r] = Id[t]
    BY <2>2 DEF Doomed
  <2>4. t \in job
    BY <2>3 DEF Alone, TypeOK
  <2> QED BY <2>4 DEF Lawful, Held
<1>3. ASSUME NEW u \in Turn, Save(u) PROVE FALSE
  <2>1. /\ sess[Of[u]] = draft[u]
        /\ sess' = [sess EXCEPT ![Of[u]] = [turns |-> draft[u].turns \cup {u},
                                            text  |-> draft[u].text \cup {u}]]
    BY <1>3 DEF Save
  <2> QED BY <1>1, <2>1 DEF TypeOK
<1>4. ASSUME UNCHANGED sess PROVE FALSE
  BY <1>1, <1>4
<1>5. ASSUME NEW u \in Turn, Load(u) \/ Mirror(u) PROVE FALSE
  BY <1>4, <1>5 DEF Load, Mirror
<1>6. ASSUME NEW i \in Item, Remember(i) PROVE FALSE
  BY <1>4, <1>6 DEF Remember
<1>7. ASSUME NEW o \in Subject,
             (\E n \in Ticks : RequestErasure(o, n)) \/ Export(o) \/ Decide(o) \/ Cascade(o)
      PROVE  FALSE
  BY <1>4, <1>7 DEF RequestErasure, Strike, Export, Decide, Cascade
<1>8. ASSUME NEW o \in Subject, NEW n \in Ticks, Erase(o, n) PROVE FALSE
  BY <1>4, <1>8 DEF Erase
<1>9. ASSUME NEW o \in Subject, NEW q \in Session, Fetch(o, q) PROVE FALSE
  BY <1>4, <1>9 DEF Fetch
<1>10. CASE (\E m \in Matter : OpenHold(m) \/ ReleaseHold(m)) \/ (\E p \in Policies : SetPolicy(p))
  BY <1>4, <1>10 DEF OpenHold, ReleaseHold, SetPolicy
<1>11. CASE Sweep \/ (\E n \in Ticks : RunDeferred(n) \/ Purge(n)) \/ Tick \/ UNCHANGED vars
  BY <1>4, <1>11 DEF Sweep, RunDeferred, Purge, Strike, Tick, vars
<1> QED BY <1>2, <1>3, <1>5, <1>6, <1>7, <1>8, <1>9, <1>10, <1>11 DEF Next

-----------------------------------------------------------------------------
\* The inductive invariant: the precedence store agrees with what was written and asked,
\* and what is not yet rewritten is in the hands of the holder of the mutex.
IInv == TypeOK /\ Written /\ Requested /\ Accounted /\ Lawful /\ Pending

LEMMA RetentionInit == Init => IInv
<1> SUFFICES ASSUME Init PROVE IInv
  OBVIOUS
<1> USE RetentionAssumption DEF Init, NoSession
<1>1. TypeOK
  <2>1. NoSession \in Content
    BY DEF Content
  <2>2. sess \in [Session -> Content] /\ draft \in [Turn -> Content]
    BY <2>1
  <2> QED BY <2>2 DEF TypeOK
<1>2. Written
  BY DEF Written
<1>3. Requested /\ Accounted /\ Lawful /\ Pending
  BY DEF Requested, Accounted, FloorAnchored, Lawful, Held, Pending
<1> QED BY <1>1, <1>2, <1>3 DEF IInv

LEMMA RetentionStep == IInv /\ [Next]_vars => IInv'
BY RetentionTypeStep, WrittenStep, RequestedStep, AccountedStep, LawfulStep, PendingStep DEF IInv

LEMMA RetentionInvariant == Spec => []IInv
BY RetentionInit, RetentionStep, PTL DEF Spec

\* Every variable keeps its type.
THEOREM RetentionTypeCorrect == Spec => []TypeOK
<1>1. IInv => TypeOK
  BY DEF IInv
<1> QED BY <1>1, RetentionInvariant, PTL

\* The row of a served turn is exactly as old as its text, however often it was erased
\* from the store and mirrored again: no floor is ever restarted.
THEOREM FloorsAreAnchored == Spec => []FloorAnchored
<1>1. IInv => FloorAnchored
  BY DEF IInv, Accounted
<1> QED BY <1>1, RetentionInvariant, PTL

\* No row leaves the store, at whatever tick callers name, that neither its subject asked
\* for nor has lived past its class's ttl at that tick.
THEOREM ErasuresAreOwed == Spec => ErasedIsOwed
<1>1. IInv /\ [Next]_vars =>
        [\A c \in rows \ rows' :
           (c \in Turn => Alone(c)) =>
             asked'[Owner[c]] > 0 \/ created[c] + policy[Class[c]].ttl < by']_vars
  BY OwedStep DEF IInv
<1> QED BY <1>1, RetentionInvariant, PTL DEF Spec, ErasedIsOwed

\* When the mutex is free, what was erased with the tiers is gone from every session.
THEOREM ErasuresAreComplete == Spec => []ErasedIsGone
<1>1. IInv => ErasedIsGone
  <2> SUFFICES ASSUME IInv, ~Held, "overlap" \notin harm,
                      NEW t \in erased \cap Turn, t \in Bytes
               PROVE  FALSE
    BY DEF ErasedIsGone
  <2>1. t \notin fabric
    BY RetentionAssumption DEF IInv, TypeOK
  <2>2. PICK s \in Session : t \in sess[s].text
    BY <2>1 DEF Bytes
  <2> QED BY <2>2 DEF IInv, Pending, Held
<1> QED BY <1>1, RetentionInvariant, PTL

\* An erasure that waits stays in the queue until its record has been erased.
THEOREM QueueForgetsNothing == Spec => NeverDropped
<1>1. IInv /\ [Next]_vars => [\A d \in deferred \ deferred' : d \in erased' \cup struck']_vars
  BY DroppedStep DEF IInv
<1> QED BY <1>1, RetentionInvariant, PTL DEF Spec, NeverDropped

\* The text of a turn that a matter covers, or whose floor had not elapsed at the tick its
\* erasure was decided at (a caller's own, in an erasure), is not destroyed.
THEOREM HeldTextIsSafe == Spec => HeldTextSurvives
<1>1. IInv /\ [Next]_vars =>
        [\A t \in Turn : t \in Bytes /\ t \notin Bytes' =>
           ~Kept(t, at, by) \/ ~Alone(t) \/ "overlap" \in harm']_vars
  BY SurvivesStep DEF IInv
<1> QED BY <1>1, RetentionInvariant, PTL DEF Spec, HeldTextSurvives

=============================================================================
