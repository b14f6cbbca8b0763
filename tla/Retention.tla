----------------------------- MODULE Retention -----------------------------
(***************************************************************************)
(* Retention and erasure: the precedence store of ainxt-lifecycle behind    *)
(* its mutex, the session store that holds the text of served turns, and    *)
(* the memory fabric, which has an erasure route of its own. A served turn  *)
(* is saved in its session first and mirrored into the precedence store     *)
(* afterwards; an erasure and the sweep decide in the precedence store and  *)
(* then rewrite the sessions one by one, all of it under the mutex that the *)
(* writers of the sessions do not take.                                     *)
(***************************************************************************)
EXTENDS Naturals, FiniteSets

CONSTANTS
  Turn,      \* served turns: the text of each is one record
  Item,      \* items of the memory fabric
  Subject, Owner,
  Id,        \* the id a record has in its tier: a turn's is chosen by its client
  Session, Of, \* the sessions, and the one of each turn
  Classes, Class,
  Policies,  \* the retention policies that are used: the class, the age at which it is
             \* purged, the statutory minimum, and the legal hold of the class
  Initially, \* the policy each class starts with
  Matter,
  Scope,     \* the records a matter covers
  MaxTime,
  MaxAsk,    \* erasure requests per subject
  Commands   \* the operator's commands that are used, of CommandKinds

Text == Turn \cup Item

CommandKinds == {
  "hold",    \* OpenHold, ReleaseHold
  "policy",  \* SetPolicy
  "store",   \* Purge, RequestErasure, RunDeferred: on the precedence store alone
  "memory",  \* DELETE /memory
  "tick"}    \* callers name the tick that their erasure or command is decided at

Policy == [class : Classes, ttl : Nat, floor : Nat, hold : BOOLEAN]

ASSUME RetentionAssumption ==
  /\ Turn \cap Item = {}
  /\ IsFiniteSet(Turn) /\ IsFiniteSet(Item)
  /\ Owner \in [Text -> Subject] /\ Of \in [Turn -> Session]
  /\ Class \in [Text -> Classes]
  /\ Policies \subseteq Policy
  /\ Initially \in [Classes -> Policies] /\ \A k \in Classes : Initially[k].class = k
  /\ Scope \in [Matter -> SUBSET Text]
  /\ MaxTime \in Nat /\ MaxAsk \in Nat
  /\ Commands \subseteq CommandKinds
  \* "unique within the session"; the tier's name keeps turns and items apart.
  /\ \A t, u \in Turn : Of[t] = Of[u] /\ Id[t] = Id[u] => t = u
  /\ \A i \in Item, c \in Text : Id[c] = Id[i] => c = i

VARIABLES
  now,       \* the daemon's clock
  by,        \* the tick the last rows to leave were erased or purged by
  sess,      \* per session: its turns, and those whose text is not erased
  fabric,    \* the items of the memory fabric
  rows,      \* the mirror: the records the precedence store knows, one per id
  created,   \* the age anchor of each row
  deferred,  \* the erasures that wait, one per id
  open,      \* the active matters
  policy,    \* per class: its retention policy
  pc, draft, \* per record: its writer, and the session the writer loaded
  job,       \* the rows the holder of the mutex is about to erase from the tiers
  todo,      \* ... and the sessions it has yet to rewrite, per owner
  fetched,   \* ... and the one it has loaded, at most one
  asked,     \* how many erasures each subject has requested
  wipe,      \* per subject: how far its DELETE /memory is
  exported,  \* ... and the items it is about
  at,        \* history: the tick each text was written
  erased,    \* history: rows erased or purged with the tiers
  struck,    \* history: rows erased or purged in the store alone
  harm

HarmKinds == {"overlap"} \* two read-modify-writes of a session have crossed

store   == <<rows, created, deferred>>
clock   == <<now, by>>
duty    == <<open, policy>>
holder  == <<job, todo, fetched>>
deletes == <<wipe, exported>>
writers == <<pc, draft, at>>
past    == <<erased, struck, harm>>
vars    == <<now, by, sess, fabric, rows, created, deferred, open, policy, pc, draft, job, todo,
             fetched, asked, wipe, exported, at, erased, struck, harm>>

NoSession == [turns |-> {}, text |-> {}]
Content   == [turns : SUBSET Turn, text : SUBSET Turn]

Init ==
  /\ now = 0 /\ by = 0
  /\ sess = [s \in Session |-> NoSession]
  /\ fabric = {}
  /\ rows = {} /\ created = [c \in Text |-> 0] /\ deferred = {}
  /\ open = {} /\ policy = Initially
  /\ pc = [c \in Text |-> "new"]
  /\ draft = [t \in Turn |-> NoSession]
  /\ job = {} /\ todo = {} /\ fetched = {}
  /\ asked = [o \in Subject |-> 0]
  /\ wipe = [o \in Subject |-> "idle"] /\ exported = [o \in Subject |-> {}]
  /\ at = [c \in Text |-> 0]
  /\ erased = {} /\ struck = {} /\ harm = {}

\* now_unix_secs, unless the body of the request names another tick.
Ticks == IF "tick" \in Commands THEN 0..MaxTime ELSE {now}

Held == todo # {} \/ fetched # {}
Bytes == (UNION {sess[s].text : s \in Session}) \cup fabric

-----------------------------------------------------------------------------
(* RecordStore *)

Covered(c) == \E m \in open : c \in Scope[m]

\* erasure_decision at tick n defers: a matter covers the record, or its floor has not
\* elapsed.
Kept(c, anchor, n) == Covered(c) \/ n < anchor[c] + policy[Class[c]].floor

Known(c, rs) == \E r \in rs : Id[r] = Id[c]

\* mirror_write of the records cs, that were written at the ticks anchor: a row that
\* exists is left alone, and of two records with one id the first becomes the row.
Mirrored(cs, rs) ==
  {S \in SUBSET (rs \cup cs) :
     /\ rs \subseteq S
     /\ \A c \in cs : Known(c, S)
     /\ \A c, d \in S : Id[c] = Id[d] => c = d}

\* Mutant: a row is as old as its mirroring.
AnchorsNow(new, anchor) == [c \in Text |-> IF c \in new THEN now ELSE created[c]]

Anchors(new, anchor) == [c \in Text |-> IF c \in new THEN anchor[c] ELSE created[c]]

\* Mutant: an expired record is purged whatever covers it.
ExpiredOnly(c, n) == n > created[c] + policy[Class[c]].ttl

\* purge_expired: past its ttl, and neither held nor within the floor.
Expired(c, n) ==
  /\ n > created[c] + policy[Class[c]].ttl
  /\ ~policy[Class[c]].hold
  /\ ~Kept(c, created, n)

\* request_erasure, over the rows rs: what is erased at once ...
EraseNow(o, rs, anchor, n) == {r \in rs : Owner[r] = o /\ ~Kept(r, anchor, n)}

\* ... and the queue after it, with one entry per id.
Deferred(o, rs, anchor, n) ==
  deferred \cup {r \in rs : Owner[r] = o /\ Kept(r, anchor, n) /\ ~Known(r, deferred)}

\* Mutant: a run fires for every row that nothing blocks.
FiresUnasked(n) == {r \in rows : ~Kept(r, created, n)}

\* run_deferred: the rows that fire. Which entry they were queued under is not looked at.
Fires(n) == {r \in rows : Known(r, deferred) /\ ~Kept(r, created, n)}

\* Mutants: the queue is emptied by a run; an entry that has fired stays.
StillDeferredNone(n) == {}
StillDeferredAll(n) == deferred

\* ... and the entries that stay; one whose row is gone is dropped.
StillDeferred(n) ==
  {d \in deferred : \E r \in rows : Id[r] = Id[d] /\ Kept(r, created, n)}

\* The tick that the rows which leave go by.
DecidedAt(dead, n) == IF dead = {} THEN by ELSE n

-----------------------------------------------------------------------------
(* The writers *)

\* persist_served_turn: the tick is taken and the session loaded.
Load(t) ==
  /\ t \in Turn /\ pc[t] = "new"
  /\ pc' = [pc EXCEPT ![t] = "loaded"]
  /\ draft' = [draft EXCEPT ![t] = sess[Of[t]]]
  /\ at' = [at EXCEPT ![t] = now]
  /\ UNCHANGED <<clock, sess, fabric, store, duty, holder, asked, deletes, past>>

\* The loaded session is saved with the turn appended, whatever it has become meanwhile.
Save(t) ==
  /\ t \in Turn /\ pc[t] = "loaded"
  /\ pc' = [pc EXCEPT ![t] = "saved"]
  /\ sess' = [sess EXCEPT ![Of[t]] = [turns |-> draft[t].turns \cup {t},
                                      text  |-> draft[t].text \cup {t}]]
  /\ draft' = [draft EXCEPT ![t] = NoSession]
  /\ harm' = IF sess[Of[t]] = draft[t] THEN harm ELSE harm \cup {"overlap"}
  /\ UNCHANGED <<clock, fabric, store, duty, holder, asked, deletes, at, erased, struck>>

\* Only then is it mirrored: another turn with its id may already be the row.
Mirror(t) ==
  /\ t \in Turn /\ pc[t] = "saved" /\ ~Held
  /\ pc' = [pc EXCEPT ![t] = "done"]
  /\ rows' \in Mirrored({t}, rows)
  /\ created' = Anchors(rows' \ rows, at)
  /\ UNCHANGED <<clock, sess, fabric, deferred, duty, holder, draft, at, asked, deletes, past>>

\* The memory fabric stores an item; nothing mirrors it.
Remember(i) ==
  /\ i \in Item /\ pc[i] = "new"
  /\ pc' = [pc EXCEPT ![i] = "done"]
  /\ at' = [at EXCEPT ![i] = now]
  /\ fabric' = fabric \cup {i}
  /\ UNCHANGED <<clock, sess, store, duty, holder, draft, asked, deletes, past>>

-----------------------------------------------------------------------------
(* Erasure with the session tier *)

\* Mutant: an id is routed to the session tier whatever tier it names.
RouteAll(dead) ==
  /\ job' = dead
  /\ todo' = {Owner[c] : c \in dead} \X Session
  /\ erased' = erased \cup dead

\* propagate_erasures takes one batch per owner through every session; an id of another
\* tier than the served turns' is unrouted.
Route(dead) ==
  LET routed == dead \cap Turn IN
  /\ job' = routed
  /\ todo' = {Owner[t] : t \in routed} \X Session
  /\ erased' = erased \cup dead

\* erase_subject_guarded: the subject's turns are mirrored, erased or tombstones; then
\* the store decides at the tick of the request, and what it erased is routed.
Erase(o, n) ==
  /\ ~Held /\ asked[o] < MaxAsk
  /\ asked' = [asked EXCEPT ![o] = @ + 1]
  /\ LET mine == {t \in UNION {sess[s].turns : s \in Session} : Owner[t] = o} IN
     \E all \in Mirrored(mine, rows) :
       LET anchor == Anchors(all \ rows, at)
           dead   == EraseNow(o, all, anchor, n) IN
       /\ rows' = all \ dead
       /\ created' = anchor
       /\ deferred' = Deferred(o, all, anchor, n)
       /\ by' = DecidedAt(dead, n)
       /\ Route(dead)
  /\ UNCHANGED <<now, sess, fabric, duty, fetched, writers, deletes, struck, harm>>

\* sweep_now, at the daemon's clock: the queue first, then the purge of what is left.
Sweep ==
  /\ ~Held
  /\ LET fired == Fires(now)
         dead  == fired \cup {r \in rows \ fired : Expired(r, now)} IN
     /\ rows' = rows \ dead
     /\ deferred' = StillDeferred(now)
     /\ by' = DecidedAt(dead, now)
     /\ Route(dead)
  /\ UNCHANGED <<now, sess, fabric, created, duty, fetched, writers, asked, deletes, struck, harm>>

\* erase_records loads a session ...
Fetch(o, s) ==
  /\ fetched = {} /\ <<o, s>> \in todo
  /\ todo' = todo \ {<<o, s>>}
  /\ fetched' = {[owner |-> o, session |-> s, was |-> sess[s]]}
  /\ UNCHANGED <<clock, sess, fabric, store, duty, job, writers, asked, deletes, past>>

\* The text of the batch's ids in a session, whoever wrote it.
Doomed(f) ==
  {t \in f.was.text : \E r \in job : Owner[r] = f.owner /\ Id[r] = Id[t]}

Cleared(f) == [turns |-> f.was.turns, text |-> f.was.text \ Doomed(f)]

\* Mutant: a session that has changed since is left alone.
ClearUnlessChanged(f) ==
  /\ f \in fetched
  /\ fetched' = {}
  /\ IF Doomed(f) = {} \/ sess[f.session] # f.was THEN UNCHANGED <<sess, harm>>
     ELSE /\ sess' = [sess EXCEPT ![f.session] = Cleared(f)]
          /\ UNCHANGED harm
  /\ UNCHANGED <<clock, fabric, store, duty, job, todo, writers, asked, deletes, erased, struck>>

\* ... clears the text of the ids, and saves the session if it cleared any.
Clear(f) ==
  /\ f \in fetched
  /\ fetched' = {}
  /\ IF Doomed(f) = {} THEN UNCHANGED <<sess, harm>>
     ELSE /\ sess' = [sess EXCEPT ![f.session] = Cleared(f)]
          /\ harm' = IF sess[f.session] = f.was THEN harm ELSE harm \cup {"overlap"}
  /\ UNCHANGED <<clock, fabric, store, duty, job, todo, writers, asked, deletes, erased, struck>>

-----------------------------------------------------------------------------
(* regfi_hold_handler: on the precedence store alone *)

OpenHold(m) ==
  /\ "hold" \in Commands /\ ~Held
  /\ m \notin open /\ open' = open \cup {m}
  /\ UNCHANGED <<clock, sess, fabric, store, policy, holder, writers, asked, deletes, past>>

ReleaseHold(m) ==
  /\ "hold" \in Commands /\ ~Held
  /\ m \in open /\ open' = open \ {m}
  /\ UNCHANGED <<clock, sess, fabric, store, policy, holder, writers, asked, deletes, past>>

\* The policy of a class is replaced as a whole.
SetPolicy(p) ==
  /\ "policy" \in Commands /\ ~Held
  /\ policy' = [policy EXCEPT ![p.class] = p]
  /\ UNCHANGED <<clock, sess, fabric, store, open, holder, writers, asked, deletes, past>>

Strike(dead, n) ==
  /\ rows' = rows \ dead
  /\ by' = DecidedAt(dead, n)
  /\ struck' = struck \cup dead
  /\ UNCHANGED <<now, sess, fabric, created, duty, holder, writers, deletes, erased, harm>>

RequestErasure(o, n) ==
  /\ "store" \in Commands /\ ~Held /\ asked[o] < MaxAsk
  /\ asked' = [asked EXCEPT ![o] = @ + 1]
  /\ deferred' = Deferred(o, rows, created, n)
  /\ Strike(EraseNow(o, rows, created, n), n)

RunDeferred(n) ==
  /\ "store" \in Commands /\ ~Held
  /\ deferred' = StillDeferred(n)
  /\ Strike(Fires(n), n)
  /\ UNCHANGED asked

Purge(n) ==
  /\ "store" \in Commands /\ ~Held
  /\ Strike({r \in rows : Expired(r, n)}, n)
  /\ UNCHANGED <<deferred, asked>>

-----------------------------------------------------------------------------
(* memory_delete_handler *)

\* The subject's items are exported, under the fabric's own lock.
Export(o) ==
  /\ "memory" \in Commands /\ wipe[o] = "idle" /\ asked[o] < MaxAsk
  /\ asked' = [asked EXCEPT ![o] = @ + 1]
  /\ wipe' = [wipe EXCEPT ![o] = "exported"]
  /\ exported' = [exported EXCEPT ![o] = {i \in fabric : Owner[i] = o}]
  /\ UNCHANGED <<clock, sess, fabric, store, duty, holder, writers, past>>

\* They are mirrored, each with the tick it is effective from (or the daemon's), and the
\* store decides at the daemon's clock, over every row of the subject: what it erases is
\* erased from no tier, and one record it keeps stops the cascade.
Decide(o) ==
  /\ wipe[o] = "exported" /\ ~Held
  /\ \E all \in Mirrored(exported[o], rows), from \in [exported[o] -> 0..MaxTime] :
       LET anchor == Anchors(all \ rows, from)
           dead   == EraseNow(o, all, anchor, now)
           kept   == {r \in all \ dead : Owner[r] = o} IN
       /\ rows' = all \ dead
       /\ created' = anchor
       /\ deferred' = Deferred(o, all, anchor, now)
       /\ by' = DecidedAt(dead, now)
       /\ struck' = struck \cup dead
       /\ wipe' = [wipe EXCEPT ![o] = IF kept = {} THEN "cleared" ELSE "idle"]
  /\ exported' = [exported EXCEPT ![o] = {}]
  /\ UNCHANGED <<now, sess, fabric, duty, holder, writers, asked, erased, harm>>

\* The fabric's own erase_subject: every item the subject has by now.
Cascade(o) ==
  /\ wipe[o] = "cleared"
  /\ wipe' = [wipe EXCEPT ![o] = "idle"]
  /\ fabric' = {i \in fabric : Owner[i] # o}
  /\ UNCHANGED <<clock, sess, store, duty, holder, writers, asked, exported, past>>

-----------------------------------------------------------------------------
Tick ==
  /\ now < MaxTime /\ now' = now + 1
  /\ UNCHANGED <<by, sess, fabric, store, duty, holder, writers, asked, deletes, past>>

Next ==
  \/ \E t \in Turn : Load(t) \/ Save(t) \/ Mirror(t)
  \/ \E i \in Item : Remember(i)
  \/ \E o \in Subject :
       \/ \E n \in Ticks : Erase(o, n) \/ RequestErasure(o, n)
       \/ Export(o) \/ Decide(o) \/ Cascade(o)
       \/ \E s \in Session : Fetch(o, s)
  \/ \E f \in fetched : Clear(f)
  \/ Sweep
  \/ \E n \in Ticks : RunDeferred(n) \/ Purge(n)
  \/ \E m \in Matter : OpenHold(m) \/ ReleaseHold(m)
  \/ \E p \in Policies : SetPolicy(p)
  \/ Tick

Spec == Init /\ [][Next]_vars

\* Time passes, the sweep comes round, and whoever holds the mutex goes on.
FairSpec ==
  /\ Spec
  /\ WF_vars(Tick) /\ WF_vars(Sweep)
  /\ WF_vars(\E o \in Subject, s \in Session : Fetch(o, s))
  /\ WF_vars(\E f \in fetched : Clear(f))

-----------------------------------------------------------------------------
\* No other turn goes by its id.
Alone(t) == \A u \in Turn : Id[u] = Id[t] => u = t

\* Every variable keeps its type.
TypeOK ==
  /\ now \in 0..MaxTime /\ by \in 0..MaxTime
  /\ sess \in [Session -> Content] /\ fabric \subseteq Item
  /\ rows \subseteq Text /\ created \in [Text -> Nat] /\ deferred \subseteq Text
  /\ open \subseteq Matter
  /\ policy \in [Classes -> Policies] /\ \A k \in Classes : policy[k].class = k
  /\ pc \in [Text -> {"new", "loaded", "saved", "done"}] /\ draft \in [Turn -> Content]
  /\ job \subseteq Turn /\ todo \subseteq Subject \X Session
  /\ fetched \subseteq [owner : Subject, session : Session, was : Content]
  /\ asked \in [Subject -> 0..MaxAsk]
  /\ wipe \in [Subject -> {"idle", "exported", "cleared"}]
  /\ exported \in [Subject -> SUBSET Item]
  /\ at \in [Text -> Nat] /\ erased \subseteq Text /\ struck \subseteq Text
  /\ harm \subseteq HarmKinds

\* "Leave every held or floored record physically intact": the text of a turn that a
\* matter covers, or whose floor had not elapsed at the tick its erasure was decided at, is
\* not destroyed, whatever is decided, swept, commanded and rewritten in the meantime;
\* unless two writers of the session have crossed, or another turn goes by its id. That
\* tick is the daemon's in a sweep, and the caller's in an erasure.
HeldTextSurvives ==
  [][\A t \in Turn :
       t \in Bytes /\ t \notin Bytes' =>
         ~Kept(t, at, by) \/ ~Alone(t) \/ "overlap" \in harm']_vars

\* "A fired deferral deletes the actual bytes, not just the mirror row": what an erasure
\* or the sweep has erased is gone from the sessions once it lets go of the mutex.
ErasedIsGone ==
  ~Held /\ "overlap" \notin harm => erased \cap Turn \cap Bytes = {}

\* No row leaves the store that neither its subject asked for nor its class's ttl demands,
\* at the tick that was named for it: an entry never fires for a record of somebody else.
ErasedIsOwed ==
  [][\A c \in rows \ rows' :
       (c \in Turn => Alone(c)) =>
         asked'[Owner[c]] > 0 \/ created[c] + policy[Class[c]].ttl < by']_vars

\* "Never silently dropped": an erasure leaves the queue only once its record is erased.
NeverDropped ==
  [][\A d \in deferred \ deferred' : d \in erased' \cup struck']_vars

\* "Re-mirroring can never restart a statutory retention floor": the row of a turn, gone
\* and mirrored again as it may be, is as old as the text.
FloorAnchored == \A t \in rows \cap Turn : created[t] = at[t]

\* "At expiry it fires automatically": a queued erasure of a turn does not wait for ever
\* for anything but a matter, if the floor its class has ends within the modelled time.
DeferredFires ==
  \A t \in Turn :
    []<>(t \notin deferred \/ Covered(t) \/ created[t] + policy[Class[t]].floor > MaxTime)

\* The same for two turns whose clients chose one id.
HeldTextSurvivesAlias ==
  [][\A t \in Turn :
       t \in Bytes /\ t \notin Bytes' => ~Kept(t, at, by) \/ "overlap" \in harm']_vars

\* The same by the daemon's clock, whatever ticks the callers of erasures name.
FloorOutlastsCallers ==
  [][\A t \in Turn :
       t \in Bytes /\ t \notin Bytes' =>
         ~Kept(t, at, now) \/ ~Alone(t) \/ "overlap" \in harm']_vars

\* "The fabric cascade is NEVER invoked while anything must be preserved".
HeldItemSurvives ==
  [][\A i \in Item : i \in fabric /\ i \notin fabric' => ~Covered(i)]_vars

\* The sweep's fired deferrals, for the items of the memory fabric.
FiredItemIsGone == ~Held => erased \cap Item \cap Bytes = {}

\* A class under legal hold is preserved "regardless of TTL or erasure".
ClassHoldHolds ==
  [][\A c \in Text : policy[Class[c]].hold /\ c \in rows => c \in rows']_vars

\* What an erasure removed from a session stays removed.
ErasedStaysGone == ~Held => erased \cap Turn \cap Bytes = {}

\* An erasure commanded through POST /v1/regfi/hold reaches the bytes.
StruckIsGone == ~Held => struck \cap Bytes = {}

=============================================================================
