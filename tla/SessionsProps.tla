--------------------------- MODULE SessionsProps ---------------------------
(***************************************************************************)
(* The correctness properties of the session manager.                      *)
(***************************************************************************)
EXTENDS Sessions

\* Every variable keeps its type; an inbox never exceeds its capacity and the
\* map never exceeds the global cap (lib.rs: "never grows unbounded").
TypeOK ==
  /\ sessions \in [Session -> Actor \cup {None}]
  /\ cancels \in [Session -> Job \cup {None}]
  /\ pc \in [Actor -> {"unborn", "recv", "elapsed", "starting", "running",
                       "terminating", "finishing", "exited"}]
  /\ owner \in [Actor -> Session \cup {None}]
  /\ inbox \in [Actor -> Seq(Job)]
  /\ turn \in [Actor -> Job \cup {None}]
  /\ status \in [Job -> {"new", "accepted", "refused", "answered"}]
  /\ fired \subseteq Job
  /\ client \in [Job -> {"reading", "stalled", "gone"}]
  /\ revoking \subseteq Revocable

\* Live state is bounded: the map by the global cap and every inbox by its
\* capacity, whatever submit, resume, reaping and revocation do.
Bounded ==
  /\ Cardinality(Live) <= MaxSessions
  /\ \A a \in Actor : Len(inbox[a]) <= InboxCapacity

\* An entry of the live map always names a running task of that very session:
\* submit never meets a closed inbox ("a job is never sent into a channel that
\* is about to be dropped"), although the actor leaves without being joined.
EntryNamesLiveActor ==
  \A s \in Session : sessions[s] # None =>
    Alive(sessions[s]) /\ owner[sessions[s]] = s

\* The jobs an actor still has to answer.
Held(a) == {inbox[a][i] : i \in DOMAIN inbox[a]} \cup ({turn[a]} \ {None})

\* No accepted turn is lost and none runs twice: as long as its ticket is not
\* answered it is in the hands of exactly one task that still exists, and no
\* task holds it twice (the straggler race between submit and idle reaping).
NoTurnLost ==
  \A j \in Job :
    IF status[j] = "accepted"
      THEN /\ Cardinality({a \in Actor : j \in Held(a)}) = 1
           /\ \A a \in Actor : j \in Held(a) =>
                /\ Alive(a)
                /\ Cardinality({i \in DOMAIN inbox[a] : inbox[a][i] = j})
                     + (IF turn[a] = j THEN 1 ELSE 0) = 1
      ELSE \A a \in Actor : j \notin Held(a)

\* The token registry holds no stale token: a registered turn is a turn in
\* flight of that session, so turn.stop and revoke never fire for a finished
\* turn and the registry is bounded by the turns in flight (process,
\* "no stale token outlives its turn").
TokenNamesTurnInFlight ==
  \A s \in Session : cancels[s] # None =>
    \E a \in Actor : owner[a] = s /\ InFlight(a) /\ turn[a] = cancels[s]

\* The converse: a turn in flight can be stopped.  It needs the registry key to
\* be exclusively the turn's ("Serial-per-session => this key is exclusively
\* ours for the turn's lifetime").
TurnInFlightIsStoppable ==
  \A a \in Actor : InFlight(a) => cancels[owner[a]] = turn[a]

\* "Each session ... processes its turns serially (no interleaved mutation of
\* one session's state)": never two tasks of one session with a turn in hand.
SerialPerSession ==
  \A a, b \in Actor :
    a # b /\ owner[a] = owner[b] => turn[a] = None \/ turn[b] = None

\* A task has a session from the moment it is spawned, and a turn in its hands
\* exactly from the receive that dequeues it to the end of process.
TaskShape ==
  \A a \in Actor :
    /\ pc[a] # "unborn" => owner[a] \in Session
    /\ turn[a] # None <=> pc[a] = "starting" \/ InFlight(a)

\* What is inductive of the safety of tasks, entries and tokens: a reaping task
\* removes the entry of its owner, and a finishing one the token of its turn,
\* so both claims need to know who owns what.
TaskInv == TypeOK /\ TaskShape /\ EntryNamesLiveActor /\ TokenNamesTurnInFlight

\* What is inductive of NoTurnLost: whatever waits or runs is an accepted turn,
\* every accepted turn waits or runs somewhere, and it has one place only.
TurnsHeld ==
  /\ \A a \in Actor : \A i \in 1..Len(inbox[a]) :
       Alive(a) /\ status[inbox[a][i]] = "accepted"
  /\ \A a \in Actor : turn[a] # None => status[turn[a]] = "accepted"
  /\ \A j \in Job : status[j] = "accepted" =>
       \E a \in Actor : turn[a] = j \/ \E i \in 1..Len(inbox[a]) : inbox[a][i] = j
  /\ \A a, b \in Actor : \A i \in 1..Len(inbox[a]) : \A k \in 1..Len(inbox[b]) :
       inbox[a][i] = inbox[b][k] => a = b /\ i = k
  /\ \A a, b \in Actor : \A i \in 1..Len(inbox[a]) : inbox[a][i] # turn[b]
  /\ \A a, b \in Actor : turn[a] = turn[b] /\ turn[a] # None => a = b

\* The live map counts every task: a task that exists is the one its session's
\* entry names, so the cap on the map is a cap on actors.
EveryTaskIsMapped ==
  \A a \in Actor : Alive(a) => sessions[owner[a]] = a

\* An entry leaves the live map only because the actor it names exits or because
\* a revoke of that session removes it ("this can never race either of them into
\* a lost job or a double-remove").
EntryRemovedOnce ==
  [][\A s \in Session :
       sessions[s] # None /\ sessions'[s] = None =>
         \/ pc'[sessions[s]] = "exited"
         \/ s \in revoking /\ s \notin revoking']_vars

\* Every accepted turn is answered in the end: neither a queue, nor a panic, a
\* timeout, reaping or a revocation leaves a ticket that hangs ("never a hang").
EveryTurnAnswered ==
  \A j \in Job : status[j] = "accepted" ~> status[j] = "answered"

\* Every actor exits in the end once clients have no more turns to submit: idle
\* reaping bounds the live state.
EveryActorReaped == \A a \in Actor : Alive(a) ~> ~Alive(a)

\* "a hung/stalled turn cannot pin an actor or leak its session slot": a turn that
\* is running leaves its actor free again.
TurnNeverPinsActor ==
  \A a \in Actor : pc[a] = "running" ~> pc[a] = "recv"

-----------------------------------------------------------------------------
(* The manager implements the turn service while no session is revoked. *)

\* The queue of a session, and its running turn, are those of the task its entry names.
Waiting == [s \in Session |-> IF sessions[s] = None THEN <<>> ELSE inbox[sessions[s]]]
Running == [s \in Session |-> IF sessions[s] = None THEN None ELSE turn[sessions[s]]]

Service == INSTANCE TurnService WITH open <- Live, waiting <- Waiting, running <- Running

\* Whatever its tasks and callers interleave, the manager does only what the
\* turn service may do.
ImplementsTurnService == Service!Spec

=============================================================================
