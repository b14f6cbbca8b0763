------------------------------ MODULE Sessions ------------------------------
(***************************************************************************)
(* The session manager of ainxt-session: one actor task per live session,  *)
(* a bounded inbox per actor, a global cap, idle reaping, revocation, and   *)
(* the registry of cancel tokens an out-of-band turn.stop fires.           *)
(*                                                                         *)
(* Two mutexes are shared by callers and actors, "sessions" (id -> inbox   *)
(* sender) and "cancels" (id -> running turn and its token).  One action   *)
(* is one critical section, or one step of an actor between two awaits.    *)
(* A sender in the sessions map is modelled by the actor that receives     *)
(* from it; a turn is named by its job.                                    *)
(***************************************************************************)
EXTENDS Naturals, Sequences, FiniteSets

CONSTANTS
  Session,        \* session ids
  Job,            \* the turns clients submit
  Actor,          \* incarnations of actor tasks (bounds how many are spawned)
  Revocable,      \* the sessions an operator may revoke
  MaxSessions,    \* cfg.max_sessions
  InboxCapacity,  \* cfg.inbox_capacity
  None            \* no actor, no session, no job

ASSUME LimitsAssumption ==
  /\ MaxSessions \in Nat \ {0}
  /\ InboxCapacity \in Nat \ {0}

ASSUME NoneAssumption ==
  /\ None \notin Session /\ None \notin Job /\ None \notin Actor
  /\ Revocable \subseteq Session

VARIABLES
  sessions,   \* the live map: session -> actor whose inbox it sends to, or None
  cancels,    \* the token registry: session -> turn registered for it, or None
  pc,         \* where each actor task is
  owner,      \* the session an actor was spawned for
  inbox,      \* the actor's bounded channel
  turn,       \* the job an actor took from its inbox and has not finished
  status,     \* what the submitter of a job knows of it
  fired,      \* the jobs whose cancel token has been fired
  client,     \* what the receiver of a job's event stream does
  revoking    \* sessions whose revoke is between its two critical sections

vars == <<sessions, cancels, pc, owner, inbox, turn, status, fired, client, revoking>>

mapVars    == <<sessions, owner>>
turnVars   == <<turn, status>>
callerVars == <<client, revoking>>

-----------------------------------------------------------------------------
(* Derived state *)

Live == {s \in Session : sessions[s] # None}     \* live_sessions()

\* Tasks that exist: spawned and not returned from run_actor.
Alive(a) == pc[a] \notin {"unborn", "exited"}

\* The turn is inside handle_turn, or its stream is being terminated.
InFlight(a) == pc[a] \in {"running", "terminating", "finishing"}

\* The map still holds the actor's sender: recv cannot return None.
HasSender(a) == \E s \in Session : sessions[s] = a

-----------------------------------------------------------------------------
Init ==
  /\ sessions = [s \in Session |-> None]
  /\ cancels = [s \in Session |-> None]
  /\ pc = [a \in Actor |-> "unborn"]
  /\ owner = [a \in Actor |-> None]
  /\ inbox = [a \in Actor |-> <<>>]
  /\ turn = [a \in Actor |-> None]
  /\ status = [j \in Job |-> "new"]
  /\ fired = {}
  /\ client = [j \in Job |-> "reading"]
  /\ revoking = {}

-----------------------------------------------------------------------------
(* Callers of the manager *)

\* Insert a freshly spawned actor a for s, its inbox holding the jobs q.
SpawnActor(s, a, q) ==
  /\ pc[a] = "unborn"
  /\ pc' = [pc EXCEPT ![a] = "recv"]
  /\ owner' = [owner EXCEPT ![a] = s]
  /\ inbox' = [inbox EXCEPT ![a] = q]
  /\ sessions' = [sessions EXCEPT ![s] = a]

\* The entry's receiver is gone: try_send answers Closed.
Closed(s) == sessions[s] # None /\ pc[sessions[s]] = "exited"

\* Mutant: a full inbox is taken for a closed one.
ReachableIfRoom(s) ==
  sessions[s] # None /\ ~Closed(s) /\ Len(inbox[sessions[s]]) < InboxCapacity

\* The entry submit ends up with once it has dropped a closed one.
Reachable(s) == sessions[s] # None /\ ~Closed(s)

\* Mutant: the cap is off by one.
AtCapPlusOne(s) == Cardinality(Live \ {s}) > MaxSessions

AtCap(s) == Cardinality(Live \ {s}) >= MaxSessions

\* submit finds a live inbox with room.
SubmitToLive(s, j) ==
  /\ status[j] = "new"
  /\ Reachable(s)
  /\ Len(inbox[sessions[s]]) < InboxCapacity
  /\ inbox' = [inbox EXCEPT ![sessions[s]] = Append(@, j)]
  /\ status' = [status EXCEPT ![j] = "accepted"]
  /\ UNCHANGED <<sessions, cancels, pc, owner, turn, fired, callerVars>>

\* submit spawns the session's actor (dropping a closed entry first) and sends.
SubmitToNew(s, j) ==
  /\ status[j] = "new"
  /\ ~Reachable(s)
  /\ ~AtCap(s)
  /\ \E a \in Actor : SpawnActor(s, a, <<j>>)
  /\ status' = [status EXCEPT ![j] = "accepted"]
  /\ UNCHANGED <<cancels, turn, fired, callerVars>>

\* submit answers Backpressure: the inbox is full, or the cap is reached.
SubmitRefused(s, j) ==
  /\ status[j] = "new"
  /\ IF Reachable(s)
       THEN /\ Len(inbox[sessions[s]]) >= InboxCapacity
            /\ UNCHANGED sessions
       ELSE /\ AtCap(s)
            /\ sessions' = [sessions EXCEPT ![s] = None]
  /\ status' = [status EXCEPT ![j] = "refused"]
  /\ UNCHANGED <<cancels, pc, owner, inbox, turn, fired, callerVars>>

Submit(s, j) == SubmitToLive(s, j) \/ SubmitToNew(s, j) \/ SubmitRefused(s, j)

\* resume -> ensure_actor: rebuild the actor of a session that has no entry.
\* (An entry that is there, or the cap, leaves the map as it is.)
Resume(s) ==
  /\ sessions[s] = None
  /\ Cardinality(Live) < MaxSessions
  /\ \E a \in Actor : SpawnActor(s, a, <<>>)
  /\ UNCHANGED <<cancels, turnVars, fired, callerVars>>

\* Mutant: a token is fired whether or not one is registered.
RevokeFireBlindly(s) ==
  /\ s \in Revocable \ revoking
  /\ fired' = fired \cup {cancels[s]}
  /\ revoking' = revoking \cup {s}
  /\ UNCHANGED <<mapVars, cancels, pc, inbox, turnVars, client>>

\* revoke, first critical section: fire the registered token.
RevokeFire(s) ==
  /\ s \in Revocable \ revoking
  /\ fired' = fired \cup ({cancels[s]} \ {None})
  /\ revoking' = revoking \cup {s}
  /\ UNCHANGED <<mapVars, cancels, pc, inbox, turnVars, client>>

\* revoke, second critical section: drop the entry (NotFound if there is none).
RevokeRemove(s) ==
  /\ s \in revoking
  /\ sessions' = [sessions EXCEPT ![s] = None]
  /\ revoking' = revoking \ {s}
  /\ UNCHANGED <<owner, cancels, pc, inbox, turnVars, fired, client>>

\* turn.stop of turn j: fire the registered token if it is this turn's.
TurnStop(s, j) ==
  /\ cancels[s] = j
  /\ fired' = fired \cup {j}
  /\ UNCHANGED <<mapVars, cancels, pc, inbox, turnVars, callerVars>>

\* The submitter cancels through its TurnTicket, whatever the turn is doing.
TicketCancel(j) ==
  /\ status[j] = "accepted"
  /\ fired' = fired \cup {j}
  /\ UNCHANGED <<mapVars, cancels, pc, inbox, turnVars, callerVars>>

\* The receiver of j's stream stops draining it, drains again, or hangs up.
ClientStalls(j) ==
  /\ status[j] = "accepted" /\ client[j] = "reading"
  /\ client' = [client EXCEPT ![j] = "stalled"]
  /\ UNCHANGED <<mapVars, cancels, pc, inbox, turnVars, fired, revoking>>

ClientMoves(j) ==
  /\ status[j] = "accepted" /\ client[j] = "stalled"
  /\ \E c \in {"reading", "gone"} : client' = [client EXCEPT ![j] = c]
  /\ UNCHANGED <<mapVars, cancels, pc, inbox, turnVars, fired, revoking>>

-----------------------------------------------------------------------------
(* The actor task: run_actor and process *)

\* Mutant: the newest job first.
ReceiveNewest(a) ==
  /\ pc[a] = "recv"
  /\ inbox[a] # <<>>
  /\ turn' = [turn EXCEPT ![a] = inbox[a][Len(inbox[a])]]
  /\ inbox' = [inbox EXCEPT ![a] = SubSeq(@, 1, Len(@) - 1)]
  /\ pc' = [pc EXCEPT ![a] = "starting"]
  /\ UNCHANGED <<mapVars, cancels, status, fired, callerVars>>

\* recv returns Some(job).
Receive(a) ==
  /\ pc[a] = "recv"
  /\ inbox[a] # <<>>
  /\ turn' = [turn EXCEPT ![a] = Head(inbox[a])]
  /\ inbox' = [inbox EXCEPT ![a] = Tail(@)]
  /\ pc' = [pc EXCEPT ![a] = "starting"]
  /\ UNCHANGED <<mapVars, cancels, status, fired, callerVars>>

\* recv returns None: the channel is empty and no sender is left.
SendersGone(a) ==
  /\ pc[a] = "recv"
  /\ inbox[a] = <<>>
  /\ ~HasSender(a)
  /\ pc' = [pc EXCEPT ![a] = "exited"]
  /\ UNCHANGED <<mapVars, cancels, inbox, turnVars, fired, callerVars>>

\* Mutant: only an actor without senders times out.
IdleElapsedDetached(a) ==
  /\ pc[a] = "recv"
  /\ inbox[a] = <<>>
  /\ ~HasSender(a)
  /\ pc' = [pc EXCEPT ![a] = "elapsed"]
  /\ UNCHANGED <<mapVars, cancels, inbox, turnVars, fired, callerVars>>

\* The idle timer wins: nothing to receive and the channel still open.
IdleElapsed(a) ==
  /\ pc[a] = "recv"
  /\ inbox[a] = <<>>
  /\ HasSender(a)
  /\ pc' = [pc EXCEPT ![a] = "elapsed"]
  /\ UNCHANGED <<mapVars, cancels, inbox, turnVars, fired, callerVars>>

\* Under the sessions lock: a straggler raced in first, process it.
TakeStraggler(a) ==
  /\ pc[a] = "elapsed"
  /\ inbox[a] # <<>>
  /\ turn' = [turn EXCEPT ![a] = Head(inbox[a])]
  /\ inbox' = [inbox EXCEPT ![a] = Tail(@)]
  /\ pc' = [pc EXCEPT ![a] = "starting"]
  /\ UNCHANGED <<mapVars, cancels, status, fired, callerVars>>

\* Mutant: the inbox is not looked at again under the lock.
ReapUnchecked(a) ==
  /\ pc[a] = "elapsed"
  /\ sessions' = [sessions EXCEPT ![owner[a]] = None]
  /\ pc' = [pc EXCEPT ![a] = "exited"]
  /\ UNCHANGED <<owner, cancels, inbox, turnVars, fired, callerVars>>

\* Mutant: the entry stays behind.
ReapKeepsEntry(a) ==
  /\ pc[a] = "elapsed"
  /\ inbox[a] = <<>>
  /\ pc' = [pc EXCEPT ![a] = "exited"]
  /\ UNCHANGED <<mapVars, cancels, inbox, turnVars, fired, callerVars>>

\* Under the sessions lock: nothing there, remove the session's entry and exit.
Reap(a) ==
  /\ pc[a] = "elapsed"
  /\ inbox[a] = <<>>
  /\ sessions' = [sessions EXCEPT ![owner[a]] = None]
  /\ pc' = [pc EXCEPT ![a] = "exited"]
  /\ UNCHANGED <<owner, cancels, inbox, turnVars, fired, callerVars>>

\* Mutant: the handler starts before its token is published.
RegisterNothing(a) ==
  /\ pc[a] = "starting"
  /\ pc' = [pc EXCEPT ![a] = "running"]
  /\ UNCHANGED <<mapVars, cancels, inbox, turnVars, fired, callerVars>>

\* process publishes the turn's token before it calls the handler.
Register(a) ==
  /\ pc[a] = "starting"
  /\ cancels' = [cancels EXCEPT ![owner[a]] = turn[a]]
  /\ pc' = [pc EXCEPT ![a] = "running"]
  /\ UNCHANGED <<mapVars, inbox, turnVars, fired, callerVars>>

\* The handler returns (a summary or a turn error) after its terminal events,
\* which it can deliver only to a receiver that drains them or has hung up.
HandlerReturns(a) ==
  /\ pc[a] = "running"
  /\ client[turn[a]] # "stalled"
  /\ pc' = [pc EXCEPT ![a] = "finishing"]
  /\ UNCHANGED <<mapVars, cancels, inbox, turnVars, fired, callerVars>>

\* Mutant: a panic is not caught and takes the task with it.
HandlerPanicEscapes(a) ==
  /\ pc[a] = "running"
  /\ pc' = [pc EXCEPT ![a] = "exited"]
  /\ UNCHANGED <<mapVars, cancels, inbox, turnVars, fired, callerVars>>

\* The handler panics, or the turn timeout elapses: terminate_stream follows.
HandlerAborts(a) ==
  /\ pc[a] = "running"
  /\ pc' = [pc EXCEPT ![a] = "terminating"]
  /\ UNCHANGED <<mapVars, cancels, inbox, turnVars, fired, callerVars>>

\* terminate_stream awaits the sink twice; no timeout covers these sends.
TerminateStream(a) ==
  /\ pc[a] = "terminating"
  /\ client[turn[a]] # "stalled"
  /\ pc' = [pc EXCEPT ![a] = "finishing"]
  /\ UNCHANGED <<mapVars, cancels, inbox, turnVars, fired, callerVars>>

\* Mutant: the token stays registered.
FinishKeepsToken(a) ==
  /\ pc[a] = "finishing"
  /\ status' = [status EXCEPT ![turn[a]] = "answered"]
  /\ turn' = [turn EXCEPT ![a] = None]
  /\ pc' = [pc EXCEPT ![a] = "recv"]
  /\ UNCHANGED <<mapVars, cancels, inbox, fired, callerVars>>

\* Deregister the token if it is still this turn's, and answer the ticket.
Finish(a) ==
  /\ pc[a] = "finishing"
  /\ cancels' = [cancels EXCEPT ![owner[a]] = IF @ = turn[a] THEN None ELSE @]
  /\ status' = [status EXCEPT ![turn[a]] = "answered"]
  /\ turn' = [turn EXCEPT ![a] = None]
  /\ pc' = [pc EXCEPT ![a] = "recv"]
  /\ UNCHANGED <<mapVars, inbox, fired, callerVars>>

-----------------------------------------------------------------------------
Caller ==
  \/ \E s \in Session, j \in Job : Submit(s, j)
  \/ \E s \in Session, j \in Job : TurnStop(s, j)
  \/ \E s \in Session : Resume(s) \/ RevokeFire(s) \/ RevokeRemove(s)
  \/ \E j \in Job : TicketCancel(j) \/ ClientStalls(j) \/ ClientMoves(j)

Task(a) ==
  \/ Receive(a) \/ SendersGone(a) \/ IdleElapsed(a)
  \/ TakeStraggler(a) \/ Reap(a)
  \/ Register(a) \/ HandlerReturns(a) \/ HandlerAborts(a)
  \/ TerminateStream(a) \/ Finish(a)

Next == Caller \/ \E a \in Actor : Task(a)

Spec == Init /\ [][Next]_vars

\* Tokio polls every runnable task and fires every timer, so a task that can
\* take a step takes one; the idle timer and the turn timeout are steps of Task.
\* A revoke that has begun runs to its end.  Callers promise nothing.
FairSpec ==
  /\ Spec
  /\ \A a \in Actor : WF_vars(Task(a))
  /\ \A s \in Session : WF_vars(RevokeRemove(s))

\* In addition, a receiver that stalls reads again or hangs up in the end.
\* (Strong fairness: a receiver may stall and recover any number of times.)
DrainingSpec ==
  /\ FairSpec
  /\ \A j \in Job : WF_vars(ClientMoves(j))
  /\ \A a \in Actor : SF_vars(TerminateStream(a))

=============================================================================
