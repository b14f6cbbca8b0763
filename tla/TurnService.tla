---------------------------- MODULE TurnService ----------------------------
(***************************************************************************)
(* What the session manager promises its callers, without actors, locks or *)
(* channels: a session has a queue of accepted turns and runs them one at a *)
(* time in the order of their acceptance; a turn is turned away only where  *)
(* a limit is reached; only an idle session is closed.                     *)
(***************************************************************************)
EXTENDS Naturals, Sequences, FiniteSets

CONSTANTS Session, Job, MaxSessions, InboxCapacity, None

VARIABLES
  open,     \* the sessions that are live
  waiting,  \* per session, the accepted turns that have not begun
  running,  \* per session, the turn being processed, or None
  status    \* what the submitter of a turn knows of it

vars == <<open, waiting, running, status>>

Init ==
  /\ open = {}
  /\ waiting = [s \in Session |-> <<>>]
  /\ running = [s \in Session |-> None]
  /\ status = [j \in Job |-> "new"]

\* There is room for the session, and in its queue for one more turn.
MayOpen(s) == s \in open \/ Cardinality(open) < MaxSessions
HasRoom(s) == MayOpen(s) /\ Len(waiting[s]) < InboxCapacity

\* A session is rebuilt without a turn.
Open(s) ==
  /\ s \notin open /\ MayOpen(s)
  /\ open' = open \cup {s}
  /\ UNCHANGED <<waiting, running, status>>

\* A turn is accepted: it queues behind what its session was given before.
Accept(s, j) ==
  /\ status[j] = "new" /\ HasRoom(s)
  /\ open' = open \cup {s}
  /\ waiting' = [waiting EXCEPT ![s] = Append(@, j)]
  /\ status' = [status EXCEPT ![j] = "accepted"]
  /\ UNCHANGED running

\* A turn is refused, at a limit and nowhere else; nothing of the session changes.
Refuse(s, j) ==
  /\ status[j] = "new" /\ ~HasRoom(s)
  /\ status' = [status EXCEPT ![j] = "refused"]
  /\ UNCHANGED <<open, waiting, running>>

\* The session's oldest turn begins, when no other of its turns is running.
Begin(s) ==
  /\ s \in open /\ running[s] = None /\ waiting[s] # <<>>
  /\ running' = [running EXCEPT ![s] = Head(waiting[s])]
  /\ waiting' = [waiting EXCEPT ![s] = Tail(@)]
  /\ UNCHANGED <<open, status>>

\* The running turn ends, and its submitter is answered.
Answer(s) ==
  /\ running[s] # None
  /\ status' = [status EXCEPT ![running[s]] = "answered"]
  /\ running' = [running EXCEPT ![s] = None]
  /\ UNCHANGED <<open, waiting>>

\* An idle session is reaped.
Close(s) ==
  /\ s \in open /\ running[s] = None /\ waiting[s] = <<>>
  /\ open' = open \ {s}
  /\ UNCHANGED <<waiting, running, status>>

Next ==
  \E s \in Session :
    \/ Open(s) \/ Begin(s) \/ Answer(s) \/ Close(s)
    \/ \E j \in Job : Accept(s, j) \/ Refuse(s, j)

Spec == Init /\ [][Next]_vars

=============================================================================
