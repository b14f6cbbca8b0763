--------------------------- MODULE SessionsProofs ---------------------------
(***************************************************************************)
(* TLAPS proofs about the session manager, for every number of sessions,   *)
(* turns and tasks, every cap and every inbox capacity.                    *)
(***************************************************************************)
EXTENDS SessionsProps, FiniteSetTheorems, SequenceTheorems, TLAPS

-----------------------------------------------------------------------------
(* Type correctness *)

\* Every step of a caller or of a task keeps the state well typed.
LEMMA TypeStep == TypeOK /\ [Next]_vars => TypeOK'
<1> SUFFICES ASSUME TypeOK, [Next]_vars PROVE TypeOK'
  OBVIOUS
<1> USE NoneAssumption DEF TypeOK, mapVars, turnVars, callerVars
<1>1. ASSUME NEW s \in Session, NEW j \in Job, Submit(s, j) PROVE TypeOK'
  <2>1. CASE SubmitToLive(s, j)
    BY <2>1 DEF SubmitToLive, Reachable
  <2>2. CASE SubmitToNew(s, j)
    <3>1. PICK a \in Actor : SpawnActor(s, a, <<j>>)
      BY <2>2 DEF SubmitToNew
    <3>2. <<j>> \in Seq(Job)
      OBVIOUS
    <3> QED BY <2>2, <3>1, <3>2 DEF SubmitToNew, SpawnActor
  <2>3. CASE SubmitRefused(s, j)
    BY <2>3 DEF SubmitRefused
  <2> QED BY <1>1, <2>1, <2>2, <2>3 DEF Submit
<1>2. ASSUME NEW s \in Session, Resume(s) PROVE TypeOK'
  <2>1. PICK a \in Actor : SpawnActor(s, a, <<>>)
    BY <1>2 DEF Resume
  <2>2. <<>> \in Seq(Job)
    OBVIOUS
  <2> QED BY <1>2, <2>1, <2>2 DEF Resume, SpawnActor
<1>3. ASSUME NEW s \in Session, RevokeFire(s) \/ RevokeRemove(s) PROVE TypeOK'
  BY <1>3 DEF RevokeFire, RevokeRemove
<1>4. ASSUME NEW s \in Session, NEW j \in Job, TurnStop(s, j) PROVE TypeOK'
  BY <1>4 DEF TurnStop
<1>5. ASSUME NEW j \in Job, TicketCancel(j) PROVE TypeOK'
  BY <1>5 DEF TicketCancel
<1>6. ASSUME NEW j \in Job, ClientStalls(j) \/ ClientMoves(j) PROVE TypeOK'
  <2>1. \E c \in {"reading", "stalled", "gone"} : client' = [client EXCEPT ![j] = c]
    BY <1>6 DEF ClientStalls, ClientMoves
  <2>2. UNCHANGED <<sessions, cancels, pc, owner, inbox, turn, status, fired, revoking>>
    BY <1>6 DEF ClientStalls, ClientMoves
  <2> QED BY <2>1, <2>2
<1>7. ASSUME NEW a \in Actor, Task(a) PROVE TypeOK'
  <2>1. CASE Receive(a) \/ TakeStraggler(a)
    <3>1. inbox[a] \in Seq(Job) /\ inbox[a] # <<>>
      BY <2>1 DEF Receive, TakeStraggler
    <3>2. Head(inbox[a]) \in Job /\ Tail(inbox[a]) \in Seq(Job)
      BY <3>1
    <3>3. /\ turn' = [turn EXCEPT ![a] = Head(inbox[a])]
          /\ inbox' = [inbox EXCEPT ![a] = Tail(inbox[a])]
          /\ pc' = [pc EXCEPT ![a] = "starting"]
          /\ UNCHANGED <<sessions, cancels, owner, status, fired, client, revoking>>
      BY <2>1 DEF Receive, TakeStraggler
    <3> QED BY <3>2, <3>3
  <2>2. CASE SendersGone(a) \/ IdleElapsed(a)
    BY <2>2 DEF SendersGone, IdleElapsed
  <2>3. CASE Reap(a)
    BY <2>3 DEF Reap
  <2>4. CASE Register(a)
    BY <2>4 DEF Register
  <2>5. CASE HandlerReturns(a) \/ HandlerAborts(a) \/ TerminateStream(a)
    BY <2>5 DEF HandlerReturns, HandlerAborts, TerminateStream
  <2>6. CASE Finish(a)
    BY <2>6 DEF Finish
  <2> QED BY <1>7, <2>1, <2>2, <2>3, <2>4, <2>5, <2>6 DEF Task
<1>8. CASE UNCHANGED vars
  BY <1>8 DEF vars
<1> QED BY <1>1, <1>2, <1>3, <1>4, <1>5, <1>6, <1>7, <1>8 DEF Next, Caller

\* Every reachable state of the manager is well typed.
THEOREM TypeCorrect == Spec => []TypeOK
<1>1. Init => TypeOK
  BY NoneAssumption DEF Init, TypeOK
<1> QED BY <1>1, TypeStep, PTL DEF Spec

-----------------------------------------------------------------------------
(* Tasks, entries and tokens *)

\* Initially no task exists, no entry and no token.
LEMMA TaskInit == Init => TaskInv
BY NoneAssumption DEF Init, TaskInv, TypeOK, TaskShape, EntryNamesLiveActor,
   TokenNamesTurnInFlight, InFlight

\* No step of a caller breaks what relates tasks, entries and tokens.
LEMMA CallerStep == TaskInv /\ Caller => TaskInv'
<1> SUFFICES ASSUME TaskInv, Caller PROVE TaskInv'
  OBVIOUS
<1>0. TypeOK'
  BY TypeStep DEF TaskInv, Next
<1> USE NoneAssumption DEF mapVars, turnVars, callerVars, InFlight, Alive
<1>1. ASSUME NEW s \in Session, NEW a \in Actor, NEW q,
             SpawnActor(s, a, q), UNCHANGED <<cancels, turn>>
      PROVE  TaskShape' /\ EntryNamesLiveActor' /\ TokenNamesTurnInFlight'
  <2>1. pc[a] = "unborn" /\ turn[a] = None
    BY <1>1 DEF TaskInv, TaskShape, TypeOK, SpawnActor
  <2>2. \A t \in Session : sessions[t] # a
    BY <2>1 DEF TaskInv, EntryNamesLiveActor
  <2>3. TaskShape'
    BY <1>1, <2>1 DEF TaskInv, TaskShape, TypeOK, SpawnActor
  <2>4. EntryNamesLiveActor'
    BY <1>1, <2>2 DEF TaskInv, EntryNamesLiveActor, TypeOK, SpawnActor
  <2>5. TokenNamesTurnInFlight'
    BY <1>1, <2>1 DEF TaskInv, TokenNamesTurnInFlight, TypeOK, SpawnActor
  <2> QED BY <2>3, <2>4, <2>5
\* A step that starts no task and takes entries away, if anything.
<1>2. ASSUME UNCHANGED <<pc, owner, turn, cancels>>,
             \A s \in Session : sessions'[s] \in {sessions[s], None}
      PROVE  TaskShape' /\ EntryNamesLiveActor' /\ TokenNamesTurnInFlight'
  BY <1>2 DEF TaskInv, TaskShape, EntryNamesLiveActor, TokenNamesTurnInFlight
<1>3. ASSUME NEW s \in Session, NEW j \in Job, Submit(s, j) PROVE TaskInv'
  <2>1. CASE SubmitToLive(s, j)
    BY <2>1, <1>0, <1>2 DEF SubmitToLive, TaskInv
  <2>2. CASE SubmitToNew(s, j)
    BY <2>2, <1>0, <1>1 DEF SubmitToNew, TaskInv
  <2>3. CASE SubmitRefused(s, j)
    BY <2>3, <1>0, <1>2 DEF SubmitRefused, TaskInv, TypeOK
  <2> QED BY <1>3, <2>1, <2>2, <2>3 DEF Submit
<1>4. ASSUME NEW s \in Session, Resume(s) PROVE TaskInv'
  BY <1>4, <1>0, <1>1 DEF Resume, TaskInv
<1>5. ASSUME NEW s \in Session, RevokeFire(s) \/ RevokeRemove(s) PROVE TaskInv'
  BY <1>5, <1>0, <1>2 DEF RevokeFire, RevokeRemove, TaskInv, TypeOK
<1>6. ASSUME NEW s \in Session, NEW j \in Job, TurnStop(s, j) PROVE TaskInv'
  BY <1>6, <1>0, <1>2 DEF TurnStop, TaskInv
<1>7. ASSUME NEW j \in Job, TicketCancel(j) \/ ClientStalls(j) \/ ClientMoves(j)
      PROVE  TaskInv'
  BY <1>7, <1>0, <1>2 DEF TicketCancel, ClientStalls, ClientMoves, TaskInv
<1> QED BY <1>3, <1>4, <1>5, <1>6, <1>7 DEF Caller

\* No step of a task breaks what relates tasks, entries and tokens.
LEMMA TaskStep == ASSUME NEW a \in Actor, TaskInv, Task(a) PROVE TaskInv'
<1>0. TypeOK'
  BY TypeStep DEF TaskInv, Next
<1>1. owner[a] \in Session
  BY DEF TaskInv, TaskShape, Task, Receive, SendersGone, IdleElapsed, TakeStraggler,
         Reap, Register, HandlerReturns, HandlerAborts, TerminateStream, Finish
<1> USE NoneAssumption DEF mapVars, turnVars, callerVars, InFlight, Alive
\* Only Reap touches the map, and only a task that is not in the map exits.
<1>2. EntryNamesLiveActor'
  <2>1. CASE Reap(a)
    BY <2>1, <1>1 DEF Reap, TaskInv, EntryNamesLiveActor, TypeOK
  <2>2. CASE SendersGone(a)
    BY <2>2 DEF SendersGone, HasSender, TaskInv, EntryNamesLiveActor, TypeOK
  <2>3. CASE ~Reap(a) /\ ~SendersGone(a)
    <3>1. /\ UNCHANGED <<sessions, owner>>
          /\ \E q \in {"recv", "elapsed", "starting", "running", "terminating",
                       "finishing"} : pc' = [pc EXCEPT ![a] = q]
      BY <2>3 DEF Task, Receive, IdleElapsed, TakeStraggler, Register,
                  HandlerReturns, HandlerAborts, TerminateStream, Finish
    <3> QED BY <3>1 DEF TaskInv, EntryNamesLiveActor, TypeOK
  <2> QED BY <2>1, <2>2, <2>3
<1>3. TaskShape'
  <2>1. CASE Receive(a) \/ TakeStraggler(a)
    <3>1. Head(inbox[a]) \in Job
      <4>1. inbox[a] \in Seq(Job) /\ inbox[a] # <<>>
        BY <2>1 DEF Receive, TakeStraggler, TaskInv, TypeOK
      <4> QED BY <4>1
    <3>2. /\ turn' = [turn EXCEPT ![a] = Head(inbox[a])]
          /\ pc' = [pc EXCEPT ![a] = "starting"]
          /\ UNCHANGED owner
      BY <2>1 DEF Receive, TakeStraggler
    <3> QED BY <3>1, <3>2, <1>1 DEF TaskInv, TaskShape, TypeOK
  <2>2. CASE Finish(a)
    BY <2>2, <1>1 DEF Finish, TaskInv, TaskShape, TypeOK
  <2>3. CASE SendersGone(a) \/ IdleElapsed(a) \/ Reap(a)
    <3>1. /\ pc[a] \in {"recv", "elapsed"}
          /\ \E q \in {"elapsed", "exited"} : pc' = [pc EXCEPT ![a] = q]
          /\ UNCHANGED <<owner, turn>>
      BY <2>3 DEF SendersGone, IdleElapsed, Reap
    <3> QED BY <3>1, <1>1 DEF TaskInv, TaskShape, TypeOK
  <2>4. CASE Register(a)
    BY <2>4, <1>1 DEF Register, TaskInv, TaskShape, TypeOK
  <2>5. CASE HandlerReturns(a) \/ HandlerAborts(a) \/ TerminateStream(a)
    BY <2>5, <1>1 DEF HandlerReturns, HandlerAborts, TerminateStream, TaskInv, TaskShape, TypeOK
  <2> QED BY <2>1, <2>2, <2>3, <2>4, <2>5 DEF Task
\* A token is registered by the turn it names and removed when that turn ends.
<1>4. TokenNamesTurnInFlight'
  <2>1. CASE Register(a)
    BY <2>1, <1>1 DEF Register, TaskInv, TaskShape, TokenNamesTurnInFlight, TypeOK
  <2>2. CASE Finish(a)
    <3> SUFFICES ASSUME NEW s \in Session, cancels'[s] # None
                 PROVE  \E b \in Actor : /\ owner'[b] = s /\ InFlight(b)'
                                         /\ turn'[b] = cancels'[s]
      BY DEF TokenNamesTurnInFlight
    <3>1. cancels'[s] = cancels[s] /\ ~(s = owner[a] /\ cancels[s] = turn[a])
      BY <2>2, <1>1 DEF Finish, TaskInv, TypeOK
    <3>2. PICK b \in Actor : owner[b] = s /\ InFlight(b) /\ turn[b] = cancels[s]
      BY <3>1 DEF TaskInv, TokenNamesTurnInFlight
    <3>3. b # a
      BY <3>1, <3>2
    <3> QED BY <2>2, <3>1, <3>2, <3>3 DEF Finish, TaskInv, TypeOK
  <2>3. ASSUME UNCHANGED cancels,
               \A b \in Actor : InFlight(b) =>
                 InFlight(b)' /\ turn'[b] = turn[b] /\ owner'[b] = owner[b]
        PROVE  TokenNamesTurnInFlight'
    BY <2>3 DEF TaskInv, TokenNamesTurnInFlight
  <2>4. CASE HandlerReturns(a) \/ HandlerAborts(a) \/ TerminateStream(a)
    BY <2>3, <2>4 DEF HandlerReturns, HandlerAborts, TerminateStream, TaskInv, TypeOK
  <2>5. CASE Receive(a) \/ TakeStraggler(a)
    <3>1. /\ turn' = [turn EXCEPT ![a] = Head(inbox[a])]
          /\ pc' = [pc EXCEPT ![a] = "starting"]
          /\ UNCHANGED <<owner, cancels>>
          /\ ~InFlight(a)
      BY <2>5 DEF Receive, TakeStraggler
    <3>2. ASSUME NEW b \in Actor, InFlight(b)
          PROVE  InFlight(b)' /\ turn'[b] = turn[b] /\ owner'[b] = owner[b]
      BY <3>1, <3>2 DEF TaskInv, TypeOK
    <3> QED BY <2>3, <3>1, <3>2
  <2>6. CASE SendersGone(a) \/ IdleElapsed(a) \/ Reap(a)
    BY <2>3, <2>6 DEF SendersGone, IdleElapsed, Reap, TaskInv, TypeOK
  <2> QED BY <2>1, <2>2, <2>4, <2>5, <2>6 DEF Task
<1> QED BY <1>0, <1>2, <1>3, <1>4 DEF TaskInv

\* TaskInv is inductive.
LEMMA TaskInductive == Spec => []TaskInv
<1>1. TaskInv /\ [Next]_vars => TaskInv'
  <2> SUFFICES ASSUME TaskInv, [Next]_vars PROVE TaskInv'
    OBVIOUS
  <2>1. CASE UNCHANGED vars
    BY <2>1 DEF vars, TaskInv, TypeOK, TaskShape, EntryNamesLiveActor,
                TokenNamesTurnInFlight, InFlight, Alive
  <2> QED BY <2>1, CallerStep, TaskStep DEF Next
<1> QED BY <1>1, TaskInit, PTL DEF Spec

\* Whatever is revoked, reaped or refused, an entry of the live map names a task
\* that still receives: submit never sends into a channel about to be dropped.
THEOREM EntriesLive == Spec => []EntryNamesLiveActor
<1>1. TaskInv => EntryNamesLiveActor
  BY DEF TaskInv
<1> QED BY <1>1, TaskInductive, PTL

\* A registered token is the token of a turn in flight of its session: no stale
\* token outlives its turn, even when two tasks of a revoked session overlap.
THEOREM TokensLive == Spec => []TokenNamesTurnInFlight
<1>1. TaskInv => TokenNamesTurnInFlight
  BY DEF TaskInv
<1> QED BY <1>1, TaskInductive, PTL

-----------------------------------------------------------------------------
(* Serial execution, while no session is revoked *)

\* Without revocation no step leaves a task behind that the map does not name.
LEMMA MappedStep ==
  ASSUME Revocable = {}, TaskInv, EveryTaskIsMapped, [Next]_vars
  PROVE  EveryTaskIsMapped'
<1> USE NoneAssumption DEF mapVars, turnVars, callerVars, Alive
\* A session submit or resume spawns for has no task.
<1>1. ASSUME NEW s \in Session, ~Reachable(s)
      PROVE  sessions[s] = None /\ \A b \in Actor : Alive(b) => owner[b] # s
  BY <1>1 DEF Reachable, Closed, TaskInv, TypeOK, EntryNamesLiveActor, EveryTaskIsMapped
<1>2. ASSUME NEW s \in Session, NEW a \in Actor, NEW q,
             ~Reachable(s), SpawnActor(s, a, q)
      PROVE  EveryTaskIsMapped'
  BY <1>1, <1>2 DEF SpawnActor, EveryTaskIsMapped, TaskInv, TypeOK
\* A step that starts no task and removes no entry.
<1>3. ASSUME UNCHANGED <<pc, owner, sessions>> PROVE EveryTaskIsMapped'
  BY <1>3 DEF EveryTaskIsMapped
<1>4. ASSUME NEW s \in Session, NEW j \in Job, Submit(s, j) PROVE EveryTaskIsMapped'
  <2>1. CASE SubmitToLive(s, j)
    BY <2>1, <1>3 DEF SubmitToLive
  <2>2. CASE SubmitToNew(s, j)
    BY <2>2, <1>2 DEF SubmitToNew
  <2>3. CASE SubmitRefused(s, j)
    <3>1. UNCHANGED <<pc, owner>> /\ sessions' = sessions
      BY <2>3, <1>1 DEF SubmitRefused, TaskInv, TypeOK
    <3> QED BY <3>1, <1>3
  <2> QED BY <1>4, <2>1, <2>2, <2>3 DEF Submit
<1>5. ASSUME NEW s \in Session, Resume(s) PROVE EveryTaskIsMapped'
  BY <1>5, <1>2 DEF Resume, Reachable
<1>6. ASSUME NEW s \in Session, RevokeFire(s) \/ RevokeRemove(s)
      PROVE  EveryTaskIsMapped'
  BY <1>6, <1>3 DEF RevokeFire, RevokeRemove, TaskInv, TypeOK
<1>7. ASSUME NEW s \in Session, NEW j \in Job, TurnStop(s, j)
      PROVE  EveryTaskIsMapped'
  BY <1>7, <1>3 DEF TurnStop
<1>8. ASSUME NEW a \in Actor, Task(a) PROVE EveryTaskIsMapped'
  <2>1. CASE Reap(a)
    BY <2>1 DEF Reap, EveryTaskIsMapped, TaskInv, TypeOK, TaskShape
  <2>2. CASE ~Reap(a)
    <3>1. /\ UNCHANGED <<sessions, owner>>
          /\ Alive(a)
          /\ \E p : pc' = [pc EXCEPT ![a] = p]
      BY <2>2, <1>8 DEF Task, Receive, SendersGone, IdleElapsed, TakeStraggler,
         Register, HandlerReturns, HandlerAborts, TerminateStream, Finish
    <3> QED BY <3>1 DEF EveryTaskIsMapped, TaskInv, TypeOK
  <2> QED BY <2>1, <2>2
<1>9. CASE UNCHANGED vars
  BY <1>9, <1>3 DEF vars
<1>10. ASSUME NEW j \in Job, TicketCancel(j) \/ ClientStalls(j) \/ ClientMoves(j)
       PROVE  EveryTaskIsMapped'
  BY <1>10, <1>3 DEF TicketCancel, ClientStalls, ClientMoves
<1> QED BY <1>4, <1>5, <1>6, <1>7, <1>8, <1>9, <1>10 DEF Next, Caller

\* While no session is revoked the live map knows every task: a task that exists is the one its
\* session's entry names, so the cap on the map is a cap on tasks.
THEOREM TasksAreMapped ==
  ASSUME Revocable = {}
  PROVE  Spec => []EveryTaskIsMapped
<1>1. Init => EveryTaskIsMapped
  BY DEF Init, EveryTaskIsMapped, Alive
<1>2. TaskInv /\ EveryTaskIsMapped /\ [Next]_vars => EveryTaskIsMapped'
  BY MappedStep
<1> QED BY <1>1, <1>2, TaskInductive, PTL DEF Spec

\* While no session is revoked, each session's turns run serially: two tasks of
\* one session never both have a turn in hand, for every interleaving of submit,
\* resume, idle reaping, panics and timeouts.
THEOREM Serial ==
  ASSUME Revocable = {}
  PROVE  Spec => []SerialPerSession
<1>1. TaskInv /\ EveryTaskIsMapped => SerialPerSession
  <2> SUFFICES ASSUME TaskInv, EveryTaskIsMapped, NEW a \in Actor, NEW b \in Actor,
                      owner[a] = owner[b], turn[a] # None, turn[b] # None
               PROVE  a = b
    BY DEF SerialPerSession
  <2>1. Alive(a) /\ Alive(b)
    BY DEF TaskInv, TaskShape, Alive, InFlight
  <2> QED BY <2>1 DEF EveryTaskIsMapped
<1> QED BY <1>1, TasksAreMapped, TaskInductive, PTL

\* Without revocation the token of a turn in flight stays with it: nobody else registers
\* or removes a token of its session.
LEMMA StoppableStep ==
  ASSUME TaskInv, EveryTaskIsMapped, TurnInFlightIsStoppable, [Next]_vars
  PROVE  TurnInFlightIsStoppable'
<1> USE NoneAssumption DEF mapVars, turnVars, callerVars, InFlight
\* A step that leaves the tokens, and the turns in flight, as they are.
<1>1. ASSUME UNCHANGED cancels,
             \A b \in Actor : InFlight(b)' =>
               InFlight(b) /\ turn'[b] = turn[b] /\ owner'[b] = owner[b]
      PROVE  TurnInFlightIsStoppable'
  BY <1>1 DEF TurnInFlightIsStoppable
<1>2. ASSUME NEW s \in Session, NEW a \in Actor, NEW q,
             SpawnActor(s, a, q), UNCHANGED <<cancels, turn>>
      PROVE  TurnInFlightIsStoppable'
  BY <1>1, <1>2 DEF SpawnActor, TaskInv, TypeOK
<1>3. CASE Caller
  <2>1. ASSUME NEW s \in Session, NEW j \in Job, SubmitToNew(s, j)
        PROVE  TurnInFlightIsStoppable'
    BY <2>1, <1>2 DEF SubmitToNew
  <2>2. ASSUME NEW s \in Session, Resume(s) PROVE TurnInFlightIsStoppable'
    BY <2>2, <1>2 DEF Resume
  <2>3. ASSUME UNCHANGED <<cancels, pc, turn, owner>> PROVE TurnInFlightIsStoppable'
    BY <2>3, <1>1
  <2> QED BY <1>3, <2>1, <2>2, <2>3 DEF Caller, Submit, SubmitToLive, SubmitRefused, TurnStop,
             RevokeFire, RevokeRemove, TicketCancel, ClientStalls, ClientMoves
<1>4. ASSUME NEW a \in Actor, Task(a) PROVE TurnInFlightIsStoppable'
  <2>1. owner[a] \in Session /\ Alive(a)
    BY <1>4 DEF TaskInv, TaskShape, Alive, Task, Receive, SendersGone, IdleElapsed, TakeStraggler,
           Reap, Register, HandlerReturns, HandlerAborts, TerminateStream, Finish
  <2>2. \A b \in Actor : InFlight(b) /\ b # a => owner[b] \in Session /\ owner[b] # owner[a]
    BY <2>1 DEF EveryTaskIsMapped, TaskInv, TaskShape, Alive
  <2>3. CASE Register(a)
    BY <2>1, <2>2, <2>3 DEF Register, TurnInFlightIsStoppable, TaskInv, TypeOK
  <2>4. CASE Finish(a)
    BY <2>1, <2>2, <2>4 DEF Finish, TurnInFlightIsStoppable, TaskInv, TypeOK
  <2>5. CASE Receive(a) \/ TakeStraggler(a)
    <3>1. /\ turn' = [turn EXCEPT ![a] = Head(inbox[a])]
          /\ pc' = [pc EXCEPT ![a] = "starting"]
          /\ UNCHANGED <<owner, cancels>>
      BY <2>5 DEF Receive, TakeStraggler
    <3> QED BY <3>1, <1>1 DEF TaskInv, TypeOK
  <2>6. CASE \/ SendersGone(a) \/ IdleElapsed(a) \/ Reap(a) \/ HandlerReturns(a)
             \/ HandlerAborts(a) \/ TerminateStream(a)
    BY <2>6, <1>1 DEF SendersGone, IdleElapsed, Reap, HandlerReturns, HandlerAborts,
       TerminateStream, TaskInv, TypeOK
  <2> QED BY <1>4, <2>3, <2>4, <2>5, <2>6 DEF Task
<1>5. CASE UNCHANGED vars
  BY <1>5, <1>1 DEF vars
<1> QED BY <1>3, <1>4, <1>5 DEF Next

\* While no session is revoked, every turn in flight can be stopped: its session's token
\* is its own from the call of the handler to the answer.
THEOREM Stoppable ==
  ASSUME Revocable = {}
  PROVE  Spec => []TurnInFlightIsStoppable
<1>1. Init => EveryTaskIsMapped /\ TurnInFlightIsStoppable
  BY DEF Init, EveryTaskIsMapped, TurnInFlightIsStoppable, Alive, InFlight
<1>2. TaskInv /\ EveryTaskIsMapped /\ [Next]_vars => EveryTaskIsMapped'
  BY MappedStep
<1>3. TaskInv /\ EveryTaskIsMapped /\ TurnInFlightIsStoppable /\ [Next]_vars
        => TurnInFlightIsStoppable'
  BY StoppableStep
<1> QED BY <1>1, <1>2, <1>3, TaskInductive, PTL DEF Spec

-----------------------------------------------------------------------------
(* No turn is lost *)

\* A step that touches no inbox, no turn in hand and no ticket keeps every turn in its
\* place, provided the tasks that leave hold nothing.
LEMMA HeldStutter ==
  ASSUME TurnsHeld, UNCHANGED <<inbox, turn, status>>,
         \A a \in Actor : Alive(a) /\ inbox[a] # <<>> => Alive(a)'
  PROVE  TurnsHeld'
<1>1. \A a \in Actor : \A i \in 1..Len(inbox[a]) : Alive(a)'
  <2> SUFFICES ASSUME NEW a \in Actor, NEW i \in 1..Len(inbox[a]) PROVE Alive(a)'
    OBVIOUS
  <2>1. inbox[a] # <<>>
    BY EmptySeq
  <2> QED BY <2>1 DEF TurnsHeld
<1> QED BY <1>1 DEF TurnsHeld

\* An accepted turn gets one place: behind what the inbox of a live task holds.
LEMMA HeldAppend ==
  ASSUME NEW a \in Actor, NEW j \in Job, TypeOK, TurnsHeld, status[j] = "new",
         inbox' = [inbox EXCEPT ![a] = Append(inbox[a], j)],
         status' = [status EXCEPT ![j] = "accepted"],
         UNCHANGED turn,
         Alive(a)', \A b \in Actor : Alive(b) => Alive(b)'
  PROVE  TurnsHeld'
<1> DEFINE n == Len(inbox[a])
<1>1. /\ inbox[a] \in Seq(Job) /\ n \in Nat
      /\ Len(inbox'[a]) = n + 1 /\ inbox'[a][n + 1] = j
      /\ \A i \in 1..n : inbox'[a][i] = inbox[a][i]
  BY AppendProperties, LenProperties DEF TypeOK
<1>2. \A b \in Actor : b # a => inbox'[b] = inbox[b]
  BY DEF TypeOK
<1> HIDE DEF n
\* Nothing held before is the turn that comes in.
<1>3. /\ \A b \in Actor : \A i \in 1..Len(inbox[b]) : inbox[b][i] # j /\ inbox[b][i] \in Job
      /\ \A b \in Actor : turn[b] # j
  <2>1. \A b \in Actor : \A i \in 1..Len(inbox[b]) : inbox[b][i] \in Job
    BY ElementOfSeq DEF TypeOK
  <2> QED BY <2>1, NoneAssumption DEF TurnsHeld, TypeOK
\* A place after the step is a place before it, or the new one.
<1>4. \A b \in Actor : \A i \in 1..Len(inbox'[b]) :
        \/ b = a /\ i = n + 1 /\ inbox'[b][i] = j
        \/ i \in 1..Len(inbox[b]) /\ inbox'[b][i] = inbox[b][i]
  BY <1>1, <1>2 DEF n
<1>5. \A b \in Actor : \A i \in 1..Len(inbox[b]) :
        i \in 1..Len(inbox'[b]) /\ inbox'[b][i] = inbox[b][i]
  BY <1>1, <1>2 DEF n
<1>6. \A b \in Actor : \A i \in 1..Len(inbox'[b]) :
        Alive(b)' /\ status'[inbox'[b][i]] = "accepted"
  BY <1>3, <1>4 DEF TurnsHeld, TypeOK
<1>7. \A b \in Actor : turn'[b] # None => status'[turn'[b]] = "accepted"
  BY <1>3 DEF TurnsHeld, TypeOK
<1>8. ASSUME NEW k \in Job, status'[k] = "accepted"
      PROVE  \E b \in Actor :
               turn'[b] = k \/ \E i \in 1..Len(inbox'[b]) : inbox'[b][i] = k
  <2>1. CASE k = j
    <3>1. n + 1 \in 1..Len(inbox'[a]) /\ inbox'[a][n + 1] = k
      BY <1>1, <2>1
    <3> QED BY <3>1
  <2>2. CASE k # j
    <3>1. status[k] = "accepted"
      BY <2>2, <1>8 DEF TypeOK
    <3>2. PICK b \in Actor : turn[b] = k \/ \E i \in 1..Len(inbox[b]) : inbox[b][i] = k
      BY <3>1 DEF TurnsHeld
    <3> QED BY <3>2, <1>5
  <2> QED BY <2>1, <2>2
<1>9. ASSUME NEW b \in Actor, NEW c \in Actor,
             NEW i \in 1..Len(inbox'[b]), NEW k \in 1..Len(inbox'[c]),
             inbox'[b][i] = inbox'[c][k]
      PROVE  b = c /\ i = k
  BY <1>3, <1>4, <1>9 DEF TurnsHeld
<1>10. ASSUME NEW b \in Actor, NEW c \in Actor, NEW i \in 1..Len(inbox'[b])
       PROVE  inbox'[b][i] # turn'[c]
  BY <1>3, <1>4 DEF TurnsHeld
<1> QED BY <1>6, <1>7, <1>8, <1>9, <1>10 DEF TurnsHeld

\* A received turn moves from the head of its inbox into the task's hands.
LEMMA HeldReceive ==
  ASSUME NEW a \in Actor, TypeOK, TurnsHeld, turn[a] = None, inbox[a] # <<>>,
         inbox' = [inbox EXCEPT ![a] = Tail(inbox[a])],
         turn' = [turn EXCEPT ![a] = Head(inbox[a])],
         UNCHANGED status, \A b \in Actor : Alive(b) => Alive(b)'
  PROVE  TurnsHeld'
<1> DEFINE n == Len(inbox[a])
<1>1. /\ inbox[a] \in Seq(Job) /\ n \in Nat \ {0}
      /\ Len(inbox'[a]) = n - 1 /\ turn'[a] = inbox[a][1]
      /\ \A i \in 1..(n - 1) : inbox'[a][i] = inbox[a][i + 1]
  <2>1. inbox[a] \in Seq(Job) /\ inbox'[a] = Tail(inbox[a]) /\ turn'[a] = Head(inbox[a])
    BY DEF TypeOK
  <2>2. n \in Nat \ {0}
    BY <2>1, EmptySeq
  <2>3. Head(inbox[a]) = inbox[a][1] /\ Len(Tail(inbox[a])) = n - 1
    BY <2>1, HeadTailProperties
  <2>4. \A i \in 1..(n - 1) : Tail(inbox[a])[i] = inbox[a][i + 1]
    BY <2>1, <2>2
  <2> QED BY <2>1, <2>2, <2>3, <2>4
<1>2. \A b \in Actor : b # a => inbox'[b] = inbox[b] /\ turn'[b] = turn[b]
  BY DEF TypeOK
<1> HIDE DEF n
<1> DEFINE old(b, i) == IF b = a THEN i + 1 ELSE i
\* A place after the step is a place before it, and not the head of a's inbox.
<1>3. \A b \in Actor : \A i \in 1..Len(inbox'[b]) :
        /\ i \in Nat
        /\ old(b, i) \in 1..Len(inbox[b]) /\ inbox'[b][i] = inbox[b][old(b, i)]
        /\ b = a => old(b, i) # 1
  BY <1>1, <1>2 DEF n
<1>4. 1 \in 1..Len(inbox[a])
  BY <1>1 DEF n
<1>5. turn'[a] \in Job /\ turn'[a] # None
  BY <1>1, <1>4, ElementOfSeq, NoneAssumption DEF TypeOK
<1>6. \A b, c \in Actor : \A i \in 1..Len(inbox'[b]) : \A k \in 1..Len(inbox'[c]) :
        b = c /\ old(b, i) = old(c, k) => i = k
  BY <1>3
<1>7. ASSUME NEW k \in Job, status'[k] = "accepted"
      PROVE  \E b \in Actor :
               turn'[b] = k \/ \E i \in 1..Len(inbox'[b]) : inbox'[b][i] = k
  <2>1. CASE \E b \in Actor : turn[b] = k
    BY <2>1, <1>2, NoneAssumption
  <2>2. CASE \E b \in Actor : \E i \in 1..Len(inbox[b]) : inbox[b][i] = k
    <3>1. PICK b \in Actor : \E i \in 1..Len(inbox[b]) : inbox[b][i] = k
      BY <2>2
    <3>0. PICK i \in 1..Len(inbox[b]) : inbox[b][i] = k
      BY <3>1
    <3>2. CASE b # a
      BY <3>0, <3>2, <1>2
    <3>3. CASE b = a /\ i = 1
      BY <3>0, <3>3, <1>1
    <3>4. CASE b = a /\ i # 1
      <4>1. i - 1 \in 1..Len(inbox'[a]) /\ inbox'[a][i - 1] = k
        BY <3>0, <3>4, <1>1 DEF n
      <4> QED BY <4>1
    <3> QED BY <3>2, <3>3, <3>4
  <2> QED BY <1>7, <2>1, <2>2 DEF TurnsHeld
<1> HIDE DEF old
<1>8. \A b \in Actor : \A i \in 1..Len(inbox'[b]) :
        Alive(b)' /\ status'[inbox'[b][i]] = "accepted"
  BY <1>3 DEF TurnsHeld
<1>9. \A b \in Actor : turn'[b] # None => status'[turn'[b]] = "accepted"
  BY <1>1, <1>2, <1>4 DEF TurnsHeld
<1>10. ASSUME NEW b \in Actor, NEW c \in Actor,
              NEW i \in 1..Len(inbox'[b]), NEW k \in 1..Len(inbox'[c]),
              inbox'[b][i] = inbox'[c][k]
       PROVE  b = c /\ i = k
  BY <1>3, <1>6, <1>10 DEF TurnsHeld
<1>11. ASSUME NEW b \in Actor, NEW c \in Actor, NEW i \in 1..Len(inbox'[b])
       PROVE  inbox'[b][i] # turn'[c]
  <2>1. CASE c = a
    BY <2>1, <1>1, <1>3, <1>4 DEF TurnsHeld
  <2>2. CASE c # a
    BY <2>2, <1>2, <1>3 DEF TurnsHeld
  <2> QED BY <2>1, <2>2
<1>12. ASSUME NEW b \in Actor, NEW c \in Actor, turn'[b] = turn'[c], turn'[b] # None
       PROVE  b = c
  BY <1>1, <1>2, <1>4, <1>12 DEF TurnsHeld
<1> QED BY <1>7, <1>8, <1>9, <1>10, <1>11, <1>12 DEF TurnsHeld

\* A finished turn has no place left, and its ticket is answered.
LEMMA HeldFinish ==
  ASSUME NEW a \in Actor, TypeOK, TurnsHeld, turn[a] # None,
         status' = [status EXCEPT ![turn[a]] = "answered"],
         turn' = [turn EXCEPT ![a] = None],
         UNCHANGED inbox, \A b \in Actor : Alive(b) => Alive(b)'
  PROVE  TurnsHeld'
<1>1. \A b \in Actor : turn'[b] = IF b = a THEN None ELSE turn[b]
  BY DEF TypeOK
<1>2. \A j \in Job : status'[j] = IF j = turn[a] THEN "answered" ELSE status[j]
  BY DEF TypeOK
<1>3. \A b \in Actor : \A i \in 1..Len(inbox[b]) :
        inbox[b][i] \in Job /\ inbox[b][i] # None /\ inbox[b][i] # turn[a]
  BY ElementOfSeq, NoneAssumption DEF TypeOK, TurnsHeld
<1>4. \A b \in Actor : b # a => turn[b] # turn[a]
  BY DEF TurnsHeld
<1>5. \A b \in Actor : \A i \in 1..Len(inbox[b]) :
        Alive(b)' /\ status'[inbox[b][i]] = "accepted"
  BY <1>2, <1>3 DEF TurnsHeld
<1>6. \A b \in Actor : turn'[b] # None => status'[turn'[b]] = "accepted"
  BY <1>1, <1>2, <1>4 DEF TurnsHeld, TypeOK
<1>7. ASSUME NEW k \in Job, status'[k] = "accepted"
      PROVE  \E b \in Actor :
               turn'[b] = k \/ \E i \in 1..Len(inbox[b]) : inbox[b][i] = k
  <2>1. status[k] = "accepted" /\ k # turn[a]
    BY <1>2, <1>7
  <2>2. PICK b \in Actor : turn[b] = k \/ \E i \in 1..Len(inbox[b]) : inbox[b][i] = k
    BY <2>1 DEF TurnsHeld
  <2> QED BY <2>1, <2>2, <1>1
<1>8. \A b, c \in Actor : \A i \in 1..Len(inbox[b]) : inbox[b][i] # turn'[c]
  BY <1>1, <1>3 DEF TurnsHeld
<1>9. \A b, c \in Actor : turn'[b] = turn'[c] /\ turn'[b] # None => b = c
  BY <1>1 DEF TurnsHeld
<1>10. \A b, c \in Actor : \A i \in 1..Len(inbox[b]) : \A k \in 1..Len(inbox[c]) :
         inbox[b][i] = inbox[c][k] => b = c /\ i = k
  BY DEF TurnsHeld
<1> QED BY <1>5, <1>6, <1>7, <1>8, <1>9, <1>10 DEF TurnsHeld

\* Only a refusal changes a ticket of no task: that of a turn nobody holds.
LEMMA HeldRefused ==
  ASSUME NEW j \in Job, TypeOK, TurnsHeld, status[j] = "new",
         status' = [status EXCEPT ![j] = "refused"], UNCHANGED <<pc, inbox, turn>>
  PROVE  TurnsHeld'
<1>1. \A k \in Job : /\ status'[k] = "accepted" => status[k] = "accepted"
                     /\ status[k] = "accepted" => status'[k] = "accepted"
  BY DEF TypeOK
<1>2. \A b \in Actor : \A i \in 1..Len(inbox[b]) : inbox[b][i] \in Job
  BY ElementOfSeq DEF TypeOK
<1>3. \A b \in Actor : turn[b] # None => turn[b] \in Job
  BY DEF TypeOK
<1>4. \A b \in Actor : \A i \in 1..Len(inbox[b]) :
        Alive(b)' /\ status'[inbox[b][i]] = "accepted"
  BY <1>1, <1>2 DEF TurnsHeld, Alive
<1> QED BY <1>1, <1>3, <1>4 DEF TurnsHeld

\* Every step keeps every accepted turn in its one place: what leaves the map or exits
\* holds nothing, since the inbox is looked at again under the lock of submit.
LEMMA TurnsHeldStep ==
  TaskInv /\ TurnsHeld /\ [Next]_vars => TurnsHeld'
<1> SUFFICES ASSUME TaskInv, TurnsHeld, [Next]_vars PROVE TurnsHeld'
  OBVIOUS
<1> USE DEF mapVars, turnVars, callerVars
<1>0. TypeOK
  BY DEF TaskInv
<1>1. ASSUME NEW a \in Actor, ~Alive(a) PROVE inbox[a] = <<>>
  <2>1. Len(inbox[a]) \in Nat /\ \A i \in 1..Len(inbox[a]) : FALSE
    BY <1>0, <1>1, LenProperties DEF TurnsHeld, TypeOK
  <2>2. Len(inbox[a]) = 0
    BY <2>1
  <2> QED BY <1>0, <2>2 DEF TypeOK
<1>2. ASSUME NEW s \in Session, NEW j \in Job, Submit(s, j) PROVE TurnsHeld'
  <2>1. CASE SubmitToLive(s, j)
    <3>1. PICK a \in Actor : a = sessions[s] /\ Alive(a)
      BY <2>1, <1>0, NoneAssumption
         DEF SubmitToLive, Reachable, TaskInv, EntryNamesLiveActor, TypeOK
    <3>2. /\ status[j] = "new"
          /\ inbox' = [inbox EXCEPT ![a] = Append(inbox[a], j)]
          /\ status' = [status EXCEPT ![j] = "accepted"]
          /\ turn' = turn /\ pc' = pc
      BY <2>1, <3>1 DEF SubmitToLive
    <3>3. Alive(a)' /\ \A b \in Actor : Alive(b) => Alive(b)'
      BY <3>1, <3>2 DEF Alive
    <3> QED BY <3>1, <3>2, <3>3, <1>0, HeldAppend
  <2>2. CASE SubmitToNew(s, j)
    <3>1. PICK a \in Actor : SpawnActor(s, a, <<j>>)
      BY <2>2 DEF SubmitToNew
    <3>2. inbox[a] = <<>> /\ Append(<<>>, j) = <<j>>
      BY <3>1, <1>1 DEF SpawnActor, Alive
    <3>3. Alive(a)' /\ \A b \in Actor : Alive(b) => Alive(b)'
      BY <3>1, <1>0 DEF SpawnActor, Alive, TypeOK
    <3>4. /\ status[j] = "new" /\ UNCHANGED turn
          /\ inbox' = [inbox EXCEPT ![a] = Append(inbox[a], j)]
          /\ status' = [status EXCEPT ![j] = "accepted"]
      BY <2>2, <3>1, <3>2 DEF SubmitToNew, SpawnActor
    <3> QED BY <3>3, <3>4, <1>0, HeldAppend
  <2>3. CASE SubmitRefused(s, j)
    BY <2>3, <1>0, HeldRefused DEF SubmitRefused
  <2> QED BY <1>2, <2>1, <2>2, <2>3 DEF Submit
<1>3. ASSUME NEW s \in Session, Resume(s) PROVE TurnsHeld'
  <2>1. PICK a \in Actor : SpawnActor(s, a, <<>>)
    BY <1>3 DEF Resume
  <2>2. inbox' = inbox
    BY <2>1, <1>0, <1>1 DEF SpawnActor, Alive, TypeOK
  <2>3. \A b \in Actor : Alive(b) => Alive(b)'
    BY <2>1, <1>0 DEF SpawnActor, Alive, TypeOK
  <2> QED BY <1>3, <2>2, <2>3, HeldStutter DEF Resume
\* A step that starts and ends no task.
<1>4. ASSUME UNCHANGED <<pc, inbox, turn, status>> PROVE TurnsHeld'
  BY <1>4, HeldStutter DEF Alive
<1>5. CASE \/ \E s \in Session : RevokeFire(s) \/ RevokeRemove(s)
           \/ \E s \in Session, j \in Job : TurnStop(s, j)
           \/ \E j \in Job : TicketCancel(j) \/ ClientStalls(j) \/ ClientMoves(j)
  BY <1>5, <1>4 DEF RevokeFire, RevokeRemove, TurnStop, TicketCancel, ClientStalls, ClientMoves
<1>6. ASSUME NEW a \in Actor, Task(a) PROVE TurnsHeld'
  <2>1. CASE Receive(a) \/ TakeStraggler(a)
    <3>1. /\ inbox[a] # <<>> /\ UNCHANGED status
          /\ inbox' = [inbox EXCEPT ![a] = Tail(inbox[a])]
          /\ turn' = [turn EXCEPT ![a] = Head(inbox[a])]
          /\ pc' = [pc EXCEPT ![a] = "starting"]
          /\ pc[a] \in {"recv", "elapsed"}
      BY <2>1 DEF Receive, TakeStraggler
    <3>2. turn[a] = None
      BY <3>1 DEF TaskInv, TaskShape, InFlight
    <3>3. \A b \in Actor : Alive(b) => Alive(b)'
      BY <3>1, <1>0 DEF Alive, TypeOK
    <3> QED BY <3>1, <3>2, <3>3, <1>0, HeldReceive
  <2>2. CASE Finish(a)
    <3>1. turn[a] # None
      BY <2>2 DEF Finish, TaskInv, TaskShape, InFlight
    <3>2. \A b \in Actor : Alive(b) => Alive(b)'
      BY <2>2, <1>0 DEF Finish, Alive, TypeOK
    <3> QED BY <2>2, <3>1, <3>2, <1>0, HeldFinish DEF Finish
  \* A task that exits has an empty inbox.
  <2>3. CASE ~Receive(a) /\ ~TakeStraggler(a) /\ ~Finish(a)
    <3>1. UNCHANGED <<inbox, turn, status>>
      BY <2>3, <1>6 DEF Task, SendersGone, IdleElapsed, Reap, Register, HandlerReturns,
         HandlerAborts, TerminateStream
    <3>2. \E q : pc' = [pc EXCEPT ![a] = q] /\ (q = "exited" => inbox[a] = <<>>) /\ q # "unborn"
      BY <2>3, <1>6 DEF Task, SendersGone, IdleElapsed, Reap, Register, HandlerReturns,
         HandlerAborts, TerminateStream
    <3>3. \A b \in Actor : Alive(b) /\ inbox[b] # <<>> => Alive(b)'
      BY <3>2, <1>0 DEF Alive, TypeOK
    <3> QED BY <3>1, <3>3, HeldStutter
  <2> QED BY <2>1, <2>2, <2>3
<1>7. CASE UNCHANGED vars
  BY <1>7, <1>4 DEF vars
<1> QED BY <1>2, <1>3, <1>5, <1>6, <1>7 DEF Next, Caller

\* No accepted turn is lost and none is held twice, for every interleaving of submit,
\* resume, revocation, idle reaping, panics and timeouts, and every size of the system.
THEOREM TurnsAreKept == Spec => []NoTurnLost
<1>1. Init => TurnsHeld
  <2>1. Len(<<>>) = 0
    BY EmptySeq
  <2> QED BY <2>1 DEF Init, TurnsHeld
<1>2. TypeOK /\ TaskShape /\ TurnsHeld => NoTurnLost
  <2> SUFFICES ASSUME TypeOK, TaskShape, TurnsHeld, NEW j \in Job
               PROVE  IF status[j] = "accepted"
                      THEN /\ Cardinality({a \in Actor : j \in Held(a)}) = 1
                           /\ \A a \in Actor : j \in Held(a) =>
                                /\ Alive(a)
                                /\ Cardinality({i \in DOMAIN inbox[a] : inbox[a][i] = j})
                                     + (IF turn[a] = j THEN 1 ELSE 0) = 1
                      ELSE \A a \in Actor : j \notin Held(a)
    BY DEF NoTurnLost
  <2> DEFINE place(a) == {i \in DOMAIN inbox[a] : inbox[a][i] = j}
             holders == {a \in Actor : j \in Held(a)}
  <2>1. \A a \in Actor : DOMAIN inbox[a] = 1..Len(inbox[a])
    BY LenProperties DEF TypeOK
  <2>2. \A a \in Actor :
          j \in Held(a) <=> turn[a] = j \/ \E i \in 1..Len(inbox[a]) : inbox[a][i] = j
    BY <2>1, NoneAssumption DEF Held
  <2>3. CASE status[j] # "accepted"
    BY <2>2, <2>3, NoneAssumption DEF TurnsHeld
  <2>4. CASE status[j] = "accepted"
    <3>1. PICK a \in Actor : j \in Held(a)
      BY <2>2, <2>4 DEF TurnsHeld
    <3>2. \A b \in Actor : j \in Held(b) => b = a
      BY <2>2, <3>1, NoneAssumption DEF TurnsHeld
    <3>3. holders = {a}
      BY <3>1, <3>2
    <3>4. Cardinality(holders) = 1
      BY <3>3, FS_Singleton
    <3>5. Alive(a)
      BY <2>2, <3>1, NoneAssumption DEF TurnsHeld, TaskShape, Alive, InFlight
    <3>6. CASE turn[a] = j
      <4>1. place(a) = {}
        BY <2>1, <3>6 DEF TurnsHeld
      <4>2. Cardinality(place(a)) = 0
        BY <4>1, FS_EmptySet
      <4>3. Cardinality(place(a)) + (IF turn[a] = j THEN 1 ELSE 0) = 1
        <5> HIDE DEF place
        <5> QED BY <3>6, <4>2
      <4> QED BY <2>4, <3>2, <3>4, <3>5, <4>3
    <3>7. CASE turn[a] # j
      <4>1. PICK i \in 1..Len(inbox[a]) : inbox[a][i] = j
        BY <2>2, <3>1, <3>7
      <4>2. place(a) = {i}
        BY <2>1, <4>1 DEF TurnsHeld
      <4>3. Cardinality(place(a)) = 1
        BY <4>2, FS_Singleton
      <4>4. Cardinality(place(a)) + (IF turn[a] = j THEN 1 ELSE 0) = 1
        <5> HIDE DEF place
        <5> QED BY <3>7, <4>3
      <4> QED BY <2>4, <3>2, <3>4, <3>5, <4>4
    <3> QED BY <3>6, <3>7
  <2> QED BY <2>3, <2>4
<1>3. TaskInv => TypeOK /\ TaskShape
  BY DEF TaskInv
<1> QED BY <1>1, <1>2, <1>3, TaskInductive, TurnsHeldStep, PTL DEF Spec

-----------------------------------------------------------------------------
(* Live state is bounded *)

\* The inductive form of Bounded: the cap counts a finite map.
LiveBounded == IsFiniteSet(Live) /\ Bounded

\* A task is spawned below the cap, a turn is queued below the capacity, and every
\* other step only takes away.
LEMMA BoundedStep == TaskInv /\ LiveBounded /\ [Next]_vars => LiveBounded'
<1> SUFFICES ASSUME TaskInv, LiveBounded, [Next]_vars PROVE LiveBounded'
  OBVIOUS
<1> USE NoneAssumption, LimitsAssumption DEF mapVars, turnVars, callerVars
<1>0. TypeOK /\ Cardinality(Live) \in Nat
  BY FS_CardinalityType DEF TaskInv, LiveBounded
<1>1. ASSUME Live' \subseteq Live, \A a \in Actor : Len(inbox'[a]) <= InboxCapacity
      PROVE  LiveBounded'
  <2>1. IsFiniteSet(Live') /\ Cardinality(Live') <= Cardinality(Live)
    BY <1>1, FS_Subset DEF LiveBounded
  <2>2. Cardinality(Live') \in Nat
    BY <2>1, FS_CardinalityType
  <2> QED BY <1>0, <1>1, <2>1, <2>2 DEF LiveBounded, Bounded
\* Entries are taken away, if anything, and the inboxes are as they were.
<1>2. ASSUME \A s \in Session : sessions'[s] \in {sessions[s], None}, inbox' = inbox
      PROVE  LiveBounded'
  <2>1. Live' \subseteq Live
    BY <1>2 DEF Live
  <2> QED BY <1>1, <1>2, <2>1 DEF LiveBounded, Bounded
<1>3. ASSUME NEW s \in Session, NEW a \in Actor, NEW q \in Seq(Job), SpawnActor(s, a, q),
             Len(q) <= InboxCapacity, s \notin Live, Cardinality(Live) < MaxSessions
      PROVE  LiveBounded'
  <2>1. Live' = Live \cup {s}
    BY <1>0, <1>3 DEF SpawnActor, Live, TypeOK
  <2>2. IsFiniteSet(Live') /\ Cardinality(Live') = Cardinality(Live) + 1
    BY <1>3, <2>1, FS_AddElement DEF LiveBounded
  <2>3. \A b \in Actor : Len(inbox'[b]) <= InboxCapacity
    BY <1>0, <1>3 DEF SpawnActor, LiveBounded, Bounded, TypeOK
  <2> QED BY <1>0, <1>3, <2>2, <2>3 DEF LiveBounded, Bounded
<1>4. ASSUME NEW s \in Session, NEW j \in Job, Submit(s, j) PROVE LiveBounded'
  <2>1. CASE SubmitToLive(s, j)
    <3>1. PICK a \in Actor : a = sessions[s]
      BY <1>0, <2>1 DEF SubmitToLive, Reachable, TypeOK
    <3>2. /\ Len(inbox[a]) < InboxCapacity
          /\ inbox' = [inbox EXCEPT ![a] = Append(inbox[a], j)]
      BY <2>1, <3>1 DEF SubmitToLive
    <3>3. Len(Append(inbox[a], j)) = Len(inbox[a]) + 1 /\ Len(inbox[a]) \in Nat
      BY <1>0, AppendProperties, LenProperties DEF TypeOK
    <3>4. \A b \in Actor : Len(inbox'[b]) <= InboxCapacity
      BY <1>0, <3>2, <3>3 DEF LiveBounded, Bounded, TypeOK
    <3>5. Live' \subseteq Live
      BY <2>1 DEF SubmitToLive, Live
    <3> QED BY <1>1, <3>4, <3>5
  <2>2. CASE SubmitToNew(s, j)
    <3>1. PICK a \in Actor : SpawnActor(s, a, <<j>>)
      BY <2>2 DEF SubmitToNew
    <3>2. s \notin Live
      BY <1>0, <2>2 DEF SubmitToNew, Reachable, Closed, Live, TaskInv, EntryNamesLiveActor,
         Alive, TypeOK
    <3>3. Live \ {s} = Live
      BY <3>2
    <3>4. Cardinality(Live) < MaxSessions
      BY <1>0, <2>2, <3>3 DEF SubmitToNew, AtCap
    <3>5. <<j>> \in Seq(Job) /\ Len(<<j>>) <= InboxCapacity
      OBVIOUS
    <3> QED BY <1>3, <3>1, <3>2, <3>4, <3>5
  <2>3. CASE SubmitRefused(s, j)
    BY <1>0, <1>2, <2>3 DEF SubmitRefused, TypeOK
  <2> QED BY <1>4, <2>1, <2>2, <2>3 DEF Submit
<1>5. ASSUME NEW s \in Session, Resume(s) PROVE LiveBounded'
  <2>1. PICK a \in Actor : SpawnActor(s, a, <<>>)
    BY <1>5 DEF Resume
  <2>2. <<>> \in Seq(Job) /\ Len(<<>>) <= InboxCapacity
    OBVIOUS
  <2> QED BY <1>3, <1>5, <2>1, <2>2 DEF Resume, Live
<1>6. CASE \/ \E s \in Session : RevokeFire(s) \/ RevokeRemove(s)
           \/ \E s \in Session, j \in Job : TurnStop(s, j)
           \/ \E j \in Job : TicketCancel(j) \/ ClientStalls(j) \/ ClientMoves(j)
  BY <1>0, <1>2, <1>6 DEF RevokeFire, RevokeRemove, TurnStop, TicketCancel, ClientStalls,
     ClientMoves, TypeOK
<1>7. ASSUME NEW a \in Actor, Task(a) PROVE LiveBounded'
  <2>1. CASE Receive(a) \/ TakeStraggler(a)
    <3>1. /\ inbox[a] # <<>> /\ inbox' = [inbox EXCEPT ![a] = Tail(inbox[a])]
          /\ sessions' = sessions
      BY <2>1 DEF Receive, TakeStraggler
    <3>2. Len(Tail(inbox[a])) = Len(inbox[a]) - 1 /\ Len(inbox[a]) \in Nat
      BY <1>0, <3>1, HeadTailProperties, LenProperties DEF TypeOK
    <3>3. \A b \in Actor : Len(inbox'[b]) <= InboxCapacity
      BY <1>0, <3>1, <3>2 DEF LiveBounded, Bounded, TypeOK
    <3> QED BY <1>1, <3>1, <3>3 DEF Live
  <2>2. CASE ~Receive(a) /\ ~TakeStraggler(a)
    <3>1. inbox' = inbox /\ \A s \in Session : sessions'[s] \in {sessions[s], None}
      BY <1>0, <1>7, <2>2 DEF Task, SendersGone, IdleElapsed, Reap, Register, HandlerReturns,
         HandlerAborts, TerminateStream, Finish, TypeOK
    <3> QED BY <1>2, <3>1
  <2> QED BY <2>1, <2>2
<1>8. CASE UNCHANGED vars
  BY <1>2, <1>8 DEF vars
<1> QED BY <1>4, <1>5, <1>6, <1>7, <1>8 DEF Next, Caller

\* Initially the map is empty and so is every inbox.
LEMMA BoundedInit == Init => LiveBounded
<1> SUFFICES ASSUME Init PROVE LiveBounded
  OBVIOUS
<1>1. Live = {}
  BY DEF Init, Live
<1>2. IsFiniteSet(Live) /\ Cardinality(Live) = 0
  BY <1>1, FS_EmptySet
<1> QED BY <1>2, LimitsAssumption DEF Init, LiveBounded, Bounded

\* Live state is bounded for every cap and every capacity: the map never outgrows the
\* global cap, which submit and resume test before they spawn, and no inbox its channel.
THEOREM LiveStateIsBounded == Spec => []Bounded
<1>1. LiveBounded => Bounded
  BY DEF LiveBounded
<1> QED BY <1>1, BoundedInit, TaskInductive, BoundedStep, PTL DEF Spec

-----------------------------------------------------------------------------
(* The turn service is implemented, while no session is revoked *)

\* A step that touches no entry, no inbox and no turn in hand is a stutter of the service
\* or a refusal.
LEMMA QuietStep ==
  ASSUME UNCHANGED <<sessions, inbox, turn>>
  PROVE  UNCHANGED <<Live, Waiting, Running>>
BY DEF Live, Waiting, Running

\* The service counts as the manager does.
LEMMA SameCount == Service!Cardinality(Live) = Cardinality(Live)
BY DEF Service!Cardinality, Cardinality

\* Every step of submit is an acceptance or a refusal of the service.
LEMMA SubmitRefines ==
  ASSUME TaskInv, LiveBounded, NEW s \in Session, NEW j \in Job, Submit(s, j)
  PROVE  Service!Accept(s, j) \/ Service!Refuse(s, j)
<1> USE NoneAssumption, LimitsAssumption DEF mapVars, turnVars, callerVars
<1>0. TypeOK
  BY DEF TaskInv
<1>1. Reachable(s) <=> s \in Live
  BY <1>0 DEF Reachable, Closed, Live, TaskInv, EntryNamesLiveActor, Alive, TypeOK
<1>2. CASE SubmitToLive(s, j)
  <2>1. PICK a \in Actor : a = sessions[s]
    BY <1>0, <1>1, <1>2 DEF SubmitToLive, Live, TypeOK
  <2>2. \A t \in Session : sessions[t] = a => t = s
    BY <1>0, <2>1 DEF TaskInv, EntryNamesLiveActor
  <2>3. /\ inbox' = [inbox EXCEPT ![a] = Append(inbox[a], j)]
        /\ sessions' = sessions /\ turn' = turn
      BY <1>2, <2>1 DEF SubmitToLive
  <2>4. Waiting' = [Waiting EXCEPT ![s] = Append(Waiting[s], j)]
    BY <1>0, <2>1, <2>2, <2>3 DEF Waiting, TypeOK
  <2>5. Live' = Live \cup {s} /\ Running' = Running
    BY <1>1, <1>2, <2>3 DEF SubmitToLive, Live, Running
  <2>6. Service!HasRoom(s)
    BY <1>1, <1>2, <2>1 DEF SubmitToLive, Service!HasRoom, Service!MayOpen, Waiting, Live
  <2> QED BY <1>2, <2>4, <2>5, <2>6 DEF SubmitToLive, Service!Accept
<1>3. CASE SubmitToNew(s, j)
  <2>1. PICK a \in Actor : SpawnActor(s, a, <<j>>)
    BY <1>3 DEF SubmitToNew
  <2>2. sessions[s] = None /\ turn[a] = None /\ \A t \in Session : sessions[t] # a
    BY <1>0, <1>1, <1>3, <2>1 DEF SubmitToNew, SpawnActor, Live, TaskInv, TaskShape, InFlight,
       EntryNamesLiveActor, Alive
  <2>3. <<j>> = Append(<<>>, j) /\ Len(<<>>) = 0
    OBVIOUS
  <2>4. /\ sessions' = [sessions EXCEPT ![s] = a]
        /\ inbox' = [inbox EXCEPT ![a] = <<j>>]
        /\ turn' = turn
    BY <1>3, <2>1 DEF SubmitToNew, SpawnActor
  <2>5. Waiting' = [Waiting EXCEPT ![s] = Append(Waiting[s], j)]
    BY <1>0, <2>2, <2>3, <2>4 DEF Waiting, TypeOK
  <2>6. Running' = Running
    BY <1>0, <2>2, <2>4 DEF Running, TypeOK
  <2>7. Live' = Live \cup {s} /\ Live \ {s} = Live
    BY <1>0, <2>2, <2>4 DEF Live, TypeOK
  <2>8. Waiting[s] = <<>>
    BY <2>2 DEF Waiting
  <2>9. Cardinality(Live) < MaxSessions
    <3>1. ~(Cardinality(Live) >= MaxSessions)
      BY <1>3, <2>7 DEF SubmitToNew, AtCap
    <3>2. Cardinality(Live) \in Nat
      BY FS_CardinalityType DEF LiveBounded
    <3> QED BY <3>1, <3>2
  <2>10. Service!HasRoom(s)
    BY <2>3, <2>8, <2>9, SameCount DEF Service!HasRoom, Service!MayOpen
  <2> QED BY <1>3, <2>5, <2>6, <2>7, <2>10 DEF SubmitToNew, Service!Accept
<1>4. CASE SubmitRefused(s, j)
  <2>1. sessions' = sessions
    BY <1>0, <1>1, <1>4 DEF SubmitRefused, Live, TypeOK
  <2>2. UNCHANGED <<Live, Waiting, Running>>
    BY <1>4, <2>1, QuietStep DEF SubmitRefused
  <2>3. ~Service!HasRoom(s)
    <3>1. CASE Reachable(s)
      <4>1. PICK a \in Actor : a = sessions[s] /\ Waiting[s] = inbox[a]
        BY <1>0, <3>1 DEF Reachable, Waiting, TypeOK
      <4>2. Len(inbox[a]) >= InboxCapacity /\ Len(inbox[a]) \in Nat
        BY <1>0, <1>4, <3>1, <4>1, LenProperties DEF SubmitRefused, TypeOK
      <4> QED BY <4>1, <4>2 DEF Service!HasRoom
    <3>2. CASE ~Reachable(s)
      <4>1. s \notin Live /\ Live \ {s} = Live
        BY <1>1, <3>2
      <4>2. Cardinality(Live) >= MaxSessions /\ Cardinality(Live) \in Nat
        BY <1>4, <3>2, <4>1, FS_CardinalityType DEF SubmitRefused, AtCap, LiveBounded
      <4> QED BY <4>1, <4>2, SameCount DEF Service!HasRoom, Service!MayOpen
    <3> QED BY <3>1, <3>2
  <2> QED BY <1>4, <2>2, <2>3 DEF SubmitRefused, Service!Refuse
<1> QED BY <1>2, <1>3, <1>4 DEF Submit

\* A step of a task begins, answers or closes, or the service does not see it.
LEMMA TaskRefines ==
  ASSUME TaskInv, EveryTaskIsMapped, NEW a \in Actor, Task(a)
  PROVE  \/ \E s \in Session : Service!Begin(s) \/ Service!Answer(s) \/ Service!Close(s)
         \/ UNCHANGED <<Live, Waiting, Running, status>>
<1> USE NoneAssumption DEF mapVars, turnVars, callerVars
<1>0. TypeOK
  BY DEF TaskInv
<1> DEFINE s == owner[a]
<1>1. PICK t \in Session : /\ t = owner[a] /\ sessions[t] = a
                           /\ \A u \in Session : sessions[u] = a => u = t
  <2>1. Alive(a)
    BY DEF Alive, Task, Receive, SendersGone, IdleElapsed, TakeStraggler, Reap, Register,
           HandlerReturns, HandlerAborts, TerminateStream, Finish
  <2> QED BY <1>0, <2>1 DEF EveryTaskIsMapped, TaskInv, TaskShape, EntryNamesLiveActor, Alive
<1>2. t \in Live /\ Waiting[t] = inbox[a] /\ Running[t] = turn[a]
  BY <1>1 DEF Live, Waiting, Running
<1>3. CASE Receive(a) \/ TakeStraggler(a)
  <2>1. /\ inbox[a] # <<>>
        /\ inbox' = [inbox EXCEPT ![a] = Tail(inbox[a])]
        /\ turn' = [turn EXCEPT ![a] = Head(inbox[a])]
        /\ sessions' = sessions /\ status' = status
        /\ pc[a] \in {"recv", "elapsed"}
    BY <1>3 DEF Receive, TakeStraggler
  <2>2. turn[a] = None
    BY <2>1 DEF TaskInv, TaskShape, InFlight
  <2>3. Waiting' = [Waiting EXCEPT ![t] = Tail(Waiting[t])]
    BY <1>0, <1>1, <1>2, <2>1 DEF Waiting, TypeOK
  <2>4. Running' = [Running EXCEPT ![t] = Head(Waiting[t])]
    BY <1>0, <1>1, <1>2, <2>1 DEF Running, TypeOK
  <2>5. Live' = Live
    BY <2>1 DEF Live
  <2>6. Service!Begin(t)
    BY <1>2, <2>1, <2>2, <2>3, <2>4, <2>5 DEF Service!Begin
  <2> QED BY <2>6
<1>4. CASE Finish(a)
  <2>1. /\ status' = [status EXCEPT ![turn[a]] = "answered"]
        /\ turn' = [turn EXCEPT ![a] = None]
        /\ sessions' = sessions /\ inbox' = inbox /\ turn[a] # None
    BY <1>4 DEF Finish, TaskInv, TaskShape, InFlight
  <2>2. Running' = [Running EXCEPT ![t] = None]
    BY <1>0, <1>1, <2>1 DEF Running, TypeOK
  <2>3. Live' = Live /\ Waiting' = Waiting
    BY <2>1 DEF Live, Waiting
  <2>4. Service!Answer(t)
    BY <1>2, <2>1, <2>2, <2>3 DEF Service!Answer
  <2> QED BY <2>4
<1>5. CASE Reap(a)
  <2>1. /\ sessions' = [sessions EXCEPT ![t] = None]
        /\ turn' = turn /\ inbox' = inbox /\ status' = status
        /\ inbox[a] = <<>> /\ turn[a] = None
    BY <1>1, <1>5 DEF Reap, TaskInv, TaskShape, InFlight
  <2>2. Live' = Live \ {t}
    BY <1>0, <2>1 DEF Live, TypeOK
  <2>3. Waiting' = Waiting /\ Running' = Running
    BY <1>0, <1>1, <2>1 DEF Waiting, Running, TypeOK
  <2>4. Service!Close(t)
    BY <1>2, <2>1, <2>2, <2>3 DEF Service!Close
  <2> QED BY <2>4
<1>6. CASE SendersGone(a)
  BY <1>1, <1>6 DEF SendersGone, HasSender
<1>7. CASE \/ IdleElapsed(a) \/ Register(a) \/ HandlerReturns(a) \/ HandlerAborts(a)
           \/ TerminateStream(a)
  BY <1>7, QuietStep DEF IdleElapsed, Register, HandlerReturns, HandlerAborts, TerminateStream
<1> QED BY <1>3, <1>4, <1>5, <1>6, <1>7 DEF Task

\* Every step of the manager is a step of the service, or one it does not see.
LEMMA StepRefines ==
  ASSUME Revocable = {}, TaskInv, EveryTaskIsMapped, LiveBounded, [Next]_vars
  PROVE  [Service!Next]_(Service!vars)
<1> USE NoneAssumption DEF mapVars, turnVars, callerVars
<1>0. TypeOK
  BY DEF TaskInv
<1>1. ASSUME UNCHANGED <<sessions, inbox, turn, status>> PROVE UNCHANGED Service!vars
  BY <1>1, QuietStep DEF Service!vars
<1>2. ASSUME NEW s \in Session, NEW j \in Job, Submit(s, j) PROVE Service!Next
  BY <1>2, SubmitRefines DEF Service!Next
<1>3. ASSUME NEW s \in Session, Resume(s) PROVE Service!Next
  <2>1. PICK a \in Actor : SpawnActor(s, a, <<>>)
    BY <1>3 DEF Resume
  <2>2. sessions[s] = None /\ turn[a] = None /\ \A t \in Session : sessions[t] # a
    BY <1>0, <1>3, <2>1 DEF Resume, SpawnActor, TaskInv, TaskShape, InFlight,
       EntryNamesLiveActor, Alive
  <2>3. /\ sessions' = [sessions EXCEPT ![s] = a]
        /\ inbox' = [inbox EXCEPT ![a] = <<>>]
        /\ turn' = turn /\ status' = status
    BY <1>3, <2>1 DEF Resume, SpawnActor
  <2>4. Waiting' = Waiting /\ Running' = Running
    BY <1>0, <2>2, <2>3 DEF Waiting, Running, TypeOK
  <2>5. Live' = Live \cup {s} /\ s \notin Live
    BY <1>0, <2>2, <2>3 DEF Live, TypeOK
  <2>6. Service!Open(s)
    BY <1>3, <2>3, <2>4, <2>5, SameCount DEF Resume, Service!Open, Service!MayOpen
  <2> QED BY <2>6 DEF Service!Next
<1>4. CASE \/ \E s \in Session : RevokeFire(s) \/ RevokeRemove(s)
           \/ \E s \in Session, j \in Job : TurnStop(s, j)
           \/ \E j \in Job : TicketCancel(j) \/ ClientStalls(j) \/ ClientMoves(j)
  BY <1>0, <1>1, <1>4 DEF RevokeFire, RevokeRemove, TurnStop, TicketCancel, ClientStalls,
     ClientMoves, TypeOK
<1>5. ASSUME NEW a \in Actor, Task(a) PROVE Service!Next \/ UNCHANGED Service!vars
  BY <1>5, TaskRefines DEF Service!Next, Service!vars
<1>6. CASE UNCHANGED vars
  BY <1>1, <1>6 DEF vars
<1> QED BY <1>2, <1>3, <1>4, <1>5, <1>6 DEF Next, Caller

\* While no session is revoked, the manager implements the turn service: whatever its
\* tasks and callers interleave, a session's turns begin in the order of their
\* acceptance, one at a time, none is turned away but at a limit, and only an idle
\* session is closed.
THEOREM ServiceIsImplemented ==
  ASSUME Revocable = {}
  PROVE  Spec => ImplementsTurnService
<1>1. Init => Service!Init /\ EveryTaskIsMapped
  <2> SUFFICES ASSUME Init PROVE Service!Init /\ EveryTaskIsMapped
    OBVIOUS
  <2>1. Live = {} /\ Waiting = [s \in Session |-> <<>>] /\ Running = [s \in Session |-> None]
    BY DEF Init, Live, Waiting, Running
  <2> QED BY <2>1 DEF Init, Service!Init, EveryTaskIsMapped, Alive
<1>2. Init => LiveBounded
  BY BoundedInit
<1>3. TaskInv /\ EveryTaskIsMapped /\ [Next]_vars => EveryTaskIsMapped'
  BY MappedStep
<1>4. TaskInv /\ EveryTaskIsMapped /\ LiveBounded /\ [Next]_vars
        => [Service!Next]_(Service!vars)
  BY StepRefines
<1> QED BY <1>1, <1>2, <1>3, <1>4, TaskInductive, BoundedStep, PTL
        DEF Spec, ImplementsTurnService, Service!Spec

=============================================================================
