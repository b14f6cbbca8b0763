----------------------------- MODULE Approvals -----------------------------
(***************************************************************************)
(* The approval round trip of one session: a risky tool call of a turn, or *)
(* a write step of a harness run, blocks in WireApprovalGate::decide until *)
(* a client's approval.respond reaches the ApprovalCoordinator, or the     *)
(* gate's timeout elapses.                                                 *)
(*                                                                         *)
(* The coordinator keys the waits by session alone.  An approval.respond    *)
(* carries the approval_id of an ask, which the coordinator does not use;  *)
(* here it is whether the id is that of the ask the answer reaches.        *)
(***************************************************************************)
EXTENDS Integers, FiniteSets

CONSTANTS
  Asker,       \* what may wait in decide at once: turns and harness runs
  Announced,   \* the askers that put an approval.request on the wire: the turns
  NoAsker,
  Workers,     \* the runtime's worker threads; decide blocks the one it runs on
  MaxAsks,     \* bound: asks of the askers that are not announced
  MaxResponds  \* bound: approval.respond commands, retries and late ones included

ASSUME ApprovalsAssumption ==
  /\ NoAsker \notin Asker /\ Announced \subseteq Asker
  /\ Workers \in Nat \ {0} /\ MaxAsks \in Nat /\ MaxResponds \in Nat

Answer == {"approve", "approve_for_session", "reject"}

VARIABLES
  ask,      \* where each asker is
  pending,  \* the coordinator's sender for the session: whose channel it feeds
  channel,  \* the answers in an asker's channel, of capacity 1
  verdict,  \* the answer decide returned, and whether it was given for this ask
  asks, responds,
  credit    \* responds told 202 Accepted that did not reject, less the asks cleared

approvalVars == <<ask, pending, channel, verdict, asks, responds, credit>>

Nothing == [answer |-> "none", own |-> TRUE]
Refused == [answer |-> "reject", own |-> TRUE]

ApprovalsInit ==
  /\ ask = [a \in Asker |-> "idle"]
  /\ pending = NoAsker
  /\ channel = [a \in Asker |-> {}]
  /\ verdict = [a \in Asker |-> Nothing]
  /\ asks = 0 /\ responds = 0 /\ credit = 0

\* The thread that runs the asker is blocked in recv_timeout.
Blocks(a) == ask[a] = "waiting"

\* The asker holds the receiver of its channel.
Receives(a) == ask[a] \in {"waiting", "expired"}

\* A worker thread is left to run another task.
WorkerFree == Cardinality({a \in Asker : Blocks(a)}) < Workers

-----------------------------------------------------------------------------
(* The askers *)

\* A turn puts approval.request on the wire, and then calls decide.
Announce(a) ==
  /\ a \in Announced /\ ask[a] = "idle"
  /\ ask' = [ask EXCEPT ![a] = "announced"]
  /\ UNCHANGED <<pending, channel, verdict, asks, responds, credit>>

\* register: a fresh channel, its sender stored for the session; the sender of an
\* earlier wait is dropped.
Register(a) ==
  /\ ask[a] = "announced"
  /\ WorkerFree
  /\ ask' = [ask EXCEPT ![a] = "waiting"]
  /\ pending' = a
  /\ channel' = [channel EXCEPT ![a] = {}]
  /\ UNCHANGED <<verdict, asks, responds, credit>>

\* A harness run has nothing to announce: decide is all it calls.
RegisterUnannounced(a) ==
  /\ a \in Asker \ Announced /\ ask[a] = "idle"
  /\ asks < MaxAsks
  /\ WorkerFree
  /\ asks' = asks + 1
  /\ ask' = [ask EXCEPT ![a] = "waiting"]
  /\ pending' = a
  /\ channel' = [channel EXCEPT ![a] = {}]
  /\ UNCHANGED <<verdict, responds, credit>>

\* decide returns v.  What a harness run does with it is not followed.
Returns(a, v) ==
  /\ IF a \in Announced
     THEN ask' = [ask EXCEPT ![a] = "decided"] /\ verdict' = [verdict EXCEPT ![a] = v]
     ELSE ask' = [ask EXCEPT ![a] = "idle"] /\ UNCHANGED verdict
  /\ channel' = [channel EXCEPT ![a] = {}]
  /\ credit' = credit - (IF v.answer = "reject" THEN 0 ELSE 1)
  /\ UNCHANGED <<pending, asks, responds>>

\* recv_timeout finds an answer.
Receive(a) ==
  /\ ask[a] = "waiting"
  /\ \E v \in channel[a] : Returns(a, v)

\* recv_timeout finds the channel empty and its sender gone.
Disconnected(a) ==
  /\ ask[a] = "waiting"
  /\ channel[a] = {} /\ pending # a
  /\ Returns(a, Refused)

\* Mutant: the gate waits without a limit.
ExpireNever(a) ==
  /\ ask[a] = "waiting"
  /\ channel[a] # {}
  /\ ask' = [ask EXCEPT ![a] = "expired"]
  /\ UNCHANGED <<pending, channel, verdict, asks, responds, credit>>

\* recv_timeout gives up; its receiver lives until decide returns.
Expire(a) ==
  /\ ask[a] = "waiting"
  /\ channel[a] = {}
  /\ ask' = [ask EXCEPT ![a] = "expired"]
  /\ UNCHANGED <<pending, channel, verdict, asks, responds, credit>>

\* Mutant: a wait that times out takes the answer that the session has got meanwhile,
\* whichever ask it reached.
GiveUpLate(a) ==
  /\ ask[a] = "expired"
  /\ \E v \in {Refused} \cup UNION {channel[b] : b \in Asker} : Returns(a, v)

\* decide fails closed.  The sender of its channel stays with the coordinator.
GiveUp(a) ==
  /\ ask[a] = "expired"
  /\ Returns(a, Refused)

-----------------------------------------------------------------------------
(* The clients *)

\* The answer goes into the channels of heard; there it is accepted.
Reaches(heard, own, d) ==
  /\ responds < MaxResponds
  /\ WorkerFree
  /\ responds' = responds + 1
  /\ channel' = [a \in Asker |-> IF a \in heard THEN {[answer |-> d, own |-> own \/ a \notin Announced]} ELSE channel[a]]
  /\ credit' = credit + (IF heard # {} /\ d # "reject" THEN 1 ELSE 0)
  /\ UNCHANGED <<ask, verdict, asks>>

\* approval.respond: resolve takes the session's sender, whatever ask it belongs to, and
\* 202 is answered if its receiver still lives, else 200.  With no sender there it
\* answers 200 and changes nothing.
Respond(own, d) ==
  /\ pending # NoAsker
  /\ Reaches({a \in Asker : a = pending /\ Receives(a)}, own, d)
  /\ pending' = NoAsker

Deciding(a) == Register(a) \/ Receive(a) \/ Disconnected(a) \/ Expire(a) \/ GiveUp(a)

Clients == \E own \in BOOLEAN, d \in Answer : Respond(own, d)

-----------------------------------------------------------------------------
ApprovalsTypeOK ==
  /\ ask \in [Asker -> {"idle", "announced", "waiting", "expired", "decided"}]
  /\ pending \in Asker \cup {NoAsker}
  /\ channel \in [Asker -> SUBSET [answer : Answer, own : BOOLEAN]]
  /\ verdict \in [Asker -> [answer : Answer \cup {"none"}, own : BOOLEAN]]
  /\ asks \in Nat /\ responds \in Nat /\ credit \in Int

=============================================================================
