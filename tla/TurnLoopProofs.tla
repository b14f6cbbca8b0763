--------------------------- MODULE TurnLoopProofs ---------------------------
(***************************************************************************)
(* TLAPS proofs about one turn of the engine and the approvals it shares    *)
(* with the harness runs of its session: for any askers, providers, tools   *)
(* and bounds, and for every interleaving with answers, timeouts and stops. *)
(***************************************************************************)
EXTENDS TurnLoop, FiniteSetTheorems, SequenceTheorems, WellFoundedInduction, TLAPS

Call == [tool : Tool, pays : BOOLEAN, state : CallStates]

\* What the turn does about its model: on its own, and with what the provider sends.
Modelling == Model \/ Output \/ OutputEnds

\* The engine is in the batch's flush or past it on the way to x.
GoesTo(x) == (pc = "flush" /\ then = x) \/ pc = x

-----------------------------------------------------------------------------
(* The inductive invariant *)

\* Outside a round's stream there is no chain; in one, every provider of the chain may see
\* the turn's data, and the attempt that produced output is the only one that spoke.
StreamInv ==
  /\ IF pc \in {"stream", "backoff"} THEN chain \in Chains(Eligible(class))
     ELSE chain = <<>> /\ tries = 0 /\ ~produced
  /\ tries \in 0..MaxRetries
  /\ pc = "backoff" => tries < MaxRetries /\ ~produced
  /\ spoke = IF produced THEN 1 ELSE 0

\* What follows a flush or a question.
ThenInv ==
  /\ pc = "flush" => then \in {"refuse", "approve", "fire", "tail"}
  /\ pc = "ask" => then \in {"approve", "confirm"}
  /\ pc \notin {"flush", "ask"} => then = "none"

\* Where the loop is in the turn's calls.
PlaceInv ==
  /\ base \in 0..Len(calls) /\ at \in (base + 1)..(Len(calls) + 1)
  /\ pc \in {"gate", "ask"} \/ GoesTo("refuse") \/ GoesTo("approve") \/ GoesTo("fire")
       => at <= Len(calls)
  /\ pc \in {"start", "admit", "loop"} \/ GoesTo("tail") => at = Len(calls) + 1
  /\ pc \in {"stream", "backoff"} => at = base + 1
  /\ pc \in {"finish", "ended"} /\ why \in {"complete", "capped"} => at = Len(calls) + 1
  /\ \A i \in Calls : calls[i].state = "streamed" <=> at <= i

Batch == Pending \cup In("fired")

\* A batch holds what needs neither order nor approval, and it is through before anything
\* else happens to the turn.
BatchInv ==
  /\ \A i \in Batch : Batched(i)
  /\ pc \notin {"call", "gate", "flush", "finish", "ended"} => Batch = {}
  /\ pc \in {"finish", "ended"} /\ why \in {"complete", "capped"} => Batch = {}
  /\ ~cancel => In("dropped") = {}

\* What is shown is answered, in order, and before all that is still in the batch.
ShownInv ==
  /\ shown \in Seq(Nat) /\ ResultsInOrder
  /\ \A k \in DOMAIN shown : shown[k] \in Calls
  /\ \A i \in Calls : calls[i].state \in {"answered", "refused"} <=> i \in Range(shown)
  /\ \A k \in DOMAIN shown, i \in Batch : shown[k] < i

Cleared ==
  /\ calls[at].pays => at \in yes
  /\ Current \in Gated => at \in yes \/ Current \in approved
  /\ ~Batched(at)

\* Whom the engine asks about, and what it fires when it has asked.
HumanInv ==
  /\ approved \subseteq Gated /\ confirmed \subseteq Danger /\ yes \subseteq Calls
  /\ GoesTo("approve") \/ (pc = "ask" /\ then = "approve") => NeedsApproval
  /\ pc = "ask" /\ then = "confirm" => Current \in Danger /\ injection
  /\ GoesTo("fire") => Cleared
  /\ GatedNeedsYes

\* A dangerous call is past the taint gate of a turn that is not tainted only.
TaintInv ==
  /\ tainted => injection
  /\ pc \in {"gate", "ask"} \/ GoesTo("approve") \/ GoesTo("fire")
       => ~(tainted /\ Current \in Danger)

\* The turn can only end: it comes to a look at the token before it comes to a dispatch.
Ending == pc \in {"call", "loop", "finish", "ended"} \/ GoesTo("tail")

\* A stop came too late for calls that the loop is past.  One call at a time is between its
\* last look and its dispatch, and before the stop was too late for another; and after the
\* call that was dispatched by itself the turn can only end.
LateInv ==
  /\ late \subseteq Calls /\ \A i \in late : i < at
  /\ late # {} => cancel
  /\ \A i, j \in In("cleared") : i = j
  /\ In("cleared") # {} => late = {}
  /\ (\E i \in late : ~Batched(i)) => Ending
  /\ LateIsOneOfEach

\* Each channel that holds a yes is covered by the credit.
Owed == {a \in Asker : \E v \in channel[a] : v.answer # "reject"}
CreditInv == IsFiniteSet(Owed) /\ Cardinality(Owed) <= credit

\* The parts of TypeOK that the invariants above leave open.
ControlOK ==
  /\ pc \in {"start", "admit", "loop", "stream", "backoff", "call", "gate", "flush", "refuse", "approve", "ask",
             "fire", "tail", "finish", "ended"}
  /\ iter \in 0..MaxIters /\ class \in {"open", "regulated"}
  /\ why \in {"none", "cancelled", "failed", "complete", "capped"}
  /\ dones = (IF pc = "ended" THEN 1 ELSE 0)
  /\ wire \in {"none", "started", "stopped", "failed", "complete", "capped"}

FlagsOK ==
  /\ injection \in BOOLEAN /\ tainted \in BOOLEAN /\ untrusted \in BOOLEAN /\ produced \in BOOLEAN
  /\ fresh \in BOOLEAN /\ cancel \in BOOLEAN /\ audited \in BOOLEAN

DomainInv ==
  /\ ApprovalsTypeOK /\ ControlOK /\ FlagsOK
  /\ calls \in Seq(Call) /\ cursor \in 0..Len(calls)

TurnInv ==
  /\ DomainInv /\ StreamInv /\ ThenInv /\ PlaceInv /\ BatchInv /\ ShownInv
  /\ HumanInv /\ TaintInv /\ LateInv /\ CreditInv /\ EditsInOrder

-----------------------------------------------------------------------------
(* Lemmas about the data *)

\* Setting the state of one call leaves the rest of the calls alone.
LEMMA SetState ==
  ASSUME NEW c \in Seq(Call), NEW i \in 1..Len(c), NEW s \in CallStates, NEW d,
         d = [c EXCEPT ![i].state = s]
  PROVE  /\ d \in Seq(Call) /\ Len(d) = Len(c)
         /\ \A j \in 1..Len(c) : /\ d[j].tool = c[j].tool /\ d[j].pays = c[j].pays
                                /\ d[j].state = IF j = i THEN s ELSE c[j].state
<1>1. c \in [1..Len(c) -> Call] /\ Len(c) \in Nat
  BY LenProperties
<1>2. d \in [1..Len(c) -> Call]
  <2>1. [c[i] EXCEPT !.state = s] \in Call
    BY <1>1 DEF Call
  <2> QED BY <1>1, <2>1
<1>3. d \in Seq(Call) /\ Len(d) = Len(c)
  BY <1>1, <1>2, IsASeq, LenProperties
<1>4. \A j \in 1..Len(c) : d[j] = IF j = i THEN [c[i] EXCEPT !.state = s] ELSE c[j]
  BY <1>1
<1>5. c[i] \in Call
  BY <1>1
<1> QED BY <1>3, <1>4, <1>5 DEF Call

LEMMA AddCall ==
  ASSUME NEW c \in Seq(Call), NEW x \in Call, NEW d, d = Append(c, x)
  PROVE  /\ d \in Seq(Call) /\ Len(d) = Len(c) + 1 /\ d[Len(d)] = x
         /\ \A j \in 1..Len(c) : d[j] = c[j]
BY AppendProperties

\* A set that grows by at most one element has at most one element more.
LEMMA AtMostOneMore ==
  ASSUME NEW S, NEW T, NEW x, IsFiniteSet(S), T \subseteq S \cup {x}
  PROVE  IsFiniteSet(T) /\ Cardinality(T) <= Cardinality(S) + 1
         /\ Cardinality(S) \in Nat /\ Cardinality(T) \in Nat
<1>1. IsFiniteSet(S \cup {x}) /\ Cardinality(S) \in Nat
      /\ Cardinality(S \cup {x}) <= Cardinality(S) + 1 /\ Cardinality(S \cup {x}) \in Nat
  <2>1. /\ IsFiniteSet(S \cup {x})
        /\ Cardinality(S \cup {x}) = IF x \in S THEN Cardinality(S) ELSE Cardinality(S) + 1
    BY FS_AddElement
  <2>2. Cardinality(S) \in Nat /\ Cardinality(S \cup {x}) \in Nat
    BY <2>1, FS_CardinalityType
  <2> QED BY <2>1, <2>2
<1>2. /\ IsFiniteSet(T) /\ Cardinality(T) <= Cardinality(S \cup {x})
      /\ Cardinality(T) \in Nat
  BY <1>1, FS_Subset, FS_CardinalityType
<1> QED BY <1>1, <1>2

LEMMA NoMore ==
  ASSUME NEW S, NEW T, IsFiniteSet(S), T \subseteq S
  PROVE  IsFiniteSet(T) /\ Cardinality(T) <= Cardinality(S)
         /\ Cardinality(S) \in Nat /\ Cardinality(T) \in Nat
BY FS_Subset, FS_CardinalityType

LEMMA OneLess ==
  ASSUME NEW S, NEW x \in S, IsFiniteSet(S)
  PROVE  IsFiniteSet(S \ {x}) /\ Cardinality(S \ {x}) = Cardinality(S) - 1
         /\ Cardinality(S) \in Nat
<1>1. x \in S
  OBVIOUS
<1> QED BY <1>1, FS_RemoveElement, FS_CardinalityType

\* A set of naturals that is not empty has a least element.
LEMMA MinIs ==
  ASSUME NEW S, S \subseteq Nat, S # {}
  PROVE  Min(S) \in S /\ \A x \in S : Min(S) <= x
<1> DEFINE R == OpToRel(<, Nat)
<1>1. IsWellFoundedOn(R, Nat)
  BY NatLessThanWellFounded
<1>2. \A x, y \in Nat : y < x => <<y, x>> \in R
  BY DEF OpToRel
<1> HIDE DEF R
<1>3. PICK m \in S : \A y \in S : ~(<<y, m>> \in R)
  BY <1>1, WFMin
<1>4. \A y \in S : m <= y
  <2>1. SUFFICES ASSUME NEW y \in S PROVE ~(y < m)
    OBVIOUS
  <2> QED BY <1>2, <1>3
<1>5. \E x \in S : \A y \in S : x <= y
  BY <1>4
<1> QED BY <1>5 DEF Min

-----------------------------------------------------------------------------
(* The approvals *)

\* The turn touches the approvals when it asks and when it has its answer, and then no channel.
LEMMA TurnKeepsChannels ==
  ASSUME TurnStep
  PROVE  \/ UNCHANGED approvalVars
         \/ Announce(Turn)
         \/ \E v \in Answer : Decided(v)
<1>1. CASE Admission
  BY <1>1 DEF Admission, StopEarly, Begin, Refuse, Admit, RailsBlock, Finish
<1>2. CASE Modelling
  BY <1>2 DEF Modelling, Model, Output, OutputEnds, IterCapped, LoopCancelled, RouteFails, Route, Text,
              ToolCall, StreamEnds, StreamCancelled,
              StreamRetries, Backoff, FailOver, StreamFails
<1>3. CASE CallScreen
  BY <1>3 DEF CallScreen, RoundCancelled, TailFlush, ScreenFails, ScreenBlocks, ScreenAsks, ScreenPasses,
              DlpBlocks, Gate, Queue, Serial, AskFor
<1>4. CASE Dispatching
  BY <1>4 DEF Dispatching, Poll, Dispatch, ShowResult, FlushEnds, AnswerRefused, Stuck, NextRound, Fire
<1>5. CASE Asking
  BY <1>5 DEF Asking, Ask, Confirmed, Approved, Denied, AskFor
<1> QED BY <1>1, <1>2, <1>3, <1>4, <1>5 DEF TurnStep, EngineStep, StreamStep, Modelling

\* What an asker, a timeout or a client does keeps the approvals well typed.
LEMMA ApprovalsTypeStep ==
  ASSUME ApprovalsTypeOK, [Next]_vars PROVE ApprovalsTypeOK'
<1> USE ApprovalsAssumption, TurnAssumption DEF ApprovalsTypeOK
<1>1. CASE UNCHANGED approvalVars
  BY <1>1 DEF approvalVars
<1>2. CASE Announce(Turn)
  BY <1>2 DEF Announce
<1>3. ASSUME NEW v \in Answer, Decided(v) PROVE ApprovalsTypeOK'
  <2>1. Nothing \in [answer : Answer \cup {"none"}, own : BOOLEAN]
    BY DEF Nothing
  <2> QED BY <1>3, <2>1 DEF Decided
<1>4. ASSUME NEW a \in Asker, NEW v \in [answer : Answer, own : BOOLEAN], Returns(a, v)
      PROVE  ApprovalsTypeOK'
  <2>1. credit' \in Int
    BY <1>4 DEF Returns
  <2>2. channel' \in [Asker -> SUBSET [answer : Answer, own : BOOLEAN]]
    BY <1>4 DEF Returns
  <2>3. v \in [answer : Answer \cup {"none"}, own : BOOLEAN]
    OBVIOUS
  <2>4. /\ ask' \in [Asker -> {"idle", "announced", "waiting", "expired", "decided"}]
        /\ verdict' \in [Asker -> [answer : Answer \cup {"none"}, own : BOOLEAN]]
    BY <1>4, <2>3 DEF Returns
  <2> QED BY <1>4, <2>1, <2>2, <2>4 DEF Returns
<1>5. ASSUME NEW a \in Asker, Deciding(a) \/ RegisterUnannounced(a) PROVE ApprovalsTypeOK'
  <2>1. CASE Register(a) \/ RegisterUnannounced(a)
    BY <2>1 DEF Register, RegisterUnannounced
  <2>2. CASE Receive(a)
    BY <1>4, <2>2 DEF Receive
  <2>3. CASE Disconnected(a) \/ GiveUp(a)
    <3>1. Refused \in [answer : Answer, own : BOOLEAN]
      BY DEF Refused, Answer
    <3> QED BY <1>4, <2>3, <3>1 DEF Disconnected, GiveUp
  <2>4. CASE Expire(a)
    BY <2>4 DEF Expire
  <2> QED BY <1>5, <2>1, <2>2, <2>3, <2>4 DEF Deciding
<1>6. ASSUME NEW own \in BOOLEAN, NEW d \in Answer, Respond(own, d) PROVE ApprovalsTypeOK'
  <2>1. channel' \in [Asker -> SUBSET [answer : Answer, own : BOOLEAN]]
    BY <1>6 DEF Respond, Reaches
  <2>2. credit' \in Int /\ responds' \in Nat
    BY <1>6 DEF Respond, Reaches
  <2> QED BY <1>6, <2>1, <2>2 DEF Respond, Reaches
<1>7. CASE TurnStep
  BY <1>1, <1>2, <1>3, <1>7, TurnKeepsChannels
<1>8. CASE Stop \/ UNCHANGED vars
  BY <1>1, <1>8 DEF Stop, vars
<1> QED BY <1>5, <1>6, <1>7, <1>8 DEF Next, Gates, Clients

\* No step of anybody puts more answers into the channels than the credit grows by, nor
\* takes more credit than there are answers.
LEMMA CreditStep ==
  ASSUME ApprovalsTypeOK, CreditInv, [Next]_vars PROVE CreditInv'
<1> DEFINE Yes(c) == {a \in Asker : \E v \in c[a] : v.answer # "reject"}
<1>0. /\ Owed = Yes(channel) /\ Owed' = Yes(channel') /\ credit \in Int
      /\ IsFiniteSet(Yes(channel)) /\ Cardinality(Yes(channel)) <= credit
      /\ channel \in [Asker -> SUBSET [answer : Answer, own : BOOLEAN]]
  BY DEF Owed, CreditInv, ApprovalsTypeOK
<1>1. SUFFICES IsFiniteSet(Yes(channel')) /\ Cardinality(Yes(channel')) <= credit'
  BY <1>0 DEF CreditInv
<1> HIDE DEF Yes
<1>2. CASE UNCHANGED <<channel, credit>>
  BY <1>0, <1>2
<1>3. ASSUME NEW a \in Asker, channel' = [channel EXCEPT ![a] = {}]
      PROVE  Yes(channel') = Yes(channel) \ {a}
  BY <1>0, <1>3 DEF Yes
<1>4. ASSUME NEW a \in Asker, channel' = [channel EXCEPT ![a] = {}], credit' = credit
      PROVE  IsFiniteSet(Yes(channel')) /\ Cardinality(Yes(channel')) <= credit'
  <2>1. Yes(channel') \subseteq Yes(channel)
    BY <1>3, <1>4
  <2>2. IsFiniteSet(Yes(channel')) /\ Cardinality(Yes(channel')) <= Cardinality(Yes(channel))
        /\ Cardinality(Yes(channel)) \in Nat /\ Cardinality(Yes(channel')) \in Nat
    BY <1>0, <2>1, NoMore
  <2> QED BY <1>0, <1>4, <2>2
<1>5. ASSUME NEW a \in Asker, Receive(a)
      PROVE  IsFiniteSet(Yes(channel')) /\ Cardinality(Yes(channel')) <= credit'
  <2>1. PICK v \in channel[a] : Returns(a, v)
    BY <1>5 DEF Receive
  <2>2. CASE v.answer = "reject"
    <3>1. channel' = [channel EXCEPT ![a] = {}] /\ credit' = credit
      BY <1>0, <2>1, <2>2 DEF Returns
    <3> QED BY <1>4, <3>1
  <2>3. CASE v.answer # "reject"
    <3>1. a \in Yes(channel)
      BY <2>3 DEF Yes
    <3>2. credit' = credit - 1 /\ Yes(channel') = Yes(channel) \ {a}
      BY <1>3, <2>1, <2>3 DEF Returns
    <3>3. IsFiniteSet(Yes(channel) \ {a})
          /\ Cardinality(Yes(channel) \ {a}) = Cardinality(Yes(channel)) - 1
          /\ Cardinality(Yes(channel)) \in Nat
      BY <1>0, <3>1, OneLess
    <3> QED BY <1>0, <3>2, <3>3
  <2> QED BY <2>2, <2>3
<1>6. ASSUME NEW a \in Asker, Deciding(a) \/ RegisterUnannounced(a)
      PROVE  IsFiniteSet(Yes(channel')) /\ Cardinality(Yes(channel')) <= credit'
  <2>1. CASE Register(a) \/ RegisterUnannounced(a)
    BY <1>4, <2>1 DEF Register, RegisterUnannounced
  <2>2. CASE Disconnected(a) \/ GiveUp(a)
    <3>1. channel' = [channel EXCEPT ![a] = {}] /\ credit' = credit
      BY <1>0, <2>2 DEF Disconnected, GiveUp, Returns, Refused
    <3> QED BY <1>4, <3>1
  <2>3. CASE Expire(a)
    BY <1>2, <2>3 DEF Expire
  <2> QED BY <1>5, <1>6, <2>1, <2>2, <2>3 DEF Deciding
<1>7. ASSUME NEW own \in BOOLEAN, NEW d \in Answer, Respond(own, d)
      PROVE  IsFiniteSet(Yes(channel')) /\ Cardinality(Yes(channel')) <= credit'
  <2>1. Yes(channel') \subseteq Yes(channel) \cup {pending}
    BY <1>0, <1>7 DEF Respond, Reaches, Yes
  <2>2. CASE credit' = credit + 1
    <3>1. IsFiniteSet(Yes(channel')) /\ Cardinality(Yes(channel')) <= Cardinality(Yes(channel)) + 1
          /\ Cardinality(Yes(channel)) \in Nat /\ Cardinality(Yes(channel')) \in Nat
      BY <1>0, <2>1, AtMostOneMore
    <3> QED BY <1>0, <2>2, <3>1
  <2>3. CASE credit' = credit /\ Yes(channel') \subseteq Yes(channel)
    <3>1. IsFiniteSet(Yes(channel')) /\ Cardinality(Yes(channel')) <= Cardinality(Yes(channel))
          /\ Cardinality(Yes(channel)) \in Nat /\ Cardinality(Yes(channel')) \in Nat
      BY <1>0, <2>3, NoMore
    <3> QED BY <1>0, <2>3, <3>1
  <2>4. d = "reject" \/ {a \in Asker : a = pending /\ Receives(a)} = {} => Yes(channel') \subseteq Yes(channel)
    BY <1>0, <1>7 DEF Respond, Reaches, Yes
  <2> QED BY <1>0, <1>7, <2>2, <2>3, <2>4 DEF Respond, Reaches
<1>8. CASE TurnStep
  <2>1. UNCHANGED <<channel, credit>>
    BY <1>8, TurnKeepsChannels DEF approvalVars, Announce, Decided
  <2> QED BY <1>2, <2>1
<1>9. CASE Stop \/ UNCHANGED vars
  BY <1>2, <1>9 DEF Stop, vars, approvalVars
<1> QED BY <1>6, <1>7, <1>8, <1>9 DEF Next, Gates, Clients

-----------------------------------------------------------------------------
(* The loop *)

\* What the clients and the other askers do is nothing to the turn's loop.
LEMMA NextCases ==
  ASSUME [Next]_vars
  PROVE  \/ Admission \/ Modelling \/ CallScreen \/ Dispatching \/ Asking
         \/ Stop \/ UNCHANGED OtherVars
<1>1. TurnStep => Admission \/ Modelling \/ CallScreen \/ Dispatching \/ Asking
  BY DEF TurnStep, EngineStep, StreamStep, Modelling
<1> QED BY <1>1 DEF Next, Gates, vars, OtherVars

\* After a flush and after a question the engine does what it meant to do.
LEMMA ThenStep == ASSUME ThenInv, [Next]_vars PROVE ThenInv'
<1> USE DEF ThenInv
<1>1. CASE Admission
  BY <1>1 DEF Admission, StopEarly, Begin, Refuse, Admit, RailsBlock, Finish, Ends, callVars
<1>2. CASE Modelling
  BY <1>2 DEF Modelling, Model, Output, OutputEnds, IterCapped, LoopCancelled, RouteFails, Route, Text,
              ToolCall, StreamEnds, StreamCancelled,
              StreamRetries, Backoff, FailOver, StreamFails, Leave, Ends, callVars
<1>3. CASE CallScreen
  BY <1>3 DEF CallScreen, RoundCancelled, TailFlush, ScreenFails, ScreenBlocks, ScreenAsks, ScreenPasses,
              DlpBlocks, Gate, Queue, Serial, AskFor, Look, FlushThen, Leave, Answers, callVars
<1>4. CASE Dispatching
  BY <1>4 DEF Dispatching, Poll, Dispatch, ShowResult, FlushEnds, AnswerRefused, Stuck, NextRound, Fire,
              Leave, Answers,
              callVars
<1>5. CASE Asking
  BY <1>5 DEF Asking, Ask, Confirmed, Approved, Denied, Decided, AskFor, Answers
<1>6. CASE Stop \/ UNCHANGED OtherVars
  BY <1>6 DEF Stop, OtherVars, callVars
<1> QED BY <1>1, <1>2, <1>3, <1>4, <1>5, <1>6, NextCases

\* A stopped turn that can only end does nothing else.
LEMMA EndingStep == ASSUME ThenInv, cancel, Ending, [Next]_vars PROVE Ending'
<1> USE DEF ThenInv, Ending, GoesTo
<1>1. CASE Admission
  BY <1>1 DEF Admission, StopEarly, Begin, Refuse, Admit, RailsBlock, Finish, Ends, callVars
<1>2. CASE Modelling
  BY <1>2 DEF Modelling, Model, Output, OutputEnds, IterCapped, LoopCancelled, RouteFails, Route, Text,
              ToolCall,
              StreamEnds, StreamCancelled, StreamRetries, Backoff, FailOver, StreamFails, Leave, Ends
<1>3. CASE CallScreen
  BY <1>3 DEF CallScreen, RoundCancelled, TailFlush, ScreenFails, ScreenBlocks, ScreenAsks, ScreenPasses,
              DlpBlocks, Gate, Queue, Serial, Look, FlushThen, Leave, callVars
<1>4. CASE Dispatching
  <2>1. CASE (\E i \in Calls : Poll(i) \/ Dispatch(i)) \/ ShowResult \/ FlushEnds
    BY <2>1 DEF Poll, Dispatch, ShowResult, FlushEnds
  <2>2. CASE AnswerRefused \/ Stuck \/ NextRound \/ \E suspicious \in BOOLEAN : Fire(suspicious)
    BY <2>2 DEF AnswerRefused, Stuck, NextRound, Fire, Leave, Answers, callVars
  <2> QED BY <1>4, <2>1, <2>2 DEF Dispatching
<1>5. CASE Asking
  BY <1>5 DEF Asking, Ask, Confirmed, Approved, Denied, Decided
<1>6. CASE Stop \/ UNCHANGED OtherVars
  BY <1>6 DEF Stop, OtherVars, callVars
<1> QED BY <1>1, <1>2, <1>3, <1>4, <1>5, <1>6, NextCases

-----------------------------------------------------------------------------
(* The stream of a round *)

\* A chain is a sequence of providers, none twice; what is left of it is a chain too.
LEMMA ChainIsSeq ==
  ASSUME NEW S, IsFiniteSet(S), NEW s \in Chains(S)
  PROVE  /\ s \in Seq(S) /\ Len(s) \in 1..Cardinality(S) /\ Head(s) \in S
         /\ \A i, j \in 1..Len(s) : s[i] = s[j] => i = j
<1>1. PICK n \in 1..Cardinality(S) : s \in [1..n -> S]
  BY DEF Chains
<1>2. Cardinality(S) \in Nat /\ n \in Nat
  BY <1>1, FS_CardinalityType
<1>3. s \in Seq(S) /\ Len(s) = n
  BY <1>1, <1>2, IsASeq, LenProperties
<1>4. Head(s) \in S
  BY <1>1, <1>2, <1>3, HeadTailProperties, EmptySeq
<1>5. \A i, j \in 1..n : s[i] = s[j] => i = j
  BY <1>1 DEF Chains, IsInjective
<1> QED BY <1>2, <1>3, <1>4, <1>5

LEMMA SeqIsChain ==
  ASSUME NEW S, IsFiniteSet(S), NEW s \in Seq(S), Len(s) \in 1..Cardinality(S),
         \A i, j \in 1..Len(s) : s[i] = s[j] => i = j
  PROVE  s \in Chains(S)
<1>1. s \in [1..Len(s) -> S] /\ Len(s) \in Nat
  BY LenProperties
<1>2. s \in UNION {[1..n -> S] : n \in 1..Cardinality(S)}
  BY <1>1
<1>3. IsInjective(s)
  BY <1>1 DEF IsInjective
<1> QED BY <1>2, <1>3 DEF Chains

LEMMA ChainTail ==
  ASSUME NEW S, IsFiniteSet(S), NEW s \in Chains(S), Len(s) > 1
  PROVE  Tail(s) \in Chains(S)
<1>1. /\ s \in Seq(S) /\ Len(s) \in 1..Cardinality(S)
      /\ \A i, j \in 1..Len(s) : s[i] = s[j] => i = j
  BY ChainIsSeq
<1>2. Cardinality(S) \in Nat /\ Len(s) \in Nat /\ s # <<>>
  BY <1>1, FS_CardinalityType, LenProperties, EmptySeq
<1>3. /\ Tail(s) \in Seq(S) /\ Len(Tail(s)) = Len(s) - 1
      /\ \A i \in 1..(Len(s) - 1) : Tail(s)[i] = s[i + 1]
  BY <1>1, <1>2, HeadTailProperties
<1>4. \A i, j \in 1..Len(Tail(s)) : Tail(s)[i] = Tail(s)[j] => i = j
  <2>1. \A i \in 1..(Len(s) - 1) : i + 1 \in 1..Len(s)
    BY <1>2
  <2>2. SUFFICES ASSUME NEW i \in 1..(Len(s) - 1), NEW j \in 1..(Len(s) - 1), s[i + 1] = s[j + 1]
                 PROVE  i = j
    BY <1>3
  <2>3. i + 1 = j + 1
    BY <1>1, <2>1, <2>2
  <2> QED BY <2>3
<1>5. Len(Tail(s)) \in 1..Cardinality(S)
  BY <1>1, <1>2, <1>3
<1> QED BY <1>3, <1>4, <1>5, SeqIsChain

LEMMA ChainsGrow ==
  ASSUME NEW S, NEW T, IsFiniteSet(T), S \subseteq T
  PROVE  Chains(S) \subseteq Chains(T)
<1>1. SUFFICES ASSUME NEW s \in Chains(S) PROVE s \in Chains(T)
  OBVIOUS
<1>2. IsFiniteSet(S) /\ Cardinality(S) <= Cardinality(T)
      /\ Cardinality(S) \in Nat /\ Cardinality(T) \in Nat
  BY NoMore
<1>3. /\ s \in Seq(S) /\ Len(s) \in 1..Cardinality(S)
      /\ \A i, j \in 1..Len(s) : s[i] = s[j] => i = j
  BY <1>2, ChainIsSeq
<1>4. s \in Seq(T)
  BY <1>3, SeqMonotonic
<1>5. Len(s) \in 1..Cardinality(T)
  BY <1>2, <1>3
<1> QED BY <1>3, <1>4, <1>5, SeqIsChain

LEMMA EligibleAre ==
  ASSUME NEW c PROVE Eligible(c) \subseteq Provider /\ IsFiniteSet(Eligible(c))
<1>1. Eligible(c) \subseteq Provider
  BY TurnAssumption DEF Eligible
<1> QED BY <1>1, TurnAssumption, FS_Subset

\* A chain is made of the providers that may see the turn's class, and the class is raised
\* while there is no chain only.
LEMMA ChainStep ==
  ASSUME StreamInv, ThenInv, [Next]_vars PROVE StreamInv'
<1> USE TurnAssumption DEF StreamInv
<1>1. CASE Admission
  BY <1>1 DEF Admission, StopEarly, Begin, Refuse, Admit, RailsBlock, Finish, Ends, streamVars, dataVars
<1>2. CASE IterCapped \/ LoopCancelled \/ RouteFails
  BY <1>2 DEF IterCapped, LoopCancelled, RouteFails, Leave, Ends, streamVars, dataVars
<1>3. ASSUME NEW s \in Chains(Provider), Route(s) PROVE StreamInv'
  BY <1>3 DEF Route, dataVars
<1>4. CASE Text \/ \E t \in Tool, pays \in BOOLEAN : ToolCall(t, pays)
  <2>1. pc' = "stream" /\ pc = "stream" /\ produced' = TRUE /\ UNCHANGED <<chain, tries, class>>
    BY <1>4 DEF Text, ToolCall, dataVars
  <2>2. spoke' = IF produced THEN spoke ELSE spoke + 1
    BY <1>4 DEF Text, ToolCall
  <2> QED BY <2>1, <2>2
<1>5. CASE StreamEnds \/ StreamCancelled \/ StreamFails
  <2>1. pc' \in {"finish", "call"} /\ StreamOver
    BY <1>5 DEF StreamEnds, StreamCancelled, StreamFails, Leave
  <2> QED BY <2>1 DEF StreamOver
<1>6. CASE StreamRetries
  BY <1>6 DEF StreamRetries, streamVars, dataVars
<1>7. CASE Backoff
  <2>1. tries' \in 0..MaxRetries
    BY <1>7 DEF Backoff
  <2> QED BY <1>7, <2>1 DEF Backoff, dataVars
<1>8. CASE FailOver
  <2>1. Tail(chain) \in Chains(Eligible(class))
    BY <1>8, EligibleAre, ChainTail DEF FailOver
  <2> QED BY <1>8, <2>1 DEF FailOver, dataVars
<1>9. CASE Modelling
  BY <1>2, <1>3, <1>4, <1>5, <1>6, <1>7, <1>8, <1>9 DEF Modelling, Model, Output, OutputEnds
<1>10. CASE CallScreen \/ Dispatching \/ Asking
  <2>1. pc \notin {"stream", "backoff"} /\ pc' \notin {"stream", "backoff"}
    <3>1. CASE CallScreen
      BY <3>1 DEF CallScreen, RoundCancelled, TailFlush, ScreenFails, ScreenBlocks, ScreenAsks, ScreenPasses,
                  DlpBlocks, Gate, Queue, Serial, AskFor, Look, FlushThen, Leave, Answers
    <3>2. CASE Dispatching
      BY <3>2 DEF ThenInv, Dispatching, Poll, Dispatch, ShowResult, FlushEnds, AnswerRefused, Stuck,
                  NextRound, Fire,
                  Leave, Answers
    <3>3. CASE Asking
      BY <3>3 DEF Asking, Ask, Confirmed, Approved, Denied, Decided, AskFor, Answers
    <3> QED BY <1>10, <3>1, <3>2, <3>3
  <2>2. UNCHANGED streamVars
    <3>1. CASE CallScreen
      BY <3>1 DEF CallScreen, RoundCancelled, TailFlush, ScreenFails, ScreenBlocks, ScreenAsks, ScreenPasses,
                  DlpBlocks, Gate, Queue, Serial
    <3>2. CASE Dispatching
      BY <3>2 DEF Dispatching, Poll, Dispatch, ShowResult, FlushEnds, AnswerRefused, Stuck, NextRound, Fire
    <3>3. CASE Asking
      BY <3>3 DEF Asking, Ask, Confirmed, Approved, Denied
    <3> QED BY <1>10, <3>1, <3>2, <3>3
  <2> QED BY <2>1, <2>2 DEF streamVars
<1>11. CASE Stop \/ UNCHANGED OtherVars
  BY <1>11 DEF Stop, OtherVars, streamVars, dataVars
<1> QED BY <1>1, <1>9, <1>10, <1>11, NextCases

-----------------------------------------------------------------------------
(* The calls of the turn *)

\* The call that is polled, or dispatched, is pending.
LEMMA PolledIsRunnable ==
  ASSUME NEW i, Poll(i) PROVE i \in Runnable
<1>1. Runnable \subseteq Nat
  BY DEF Runnable, In, Calls
<1> DEFINE above == {j \in Runnable : j > cursor}
<1> DEFINE S == IF above = {} THEN Runnable ELSE above
<1>2. S # {} /\ S \subseteq Runnable /\ i = Min(S)
  BY DEF Poll, IsPolled
<1> HIDE DEF S
<1>3. i \in S
  BY <1>1, <1>2, MinIs
<1> QED BY <1>2, <1>3

LEMMA PolledIsPending ==
  ASSUME NEW i \in Calls, Poll(i) \/ Dispatch(i) PROVE i \in Pending
<1>1. CASE Poll(i)
  BY <1>1, PolledIsRunnable DEF Runnable, Pending
<1>2. CASE Dispatch(i)
  BY <1>2 DEF Dispatch, Pending, In
<1> QED BY <1>1, <1>2

\* It is dropped because of a stop only.
LEMMA PolledMoves ==
  ASSUME NEW i \in Calls, Poll(i) \/ Dispatch(i)
  PROVE  \E z \in {"dropped", "inflight", "cleared", "fired"} :
           calls' = [calls EXCEPT ![i].state = z] /\ (z = "dropped" => cancel)
<1>1. CASE Poll(i)
  BY <1>1 DEF Poll
<1>2. CASE Dispatch(i)
  BY <1>2 DEF Dispatch
<1> QED BY <1>1, <1>2

\* Call i moves to state s: into the batch when it is the current one, on in the batch when
\* it is polled, and answered when its result is shown or it was dispatched by itself.
Moves(i, s) ==
  /\ i \in Calls /\ s \in CallStates \ {"streamed"}
  /\ calls' = [calls EXCEPT ![i].state = s]
  /\ s = "queued" => i = at
  /\ s \in {"inflight", "cleared", "dropped"} => i \in Runnable
  /\ s = "fired" => i \in In("cleared")
  /\ s = "cleared" => In("cleared") = {} /\ ~cancel
  /\ s = "answered" => i \in In("fired") \/ (pc = "fire" /\ i = at)

\* A step leaves the calls as they are, adds one, or changes the state of one.
LEMMA CallMoves ==
  ASSUME DomainInv, PlaceInv, [Next]_vars
  PROVE  \/ UNCHANGED calls
         \/ \E t \in Tool, pays \in BOOLEAN :
              pc = "stream" /\ calls' = Append(calls, [tool |-> t, pays |-> pays, state |-> "streamed"])
         \/ \E i, s : Moves(i, s)
<1>0. /\ calls \in Seq(Call) /\ Len(calls) \in Nat /\ at \in Nat \ {0}
      /\ pc \in {"gate", "ask", "refuse", "fire"} => at \in Calls
  BY LenProperties DEF DomainInv, PlaceInv, GoesTo, Calls
<1>1. CASE Admission
  BY <1>1 DEF Admission, StopEarly, Begin, Refuse, Admit, RailsBlock, Finish, callVars
<1>2. CASE Modelling
  BY <1>2 DEF Modelling, Model, Output, OutputEnds, IterCapped, LoopCancelled, RouteFails, Route, Text,
              ToolCall, StreamEnds, StreamCancelled,
              StreamRetries, Backoff, FailOver, StreamFails, callVars
<1>3. ASSUME at \in Calls, Answers("refused") PROVE Moves(at, "refused")
  BY <1>3 DEF Answers, Moves, CallStates
<1>4. CASE CallScreen
  <2>1. ASSUME NEW new \in BOOLEAN, ScreenBlocks(new) PROVE Moves(at, "refused")
    <3>1. at \in Calls
      BY <1>0, <2>1 DEF ScreenBlocks, Look, Calls
    <3> QED BY <1>3, <2>1, <3>1 DEF ScreenBlocks
  <2>2. CASE Queue
    <3>1. Moves(at, "queued")
      BY <1>0, <2>2 DEF Queue, Moves, CallStates
    <3> QED BY <3>1
  <2>3. CASE UNCHANGED calls
    BY <2>3
  <2> QED BY <1>4, <2>1, <2>2, <2>3
          DEF CallScreen, RoundCancelled, TailFlush, ScreenFails, ScreenAsks, ScreenPasses,
              DlpBlocks, Gate, Serial, callVars
<1>5. CASE Dispatching
  <2>1. ASSUME NEW i \in Calls, Poll(i) \/ Dispatch(i) PROVE \E s : Moves(i, s)
    <3>1. CASE Poll(i)
      <4>1. PICK z \in {"dropped", "inflight", "cleared"} :
              calls' = [calls EXCEPT ![i].state = z] /\ (z = "cleared" => In("cleared") = {} /\ ~cancel)
        BY <3>1 DEF Poll
      <4>2. Moves(i, z)
        BY <3>1, <4>1, PolledIsRunnable DEF Moves, CallStates
      <4> QED BY <4>2
    <3>2. CASE Dispatch(i)
      <4>1. Moves(i, "fired")
        BY <3>2 DEF Dispatch, In, Moves, CallStates
      <4> QED BY <4>1
    <3> QED BY <2>1, <3>1, <3>2
  <2>2. CASE ShowResult
    <3>1. In("fired") \subseteq Nat /\ In("fired") \subseteq Calls /\ In("fired") # {}
      BY <2>2 DEF ShowResult, In, Calls
    <3>2. PICK i : i = Min(In("fired"))
      OBVIOUS
    <3>3. i \in Calls /\ i \in In("fired")
      BY <3>1, <3>2, MinIs
    <3>4. calls' = [calls EXCEPT ![i].state = "answered"]
      BY <2>2, <3>2 DEF ShowResult
    <3>5. Moves(i, "answered")
      BY <3>3, <3>4 DEF Moves, CallStates
    <3> QED BY <3>5
  <2>3. CASE AnswerRefused
    BY <1>0, <1>3, <2>3 DEF AnswerRefused
  <2>4. ASSUME NEW suspicious \in BOOLEAN, Fire(suspicious) PROVE Moves(at, "answered")
    BY <1>0, <2>4 DEF Fire, Answers, Moves, CallStates
  <2>5. CASE FlushEnds \/ Stuck \/ NextRound
    BY <2>5 DEF FlushEnds, Stuck, NextRound, callVars
  <2> QED BY <1>5, <2>1, <2>2, <2>3, <2>4, <2>5 DEF Dispatching
<1>6. CASE Asking
  <2>1. ASSUME NEW v \in Answer, Denied(v) PROVE Moves(at, "refused")
    BY <1>0, <1>3, <2>1 DEF Denied, Decided
  <2>2. CASE Ask \/ \E v \in Answer : Confirmed(v) \/ Approved(v)
    BY <2>2 DEF Ask, Confirmed, Approved
  <2> QED BY <1>6, <2>1, <2>2 DEF Asking
<1>7. CASE Stop \/ UNCHANGED OtherVars
  BY <1>7 DEF Stop, OtherVars, callVars
<1> QED BY <1>1, <1>2, <1>4, <1>5, <1>6, <1>7, NextCases

\* The state of call i becomes s, and nothing else about the calls changes.
Sets(i, s) ==
  /\ Len(calls') = Len(calls)
  /\ \A j \in Calls : /\ calls'[j].tool = calls[j].tool /\ calls'[j].pays = calls[j].pays
                      /\ calls'[j].state = IF j = i THEN s ELSE calls[j].state

LEMMA SetsCall ==
  ASSUME calls \in Seq(Call), NEW i \in Calls, NEW s \in CallStates, calls' = [calls EXCEPT ![i].state = s]
  PROVE  calls' \in Seq(Call) /\ Sets(i, s)
BY SetState DEF Sets, Calls

\* The loop goes through the calls in order, and ends a round when it has seen them all.
LEMMA PlaceStep ==
  ASSUME DomainInv, ThenInv, PlaceInv, [Next]_vars PROVE PlaceInv'
<1> USE DEF PlaceInv, GoesTo, Calls
<1>0. calls \in Seq(Call) /\ Len(calls) \in Nat /\ base \in Nat /\ at \in Nat \ {0}
  BY LenProperties DEF DomainInv
<1>1. CASE Admission
  BY <1>1 DEF ThenInv, Admission, StopEarly, Begin, Refuse, Admit, RailsBlock, Finish, Ends, callVars
<1>2. CASE IterCapped \/ LoopCancelled \/ RouteFails
  BY <1>2 DEF ThenInv, IterCapped, LoopCancelled, RouteFails, Leave, Ends, callVars
<1>3. ASSUME NEW s \in Chains(Provider), Route(s) PROVE PlaceInv'
  BY <1>0, <1>3 DEF Route
<1>4. ASSUME NEW t \in Tool, NEW pays \in BOOLEAN, ToolCall(t, pays) PROVE PlaceInv'
  <2> DEFINE x == [tool |-> t, pays |-> pays, state |-> "streamed"]
  <2>1. x \in Call /\ x.state = "streamed"
    BY DEF Call, CallStates
  <2>2. calls' = Append(calls, x) /\ pc = "stream" /\ UNCHANGED <<pc, at, base, then, why>>
    BY <1>4 DEF ToolCall, endVars
  <2> HIDE DEF x
  <2>3. /\ Len(calls') = Len(calls) + 1 /\ calls'[Len(calls) + 1] = x
        /\ \A j \in 1..Len(calls) : calls'[j] = calls[j]
    BY <1>0, <2>1, <2>2, AddCall
  <2>4. \A i \in 1..Len(calls') : calls'[i].state = "streamed" <=> at <= i
    BY <1>0, <2>1, <2>2, <2>3
  <2> QED BY <1>0, <2>2, <2>3, <2>4
<1>5. CASE Text \/ StreamRetries \/ Backoff \/ FailOver
  BY <1>5 DEF Text, StreamRetries, Backoff, FailOver, callVars, endVars
<1>6. CASE StreamCancelled \/ StreamFails
  BY <1>6 DEF ThenInv, StreamCancelled, StreamFails, Leave, callVars
<1>7. CASE StreamEnds
  <2>1. ASSUME Round = {} PROVE base = Len(calls)
    <3>1. Len(calls) \notin Round
      BY <2>1
    <3> QED BY <1>0, <3>1 DEF Round
  <2>2. ASSUME Round # {} PROVE base < Len(calls)
    <3>1. PICK i \in Calls : i > base
      BY <2>2 DEF Round
    <3> QED BY <1>0, <3>1
  <2>3. UNCHANGED <<calls, base, then>>
    BY <1>7 DEF StreamEnds
  <2>4. CASE pc' = "finish" /\ UNCHANGED at /\ (why' = "failed" \/ Round = {})
    BY <1>0, <1>7, <2>1, <2>3, <2>4 DEF StreamEnds, ThenInv
  <2>5. CASE pc' = "call" /\ at' = base + 1
    BY <1>0, <1>7, <2>2, <2>3, <2>5 DEF StreamEnds, ThenInv
  <2> QED BY <1>7, <2>4, <2>5 DEF StreamEnds, Leave
<1>8. CASE Modelling
  BY <1>2, <1>3, <1>4, <1>5, <1>6, <1>7, <1>8 DEF Modelling, Model, Output, OutputEnds
\* The current call gets the state s, and the loop goes on.
<1>9. ASSUME NEW s \in CallStates \ {"streamed"}, at \in Calls, calls' = [calls EXCEPT ![at].state = s],
             at' = at + 1, pc' = "call", UNCHANGED base
      PROVE  PlaceInv'
  <2>1. Sets(at, s)
    BY <1>0, <1>9, SetsCall
  <2>2. at + 1 <= Len(calls) + 1
    BY <1>0, <1>9
  <2>3. \A i \in Calls : calls'[i].state = "streamed" <=> at + 1 <= i
    BY <1>0, <1>9, <2>1 DEF Sets
  <2> QED BY <1>0, <1>9, <2>1, <2>2, <2>3 DEF Sets
<1>10. CASE CallScreen
  <2>1. CASE RoundCancelled \/ TailFlush
    BY <1>0, <2>1 DEF ThenInv, RoundCancelled, TailFlush, FlushThen, Leave, callVars
  <2>2. ASSUME NEW new \in BOOLEAN, ScreenFails(new) \/ ScreenAsks(new) \/ ScreenPasses(new)
        PROVE  PlaceInv'
    BY <1>0, <2>2 DEF ScreenFails, ScreenAsks, ScreenPasses, Look, FlushThen, AskFor
  <2>3. CASE DlpBlocks \/ Gate \/ Serial
    BY <1>0, <2>3 DEF DlpBlocks, Gate, Serial, FlushThen
  <2>4. ASSUME NEW new \in BOOLEAN, ScreenBlocks(new) PROVE PlaceInv'
    BY <1>0, <1>9, <2>4 DEF ScreenBlocks, Look, Answers, CallStates
  <2>5. CASE Queue
    BY <1>0, <1>9, <2>5 DEF Queue, CallStates
  <2> QED BY <1>10, <2>1, <2>2, <2>3, <2>4, <2>5 DEF CallScreen
<1>11. ASSUME NEW i \in Calls, NEW s \in CallStates \ {"streamed"}, calls' = [calls EXCEPT ![i].state = s],
              calls[i].state # "streamed", UNCHANGED <<pc, base, at, then, why>>
       PROVE  PlaceInv'
  <2>1. Sets(i, s)
    BY <1>0, <1>11, SetsCall
  <2> QED BY <1>0, <1>11, <2>1 DEF Sets
<1>12. CASE Dispatching
  <2>1. ASSUME NEW i \in Calls, Poll(i) \/ Dispatch(i) PROVE PlaceInv'
    <3>1. PICK z \in {"dropped", "inflight", "cleared", "fired"} : calls' = [calls EXCEPT ![i].state = z]
      BY <2>1, PolledMoves
    <3>2. z \in CallStates \ {"streamed"} /\ UNCHANGED <<pc, base, at, then, why>>
      BY <2>1 DEF CallStates, Poll, Dispatch, endVars
    <3>3. calls[i].state # "streamed"
      BY <2>1, PolledIsPending DEF Pending, In
    <3> QED BY <1>11, <3>1, <3>2, <3>3
  <2>2. CASE ShowResult
    <3> DEFINE i == Min(In("fired"))
    <3>1. In("fired") \subseteq Nat /\ In("fired") \subseteq Calls /\ In("fired") # {}
      BY <2>2 DEF ShowResult, In
    <3>2. i \in Calls /\ calls[i].state = "fired"
      BY <3>1, MinIs DEF In
    <3>3. calls' = [calls EXCEPT ![i].state = "answered"] /\ UNCHANGED <<pc, base, at, then, why>>
      BY <2>2 DEF ShowResult, endVars
    <3> HIDE DEF i
    <3> QED BY <1>11, <3>2, <3>3 DEF CallStates
  <2>3. CASE AnswerRefused
    BY <1>0, <1>9, <2>3 DEF AnswerRefused, Answers, CallStates
  <2>4. ASSUME NEW suspicious \in BOOLEAN, Fire(suspicious) PROVE PlaceInv'
    BY <1>0, <1>9, <2>4 DEF Fire, Answers, CallStates
  <2>5. CASE FlushEnds
    BY <1>0, <2>5 DEF FlushEnds, ThenInv, endVars
  <2>6. CASE Stuck \/ NextRound
    BY <1>0, <2>6 DEF Stuck, NextRound, Leave, callVars, ThenInv
  <2> QED BY <1>12, <2>1, <2>2, <2>3, <2>4, <2>5, <2>6 DEF Dispatching
<1>13. CASE Asking
  <2>1. ASSUME NEW v \in Answer, Denied(v) PROVE PlaceInv'
    BY <1>0, <1>9, <2>1 DEF Denied, Decided, Answers, CallStates
  <2>2. CASE Ask
    BY <1>0, <2>2 DEF Ask, AskFor
  <2>3. ASSUME NEW v \in Answer, Confirmed(v) \/ Approved(v) PROVE PlaceInv'
    BY <1>0, <2>3 DEF Confirmed, Approved, Decided
  <2> QED BY <1>13, <2>1, <2>2, <2>3 DEF Asking
<1>14. CASE Stop \/ UNCHANGED OtherVars
  BY <1>14 DEF Stop, OtherVars, callVars, endVars
<1> QED BY <1>1, <1>8, <1>10, <1>12, <1>13, <1>14, NextCases

LEMMA SameCalls ==
  ASSUME UNCHANGED calls
  PROVE  /\ Calls' = Calls /\ Pending' = Pending /\ Batch' = Batch
         /\ In("dropped")' = In("dropped") /\ In("answered")' = In("answered")
BY DEF Calls, In, Pending, Batch

\* The flush is over, and the loop is past the batch, when anything else is done.
LEMMA BatchStep ==
  ASSUME DomainInv, ThenInv, PlaceInv, BatchInv, [Next]_vars PROVE BatchInv'
<1>0. /\ calls \in Seq(Call) /\ Len(calls) \in Nat /\ base \in Nat /\ at \in Nat \ {0}
      /\ pc \in {"gate", "ask", "refuse", "fire"} => at \in Calls
  BY LenProperties DEF DomainInv, PlaceInv, GoesTo, Calls
<1>a. ASSUME UNCHANGED <<calls, injection>>, cancel => cancel',
             pc' \notin {"call", "gate", "flush", "finish", "ended"} => Batch = {},
             pc' \in {"finish", "ended"} /\ why' \in {"complete", "capped"} => Batch = {}
      PROVE  BatchInv'
  <2>1. Batch' = Batch /\ In("dropped")' = In("dropped")
    BY <1>a, SameCalls
  <2>2. \A i \in Batch : Batched(i)
    BY DEF BatchInv
  <2>3. \A i \in Batch' : Batched(i)'
    BY <1>a, <2>1, <2>2 DEF Batched, Tools
  <2> QED BY <1>a, <2>1, <2>3 DEF BatchInv
<1>b. /\ pc \notin {"call", "gate", "flush", "finish", "ended"} => Batch = {}
      /\ pc \in {"finish", "ended"} /\ why \in {"complete", "capped"} => Batch = {}
  BY DEF BatchInv
<1>1. CASE Admission
  BY <1>1, <1>a, <1>b DEF ThenInv, Admission, StopEarly, Begin, Refuse, Admit, RailsBlock, Finish, Ends,
                          callVars
<1>2. CASE IterCapped \/ LoopCancelled \/ RouteFails
  BY <1>2, <1>a, <1>b DEF IterCapped, LoopCancelled, RouteFails, Leave, Ends, callVars
<1>3. ASSUME NEW s \in Chains(Provider), Route(s) PROVE BatchInv'
  BY <1>3, <1>a, <1>b DEF Route
<1>4. ASSUME NEW t \in Tool, NEW pays \in BOOLEAN, ToolCall(t, pays) PROVE BatchInv'
  <2> DEFINE x == [tool |-> t, pays |-> pays, state |-> "streamed"]
  <2>1. x \in Call /\ x.state = "streamed"
    BY DEF Call, CallStates
  <2>2. calls' = Append(calls, x) /\ pc = "stream" /\ UNCHANGED <<pc, cancel, why, injection>>
    BY <1>4 DEF ToolCall, endVars
  <2> HIDE DEF x
  <2>3. /\ Len(calls') = Len(calls) + 1 /\ calls'[Len(calls) + 1] = x
        /\ \A j \in 1..Len(calls) : calls'[j] = calls[j]
    BY <1>0, <2>1, <2>2, AddCall
  <2>4. \A i \in 1..Len(calls') : i \in 1..Len(calls) \/ calls'[i].state = "streamed"
    BY <1>0, <2>1, <2>3
  <2>5. Batch' = {} /\ (~cancel => In("dropped")' = {})
    BY <2>2, <2>3, <2>4 DEF BatchInv, Batch, Pending, In, Calls
  <2> QED BY <2>2, <2>5 DEF BatchInv
<1>5. CASE Text \/ StreamRetries \/ Backoff \/ FailOver
  BY <1>5, <1>a, <1>b DEF Text, StreamRetries, Backoff, FailOver, callVars, endVars
<1>6. CASE StreamEnds \/ StreamCancelled \/ StreamFails
  <2>1. Batch = {} /\ UNCHANGED <<calls, injection, cancel>>
    BY <1>b, <1>6 DEF StreamEnds, StreamCancelled, StreamFails, callVars
  <2> QED BY <1>a, <2>1
<1>7. CASE Modelling
  BY <1>2, <1>3, <1>4, <1>5, <1>6, <1>7 DEF Modelling, Model, Output, OutputEnds
\* A call that does not enter the batch is answered.
<1>8. ASSUME NEW i \in Calls, NEW s \in {"answered", "refused"}, calls' = [calls EXCEPT ![i].state = s],
             UNCHANGED <<injection, cancel>>
      PROVE  /\ Batch' \subseteq Batch /\ In("dropped")' \subseteq In("dropped")
             /\ \A j \in Batch' : Batched(j)'
  <2>1. Sets(i, s)
    BY <1>0, <1>8, SetsCall DEF CallStates
  <2>2. Batch' \subseteq Batch /\ In("dropped")' \subseteq In("dropped")
    BY <1>8, <2>1 DEF Sets, Batch, Pending, In, Calls
  <2>3. \A j \in Batch' : j \in Calls /\ calls'[j].tool = calls[j].tool /\ calls'[j].pays = calls[j].pays
    BY <2>1 DEF Sets, Batch, Pending, In, Calls
  <2> QED BY <1>8, <2>2, <2>3 DEF Batched, Tools, BatchInv
<1>9. CASE CallScreen
  <2>1. CASE RoundCancelled
    BY <2>1, <1>a DEF RoundCancelled, Leave, callVars
  <2>2. ASSUME NEW new \in BOOLEAN, TailFlush \/ ScreenFails(new) \/ ScreenPasses(new)
        PROVE  BatchInv'
    BY <2>2, <1>a DEF TailFlush, ScreenFails, ScreenPasses, Look, FlushThen
  <2>3. ASSUME NEW new \in BOOLEAN, ScreenAsks(new) PROVE BatchInv'
    <3>1. Batch = {}
      BY <2>3 DEF ScreenAsks, MayBeInfluenced, BatchInv, Batched
    <3> QED BY <1>a, <2>3, <3>1 DEF ScreenAsks
  <2>4. CASE DlpBlocks \/ Gate \/ Serial
    BY <2>4, <1>a DEF DlpBlocks, Gate, Serial, FlushThen
  <2>5. ASSUME NEW new \in BOOLEAN, ScreenBlocks(new) PROVE BatchInv'
    <3>1. at \in Calls
      BY <1>0, <2>5 DEF ScreenBlocks, Look, Calls
    <3> QED BY <1>8, <1>b, <2>5, <3>1 DEF ScreenBlocks, Answers, BatchInv
  <2>6. CASE Queue
    <3>1. Sets(at, "queued")
      BY <1>0, <2>6, SetsCall DEF Queue, CallStates
    <3>2. Batched(at) /\ pc' = "call" /\ UNCHANGED <<injection, cancel>>
      BY <2>6 DEF Queue
    <3>3. \A j \in Batch' : j = at \/ j \in Batch
      BY <3>1 DEF Sets, Batch, Pending, In, Calls
    <3>4. In("dropped")' \subseteq In("dropped")
      BY <3>1 DEF Sets, In, Calls
    <3>5. \A j \in Batch' : Batched(j)'
      <4>1. \A j \in Batch' : j \in Calls
        BY <3>1 DEF Sets, Batch, Pending, In, Calls
      <4> QED BY <3>1, <3>2, <3>3, <4>1 DEF Sets, Batched, Tools, BatchInv
    <3> QED BY <3>2, <3>4, <3>5 DEF BatchInv
  <2> QED BY <1>9, <2>1, <2>2, <2>3, <2>4, <2>5, <2>6 DEF CallScreen
<1>10. CASE Dispatching
  <2>1. ASSUME NEW i \in Calls, Poll(i) \/ Dispatch(i) PROVE BatchInv'
    <3>1. PICK z \in {"dropped", "inflight", "cleared", "fired"} :
            calls' = [calls EXCEPT ![i].state = z] /\ (z = "dropped" => cancel)
      BY <2>1, PolledMoves
    <3>2. pc = "flush" /\ UNCHANGED <<pc, injection, cancel>>
      BY <2>1 DEF Poll, Dispatch
    <3>3. i \in Batch
      BY <2>1, PolledIsPending DEF Batch
    <3>4. Sets(i, z)
      BY <1>0, <3>1, SetsCall DEF CallStates
    <3>5. Batch' \subseteq Batch /\ (z # "dropped" => In("dropped")' \subseteq In("dropped"))
      BY <3>1, <3>3, <3>4 DEF Sets, Batch, Pending, In, Calls
    <3>6. \A j \in Batch' : Batched(j)'
      <4>1. \A j \in Batch : j \in Calls
        BY DEF Batch, Pending, In
      <4> QED BY <3>2, <3>4, <3>5, <4>1 DEF Sets, Batched, Tools, BatchInv
    <3> QED BY <3>1, <3>2, <3>5, <3>6 DEF BatchInv
  <2>2. CASE ShowResult
    <3> DEFINE i == Min(In("fired"))
    <3>1. In("fired") \subseteq Nat /\ In("fired") \subseteq Calls /\ In("fired") # {}
      BY <2>2 DEF ShowResult, In, Calls
    <3>2. i \in Calls
      BY <3>1, MinIs
    <3>3. calls' = [calls EXCEPT ![i].state = "answered"] /\ UNCHANGED <<pc, injection, cancel>> /\ pc = "flush"
      BY <2>2 DEF ShowResult
    <3> HIDE DEF i
    <3> QED BY <1>8, <3>2, <3>3 DEF BatchInv
  <2>3. CASE AnswerRefused
    BY <1>0, <1>8, <2>3 DEF AnswerRefused, Answers, BatchInv
  <2>4. ASSUME NEW suspicious \in BOOLEAN, Fire(suspicious) PROVE BatchInv'
    BY <1>0, <1>8, <2>4 DEF Fire, Answers, BatchInv
  <2>5. CASE FlushEnds
    <3>1. Batch = {} /\ UNCHANGED <<calls, injection, cancel>>
      BY <2>5 DEF FlushEnds, Batch
    <3> QED BY <1>a, <3>1
  <2>6. CASE Stuck \/ NextRound
    BY <2>6, <1>a, <1>b DEF Stuck, NextRound, Leave, callVars
  <2> QED BY <1>10, <2>1, <2>2, <2>3, <2>4, <2>5, <2>6 DEF Dispatching
<1>11. CASE Asking
  <2>1. ASSUME NEW v \in Answer, Denied(v) PROVE BatchInv'
    BY <1>0, <1>8, <2>1 DEF Denied, Decided, Answers, BatchInv
  <2>2. CASE Ask
    BY <2>2, <1>a, <1>b DEF Ask, AskFor
  <2>3. ASSUME NEW v \in Answer, Confirmed(v) \/ Approved(v) PROVE BatchInv'
    BY <2>3, <1>a, <1>b DEF Confirmed, Approved, Decided
  <2> QED BY <1>11, <2>1, <2>2, <2>3 DEF Asking
<1>12. CASE Stop \/ UNCHANGED OtherVars
  BY <1>12, <1>a, <1>b DEF Stop, OtherVars, callVars, endVars
<1> QED BY <1>1, <1>7, <1>9, <1>10, <1>11, <1>12, NextCases

\* A call is shown after all that were shown, and before all that are left in the batch.
LEMMA Shows ==
  ASSUME calls \in Seq(Call), ShownInv,
         NEW i \in Calls, NEW s \in {"answered", "refused"}, calls' = [calls EXCEPT ![i].state = s],
         shown' = Append(shown, i),
         \A k \in DOMAIN shown : shown[k] < i, \A j \in Batch : j = i \/ i < j
  PROVE  ShownInv'
<1>0. Len(calls) \in Nat /\ Calls \subseteq Nat /\ shown \in Seq(Nat)
  BY LenProperties DEF Calls, ShownInv
<1>1. Sets(i, s) /\ Calls' = Calls
  BY SetsCall DEF CallStates, Sets, Calls
<1>2. /\ shown' \in Seq(Nat) /\ Len(shown) \in Nat /\ Len(shown') = Len(shown) + 1
      /\ DOMAIN shown = 1..Len(shown) /\ DOMAIN shown' = 1..(Len(shown) + 1)
      /\ \A k \in 1..Len(shown) : shown'[k] = shown[k]
      /\ shown'[Len(shown) + 1] = i
  BY <1>0, AppendProperties, LenProperties
<1> DEFINE n == Len(shown) + 1
<1>3. /\ n \in DOMAIN shown' /\ n \in Nat
      /\ \A k \in DOMAIN shown' : k \in DOMAIN shown \/ k = n
      /\ \A k \in DOMAIN shown : k \in DOMAIN shown' /\ k < n /\ shown'[k] = shown[k] /\ k \in Nat
      /\ shown'[n] = i
  BY <1>2
<1> HIDE DEF n
<1>4. ResultsInOrder'
  <2>1. SUFFICES ASSUME NEW k \in DOMAIN shown', NEW l \in DOMAIN shown', k < l
                 PROVE  shown'[k] < shown'[l]
    BY DEF ResultsInOrder
  <2>2. k \in DOMAIN shown
    BY <1>3, <2>1
  <2> QED BY <1>3, <2>1, <2>2 DEF ShownInv, ResultsInOrder
<1>5. \A k \in DOMAIN shown' : shown'[k] \in Calls'
  BY <1>1, <1>3 DEF ShownInv
<1>6. Range(shown') = Range(shown) \cup {i}
  BY <1>3 DEF Range
<1>7. \A j \in Calls' : calls'[j].state \in {"answered", "refused"} <=> j \in Range(shown')
  BY <1>1, <1>6 DEF Sets, ShownInv
<1>8. \A j \in Batch' : j \in Batch /\ j # i
  BY <1>1 DEF Sets, Batch, Pending, In
<1>9. \A k \in DOMAIN shown', j \in Batch' : shown'[k] < j
  BY <1>3, <1>8 DEF ShownInv
<1> QED BY <1>2, <1>4, <1>5, <1>7, <1>9 DEF ShownInv

\* The results reach the sink in the order of the calls.
LEMMA ShownStep ==
  ASSUME DomainInv, ThenInv, PlaceInv, BatchInv, ShownInv, TaintInv, [Next]_vars PROVE ShownInv'
<1>0. /\ calls \in Seq(Call) /\ Len(calls) \in Nat /\ at \in Nat \ {0} /\ Calls \subseteq Nat
      /\ pc \in {"gate", "ask", "refuse", "fire"} => at \in Calls
      /\ \A i \in Calls : calls[i].state = "streamed" <=> at <= i
  BY LenProperties DEF DomainInv, PlaceInv, GoesTo, Calls
<1>1. \A k \in DOMAIN shown : shown[k] < at
  <2>1. SUFFICES ASSUME NEW k \in DOMAIN shown PROVE shown[k] < at
    OBVIOUS
  <2>2. PICK i \in Calls : i = shown[k] /\ i \in Range(shown)
    BY DEF ShownInv, Range
  <2>3. calls[i].state # "streamed"
    BY <2>2 DEF ShownInv
  <2> QED BY <1>0, <2>2, <2>3
<1>2. ASSUME UNCHANGED <<calls, shown>> PROVE ShownInv'
  <2>1. Batch' = Batch /\ Calls' = Calls
    BY <1>2, SameCalls
  <2>2. \A k \in DOMAIN shown, i \in Batch : shown[k] < i
    BY DEF ShownInv
  <2> QED BY <1>2, <2>1, <2>2 DEF ShownInv, ResultsInOrder
<1>3. ASSUME Batch = {}, at \in Calls, NEW s \in {"answered", "refused"}, Answers(s) PROVE ShownInv'
  BY <1>0, <1>1, <1>3, Shows DEF Answers
<1>4. CASE Admission
  BY <1>2, <1>4 DEF Admission, StopEarly, Begin, Refuse, Admit, RailsBlock, Finish, callVars
<1>5. ASSUME NEW t \in Tool, NEW pays \in BOOLEAN, ToolCall(t, pays) PROVE ShownInv'
  <2> DEFINE x == [tool |-> t, pays |-> pays, state |-> "streamed"]
  <2>1. x \in Call /\ x.state = "streamed"
    BY DEF Call, CallStates
  <2>2. calls' = Append(calls, x) /\ UNCHANGED shown
    BY <1>5 DEF ToolCall
  <2> HIDE DEF x
  <2>3. /\ Len(calls') = Len(calls) + 1 /\ calls'[Len(calls) + 1] = x
        /\ \A j \in 1..Len(calls) : calls'[j] = calls[j]
    BY <1>0, <2>1, <2>2, AddCall
  <2>4. /\ Calls \subseteq Calls'
        /\ \A j \in Calls : calls'[j] = calls[j]
        /\ \A j \in Calls' : j \in Calls \/ (j = Len(calls) + 1 /\ calls'[j].state = "streamed")
        /\ Len(calls) + 1 \notin Calls
    BY <1>0, <2>1, <2>3 DEF Calls
  <2>5. \A j \in Batch' : j \in Batch
    BY <2>4 DEF Batch, Pending, In
  <2>6. Range(shown) \subseteq Calls
    BY DEF ShownInv, Range
  <2>7. \A j \in Calls' : calls'[j].state \in {"answered", "refused"} <=> j \in Range(shown)
    BY <2>4, <2>6 DEF ShownInv
  <2>8. \A k \in DOMAIN shown, j \in Batch' : shown[k] < j
    BY <2>5 DEF ShownInv
  <2> QED BY <2>2, <2>4, <2>7, <2>8 DEF ShownInv, ResultsInOrder
<1>6. CASE Modelling
  <2>1. CASE UNCHANGED <<calls, shown>>
    BY <1>2, <2>1
  <2> QED BY <1>5, <1>6, <2>1 DEF Modelling, Model, Output, OutputEnds, IterCapped, LoopCancelled,
                                  RouteFails, Route, Text, StreamEnds,
              StreamCancelled, StreamRetries, Backoff, FailOver, StreamFails, callVars
<1>7. CASE CallScreen
  <2>1. ASSUME NEW new \in BOOLEAN, ScreenBlocks(new) PROVE ShownInv'
    <3>1. at \in Calls /\ Batch = {}
      BY <1>0, <2>1 DEF ScreenBlocks, Look, Calls, TaintInv, BatchInv, Batched
    <3> QED BY <1>3, <2>1, <3>1 DEF ScreenBlocks
  <2>2. CASE Queue
    <3>1. Sets(at, "queued") /\ Calls' = Calls /\ UNCHANGED shown /\ at \in Calls
      BY <1>0, <2>2, SetsCall DEF Queue, CallStates, Sets, Calls
    <3>2. \A j \in Batch' : j = at \/ j \in Batch
      BY <3>1 DEF Sets, Batch, Pending, In
    <3>3. calls[at].state = "streamed"
      BY <1>0, <3>1
    <3>4. \A j \in Calls' : calls'[j].state \in {"answered", "refused"} <=> j \in Range(shown)
      BY <3>1, <3>3 DEF Sets, ShownInv
    <3>5. \A k \in DOMAIN shown, j \in Batch' : shown[k] < j
      BY <1>1, <3>2 DEF ShownInv
    <3> QED BY <3>1, <3>4, <3>5 DEF ShownInv, ResultsInOrder
  <2>3. CASE UNCHANGED <<calls, shown>>
    BY <1>2, <2>3
  <2> QED BY <1>7, <2>1, <2>2, <2>3
          DEF CallScreen, RoundCancelled, TailFlush, ScreenFails, ScreenAsks, ScreenPasses,
              DlpBlocks, Gate, Serial, callVars
<1>8. CASE Dispatching
  <2>1. ASSUME NEW i \in Calls, Poll(i) \/ Dispatch(i) PROVE ShownInv'
    <3>1. PICK z \in {"dropped", "inflight", "cleared", "fired"} : calls' = [calls EXCEPT ![i].state = z]
      BY <2>1, PolledMoves
    <3>2. i \in Batch /\ calls[i].state \in {"queued", "inflight", "cleared"} /\ UNCHANGED shown
      BY <2>1, PolledIsPending DEF Batch, Pending, In, Poll, Dispatch
    <3>3. Sets(i, z) /\ Calls' = Calls
      BY <1>0, <3>1, SetsCall DEF CallStates, Sets, Calls
    <3>4. Batch' \subseteq Batch
      BY <3>2, <3>3 DEF Sets, Batch, Pending, In
    <3>5. \A j \in Calls' : calls'[j].state \in {"answered", "refused"} <=> j \in Range(shown)
      BY <3>2, <3>3 DEF Sets, ShownInv
    <3>6. \A k \in DOMAIN shown, j \in Batch' : shown[k] < j
      BY <3>4 DEF ShownInv
    <3> QED BY <3>2, <3>3, <3>5, <3>6 DEF ShownInv, ResultsInOrder
  <2>2. CASE ShowResult
    <3> DEFINE i == Min(In("fired"))
    <3>1. In("fired") \subseteq Nat /\ In("fired") \subseteq Calls /\ In("fired") # {} /\ Batch = In("fired")
      BY <2>2 DEF ShowResult, In, Calls, Batch
    <3>2. i \in In("fired") /\ \A j \in In("fired") : i <= j
      BY <3>1, MinIs
    <3>3. calls' = [calls EXCEPT ![i].state = "answered"] /\ shown' = Append(shown, i)
      BY <2>2 DEF ShowResult
    <3> HIDE DEF i
    <3>4. i \in Calls /\ \A j \in Batch : j = i \/ i < j
      BY <3>1, <3>2
    <3>5. \A k \in DOMAIN shown : shown[k] < i
      BY <3>1, <3>2 DEF ShownInv
    <3> QED BY <1>0, <3>3, <3>4, <3>5, Shows
  <2>3. CASE AnswerRefused
    BY <1>0, <1>3, <2>3 DEF AnswerRefused, BatchInv
  <2>4. ASSUME NEW suspicious \in BOOLEAN, Fire(suspicious) PROVE ShownInv'
    BY <1>0, <1>3, <2>4 DEF Fire, BatchInv
  <2>5. CASE FlushEnds \/ Stuck \/ NextRound
    BY <1>2, <2>5 DEF FlushEnds, Stuck, NextRound, callVars
  <2> QED BY <1>8, <2>1, <2>2, <2>3, <2>4, <2>5 DEF Dispatching
<1>9. CASE Asking
  <2>1. ASSUME NEW v \in Answer, Denied(v) PROVE ShownInv'
    BY <1>0, <1>3, <2>1 DEF Denied, Decided, BatchInv
  <2>2. CASE Ask \/ \E v \in Answer : Confirmed(v) \/ Approved(v)
    BY <1>2, <2>2 DEF Ask, Confirmed, Approved
  <2> QED BY <1>9, <2>1, <2>2 DEF Asking
<1>10. CASE Stop \/ UNCHANGED OtherVars
  BY <1>2, <1>10 DEF Stop, OtherVars, callVars
<1> QED BY <1>4, <1>6, <1>7, <1>8, <1>9, <1>10, NextCases

\* A dangerous call gets past the taint gate of a turn that is not tainted only, and no
\* result comes in before it is through.
LEMMA TaintStep ==
  ASSUME ThenInv, BatchInv, TaintInv, [Next]_vars PROVE TaintInv'
<1>1. ASSUME pc' \in {"start", "admit", "loop", "stream", "backoff", "call", "refuse", "tail", "finish", "ended"},
             tainted' => injection'
      PROVE  TaintInv'
  BY <1>1 DEF TaintInv, GoesTo
<1>2. ASSUME UNCHANGED <<calls, at, tainted, injection>>,
             (pc' \in {"gate", "ask"} \/ GoesTo("approve")' \/ GoesTo("fire")') /\ tainted =>
               \/ Current \notin Danger
               \/ pc \in {"gate", "ask"} \/ GoesTo("approve") \/ GoesTo("fire")
      PROVE  TaintInv'
  BY <1>2 DEF TaintInv, Current, Tools
<1>3. tainted => injection
  BY DEF TaintInv
<1>4. CASE Admission
  BY <1>1, <1>3, <1>4 DEF Admission, StopEarly, Begin, Refuse, Admit, RailsBlock, Finish, Ends, dataVars
<1>5. CASE Modelling
  <2>1. /\ pc' \in {"ended", "finish", "stream", "backoff", "call"}
        /\ UNCHANGED <<tainted, injection>>
    BY <1>5 DEF Modelling, Model, Output, OutputEnds, IterCapped, LoopCancelled, RouteFails, Route, Text,
                ToolCall, StreamEnds, StreamCancelled,
                StreamRetries, Backoff, FailOver, StreamFails, Leave, Ends, dataVars
  <2> QED BY <1>1, <1>3, <2>1
<1>6. CASE CallScreen
  <2>1. CASE RoundCancelled
    BY <1>1, <1>3, <2>1 DEF RoundCancelled, Leave, dataVars
  <2>2. CASE TailFlush
    BY <1>2, <2>2 DEF TailFlush, FlushThen, GoesTo, dataVars
  <2>3. ASSUME NEW new \in BOOLEAN, ScreenFails(new) PROVE TaintInv'
    BY <1>2, <2>3 DEF ScreenFails, FlushThen, GoesTo, dataVars
  <2>4. ASSUME NEW new \in BOOLEAN, ScreenBlocks(new) PROVE TaintInv'
    BY <1>1, <1>3, <2>4 DEF ScreenBlocks, Answers, dataVars
  <2>5. ASSUME NEW new \in BOOLEAN, ScreenAsks(new) \/ ScreenPasses(new) PROVE TaintInv'
    BY <1>2, <2>5 DEF ScreenAsks, ScreenPasses, dataVars
  <2>6. CASE DlpBlocks \/ Gate \/ Serial
    BY <1>2, <2>6 DEF DlpBlocks, Gate, Serial, dataVars
  <2>7. CASE Queue
    BY <1>1, <1>3, <2>7 DEF Queue, dataVars
  <2> QED BY <1>6, <2>1, <2>2, <2>3, <2>4, <2>5, <2>6, <2>7 DEF CallScreen
<1>7. CASE Dispatching
  <2>1. ASSUME NEW i \in Calls, Poll(i) \/ Dispatch(i) PROVE TaintInv'
    <3>1. ~tainted /\ UNCHANGED tainted
      BY <1>3, <2>1, PolledIsPending DEF Poll, Dispatch, dataVars, Batch, BatchInv, Batched
    <3> QED BY <3>1 DEF TaintInv
  <2>2. CASE ShowResult
    <3>1. ~tainted /\ UNCHANGED tainted
      BY <1>3, <2>2 DEF ShowResult, Batch, BatchInv, Batched
    <3> QED BY <3>1 DEF TaintInv
  <2>3. CASE AnswerRefused \/ Stuck \/ NextRound
    BY <1>1, <1>3, <2>3 DEF AnswerRefused, Stuck, NextRound, Answers, Leave, dataVars
  <2>4. ASSUME NEW suspicious \in BOOLEAN, Fire(suspicious) PROVE TaintInv'
    BY <1>1, <1>3, <2>4 DEF Fire, Answers
  <2>5. CASE FlushEnds
    BY <1>2, <2>5 DEF FlushEnds, ThenInv, GoesTo, dataVars
  <2> QED BY <1>7, <2>1, <2>2, <2>3, <2>4, <2>5 DEF Dispatching
<1>8. CASE Asking
  <2>1. ASSUME NEW v \in Answer, Denied(v) PROVE TaintInv'
    BY <1>1, <1>3, <2>1 DEF Denied, Answers, dataVars
  <2>2. CASE Ask
    BY <1>2, <2>2 DEF Ask, GoesTo, dataVars
  <2>3. ASSUME NEW v \in Answer, Confirmed(v) \/ Approved(v) PROVE TaintInv'
    BY <1>2, <2>3 DEF Confirmed, Approved, Decided, dataVars
  <2> QED BY <1>8, <2>1, <2>2, <2>3 DEF Asking
<1>9. CASE Stop \/ UNCHANGED OtherVars
  BY <1>2, <1>9 DEF Stop, OtherVars, callVars, dataVars, GoesTo
<1> QED BY <1>4, <1>5, <1>6, <1>7, <1>8, <1>9, NextCases

\* A call enters the file when those before it are through, and those behind it are not there yet.
LEMMA EditStep ==
  ASSUME DomainInv, PlaceInv, BatchInv, EditsInOrder, [Next]_vars PROVE EditsInOrder'
<1>0. calls \in Seq(Call) /\ Len(calls) \in Nat
  BY LenProperties DEF DomainInv
<1>1. CASE UNCHANGED calls
  <2>1. Calls' = Calls /\ Pending' = Pending
    BY <1>1, SameCalls
  <2> QED BY <1>1, <2>1 DEF EditsInOrder, Tools
<1>2. ASSUME NEW t \in Tool, NEW pays \in BOOLEAN, pc = "stream",
             calls' = Append(calls, [tool |-> t, pays |-> pays, state |-> "streamed"])
      PROVE  EditsInOrder'
  <2> DEFINE x == [tool |-> t, pays |-> pays, state |-> "streamed"]
  <2>1. x \in Call /\ x.state = "streamed" /\ calls' = Append(calls, x)
    BY <1>2 DEF Call, CallStates
  <2> HIDE DEF x
  <2>2. /\ Len(calls') = Len(calls) + 1 /\ calls'[Len(calls) + 1] = x
        /\ \A j \in 1..Len(calls) : calls'[j] = calls[j]
    BY <1>0, <2>1, AddCall
  <2>3. \A j \in Calls' : calls'[j].state \notin {"inflight", "cleared", "fired"}
    <3>1. Batch = {}
      BY <1>2 DEF BatchInv
    <3>2. \A j \in 1..Len(calls) : calls[j].state \notin {"inflight", "cleared", "fired"}
      BY <3>1 DEF Batch, Pending, In, Calls
    <3> QED BY <1>0, <2>1, <2>2, <3>2 DEF Calls
  <2> QED BY <2>3 DEF EditsInOrder
<1>3. ASSUME NEW k, NEW s, Moves(k, s) PROVE EditsInOrder'
  <2>1. Sets(k, s) /\ Calls' = Calls /\ k \in Calls
    BY <1>0, <1>3, SetsCall DEF Moves, Sets, Calls
  <2>2. SUFFICES ASSUME NEW i \in Calls, NEW j \in Calls, i < j, Tools(i) \in Edits, Tools(j) \in Edits,
                        calls'[j].state \in {"inflight", "cleared", "fired"}, calls'[i].state \in {"queued", "inflight", "cleared"}
                 PROVE  FALSE
    <3>1. \A i \in Calls : Tools(i)' = Tools(i)
      BY <2>1 DEF Sets, Tools
    <3> QED BY <2>1, <2>2, <3>1 DEF EditsInOrder, Pending, In
  <2>3. CASE k = i
    <3>1. calls[j].state \in {"inflight", "cleared", "fired"} /\ calls'[i].state = s
      BY <2>1, <2>2, <2>3 DEF Sets, Calls
    <3>2. i \notin Pending
      BY <2>2, <3>1 DEF EditsInOrder
    <3>3. s = "queued" /\ i = at
      BY <1>3, <2>2, <2>3, <3>1, <3>2 DEF Moves, Runnable, Pending
    <3>4. calls[j].state = "streamed"
      BY <2>2, <3>3 DEF PlaceInv, Calls
    <3> QED BY <3>1, <3>4
  <2>4. CASE k # i
    <3>1. i \in Pending
      BY <2>1, <2>2, <2>4 DEF Sets, Pending, In
    <3>2. calls[j].state \notin {"inflight", "cleared", "fired"}
      BY <2>2, <3>1 DEF EditsInOrder
    <3>3. k = j /\ s \in {"inflight", "cleared", "fired"}
      BY <2>1, <2>2, <3>2 DEF Sets
    <3>4. CanEnter(j)
      BY <1>3, <3>2, <3>3 DEF Moves, Runnable, In
    <3> QED BY <2>2, <3>1, <3>4 DEF CanEnter
  <2> QED BY <2>3, <2>4
<1> QED BY <1>1, <1>2, <1>3, CallMoves

\* A call that becomes answered is one that had its yes, if it had to have one.
LEMMA GatedKept ==
  ASSUME calls \in Seq(Call), GatedNeedsYes, UNCHANGED <<yes, approved>>,
         NEW i \in Calls, NEW s \in CallStates, calls' = [calls EXCEPT ![i].state = s],
         s = "answered" => /\ calls[i].pays => i \in yes
                           /\ Tools(i) \in Gated => i \in yes \/ Tools(i) \in approved
  PROVE  GatedNeedsYes' /\ Calls' = Calls
<1>1. Sets(i, s) /\ Calls' = Calls
  BY SetsCall DEF Sets, Calls
<1>2. ASSUME NEW j \in In("answered")'
      PROVE  /\ calls'[j].pays => j \in yes'
             /\ Tools(j)' \in Gated => j \in yes' \/ Tools(j)' \in approved'
  <2>1. j \in Calls /\ calls'[j].tool = calls[j].tool /\ calls'[j].pays = calls[j].pays
        /\ ((j = i /\ s = "answered") \/ j \in In("answered"))
    BY <1>1, <1>2 DEF Sets, In
  <2> QED BY <2>1 DEF GatedNeedsYes, Tools
<1> QED BY <1>1, <1>2 DEF GatedNeedsYes

\* The engine asks about the calls that need it, and fires what was cleared.
LEMMA HumanStep ==
  ASSUME DomainInv, ThenInv, PlaceInv, BatchInv, HumanInv, [Next]_vars PROVE HumanInv'
<1>0. /\ calls \in Seq(Call) /\ Len(calls) \in Nat /\ at \in Nat \ {0}
      /\ pc \in {"gate", "ask", "refuse", "fire"} \/ GoesTo("approve") \/ GoesTo("fire") => at \in Calls
  BY LenProperties DEF DomainInv, PlaceInv, GoesTo, Calls
<1>b. /\ approved \subseteq Gated /\ confirmed \subseteq Danger /\ yes \subseteq Calls /\ GatedNeedsYes
      /\ GoesTo("approve") \/ (pc = "ask" /\ then = "approve") => NeedsApproval
      /\ pc = "ask" /\ then = "confirm" => Current \in Danger /\ injection
      /\ GoesTo("fire") => Cleared
  BY DEF HumanInv
\* The engine is not on its way to a question or a dispatch.
<1>1. ASSUME pc' \in {"start", "admit", "loop", "stream", "backoff", "call", "gate", "refuse", "tail", "finish", "ended"},
             UNCHANGED humanVars, yes \subseteq Calls', GatedNeedsYes'
      PROVE  HumanInv'
  BY <1>1, <1>b DEF HumanInv, GoesTo, humanVars
\* The engine goes on with the same call.
<1>2. ASSUME UNCHANGED <<calls, at, injection, humanVars>>,
             GoesTo("approve")' \/ (pc' = "ask" /\ then' = "approve") => NeedsApproval,
             pc' = "ask" /\ then' = "confirm" => Current \in Danger /\ injection,
             GoesTo("fire")' => Cleared
      PROVE  HumanInv'
  <2>1. (NeedsApproval' <=> NeedsApproval) /\ Current' = Current /\ (Cleared' <=> Cleared)
    BY <1>2 DEF NeedsApproval, Current, Tools, Cleared, Batched, humanVars
  <2>2. Calls' = Calls /\ In("answered")' = In("answered")
    BY <1>2, SameCalls
  <2>3. GatedNeedsYes'
    BY <1>2, <1>b, <2>2 DEF GatedNeedsYes, Tools, humanVars
  <2> QED BY <1>2, <1>b, <2>1, <2>2, <2>3 DEF HumanInv, humanVars
<1>3. ASSUME UNCHANGED <<calls, humanVars>>,
             pc' \in {"start", "admit", "loop", "stream", "backoff", "call", "gate", "refuse", "tail", "finish", "ended"}
      PROVE  HumanInv'
  <2>1. Calls' = Calls /\ In("answered")' = In("answered")
    BY <1>3, SameCalls
  <2>2. GatedNeedsYes'
    BY <1>3, <1>b, <2>1 DEF GatedNeedsYes, Tools, humanVars
  <2> QED BY <1>1, <1>3, <1>b, <2>1, <2>2
\* The current call is answered.
<1>4. ASSUME at \in Calls, NEW s \in {"answered", "refused", "queued"}, calls' = [calls EXCEPT ![at].state = s],
             pc' = "call", UNCHANGED humanVars, s = "answered" => Cleared
      PROVE  HumanInv'
  <2>1. GatedNeedsYes' /\ Calls' = Calls
    BY <1>0, <1>4, <1>b, GatedKept DEF CallStates, Cleared, Current, humanVars
  <2> QED BY <1>1, <1>4, <1>b, <2>1
<1>5. CASE Admission
  BY <1>3, <1>5 DEF Admission, StopEarly, Begin, Refuse, Admit, RailsBlock, Finish, Ends, callVars
<1>6. ASSUME NEW t \in Tool, NEW pays \in BOOLEAN, ToolCall(t, pays) PROVE HumanInv'
  <2> DEFINE x == [tool |-> t, pays |-> pays, state |-> "streamed"]
  <2>1. x \in Call /\ x.state = "streamed"
    BY DEF Call, CallStates
  <2>2. calls' = Append(calls, x) /\ pc' = "stream" /\ UNCHANGED humanVars
    BY <1>6 DEF ToolCall
  <2> HIDE DEF x
  <2>3. /\ Len(calls') = Len(calls) + 1 /\ calls'[Len(calls) + 1] = x
        /\ \A j \in 1..Len(calls) : calls'[j] = calls[j]
    BY <1>0, <2>1, <2>2, AddCall
  <2>4. /\ Calls \subseteq Calls' /\ \A j \in Calls : calls'[j] = calls[j]
        /\ \A j \in In("answered")' : j \in In("answered") /\ j \in Calls
    BY <1>0, <2>1, <2>3 DEF Calls, In
  <2>5. GatedNeedsYes'
    BY <1>b, <2>2, <2>4 DEF GatedNeedsYes, Tools, humanVars
  <2> QED BY <1>1, <1>b, <2>2, <2>4, <2>5
<1>7. CASE Modelling
  <2>1. CASE UNCHANGED <<calls, humanVars>> /\ pc' \in {"ended", "finish", "stream", "backoff", "call"}
    BY <1>3, <2>1
  <2>2. \/ UNCHANGED <<calls, humanVars>>
        \/ \E t \in Tool, pays \in BOOLEAN : ToolCall(t, pays)
    BY <1>7 DEF Modelling, Model, Output, OutputEnds, IterCapped, LoopCancelled, RouteFails, Route, Text,
                StreamEnds,
                StreamCancelled, StreamRetries, Backoff, FailOver, StreamFails, callVars
  <2>3. pc' \in {"ended", "finish", "stream", "backoff", "call"}
    BY <1>7 DEF Modelling, Model, Output, OutputEnds, IterCapped, LoopCancelled, RouteFails, Route, Text,
                ToolCall, StreamEnds,
                StreamCancelled, StreamRetries, Backoff, FailOver, StreamFails, Leave, Ends
  <2> QED BY <1>6, <2>1, <2>2, <2>3
<1>8. CASE CallScreen
  <2>1. CASE RoundCancelled
    BY <1>3, <2>1 DEF RoundCancelled, Leave, callVars
  <2>2. CASE TailFlush
    BY <1>2, <2>2 DEF TailFlush, FlushThen, GoesTo
  <2>3. ASSUME NEW new \in BOOLEAN, ScreenFails(new) PROVE HumanInv'
    BY <1>2, <2>3 DEF ScreenFails, FlushThen, GoesTo
  <2>4. ASSUME NEW new \in BOOLEAN, ScreenBlocks(new) PROVE HumanInv'
    <3>1. at \in Calls
      BY <1>0, <2>4 DEF ScreenBlocks, Look, Calls
    <3> QED BY <1>4, <2>4, <3>1 DEF ScreenBlocks, Answers
  <2>5. ASSUME NEW new \in BOOLEAN, ScreenAsks(new) PROVE HumanInv'
    BY <1>2, <2>5 DEF ScreenAsks, MayBeInfluenced, AskFor, GoesTo
  <2>6. ASSUME NEW new \in BOOLEAN, ScreenPasses(new) PROVE HumanInv'
    BY <1>3, <2>6 DEF ScreenPasses
  <2>7. CASE DlpBlocks
    BY <1>2, <2>7 DEF DlpBlocks, FlushThen, GoesTo
  <2>8. CASE Gate
    BY <1>2, <2>8 DEF Gate, FlushThen, GoesTo
  <2>9. CASE Serial
    <3>1. Cleared
      BY <2>9 DEF Serial, NeedsApproval, Cleared, Batched, Current
    <3> QED BY <1>2, <2>9, <3>1 DEF Serial, FlushThen, GoesTo
  <2>10. CASE Queue
    BY <1>0, <1>4, <2>10 DEF Queue
  <2> QED BY <1>8, <2>1, <2>2, <2>3, <2>4, <2>5, <2>6, <2>7, <2>8, <2>9, <2>10 DEF CallScreen
\* A call of the batch moves on, and the engine stays in the flush.
<1>9. ASSUME NEW i \in Batch, NEW s \in CallStates, calls' = [calls EXCEPT ![i].state = s],
             pc = "flush", UNCHANGED <<pc, then, at, injection, humanVars>>
      PROVE  HumanInv'
  <2>1. i \in Calls /\ ~calls[i].pays /\ Tools(i) \notin Gated
    BY DEF BatchInv, Batched, Batch, Pending, In
  <2>2. GatedNeedsYes' /\ Calls' = Calls
    BY <1>0, <1>9, <1>b, <2>1, GatedKept DEF humanVars
  <2>3. Sets(i, s)
    BY <1>0, <1>9, <2>1, SetsCall
  <2>4. at \in Calls => (NeedsApproval' <=> NeedsApproval) /\ (Cleared' <=> Cleared)
    BY <1>9, <2>3 DEF Sets, NeedsApproval, Current, Tools, Cleared, Batched, humanVars
  <2>5. GoesTo("approve")' => NeedsApproval'
    BY <1>0, <1>9, <1>b, <2>4 DEF GoesTo
  <2>6. GoesTo("fire")' => Cleared'
    BY <1>0, <1>9, <1>b, <2>4 DEF GoesTo
  <2> QED BY <1>9, <1>b, <2>2, <2>5, <2>6 DEF HumanInv, humanVars
<1>10. CASE Dispatching
  <2>1. ASSUME NEW i \in Calls, Poll(i) \/ Dispatch(i) PROVE HumanInv'
    <3>1. PICK z \in {"dropped", "inflight", "cleared", "fired"} : calls' = [calls EXCEPT ![i].state = z]
      BY <2>1, PolledMoves
    <3>2. i \in Batch
      BY <2>1, PolledIsPending DEF Batch
    <3> QED BY <1>9, <2>1, <3>1, <3>2 DEF Poll, Dispatch, CallStates
  <2>2. CASE ShowResult
    <3> DEFINE i == Min(In("fired"))
    <3>1. In("fired") \subseteq Nat /\ In("fired") # {} /\ In("fired") \subseteq Batch
      BY <2>2 DEF ShowResult, In, Calls, Batch
    <3>2. i \in Batch
      BY <3>1, MinIs
    <3>3. calls' = [calls EXCEPT ![i].state = "answered"]
      BY <2>2 DEF ShowResult
    <3> HIDE DEF i
    <3> QED BY <1>9, <2>2, <3>2, <3>3 DEF ShowResult, CallStates
  <2>3. CASE AnswerRefused
    BY <1>0, <1>4, <2>3 DEF AnswerRefused, Answers
  <2>4. ASSUME NEW suspicious \in BOOLEAN, Fire(suspicious) PROVE HumanInv'
    <3>1. Cleared /\ at \in Calls
      BY <1>0, <1>b, <2>4 DEF Fire, GoesTo
    <3> QED BY <1>4, <2>4, <3>1 DEF Fire, Answers
  <2>5. CASE FlushEnds
    BY <1>2, <1>b, <2>5 DEF FlushEnds, ThenInv, GoesTo
  <2>6. CASE Stuck \/ NextRound
    BY <1>3, <2>6 DEF Stuck, NextRound, Leave, callVars
  <2> QED BY <1>10, <2>1, <2>2, <2>3, <2>4, <2>5, <2>6 DEF Dispatching
<1>11. CASE Asking
  <2>1. ASSUME NEW v \in Answer, Denied(v) PROVE HumanInv'
    BY <1>0, <1>4, <2>1 DEF Denied, Decided, Answers
  <2>2. CASE Ask
    BY <1>2, <1>b, <2>2 DEF Ask, AskFor, GoesTo
  <2>3. ASSUME NEW v \in Answer, Confirmed(v) PROVE HumanInv'
    <3>1. confirmed' \subseteq Danger
      BY <1>b, <2>3 DEF Confirmed, Decided
    <3>2. Calls' = Calls /\ In("answered")' = In("answered") /\ UNCHANGED <<yes, approved, calls>> /\ pc' = "gate"
      BY <2>3, SameCalls DEF Confirmed
    <3>3. GatedNeedsYes'
      BY <1>b, <3>2 DEF GatedNeedsYes, Tools
    <3> QED BY <1>b, <3>1, <3>2, <3>3 DEF HumanInv, GoesTo
  <2>4. ASSUME NEW v \in Answer, Approved(v) PROVE HumanInv'
    <3>1. NeedsApproval /\ ~Batched(at) /\ at \in Calls /\ Clears(v)
      BY <1>0, <1>b, <2>4 DEF Approved, Decided, NeedsApproval, Batched, Current
    <3>2. /\ Calls' = Calls /\ In("answered")' = In("answered")
          /\ UNCHANGED <<confirmed, calls, at, injection>> /\ pc' = "fire"
      BY <2>4, SameCalls DEF Approved
    <3>3. CASE v = "approve"
      <4>1. approved' = approved /\ yes' = yes \cup {at}
        BY <2>4, <3>3 DEF Approved
      <4>2. Cleared'
        BY <3>1, <3>2, <4>1 DEF Cleared, Batched, Tools
      <4>3. GatedNeedsYes'
        BY <1>b, <3>2, <4>1 DEF GatedNeedsYes, Tools
      <4> QED BY <1>b, <3>1, <3>2, <4>1, <4>2, <4>3 DEF HumanInv, GoesTo
    <3>4. CASE v = "approve_for_session"
      <4>1. approved' = approved \cup {Current} /\ yes' = yes /\ ~calls[at].pays /\ Current \in Gated
        BY <2>4, <3>1, <3>4 DEF Approved, Clears, NeedsApproval
      <4>2. Cleared'
        BY <3>1, <3>2, <4>1 DEF Cleared, Current, Batched, Tools
      <4>3. GatedNeedsYes'
        BY <1>b, <3>2, <4>1 DEF GatedNeedsYes, Tools
      <4> QED BY <1>b, <3>2, <4>1, <4>2, <4>3 DEF HumanInv, GoesTo
    <3> QED BY <3>1, <3>3, <3>4 DEF Clears
  <2> QED BY <1>11, <2>1, <2>2, <2>3, <2>4 DEF Asking
<1>12. CASE Stop \/ UNCHANGED OtherVars
  BY <1>2, <1>b, <1>12 DEF Stop, OtherVars, callVars, GoesTo
<1> QED BY <1>5, <1>7, <1>8, <1>10, <1>11, <1>12, NextCases

-----------------------------------------------------------------------------
(* The calls that a stop came too late for *)

LEMMA InjectionStays == ASSUME [Next]_vars PROVE UNCHANGED injection
<1>1. CASE Admission
  BY <1>1 DEF Admission, StopEarly, Begin, Refuse, Admit, RailsBlock, Finish
<1>2. CASE Modelling
  BY <1>2 DEF Modelling, Model, Output, OutputEnds, IterCapped, LoopCancelled, RouteFails, Route, Text,
              ToolCall,
              StreamEnds, StreamCancelled, StreamRetries, Backoff, FailOver, StreamFails
<1>3. CASE CallScreen
  BY <1>3 DEF CallScreen, RoundCancelled, TailFlush, ScreenFails, ScreenBlocks, ScreenAsks, ScreenPasses,
              DlpBlocks, Gate, Queue, Serial
<1>4. CASE Dispatching
  BY <1>4 DEF Dispatching, Poll, Dispatch, ShowResult, FlushEnds, AnswerRefused, Stuck, NextRound, Fire
<1>5. CASE Asking
  BY <1>5 DEF Asking, Ask, Confirmed, Approved, Denied
<1>6. CASE Stop \/ UNCHANGED OtherVars
  BY <1>6 DEF Stop, OtherVars
<1> QED BY <1>1, <1>2, <1>3, <1>4, <1>5, <1>6, NextCases

\* A stop is not taken back.
LEMMA CancelStays == ASSUME [Next]_vars PROVE UNCHANGED cancel \/ cancel' = TRUE
<1>1. CASE Admission
  BY <1>1 DEF Admission, StopEarly, Begin, Refuse, Admit, RailsBlock, Finish, Ends
<1>2. CASE Modelling
  BY <1>2 DEF Modelling, Model, Output, OutputEnds, IterCapped, LoopCancelled, RouteFails, Route, Text,
              ToolCall, StreamEnds, StreamCancelled,
              StreamRetries, Backoff, FailOver, StreamFails, StreamOver, Leave, Ends
<1>3. CASE CallScreen
  BY <1>3 DEF CallScreen, RoundCancelled, TailFlush, ScreenFails, ScreenBlocks, ScreenAsks, ScreenPasses,
              DlpBlocks, Gate, Queue, Serial, Look, Leave
<1>4. CASE Dispatching
  BY <1>4 DEF Dispatching, Poll, Dispatch, ShowResult, FlushEnds, AnswerRefused, Stuck, NextRound, Fire, Leave
<1>5. CASE Asking
  BY <1>5 DEF Asking, Ask, Confirmed, Approved, Denied
<1>6. CASE Stop \/ UNCHANGED OtherVars
  BY <1>6 DEF Stop, OtherVars
<1> QED BY <1>1, <1>2, <1>3, <1>4, <1>5, <1>6, NextCases

\* The loop goes on in the calls, and not back.
LEMMA OnlyForward == ASSUME PlaceInv, [Next]_vars PROVE at' = at \/ at' = at + 1
<1>1. CASE Admission
  BY <1>1 DEF Admission, StopEarly, Begin, Refuse, Admit, RailsBlock, Finish, callVars
<1>2. CASE Modelling
  BY <1>2 DEF PlaceInv, Modelling, Model, Output, OutputEnds, IterCapped, LoopCancelled, RouteFails, Route,
              Text,
              ToolCall, StreamEnds, StreamCancelled, StreamRetries, Backoff, FailOver, StreamFails, callVars
<1>3. CASE CallScreen
  BY <1>3 DEF CallScreen, RoundCancelled, TailFlush, ScreenFails, ScreenBlocks, ScreenAsks, ScreenPasses,
              DlpBlocks, Gate, Queue, Serial, Answers, callVars
<1>4. CASE Dispatching
  BY <1>4 DEF Dispatching, Poll, Dispatch, ShowResult, FlushEnds, AnswerRefused, Stuck, NextRound, Fire,
              Answers,
              callVars
<1>5. CASE Asking
  BY <1>5 DEF Asking, Ask, Confirmed, Approved, Denied, Answers
<1>6. CASE Stop \/ UNCHANGED OtherVars
  BY <1>6 DEF Stop, OtherVars, callVars
<1> QED BY <1>1, <1>2, <1>3, <1>4, <1>5, <1>6, NextCases

\* A call is late when it is dispatched, from the batch or by itself.
LEMMA LateGrows ==
  ASSUME [Next]_vars
  PROVE  \/ UNCHANGED late
         \/ \E i \in Calls : Dispatch(i)
         \/ \E suspicious \in BOOLEAN : Fire(suspicious)
<1>1. CASE Admission
  BY <1>1 DEF Admission, StopEarly, Begin, Refuse, Admit, RailsBlock, Finish
<1>2. CASE Modelling
  BY <1>2 DEF Modelling, Model, Output, OutputEnds, IterCapped, LoopCancelled, RouteFails, Route, Text,
              ToolCall,
              StreamEnds, StreamCancelled, StreamRetries, Backoff, FailOver, StreamFails
<1>3. CASE CallScreen
  BY <1>3 DEF CallScreen, RoundCancelled, TailFlush, ScreenFails, ScreenBlocks, ScreenAsks, ScreenPasses,
              DlpBlocks, Gate, Queue, Serial
<1>4. CASE Dispatching
  BY <1>4 DEF Dispatching, Poll, ShowResult, FlushEnds, AnswerRefused, Stuck, NextRound
<1>5. CASE Asking
  BY <1>5 DEF Asking, Ask, Confirmed, Approved, Denied
<1>6. CASE Stop \/ UNCHANGED OtherVars
  BY <1>6 DEF Stop, OtherVars
<1> QED BY <1>1, <1>2, <1>3, <1>4, <1>5, <1>6, NextCases

\* A call stays what it is.  Those between their last look and their dispatch get fewer, but
\* for one that looks when there is none and no stop.
LEMMA CallsKept ==
  ASSUME DomainInv, PlaceInv, [Next]_vars
  PROVE  /\ Calls \subseteq Calls' /\ \A i \in Calls : Batched(i)' <=> Batched(i)
         /\ \/ In("cleared")' \subseteq In("cleared")
            \/ In("cleared") = {} /\ ~cancel /\ \A i, j \in In("cleared")' : i = j
<1>0. calls \in Seq(Call) /\ Len(calls) \in Nat /\ UNCHANGED injection
  BY LenProperties, InjectionStays DEF DomainInv
<1>1. CASE UNCHANGED calls
  <2>1. Calls' = Calls /\ In("cleared")' = In("cleared")
    BY <1>1 DEF Calls, In
  <2> QED BY <1>0, <1>1, <2>1 DEF Batched, Tools
<1>2. ASSUME NEW t \in Tool, NEW pays \in BOOLEAN,
             calls' = Append(calls, [tool |-> t, pays |-> pays, state |-> "streamed"])
      PROVE  /\ Calls \subseteq Calls' /\ \A i \in Calls : Batched(i)' <=> Batched(i)
             /\ In("cleared")' \subseteq In("cleared")
  <2> DEFINE x == [tool |-> t, pays |-> pays, state |-> "streamed"]
  <2>1. x \in Call /\ x.state = "streamed" /\ calls' = Append(calls, x)
    BY <1>2 DEF Call, CallStates
  <2> HIDE DEF x
  <2>2. /\ Len(calls') = Len(calls) + 1 /\ calls'[Len(calls) + 1] = x
        /\ \A j \in 1..Len(calls) : calls'[j] = calls[j]
    BY <1>0, <2>1, AddCall
  <2>3. /\ Calls \subseteq Calls' /\ \A j \in Calls : calls'[j] = calls[j]
        /\ \A j \in Calls' : j \in Calls \/ calls'[j].state = "streamed"
    BY <1>0, <2>1, <2>2 DEF Calls
  <2>4. \A i \in Calls : Batched(i)' <=> Batched(i)
    BY <1>0, <2>3 DEF Batched, Tools
  <2> QED BY <2>3, <2>4 DEF In
<1>3. ASSUME NEW k, NEW s, Moves(k, s)
      PROVE  /\ Calls \subseteq Calls' /\ \A i \in Calls : Batched(i)' <=> Batched(i)
             /\ \/ In("cleared")' \subseteq In("cleared")
                \/ In("cleared") = {} /\ ~cancel /\ \A i, j \in In("cleared")' : i = j
  <2>1. Sets(k, s) /\ Calls' = Calls
    BY <1>0, <1>3, SetsCall DEF Moves, Sets, Calls
  <2>2. \A i \in Calls : Batched(i)' <=> Batched(i)
    BY <1>0, <2>1 DEF Sets, Batched, Tools
  <2>3. \A i \in In("cleared")' : i \in In("cleared") \/ (i = k /\ s = "cleared")
    BY <2>1 DEF Sets, In
  <2>4. s = "cleared" => In("cleared") = {} /\ ~cancel
    BY <1>3 DEF Moves
  <2> QED BY <2>1, <2>2, <2>3, <2>4
<1> QED BY <1>1, <1>2, <1>3, CallMoves

\* One call of the batch at most, and one behind it, are dispatched after a stop.
LEMMA LateStep ==
  ASSUME DomainInv, ThenInv, PlaceInv, BatchInv, HumanInv, LateInv, [Next]_vars PROVE LateInv'
<1>0. /\ Calls \subseteq Calls' /\ \A i \in Calls : Batched(i)' <=> Batched(i)
      /\ \/ In("cleared")' \subseteq In("cleared")
         \/ In("cleared") = {} /\ ~cancel /\ \A i, j \in In("cleared")' : i = j
  BY CallsKept
<1>1. /\ calls \in Seq(Call) /\ Len(calls) \in Nat /\ at \in Nat /\ Calls \subseteq Nat
      /\ \A i \in Calls : calls[i].state = "streamed" <=> at <= i
      /\ pc = "fire" => at \in Calls
  BY LenProperties DEF DomainInv, PlaceInv, GoesTo, Calls
<1>2. /\ late \subseteq Calls /\ (\A i \in late : i < at) /\ (late # {} => cancel)
      /\ (\A i, j \in In("cleared") : i = j) /\ (In("cleared") # {} => late = {})
      /\ ((\E i \in late : ~Batched(i)) => Ending)
      /\ \A i, j \in late : i < j => Batched(i) /\ ~Batched(j)
  BY DEF LateInv, LateIsOneOfEach
<1>3. (cancel => cancel') /\ at' \in Nat /\ \A i \in Nat : i < at => i < at'
  <2>1. cancel => cancel'
    BY CancelStays, Zenon
  <2> QED BY <1>1, <2>1, OnlyForward
<1>4. \A i, j \in In("cleared")' : i = j
  BY <1>0, <1>2
<1>5. CASE UNCHANGED late
  <2>1. late' \subseteq Calls' /\ (\A i \in late' : i < at') /\ (late' # {} => cancel')
    BY <1>0, <1>1, <1>2, <1>3, <1>5
  <2>2. In("cleared")' # {} => late' = {}
    BY <1>0, <1>2, <1>5
  <2>3. \A i \in late' : Batched(i)' <=> Batched(i)
    BY <1>0, <1>2, <1>5
  <2>4. (\E i \in late' : ~Batched(i)') => Ending'
    BY <1>2, <1>5, <2>3, EndingStep
  <2>5. LateIsOneOfEach'
    BY <1>2, <1>5, <2>3 DEF LateIsOneOfEach
  <2> QED BY <1>4, <2>1, <2>2, <2>4, <2>5 DEF LateInv
<1>6. ASSUME NEW i \in Calls, Dispatch(i), cancel PROVE LateInv'
  <2>1. i \in In("cleared") /\ late' = late \cup {i}
    BY <1>6 DEF Dispatch, In
  <2>2. late = {} /\ late' = {i}
    BY <1>2, <2>1
  <2>3. Batched(i)'
    BY <1>0, <2>1 DEF BatchInv, Batch, Pending
  <2>4. i < at
    <3>1. calls[i].state # "streamed" /\ i \in Nat
      BY <1>1, <2>1 DEF In
    <3> QED BY <1>1, <3>1
  <2>5. i \notin In("cleared")'
    <3>1. Sets(i, "fired")
      BY <1>1, <1>6, SetsCall DEF Dispatch, CallStates
    <3> QED BY <3>1 DEF Sets, In
  <2>6. In("cleared")' = {}
    BY <1>0, <1>2, <1>6, <2>1, <2>5
  <2>7. late' \subseteq Calls' /\ (\A j \in late' : j < at') /\ cancel'
    BY <1>0, <1>1, <1>3, <1>6, <2>2, <2>4
  <2>8. LateIsOneOfEach'
    <3>1. i \in Nat
      BY <1>1
    <3> QED BY <2>2, <3>1 DEF LateIsOneOfEach
  <2> QED BY <1>4, <2>2, <2>3, <2>6, <2>7, <2>8 DEF LateInv
<1>7. ASSUME NEW suspicious \in BOOLEAN, Fire(suspicious), cancel PROVE LateInv'
  <2>1. PICK a \in Calls : a = at
    BY <1>1, <1>7 DEF Fire
  <2>2. pc = "fire" /\ pc' = "call" /\ at' = a + 1 /\ late' = late \cup {a} /\ a \in Nat
    BY <1>1, <1>7, <2>1 DEF Fire, Answers
  <2>3. ~Batched(a) /\ ~Batched(a)'
    <3>1. ~Batched(a)
      BY <2>1, <2>2 DEF HumanInv, GoesTo, Cleared
    <3> QED BY <1>0, <3>1
  <2>4. ~Ending
    BY <2>2 DEF Ending, GoesTo
  <2>5. \A i \in late : i \in Calls /\ i \in Nat /\ i < a /\ Batched(i) /\ Batched(i)'
    BY <1>0, <1>1, <1>2, <2>1, <2>4
  <2>6. In("cleared")' = {}
    <3>1. Batch = {}
      BY <2>2 DEF BatchInv
    <3>2. In("cleared") = {}
      BY <3>1 DEF Batch, Pending
    <3> QED BY <1>0, <1>7, <3>2
  <2>7. late' \subseteq Calls' /\ (\A i \in late' : i < at') /\ cancel'
    <3>1. \A i \in late' : i \in Calls /\ i \in Nat /\ (i = a \/ i < a)
      BY <2>1, <2>2, <2>5
    <3>2. \A i \in late' : i \in Calls' /\ i < a + 1
      BY <1>0, <2>2, <3>1
    <3> QED BY <1>3, <1>7, <2>2, <3>2
  <2>8. LateIsOneOfEach'
    <3>1. SUFFICES ASSUME NEW i \in late', NEW j \in late', i < j PROVE Batched(i)' /\ ~Batched(j)'
      BY DEF LateIsOneOfEach
    <3>2. (i = a \/ i \in late) /\ (j = a \/ j \in late)
      BY <2>2
    <3>3. i # a
      <4>1. ~(a < a) /\ \A k \in late : ~(a < k)
        BY <2>2, <2>5
      <4> QED BY <3>1, <3>2, <4>1
    <3>4. i \in late
      BY <3>2, <3>3
    <3>5. j = a
      <4>1. j \in late => ~Batched(j)
        BY <1>2, <3>1, <3>4
      <4> QED BY <2>5, <3>2, <4>1
    <3> QED BY <2>3, <2>5, <3>4, <3>5
  <2>9. Ending'
    BY <2>2 DEF Ending
  <2> QED BY <1>4, <2>6, <2>7, <2>8, <2>9 DEF LateInv
<1>8. \/ UNCHANGED late
      \/ \E i \in Calls : Dispatch(i) /\ cancel
      \/ \E suspicious \in BOOLEAN : Fire(suspicious) /\ cancel
  BY LateGrows DEF Dispatch, Fire
<1> QED BY <1>5, <1>6, <1>7, <1>8

-----------------------------------------------------------------------------
(* Types *)

LEMMA ControlStep ==
  ASSUME ControlOK, ThenInv, [Next]_vars PROVE ControlOK'
<1> USE TurnAssumption DEF ControlOK
<1>1. CASE Admission
  BY <1>1 DEF Admission, StopEarly, Begin, Refuse, Admit, RailsBlock, Finish, Ends, streamVars, callVars,
              dataVars,
              endVars
<1>2. CASE Modelling
  <2>1. CASE IterCapped \/ LoopCancelled \/ RouteFails
    BY <2>1 DEF IterCapped, LoopCancelled, RouteFails, Leave, Ends, streamVars, callVars, dataVars
  <2>2. ASSUME NEW s \in Chains(Provider), Route(s) PROVE ControlOK'
    <3>1. iter' \in 0..MaxIters
      BY <2>2 DEF Route
    <3> QED BY <2>2, <3>1 DEF Route, dataVars, endVars
  <2>3. CASE Text
    BY <2>3 DEF Text, callVars, dataVars, endVars
  <2>4. ASSUME NEW t \in Tool, NEW pays \in BOOLEAN, ToolCall(t, pays) PROVE ControlOK'
    BY <2>4 DEF ToolCall, dataVars, endVars
  <2>5. CASE StreamEnds
    BY <2>5 DEF StreamEnds, StreamOver, Leave, dataVars, endVars
  <2>6. CASE StreamCancelled \/ StreamFails
    BY <2>6 DEF StreamCancelled, StreamFails, StreamOver, Leave, callVars, dataVars
  <2>7. CASE StreamRetries \/ Backoff \/ FailOver
    BY <2>7 DEF StreamRetries, Backoff, FailOver, streamVars, callVars, dataVars, endVars
  <2> QED BY <1>2, <2>1, <2>2, <2>3, <2>4, <2>5, <2>6, <2>7 DEF Modelling, Model, Output, OutputEnds
<1>3. CASE CallScreen
  <2>1. CASE RoundCancelled
    BY <2>1 DEF RoundCancelled, Leave, streamVars, callVars, dataVars
  <2>2. ASSUME NEW new \in BOOLEAN, ScreenFails(new) \/ ScreenBlocks(new)
        PROVE  ControlOK'
    BY <2>2 DEF ScreenFails, ScreenBlocks, Look, FlushThen, Answers, streamVars, dataVars, endVars
  <2>3. ASSUME NEW new \in BOOLEAN, ScreenAsks(new) \/ ScreenPasses(new)
        PROVE  ControlOK'
    BY <2>3 DEF ScreenAsks, ScreenPasses, Look, AskFor, streamVars, dataVars, endVars
  <2>4. CASE DlpBlocks \/ Gate \/ Queue \/ Serial \/ TailFlush
    BY <2>4 DEF DlpBlocks, Gate, Queue, Serial, TailFlush, FlushThen, streamVars, dataVars, endVars
  <2> QED BY <1>3, <2>1, <2>2, <2>3, <2>4 DEF CallScreen
<1>4. CASE Dispatching
  <2>1. CASE (\E i \in Calls : Poll(i) \/ Dispatch(i)) \/ ShowResult
    BY <2>1 DEF Poll, Dispatch, ShowResult, Raised, streamVars, dataVars, endVars
  <2>2. CASE FlushEnds
    BY <2>2 DEF FlushEnds, ThenInv, streamVars, dataVars, endVars
  <2>3. CASE AnswerRefused \/ Stuck \/ NextRound
    BY <2>3 DEF AnswerRefused, Stuck, NextRound, Answers, Leave, streamVars, callVars, dataVars, endVars
  <2>4. ASSUME NEW suspicious \in BOOLEAN, Fire(suspicious) PROVE ControlOK'
    BY <2>4 DEF Fire, Answers, Raised, streamVars, endVars
  <2> QED BY <1>4, <2>1, <2>2, <2>3, <2>4 DEF Dispatching
<1>5. CASE Asking
  BY <1>5 DEF Asking, Ask, Confirmed, Approved, Denied, Decided, AskFor, Answers, streamVars, dataVars, endVars
<1>6. CASE Stop \/ UNCHANGED OtherVars
  BY <1>6 DEF Stop, OtherVars, streamVars, callVars, dataVars, endVars
<1> QED BY <1>1, <1>2, <1>3, <1>4, <1>5, <1>6, NextCases

\* A flag keeps its value, is set or reset, or takes what the step has found.
LEMMA FlagStep ==
  ASSUME FlagsOK, [Next]_vars PROVE FlagsOK'
<1>1. UNCHANGED injection
  BY InjectionStays
<1>2. UNCHANGED cancel \/ cancel' = TRUE
  BY CancelStays
<1>3. UNCHANGED audited \/ audited' \in BOOLEAN
  <2>1. CASE Admission
    BY <2>1 DEF Admission, StopEarly, Begin, Refuse, Admit, RailsBlock, Finish, Ends, endVars
  <2>2. CASE Modelling
    BY <2>2 DEF Modelling, Model, Output, OutputEnds, IterCapped, LoopCancelled, RouteFails, Route, Text,
                ToolCall, StreamEnds, StreamCancelled,
                StreamRetries, Backoff, FailOver, StreamFails, StreamOver, Leave, Ends, endVars
  <2>3. CASE CallScreen
    BY <2>3 DEF CallScreen, RoundCancelled, TailFlush, ScreenFails, ScreenBlocks, ScreenAsks, ScreenPasses,
                DlpBlocks, Gate, Queue, Serial, Look, Leave, endVars
  <2>4. CASE Dispatching
    BY <2>4 DEF Dispatching, Poll, Dispatch, ShowResult, FlushEnds, AnswerRefused, Stuck, NextRound, Fire,
                Leave, endVars
  <2>5. CASE Asking
    BY <2>5 DEF Asking, Ask, Confirmed, Approved, Denied, endVars
  <2>6. CASE Stop \/ UNCHANGED OtherVars
    BY <2>6 DEF Stop, OtherVars, endVars
  <2> QED BY <2>1, <2>2, <2>3, <2>4, <2>5, <2>6, NextCases
<1>4. UNCHANGED produced \/ produced' \in BOOLEAN
  <2>1. CASE Admission
    BY <2>1 DEF Admission, StopEarly, Begin, Refuse, Admit, RailsBlock, Finish, Ends, streamVars
  <2>2. CASE Modelling
    BY <2>2 DEF Modelling, Model, Output, OutputEnds, IterCapped, LoopCancelled, RouteFails, Route, Text,
                ToolCall, StreamEnds, StreamCancelled,
                StreamRetries, Backoff, FailOver, StreamFails, StreamOver, Leave, Ends, streamVars
  <2>3. CASE CallScreen
    BY <2>3 DEF CallScreen, RoundCancelled, TailFlush, ScreenFails, ScreenBlocks, ScreenAsks, ScreenPasses,
                DlpBlocks, Gate, Queue, Serial, Look, Leave, streamVars
  <2>4. CASE Dispatching
    BY <2>4 DEF Dispatching, Poll, Dispatch, ShowResult, FlushEnds, AnswerRefused, Stuck, NextRound, Fire,
                Leave, streamVars
  <2>5. CASE Asking
    BY <2>5 DEF Asking, Ask, Confirmed, Approved, Denied, streamVars
  <2>6. CASE Stop \/ UNCHANGED OtherVars
    BY <2>6 DEF Stop, OtherVars, streamVars
  <2> QED BY <2>1, <2>2, <2>3, <2>4, <2>5, <2>6, NextCases
<1>5. UNCHANGED fresh \/ fresh' = FALSE \/ \E new \in BOOLEAN : fresh' = (fresh \/ new)
  <2>1. CASE Admission
    BY <2>1 DEF Admission, StopEarly, Begin, Refuse, Admit, RailsBlock, Finish, Ends, callVars
  <2>2. CASE Modelling
    BY <2>2 DEF Modelling, Model, Output, OutputEnds, IterCapped, LoopCancelled, RouteFails, Route, Text,
                ToolCall, StreamEnds, StreamCancelled,
                StreamRetries, Backoff, FailOver, StreamFails, StreamOver, Leave, Ends, callVars
  <2>3. CASE CallScreen
    BY <2>3 DEF CallScreen, RoundCancelled, TailFlush, ScreenFails, ScreenBlocks, ScreenAsks, ScreenPasses,
                DlpBlocks, Gate, Queue, Serial, Look, Leave, callVars
  <2>4. CASE Dispatching
    BY <2>4 DEF Dispatching, Poll, Dispatch, ShowResult, FlushEnds, AnswerRefused, Stuck, NextRound, Fire,
                Leave, callVars
  <2>5. CASE Asking
    BY <2>5 DEF Asking, Ask, Confirmed, Approved, Denied, callVars
  <2>6. CASE Stop \/ UNCHANGED OtherVars
    BY <2>6 DEF Stop, OtherVars, callVars
  <2> QED BY <2>1, <2>2, <2>3, <2>4, <2>5, <2>6, NextCases
<1>6. \/ UNCHANGED <<tainted, untrusted>>
      \/ \E suspicious \in BOOLEAN : tainted' = (tainted \/ suspicious) /\ untrusted' = (untrusted \/ injection)
  <2>1. CASE Admission
    BY <2>1 DEF Admission, StopEarly, Begin, Refuse, Admit, RailsBlock, Finish, Ends, dataVars
  <2>2. CASE Modelling
    BY <2>2 DEF Modelling, Model, Output, OutputEnds, IterCapped, LoopCancelled, RouteFails, Route, Text,
                ToolCall, StreamEnds, StreamCancelled,
                StreamRetries, Backoff, FailOver, StreamFails, StreamOver, Leave, Ends, dataVars
  <2>3. CASE CallScreen
    BY <2>3 DEF CallScreen, RoundCancelled, TailFlush, ScreenFails, ScreenBlocks, ScreenAsks, ScreenPasses,
                DlpBlocks, Gate, Queue, Serial, Look, Leave, dataVars
  <2>4. CASE Dispatching
    BY <2>4 DEF Dispatching, Poll, Dispatch, ShowResult, FlushEnds, AnswerRefused, Stuck, NextRound, Fire,
                Leave, dataVars
  <2>5. CASE Asking
    BY <2>5 DEF Asking, Ask, Confirmed, Approved, Denied, dataVars
  <2>6. CASE Stop \/ UNCHANGED OtherVars
    BY <2>6 DEF Stop, OtherVars, dataVars
  <2> QED BY <2>1, <2>2, <2>3, <2>4, <2>5, <2>6, NextCases
<1> QED BY <1>1, <1>2, <1>3, <1>4, <1>5, <1>6, Zenon DEF FlagsOK

LEMMA DomainStep ==
  ASSUME DomainInv, ThenInv, PlaceInv, [Next]_vars PROVE DomainInv'
<1>1. ApprovalsTypeOK' /\ ControlOK' /\ FlagsOK'
  BY ApprovalsTypeStep, ControlStep, FlagStep DEF DomainInv
<1>2. calls \in Seq(Call) /\ Len(calls) \in Nat /\ cursor \in 0..Len(calls)
  BY LenProperties DEF DomainInv
<1>3. calls' \in Seq(Call) /\ Len(calls') \in Nat /\ Len(calls') >= Len(calls)
  <2>1. CASE UNCHANGED calls
    BY <1>2, <2>1
  <2>2. CASE \E t \in Tool, pays \in BOOLEAN :
               calls' = Append(calls, [tool |-> t, pays |-> pays, state |-> "streamed"])
    <3>1. \A t \in Tool, pays \in BOOLEAN : [tool |-> t, pays |-> pays, state |-> "streamed"] \in Call
      BY DEF Call, CallStates
    <3>2. PICK x \in Call : calls' = Append(calls, x)
      BY <2>2, <3>1
    <3>3. calls' \in Seq(Call) /\ Len(calls') = Len(calls) + 1
      BY <1>2, <3>1, <3>2, AddCall
    <3> QED BY <1>2, <3>3
  <2>3. CASE \E i \in Calls, s \in CallStates : calls' = [calls EXCEPT ![i].state = s]
    <3>1. calls' \in Seq(Call) /\ Len(calls') = Len(calls)
      BY <1>2, <2>3, SetsCall DEF Sets
    <3> QED BY <1>2, <3>1
  <2> QED BY <2>1, <2>2, <2>3, CallMoves DEF Moves
<1>4. cursor' = cursor \/ cursor' = 0 \/ cursor' \in Calls
  <2>1. CASE Admission \/ Stop \/ UNCHANGED OtherVars
    BY <2>1 DEF Admission, StopEarly, Begin, Refuse, Admit, RailsBlock, Finish, Stop, OtherVars, callVars
  <2>2. CASE Modelling
    BY <2>2 DEF Modelling, Model, Output, OutputEnds, IterCapped, LoopCancelled, RouteFails, Route, Text,
                ToolCall, StreamEnds, StreamCancelled,
                StreamRetries, Backoff, FailOver, StreamFails, callVars
  <2>3. CASE CallScreen
    BY <2>3 DEF CallScreen, RoundCancelled, TailFlush, ScreenFails, ScreenBlocks, ScreenAsks, ScreenPasses,
                DlpBlocks, Gate, Queue, Serial, FlushThen, callVars
  <2>4. CASE Dispatching
    BY <2>4 DEF Dispatching, Poll, Dispatch, ShowResult, FlushEnds, AnswerRefused, Stuck, NextRound, Fire,
                callVars
  <2>5. CASE Asking
    BY <2>5 DEF Asking, Ask, Confirmed, Approved, Denied
  <2> QED BY <2>1, <2>2, <2>3, <2>4, <2>5, NextCases
<1>5. cursor' \in 0..Len(calls')
  BY <1>2, <1>3, <1>4 DEF Calls
<1> QED BY <1>1, <1>3, <1>5 DEF DomainInv

-----------------------------------------------------------------------------
(* The invariant *)

LEMMA TurnStarts == Init => TurnInv
<1> SUFFICES ASSUME Init PROVE TurnInv
  OBVIOUS
<1> USE TurnAssumption, ApprovalsAssumption DEF Init, ApprovalsInit, Calls
<1>1. Len(calls) = 0 /\ calls \in Seq(Call) /\ shown \in Seq(Nat) /\ DOMAIN shown = {} /\ Calls = {}
  BY EmptySeq, LenProperties
<1>2. DomainInv
  <2>1. ControlOK
    BY DEF ControlOK
  <2>3. FlagsOK
    BY Zenon DEF FlagsOK
  <2>2. ApprovalsTypeOK
    BY DEF ApprovalsTypeOK, Nothing
  <2> QED BY <1>1, <2>1, <2>2, <2>3 DEF DomainInv
<1>3. StreamInv /\ ThenInv
  BY DEF StreamInv, ThenInv
<1>a. LateInv
  BY <1>1 DEF LateInv, In, LateIsOneOfEach
<1>4. PlaceInv
  BY <1>1 DEF PlaceInv, GoesTo
<1>5. BatchInv /\ Batch = {}
  BY <1>1 DEF BatchInv, Batch, Pending, In
<1>6. ShownInv
  BY <1>1, <1>5 DEF ShownInv, ResultsInOrder
<1>7. HumanInv
  BY <1>1 DEF HumanInv, GoesTo, GatedNeedsYes, In
<1>8. TaintInv
  <2>1. tainted = FALSE \/ tainted = injection
    OBVIOUS
  <2> QED BY <2>1 DEF TaintInv, GoesTo
<1>9. CreditInv
  <2>1. Owed = {}
    BY DEF Owed
  <2> QED BY <2>1, FS_EmptySet DEF CreditInv
<1>10. EditsInOrder
  <2>1. Calls = {}
    BY DEF Calls
  <2> QED BY <2>1 DEF EditsInOrder
<1> QED BY <1>2, <1>3, <1>a, <1>4, <1>5, <1>6, <1>7, <1>8, <1>9, <1>10 DEF TurnInv

LEMMA TurnInductive == TurnInv /\ [Next]_vars => TurnInv'
BY DomainStep, ChainStep, ThenStep, PlaceStep, BatchStep, ShownStep, HumanStep, TaintStep, LateStep, CreditStep,
   EditStep
DEF TurnInv, DomainInv

\* Every reachable state of the turn satisfies the invariant.
THEOREM TurnInvariant == Spec => []TurnInv
BY TurnStarts, TurnInductive, PTL DEF Spec

-----------------------------------------------------------------------------
(* The properties *)

LEMMA TurnTyped == TurnInv => TypeOK
<1> SUFFICES ASSUME TurnInv PROVE TypeOK
  OBVIOUS
<1>0. /\ DomainInv /\ StreamInv /\ ThenInv /\ PlaceInv /\ ShownInv /\ HumanInv /\ LateInv
      /\ ControlOK /\ FlagsOK
  BY DEF TurnInv, DomainInv
<1>1. chain \in Chains(Provider) \cup {<<>>}
  <2>1. Chains(Eligible(class)) \subseteq Chains(Provider)
    BY TurnAssumption, EligibleAre, ChainsGrow
  <2> QED BY <1>0, <2>1 DEF StreamInv
<1>2. spoke \in 0..Cardinality(Provider)
  <2>1. Cardinality(Provider) \in Nat
    BY TurnAssumption, FS_CardinalityType
  <2>2. CASE chain \in Chains(Provider)
    <3>1. Len(chain) \in 1..Cardinality(Provider)
      BY <2>2, TurnAssumption, ChainIsSeq
    <3>2. spoke \in {0, 1}
      BY <1>0 DEF StreamInv
    <3> QED BY <2>1, <3>1, <3>2
  <2>3. CASE ~produced
    BY <1>0, <2>1, <2>3 DEF StreamInv
  <2>4. pc \in {"stream", "backoff"} => chain \in Chains(Provider)
    <3>1. Chains(Eligible(class)) \subseteq Chains(Provider)
      BY TurnAssumption, EligibleAre, ChainsGrow
    <3> QED BY <1>0, <3>1 DEF StreamInv
  <2> QED BY <1>0, <2>2, <2>3, <2>4 DEF StreamInv
<1>3. shown \in Seq(Calls)
  <2>1. shown \in [1..Len(shown) -> Nat] /\ Len(shown) \in Nat /\ DOMAIN shown = 1..Len(shown)
    BY <1>0, LenProperties DEF ShownInv
  <2>2. \A k \in 1..Len(shown) : shown[k] \in Calls
    BY <1>0, <2>1 DEF ShownInv
  <2>3. shown \in [1..Len(shown) -> Calls]
    BY <2>1, <2>2
  <2> QED BY <2>1, <2>3, SeqDef
<1>4. calls \in Seq([tool : Tool, pays : BOOLEAN, state : CallStates]) /\ cursor \in 0..Len(calls)
  BY <1>0 DEF DomainInv, Call
<1>5. base \in 0..Len(calls) /\ at \in 1..(Len(calls) + 1)
  BY <1>0, <1>4, LenProperties DEF PlaceInv
<1>6. /\ tries \in 0..MaxRetries /\ late \subseteq Calls
      /\ then \in {"none", "refuse", "approve", "confirm", "fire", "tail"}
      /\ approved \subseteq Gated /\ confirmed \subseteq Danger /\ yes \subseteq Calls
  BY <1>0 DEF StreamInv, LateInv, ThenInv, HumanInv
<1>7. dones \in 0..1
  BY <1>0 DEF ControlOK
<1>8. /\ ApprovalsTypeOK /\ iter \in 0..MaxIters
      /\ pc \in {"start", "admit", "loop", "stream", "backoff", "call", "gate", "flush", "refuse", "approve", "ask",
                 "fire", "tail", "finish", "ended"}
      /\ class \in {"open", "regulated"}
      /\ why \in {"none", "cancelled", "failed", "complete", "capped"}
      /\ wire \in {"none", "started", "stopped", "failed", "complete", "capped"}
  BY <1>0 DEF DomainInv, ControlOK
<1> QED BY <1>0, <1>1, <1>2, <1>3, <1>4, <1>5, <1>6, <1>7, <1>8, Zenon DEF TypeOK, FlagsOK

\* Every reachable state of the turn and of its approvals is well typed.
THEOREM TurnTypeCorrect == Spec => []TypeOK
BY TurnInvariant, TurnTyped, PTL

\* The answers of batched, serial and refused calls reach the sink in the order of the calls.
THEOREM AnswersAreInOrder == Spec => []ResultsInOrder
<1>1. TurnInv => ResultsInOrder
  BY DEF TurnInv, ShownInv
<1> QED BY <1>1, TurnInvariant, PTL

\* A turn that ends of itself, not stopped, has answered all the calls its model made.
THEOREM CallsAreAnswered == Spec => []EveryCallAnswered
<1>1. TurnInv => EveryCallAnswered
  <2> SUFFICES ASSUME TurnInv, pc = "ended", why \in {"complete", "capped"}, ~cancel
               PROVE  Range(shown) = Calls
    BY DEF EveryCallAnswered
  <2>1. /\ calls \in Seq(Call) /\ Len(calls) \in Nat /\ at = Len(calls) + 1
        /\ \A i \in Calls : calls[i].state = "streamed" <=> at <= i
    BY LenProperties DEF TurnInv, DomainInv, PlaceInv
  <2>2. Batch = {} /\ In("dropped") = {}
    BY DEF TurnInv, BatchInv
  <2>3. ASSUME NEW i \in Calls PROVE i \in Range(shown)
    <3>1. calls[i].state # "streamed"
      BY <2>1 DEF Calls
    <3>2. calls[i].state \notin {"queued", "inflight", "cleared", "fired", "dropped"}
      BY <2>2 DEF Batch, Pending, In
    <3>3. calls[i].state \in CallStates
      <4>1. calls[i] \in Call
        BY <2>1, LenProperties DEF Calls
      <4> QED BY <4>1 DEF Call
    <3> QED BY <3>1, <3>2, <3>3 DEF CallStates, TurnInv, ShownInv
  <2>4. Range(shown) \subseteq Calls
    BY DEF TurnInv, ShownInv, Range
  <2> QED BY <2>3, <2>4
<1> QED BY <1>1, TurnInvariant, PTL

\* What pays had an ask of its own that came back with a plain approve, and what is gated had
\* one or was approved for the session, however answers, timeouts and stops race.  It is not
\* said that the answer was sent for that ask.
THEOREM GatedCallsHaveYes == Spec => []GatedNeedsYes
<1>1. TurnInv => GatedNeedsYes
  BY DEF TurnInv, HumanInv
<1> QED BY <1>1, TurnInvariant, PTL

\* A turn that has seen regulated data goes to a model of the house, after any retry or failover.
THEOREM RegulatedIsHome == Spec => []RegulatedStaysHome
<1>1. TurnInv => RegulatedStaysHome
  <2> SUFFICES ASSUME TurnInv, pc \in {"stream", "backoff"}, class = "regulated"
               PROVE  Head(chain) \in House
    BY DEF RegulatedStaysHome
  <2>1. chain \in Chains(House)
    BY DEF TurnInv, StreamInv, Eligible
  <2>2. IsFiniteSet(House)
    BY TurnAssumption, FS_Subset
  <2> QED BY <2>1, <2>2, ChainIsSeq
<1> QED BY <1>1, TurnInvariant, PTL

\* One attempt of a round speaks to the client, whatever fails and is tried again.
THEOREM OneAttemptIsHeard == Spec => []OneVoice
<1>1. TurnInv => OneVoice
  BY DEF TurnInv, StreamInv, OneVoice
<1> QED BY <1>1, TurnInvariant, PTL

\* Of the calls of a batch that edit the file, one is in it at a time, in the order of the calls.
THEOREM EditsEnterInOrder == Spec => []EditsInOrder
<1>1. TurnInv => EditsInOrder
  BY DEF TurnInv
<1> QED BY <1>1, TurnInvariant, PTL

\* After a stop two calls at most are dispatched, one that its batch had let through and one that
\* goes by itself, however the stop races with the flush, the questions and their answers.
THEOREM OneOfEachIsLate == Spec => []LateIsOneOfEach
<1>1. TurnInv => LateIsOneOfEach
  BY DEF TurnInv, LateInv
<1> QED BY <1>1, TurnInvariant, PTL

\* However many askers, answers and timeouts race, no ask is cleared but by an accepted yes of its own.
THEOREM AsksNeedAnswers == Spec => []AnswerClearsOne
<1>1. TurnInv => AnswerClearsOne
  <2> SUFFICES ASSUME TurnInv PROVE credit >= 0
    BY DEF AnswerClearsOne
  <2>1. IsFiniteSet(Owed) /\ Cardinality(Owed) <= credit /\ credit \in Int
    BY DEF TurnInv, CreditInv, DomainInv, ApprovalsTypeOK
  <2>2. Cardinality(Owed) \in Nat
    BY <2>1, FS_CardinalityType
  <2> QED BY <2>1, <2>2
<1> QED BY <1>1, TurnInvariant, PTL

\* From the step on in which a poisoned result is found, no dangerous call is dispatched.
THEOREM TaintStopsDanger == Spec => TaintIsHeeded
<1> DEFINE Heeded ==
      tainted => \A i \in Calls : Tools(i) \in Danger /\ calls'[i].state \in {"fired", "answered"}
                                    => calls[i].state = calls'[i].state
<1>1. TurnInv /\ [Next]_vars => [Heeded]_vars
  <2> SUFFICES ASSUME TurnInv, [Next]_vars, tainted, NEW i \in Calls, Tools(i) \in Danger,
                      calls'[i].state \in {"fired", "answered"}
               PROVE  calls[i].state = calls'[i].state
    OBVIOUS
  <2>1. /\ calls \in Seq(Call) /\ Len(calls) \in Nat /\ Batch = {}
        /\ pc = "fire" => Tools(at) \notin Danger
    BY LenProperties DEF TurnInv, DomainInv, TaintInv, BatchInv, Batched, GoesTo, Current
  <2>2. CASE UNCHANGED calls
    BY <2>2
  <2>3. ASSUME NEW t \in Tool, NEW pays \in BOOLEAN,
               calls' = Append(calls, [tool |-> t, pays |-> pays, state |-> "streamed"])
        PROVE  calls[i].state = calls'[i].state
    <3>1. [tool |-> t, pays |-> pays, state |-> "streamed"] \in Call
      BY DEF Call, CallStates
    <3>2. calls'[i] = calls[i]
      BY <2>1, <2>3, <3>1, AddCall DEF Calls
    <3> QED BY <3>2
  <2>4. ASSUME NEW k, NEW s, Moves(k, s) PROVE calls[i].state = calls'[i].state
    <3>1. Sets(k, s)
      BY <2>1, <2>4, SetsCall DEF Moves
    <3>2. CASE i = k
      <4>1. s \in {"fired", "answered"}
        BY <3>1, <3>2 DEF Sets
      <4>2. Runnable = {} /\ In("fired") = {} /\ In("cleared") = {}
        BY <2>1 DEF Batch, Pending, Runnable
      <4> QED BY <2>1, <2>4, <3>2, <4>1, <4>2 DEF Moves
    <3> QED BY <3>1, <3>2 DEF Sets
  <2> QED BY <2>2, <2>3, <2>4, CallMoves DEF TurnInv
<1> QED BY <1>1, TurnInvariant, PTL DEF Spec, TaintIsHeeded

-----------------------------------------------------------------------------
(* The contract with the client *)

\* A turn is cancelled by a stop only and leaves the loop for a reason, and the calls of a
\* batch are of the round.
EndInv ==
  /\ why = "cancelled" => cancel
  /\ pc = "finish" => why # "none"
  /\ \A i \in Batch : base < i

LEMMA EndStarts == Init => EndInv
<1> SUFFICES ASSUME Init PROVE EndInv
  OBVIOUS
<1>1. Calls = {}
  BY EmptySeq DEF Init, Calls
<1> QED BY <1>1 DEF Init, EndInv, Batch, Pending, In

LEMMA EndStep == ASSUME TurnInv, EndInv, [Next]_vars PROVE EndInv'
<1>0. /\ DomainInv /\ ThenInv /\ PlaceInv /\ BatchInv
      /\ calls \in Seq(Call) /\ Len(calls) \in Nat /\ at \in Nat /\ base \in Nat /\ base < at
      /\ pc \in {"gate", "ask", "refuse", "fire"} => at \in Calls
  BY LenProperties DEF TurnInv, DomainInv, PlaceInv, GoesTo, Calls
<1>1. (why = "cancelled" => cancel)' /\ (pc = "finish" => why # "none")'
  <2> USE <1>0 DEF EndInv, ThenInv
  <2>1. CASE Admission
    BY <2>1 DEF Admission, StopEarly, Begin, Refuse, Admit, RailsBlock, Finish, Ends, endVars
  <2>2. CASE Modelling
    BY <2>2 DEF Modelling, Model, Output, OutputEnds, IterCapped, LoopCancelled, RouteFails, Route, Text,
                ToolCall, StreamEnds, StreamCancelled,
                StreamRetries, Backoff, FailOver, StreamFails, Leave, Ends, endVars
  <2>3. CASE CallScreen
    BY <2>3 DEF CallScreen, RoundCancelled, TailFlush, ScreenFails, ScreenBlocks, ScreenAsks, ScreenPasses,
                DlpBlocks, Gate, Queue, Serial, AskFor, Look, FlushThen, Leave, Answers, endVars
  <2>4. CASE Dispatching
    BY <2>4 DEF Dispatching, Poll, Dispatch, ShowResult, FlushEnds, AnswerRefused, Stuck, NextRound, Fire,
                Leave, Answers,
                endVars
  <2>5. CASE Asking
    BY <2>5 DEF Asking, Ask, Confirmed, Approved, Denied, AskFor, Answers, endVars
  <2>6. CASE Stop \/ UNCHANGED OtherVars
    BY <2>6 DEF Stop, OtherVars, endVars
  <2> QED BY <2>1, <2>2, <2>3, <2>4, <2>5, <2>6, NextCases
<1>2. UNCHANGED base \/ (UNCHANGED calls /\ Batch = {})
  <2>1. CASE Admission
    BY <2>1 DEF Admission, StopEarly, Begin, Refuse, Admit, RailsBlock, Finish, callVars
  <2>2. CASE Modelling
    <3>1. ASSUME NEW s \in Chains(Provider), Route(s) PROVE UNCHANGED calls /\ Batch = {}
      BY <1>0, <3>1 DEF Route, BatchInv
    <3> QED BY <2>2, <3>1 DEF Modelling, Model, Output, OutputEnds, IterCapped, LoopCancelled, RouteFails,
                              Text, ToolCall, StreamEnds,
               StreamCancelled, StreamRetries, Backoff, FailOver, StreamFails, callVars
  <2>3. CASE CallScreen
    BY <2>3 DEF CallScreen, RoundCancelled, TailFlush, ScreenFails, ScreenBlocks, ScreenAsks, ScreenPasses,
                DlpBlocks, Gate, Queue, Serial, callVars
  <2>4. CASE Dispatching
    BY <2>4 DEF Dispatching, Poll, Dispatch, ShowResult, FlushEnds, AnswerRefused, Stuck, NextRound, Fire,
                callVars
  <2>5. CASE Asking
    BY <2>5 DEF Asking, Ask, Confirmed, Approved, Denied
  <2>6. CASE Stop \/ UNCHANGED OtherVars
    BY <2>6 DEF Stop, OtherVars, callVars
  <2> QED BY <2>1, <2>2, <2>3, <2>4, <2>5, <2>6, NextCases
<1>3. \A i \in Batch' : i \in Batch \/ i = at
  <2>1. CASE UNCHANGED calls
    BY <2>1, SameCalls
  <2>2. ASSUME NEW t \in Tool, NEW pays \in BOOLEAN,
               calls' = Append(calls, [tool |-> t, pays |-> pays, state |-> "streamed"])
        PROVE  Batch' \subseteq Batch
    <3> DEFINE x == [tool |-> t, pays |-> pays, state |-> "streamed"]
    <3>1. x \in Call /\ x.state = "streamed"
      BY DEF Call, CallStates
    <3>2. calls' = Append(calls, x)
      BY <2>2
    <3> HIDE DEF x
    <3>3. /\ Len(calls') = Len(calls) + 1 /\ calls'[Len(calls) + 1] = x
          /\ \A j \in 1..Len(calls) : calls'[j] = calls[j]
      BY <1>0, <3>1, <3>2, AddCall
    <3>4. \A j \in Calls' : (j \in Calls /\ calls'[j] = calls[j]) \/ calls'[j].state = "streamed"
      BY <1>0, <3>1, <3>3 DEF Calls
    <3> QED BY <3>4 DEF Batch, Pending, In
  <2>3. ASSUME NEW k, NEW s, Moves(k, s) PROVE \A i \in Batch' : i \in Batch \/ i = at
    <3>1. Sets(k, s) /\ k \in Calls /\ Calls' = Calls
      BY <1>0, <2>3, SetsCall DEF Moves, Sets, Calls
    <3>2. s \in {"queued", "inflight", "cleared", "fired"} => k = at \/ k \in Batch
      BY <2>3 DEF Moves, Runnable, Batch, Pending
    <3> QED BY <3>1, <3>2 DEF Sets, Batch, Pending, In
  <2> QED BY <1>0, <2>1, <2>2, <2>3, CallMoves
<1>4. (\A i \in Batch : base < i)'
  <2>1. CASE UNCHANGED base
    BY <1>0, <1>3, <2>1 DEF EndInv
  <2>2. CASE UNCHANGED calls /\ Batch = {}
    BY <2>2, SameCalls
  <2> QED BY <1>2, <2>1, <2>2
<1> QED BY <1>1, <1>4 DEF EndInv

\* When no batch is open and the turn is not stopped, what the loop is past is answered.
LEMMA PastIsAnswered ==
  ASSUME TurnInv, Batch = {}, ~cancel PROVE Range(shown) = 1..(at - 1)
<1>1. /\ calls \in Seq(Call) /\ Len(calls) \in Nat /\ at \in 1..(Len(calls) + 1)
      /\ \A i \in Calls : calls[i].state = "streamed" <=> at <= i
  BY LenProperties DEF TurnInv, DomainInv, PlaceInv
<1>2. In("dropped") = {}
  BY DEF TurnInv, BatchInv
<1>3. ASSUME NEW i \in Calls, ~(at <= i) PROVE i \in Range(shown)
  <2>1. calls[i].state \notin {"streamed", "queued", "inflight", "cleared", "fired", "dropped"}
    BY <1>1, <1>2, <1>3 DEF Batch, Pending, In
  <2>2. calls[i].state \in CallStates
    <3>1. calls[i] \in Call
      BY <1>1, LenProperties DEF Calls
    <3> QED BY <3>1 DEF Call
  <2> QED BY <2>1, <2>2 DEF CallStates, TurnInv, ShownInv
<1>4. ASSUME NEW i \in Range(shown) PROVE i \in Calls /\ ~(at <= i)
  <2>1. i \in Calls
    BY DEF TurnInv, ShownInv, Range
  <2>2. calls[i].state \in {"answered", "refused"}
    BY <2>1 DEF TurnInv, ShownInv
  <2> QED BY <1>1, <2>1, <2>2
<1>5. \A i : i \in 1..(at - 1) <=> i \in Calls /\ ~(at <= i)
  BY <1>1 DEF Calls
<1> QED BY <1>3, <1>4, <1>5

\* Every step of the turn is a step of the contract, or nothing to the client.
LEMMA ContractStep == ASSUME TurnInv, EndInv, [Next]_vars PROVE [Contract!Next]_Contract!vars
<1>0. /\ DomainInv /\ ControlOK /\ ThenInv /\ PlaceInv /\ BatchInv /\ ShownInv
      /\ calls \in Seq(Call) /\ Len(calls) \in Nat /\ at \in Nat /\ base \in Nat /\ base < at
      /\ pc \in {"gate", "ask", "refuse", "fire"} => at \in Calls
  BY LenProperties DEF TurnInv, DomainInv, PlaceInv, GoesTo, Calls
\* The phases, and steps that the client does not see.
<1>1. ASSUME UNCHANGED <<base, shown, cancel>>, Len(calls') = Len(calls),
             (pc' = pc /\ UNCHANGED why) \/ {pc, pc'} \cap {"start", "admit", "ended"} = {}
      PROVE  UNCHANGED Contract!vars
  <2>1. Phase' = Phase /\ Outcome' = Outcome
    BY <1>1 DEF Phase, Outcome
  <2> QED BY <1>1, <2>1 DEF Contract!vars
<1>2. /\ pc \notin {"start", "admit", "ended"} => Phase = "open" /\ Outcome = "none"
      /\ pc' \notin {"start", "admit", "ended"} => Phase' = "open" /\ Outcome' = "none"
      /\ pc \in {"start", "admit"} => Phase = "new" /\ Outcome = "none"
      /\ pc' = "ended" => Phase' = "done" /\ Outcome' = why'
      /\ pc # "ended" => Phase # "done"
  BY DEF Phase, Outcome
\* What is shown is below the call that the loop is at, and what is in the batch above the
\* calls of the rounds before.
<1>3. Contract!Answered = Range(shown)
  BY DEF Contract!Answered, Range
<1>4. \A k \in DOMAIN shown : shown[k] < at
  <2>1. SUFFICES ASSUME NEW k \in DOMAIN shown PROVE shown[k] < at
    OBVIOUS
  <2>2. PICK i \in Calls : i = shown[k] /\ i \in Range(shown)
    BY <1>0 DEF ShownInv, Range
  <2>3. calls[i].state # "streamed" /\ i \in Nat
    BY <1>0, <2>2 DEF ShownInv, Calls
  <2> QED BY <1>0, <2>2, <2>3 DEF PlaceInv
<1>5. ASSUME NEW i \in Calls, base < i, \A k \in DOMAIN shown : shown[k] < i,
             pc \notin {"start", "admit", "ended"}, pc' \notin {"start", "admit", "ended"},
             shown' = Append(shown, i), Len(calls') = Len(calls), UNCHANGED <<base, cancel>>
      PROVE  Contract!Next
  <2>1. i \in (base + 1)..Len(calls)
    BY <1>0, <1>5 DEF Calls
  <2>2. \A j \in Contract!Answered : j < i
    BY <1>5 DEF Contract!Answered
  <2>3. Contract!Answer(i)
    BY <1>2, <1>5, <2>1, <2>2 DEF Contract!Answer
  <2> QED BY <2>1, <2>3 DEF Contract!Next
<1>6. ASSUME at \in Calls, NEW s \in CallStates, Answers(s), pc \notin {"start", "admit", "ended"}, UNCHANGED <<base, cancel>>
      PROVE  Contract!Next
  <2>1. Len(calls') = Len(calls) /\ shown' = Append(shown, at) /\ pc' = "call"
    BY <1>0, <1>6, SetsCall DEF Answers, Sets
  <2> QED BY <1>0, <1>4, <1>5, <1>6, <2>1
<1>7. ASSUME NEW o \in {"cancelled", "failed", "complete", "capped"},
             pc \notin {"start", "admit", "ended"}, pc' = "ended", why' = o,
             o = "cancelled" => cancel,
             o \in {"complete", "capped"} => cancel \/ Range(shown) = 1..Len(calls),
             UNCHANGED <<calls, base, shown, cancel>>
      PROVE  Contract!Next
  <2>1. Contract!End(o)
    BY <1>2, <1>3, <1>7 DEF Contract!End
  <2> QED BY <2>1 DEF Contract!Next
<1>8. CASE Admission
  <2>1. CASE StopEarly \/ Refuse
    <3>1. PICK o \in {"cancelled", "failed"} : why' = o /\ (o = "cancelled" => cancel)
      BY <2>1 DEF StopEarly, Refuse
    <3>2. pc \in {"start", "admit"} /\ pc' = "ended" /\ UNCHANGED <<calls, base, shown, cancel>>
      BY <2>1 DEF StopEarly, Refuse, Ends, callVars
    <3>3. Contract!TurnAway(o)
      BY <1>2, <3>1, <3>2 DEF Contract!TurnAway
    <3> QED BY <3>3 DEF Contract!Next
  <2>4. CASE Begin
    <3>1. UNCHANGED <<calls, base, shown, cancel, why>> /\ pc = "start" /\ pc' = "admit"
      BY <2>4 DEF Begin, callVars, endVars
    <3>2. Phase' = Phase /\ Outcome' = Outcome
      BY <3>1 DEF Phase, Outcome
    <3> QED BY <3>1, <3>2 DEF Contract!vars
  <2>2. CASE Admit
    <3>1. Contract!Open
      BY <1>2, <2>2 DEF Admit, callVars, Contract!Open
    <3> QED BY <3>1 DEF Contract!Next
  <2>3. CASE RailsBlock \/ Finish
    <3>1. pc = "finish" /\ pc' = "ended" /\ why' = why /\ UNCHANGED <<calls, base, shown, cancel>>
      BY <2>3 DEF RailsBlock, Finish, Ends, callVars
    <3>2. why \in {"cancelled", "failed", "complete", "capped"} /\ (why = "cancelled" => cancel)
      BY <1>0, <3>1 DEF ControlOK, EndInv
    <3>3. ASSUME why \in {"complete", "capped"}, ~cancel PROVE Range(shown) = 1..Len(calls)
      <4>1. Batch = {} /\ at = Len(calls) + 1
        BY <1>0, <3>1, <3>3 DEF BatchInv, PlaceInv
      <4>2. Range(shown) = 1..(at - 1)
        BY <3>3, <4>1, PastIsAnswered
      <4> QED BY <1>0, <4>1, <4>2
    <3> QED BY <1>7, <3>1, <3>2, <3>3
  <2> QED BY <1>8, <2>1, <2>2, <2>3, <2>4 DEF Admission
<1>9. CASE Modelling
  <2>1. CASE IterCapped \/ LoopCancelled
    BY <1>1, <2>1 DEF IterCapped, LoopCancelled, Leave, callVars
  <2>2. CASE RouteFails
    BY <1>7, <2>2 DEF RouteFails, Ends, callVars
  <2>3. ASSUME NEW s \in Chains(Provider), Route(s) PROVE Contract!Next
    <3>1. Batch = {} /\ ~cancel /\ at = Len(calls) + 1
      BY <1>0, <2>3 DEF Route, BatchInv, PlaceInv
    <3>2. Range(shown) = 1..Len(calls)
      BY <1>0, <3>1, PastIsAnswered
    <3>3. pc = "loop" /\ pc' = "stream" /\ base' = Len(calls) /\ UNCHANGED <<calls, shown, cancel>>
      BY <2>3 DEF Route
    <3>4. Contract!NextRound
      BY <1>2, <1>3, <3>1, <3>2, <3>3 DEF Contract!NextRound
    <3> QED BY <3>4 DEF Contract!Next
  <2>4. ASSUME NEW t \in Tool, NEW pays \in BOOLEAN, ToolCall(t, pays) PROVE Contract!Next
    <3>1. Batch = {} /\ ~cancel /\ at = base + 1 /\ pc = "stream"
      BY <1>0, <2>4 DEF ToolCall, BatchInv, PlaceInv
    <3>2. Range(shown) = 1..base
      BY <1>0, <3>1, PastIsAnswered
    <3>3. Len(calls') = Len(calls) + 1
      <4>1. [tool |-> t, pays |-> pays, state |-> "streamed"] \in Call
        BY DEF Call, CallStates
      <4> QED BY <1>0, <2>4, <4>1, AddCall DEF ToolCall
    <3>4. UNCHANGED <<pc, base, shown, cancel>>
      BY <2>4 DEF ToolCall
    <3>5. Contract!ShowCall
      BY <1>2, <1>3, <3>1, <3>2, <3>3, <3>4 DEF Contract!ShowCall
    <3> QED BY <3>5 DEF Contract!Next
  <2>5. CASE Text \/ StreamRetries \/ Backoff \/ FailOver
    BY <1>1, <2>5 DEF Text, StreamRetries, Backoff, FailOver, callVars, endVars
  <2>6. CASE StreamEnds \/ StreamCancelled \/ StreamFails
    <3>1. pc \in {"stream", "backoff"} /\ pc' \in {"finish", "call"} /\ UNCHANGED <<calls, base, shown, cancel>>
      BY <2>6 DEF StreamEnds, StreamCancelled, StreamFails, Leave, callVars
    <3> QED BY <1>1, <3>1
  <2> QED BY <1>9, <2>1, <2>2, <2>3, <2>4, <2>5, <2>6 DEF Modelling, Model, Output, OutputEnds
<1>10. CASE CallScreen
  <2>1. ASSUME NEW new \in BOOLEAN, ScreenBlocks(new) PROVE Contract!Next
    <3>1. at \in Calls /\ pc = "call"
      BY <1>0, <2>1 DEF ScreenBlocks, Look, Calls
    <3> QED BY <1>6, <2>1, <3>1 DEF ScreenBlocks, CallStates
  <2>2. CASE Queue
    <3>1. Len(calls') = Len(calls) /\ pc = "gate" /\ pc' = "call" /\ UNCHANGED <<base, shown, cancel>>
      BY <1>0, <2>2, SetsCall DEF Queue, CallStates, Sets
    <3> QED BY <1>1, <3>1
  <2>3. ASSUME UNCHANGED <<calls, base, shown, cancel>>, pc \in {"call", "gate"},
               pc' \in {"finish", "flush", "ask", "gate"}
        PROVE  UNCHANGED Contract!vars
    BY <1>1, <2>3
  <2> QED BY <1>10, <2>1, <2>2, <2>3
          DEF CallScreen, RoundCancelled, TailFlush, ScreenFails, ScreenAsks, ScreenPasses,
              DlpBlocks, Gate, Serial, AskFor, Look, FlushThen, Leave, callVars
<1>11. CASE Dispatching
  <2>1. ASSUME NEW i \in Calls, Poll(i) \/ Dispatch(i) PROVE UNCHANGED Contract!vars
    <3>1. PICK z \in {"dropped", "inflight", "cleared", "fired"} : calls' = [calls EXCEPT ![i].state = z]
      BY <2>1, PolledMoves
    <3>2. Len(calls') = Len(calls)
      BY <1>0, <3>1, SetsCall DEF CallStates, Sets
    <3>3. UNCHANGED <<pc, why, base, shown, cancel>>
      BY <2>1 DEF Poll, Dispatch, endVars
    <3> QED BY <1>1, <3>2, <3>3
  <2>2. CASE ShowResult
    <3> DEFINE i == Min(In("fired"))
    <3>1. In("fired") \subseteq Nat /\ In("fired") \subseteq Calls /\ In("fired") # {}
      BY <2>2 DEF ShowResult, In, Calls
    <3>2. i \in In("fired")
      BY <3>1, MinIs
    <3>3. /\ calls' = [calls EXCEPT ![i].state = "answered"] /\ shown' = Append(shown, i)
          /\ pc = "flush" /\ UNCHANGED <<pc, base, cancel>>
      BY <2>2 DEF ShowResult
    <3> HIDE DEF i
    <3>4. i \in Calls /\ i \in Batch
      BY <3>1, <3>2 DEF Batch
    <3>5. Len(calls') = Len(calls)
      BY <1>0, <3>3, <3>4, SetsCall DEF CallStates, Sets
    <3>6. base < i /\ \A k \in DOMAIN shown : shown[k] < i
      BY <1>0, <3>4 DEF EndInv, ShownInv
    <3> QED BY <1>5, <3>3, <3>4, <3>5, <3>6
  <2>3. CASE AnswerRefused
    BY <1>0, <1>6, <2>3 DEF AnswerRefused, CallStates
  <2>4. ASSUME NEW suspicious \in BOOLEAN, Fire(suspicious) PROVE Contract!Next
    BY <1>0, <1>6, <2>4 DEF Fire, CallStates
  <2>5. CASE FlushEnds
    <3>1. pc = "flush" /\ pc' \in {"refuse", "approve", "fire", "tail"} /\ UNCHANGED <<calls, base, shown, cancel>>
      BY <1>0, <2>5 DEF FlushEnds, ThenInv
    <3> QED BY <1>1, <3>1
  <2>6. CASE Stuck \/ NextRound
    BY <1>1, <2>6 DEF Stuck, NextRound, Leave, callVars
  <2> QED BY <1>11, <2>1, <2>2, <2>3, <2>4, <2>5, <2>6 DEF Dispatching
<1>12. CASE Asking
  <2>1. ASSUME NEW v \in Answer, Denied(v) PROVE Contract!Next
    BY <1>0, <1>6, <2>1 DEF Denied, Decided, CallStates
  <2>2. CASE Ask
    BY <1>1, <2>2 DEF Ask, AskFor
  <2>3. ASSUME NEW v \in Answer, Confirmed(v) \/ Approved(v) PROVE UNCHANGED Contract!vars
    BY <1>1, <2>3 DEF Confirmed, Approved, Decided
  <2> QED BY <1>12, <2>1, <2>2, <2>3 DEF Asking
<1>13. CASE Stop
  <2>1. Contract!Stop
    <3>1. UNCHANGED <<pc, why, calls, base, shown>> /\ ~cancel /\ cancel' /\ pc # "ended"
      BY <1>13 DEF Stop, callVars, endVars
    <3>2. UNCHANGED <<Phase, Outcome>>
      BY <3>1 DEF Phase, Outcome
    <3> QED BY <1>2, <1>13, <3>1, <3>2 DEF Stop, Contract!Stop
  <2> QED BY <2>1 DEF Contract!Next
<1>14. CASE UNCHANGED OtherVars
  BY <1>1, <1>14 DEF OtherVars, callVars, endVars
<1> QED BY <1>8, <1>9, <1>10, <1>11, <1>12, <1>13, <1>14, NextCases

\* The engine keeps its contract with the client, for any providers, tools, askers and bounds.
THEOREM ContractIsImplemented == Spec => ImplementsTurnContract
<1>1. Init => Contract!Init
  <2> SUFFICES ASSUME Init PROVE Contract!Init
    OBVIOUS
  <2>1. Len(calls) = 0
    BY EmptySeq DEF Init
  <2> QED BY <2>1 DEF Init, Contract!Init, Phase, Outcome
<1>2. EndInv /\ TurnInv /\ [Next]_vars => EndInv' /\ [Contract!Next]_Contract!vars
  BY EndStep, ContractStep
<1> QED BY <1>1, <1>2, EndStarts, TurnInvariant, PTL DEF Spec, ImplementsTurnContract, Contract!Spec

=============================================================================
