------------------------------ MODULE TurnLoop ------------------------------
(***************************************************************************)
(* One turn of the engine, Engine::run_turn_cancellable: admission, the    *)
(* agent loop over model streams with retry and failover, the screening of *)
(* every tool call, the approval gate, dispatch in batches or one by one,  *)
(* and the end of the turn on the sink, the wire and the audit trail.      *)
(*                                                                         *)
(* The approval gate is the WireApprovalGate of Approvals, shared with the *)
(* harness runs of the session.  A turn.stop may set the turn's cancel     *)
(* token at any point; the engine sees it only where it looks.             *)
(***************************************************************************)
EXTENDS Approvals, Sequences, FiniteSetsExt, Functions

CONSTANTS
  Turn,       \* the turn, as an asker
  Provider, House,  \* the providers, and those that may see regulated data
  Tool,
  Danger,     \* tools with a side effect or an egress
  Edits,      \* those that edit the (one) file
  Gated,      \* those of tier High or HighRisk
  Payment,    \* those of which a call may cross a payment boundary
  Regulated,  \* those whose result is regulated data
  Declared,   \* the data classes of the request: "open", "regulated"
  MaxIters, MaxRetries,
  MaxCalls    \* bound: tool calls the model makes in the turn

ASSUME TurnAssumption ==
  /\ Turn \in Announced
  /\ IsFiniteSet(Provider) /\ House \subseteq Provider
  /\ Declared \subseteq {"open", "regulated"}
  /\ Edits \subseteq Danger /\ Gated \cup Payment \subseteq Danger /\ Danger \cup Regulated \subseteq Tool
  /\ MaxIters \in Nat \ {0} /\ MaxRetries \in Nat /\ MaxCalls \in Nat

VARIABLES
  injection,  \* is injection defence on
  pc, iter,
  class,      \* route_class
  tainted, untrusted,
  chain,      \* the providers of the round that have not failed, the current one first
  tries,
  produced,   \* output of the attempt has reached the caller
  spoke,      \* the attempts of the round that produced output
  calls,      \* the tool calls of the turn: their tool, if they pay, and how far they are
  base, at,   \* the calls of the round are those above base; the loop is at this one
  fresh,      \* any_new
  then,       \* what follows the flush, or which gate the engine asks for
  cursor,     \* the queued call that was polled last
  approved, confirmed,  \* tools approved for the session, at each of the two gates
  yes,        \* calls whose own ask came back with a plain approve, whatever ask it was sent for
  shown,      \* the calls answered on the sink, in that order
  cancel, late,  \* the cancel token, and the calls dispatched after it was set
  why, dones, wire, audited  \* how the loop ended; what the client and the audit saw

streamVars == <<chain, tries, produced, spoke>>
callVars == <<calls, base, at, fresh, then, cursor, shown>>
humanVars == <<approved, confirmed, yes>>
dataVars == <<class, tainted, untrusted>>
endVars == <<why, dones, wire, audited>>
vars == <<injection, pc, iter, streamVars, callVars, humanVars, dataVars, cancel, late, endVars, approvalVars>>

Calls == 1..Len(calls)
Tools(i) == calls[i].tool
In(state) == {i \in Calls : calls[i].state = state}
Round == {i \in Calls : i > base}
Eligible(c) == IF c = "open" THEN Provider ELSE House

\* The router ranks the providers of S that are up, in an order left open.
Chains(S) == {s \in UNION {[1..n -> S] : n \in 1..Cardinality(S)} : IsInjective(s)}

Init ==
  /\ ApprovalsInit
  /\ injection \in BOOLEAN
  /\ pc = "start" /\ iter = 0
  /\ class \in Declared
  /\ tainted \in {FALSE, injection} /\ untrusted = tainted
  /\ chain = <<>> /\ tries = 0 /\ produced = FALSE /\ spoke = 0
  /\ calls = <<>> /\ base = 0 /\ at = 1 /\ fresh = FALSE /\ then = "none" /\ cursor = 0
  /\ approved = {} /\ confirmed = {} /\ yes = {} /\ shown = <<>>
  /\ cancel = FALSE /\ late = {}
  /\ why = "none" /\ dones = 0 /\ wire = "none" /\ audited = FALSE

-----------------------------------------------------------------------------
(* Admission and the end *)

\* The turn ends: one Done on the sink, this on the wire, with or without an audit record.
Ends(onWire, isAudited) ==
  /\ pc' = "ended"
  /\ dones' = dones + 1 /\ wire' = onWire /\ audited' = isAudited

StopEarly ==
  /\ pc = "start" /\ cancel
  /\ Ends("stopped", FALSE) /\ why' = "cancelled"
  /\ UNCHANGED <<injection, iter, streamVars, callVars, humanVars, dataVars, cancel, late, approvalVars>>

\* The token is not looked at again before the loop.
Begin ==
  /\ pc = "start" /\ ~cancel
  /\ pc' = "admit"
  /\ UNCHANGED <<injection, iter, streamVars, callVars, humanVars, dataVars, cancel, late, endVars,
                 approvalVars>>

\* Capacity, authorisation, budget or node attestation; or, once started, the input rails.
Refuse ==
  /\ pc = "admit"
  /\ Ends("failed", TRUE) /\ why' = "failed"
  /\ UNCHANGED <<injection, iter, streamVars, callVars, humanVars, dataVars, cancel, late, approvalVars>>

Admit ==
  /\ pc = "admit"
  /\ pc' = "loop" /\ wire' = "started"
  /\ UNCHANGED <<injection, iter, streamVars, callVars, humanVars, dataVars, cancel, late, why, dones,
                 audited, approvalVars>>

\* The loop is left.
Leave(reason) == pc' = "finish" /\ why' = reason /\ UNCHANGED <<dones, wire, audited>>

\* Output rails, where there are any, see the whole answer of a turn that was neither
\* cancelled nor failed.
RailsBlock ==
  /\ pc = "finish" /\ why \in {"complete", "capped"}
  /\ Ends(wire, TRUE)
  /\ UNCHANGED <<injection, iter, streamVars, callVars, humanVars, dataVars, cancel, late, why, approvalVars>>

Finish ==
  /\ pc = "finish"
  /\ Ends(IF why = "cancelled" THEN "stopped" ELSE why, TRUE)
  /\ UNCHANGED <<injection, iter, streamVars, callVars, humanVars, dataVars, cancel, late, why, approvalVars>>

-----------------------------------------------------------------------------
(* The model *)

IterCapped ==
  /\ pc = "loop" /\ iter = MaxIters
  /\ Leave("capped")
  /\ UNCHANGED <<injection, iter, streamVars, callVars, humanVars, dataVars, cancel, late, approvalVars>>

LoopCancelled ==
  /\ pc = "loop" /\ iter < MaxIters /\ cancel
  /\ Leave("cancelled")
  /\ UNCHANGED <<injection, iter, streamVars, callVars, humanVars, dataVars, cancel, late, approvalVars>>

\* No provider is eligible and up.
RouteFails ==
  /\ pc = "loop" /\ iter < MaxIters /\ ~cancel
  /\ Ends("failed", FALSE) /\ why' = "failed"
  /\ UNCHANGED <<injection, iter, streamVars, callVars, humanVars, dataVars, cancel, late, approvalVars>>

\* Mutant: the class is looked at in the first round only.
RouteAsBefore(s) ==
  /\ pc = "loop" /\ iter < MaxIters /\ ~cancel
  /\ s \in Chains(IF iter = 0 THEN Eligible(class) ELSE Provider)
  /\ pc' = "stream" /\ iter' = iter + 1
  /\ chain' = s /\ tries' = 0 /\ produced' = FALSE /\ spoke' = 0
  /\ base' = Len(calls)
  /\ UNCHANGED <<injection, calls, at, fresh, then, cursor, shown, humanVars, dataVars, cancel, late,
                 endVars, approvalVars>>

Route(s) ==
  /\ pc = "loop" /\ iter < MaxIters /\ ~cancel
  /\ s \in Chains(Eligible(class))
  /\ pc' = "stream" /\ iter' = iter + 1
  /\ chain' = s /\ tries' = 0 /\ produced' = FALSE /\ spoke' = 0
  /\ base' = Len(calls)
  /\ UNCHANGED <<injection, calls, at, fresh, then, cursor, shown, humanVars, dataVars, cancel, late,
                 endVars, approvalVars>>

\* A text or reasoning delta.  Any other event that a provider may put in its stream goes to
\* the sink without counting as output; the providers of the repository have none.
Text ==
  /\ pc = "stream" /\ ~cancel /\ ~produced
  /\ produced' = TRUE /\ spoke' = spoke + 1
  /\ UNCHANGED <<injection, pc, iter, chain, tries, callVars, humanVars, dataVars, cancel, late,
                 endVars, approvalVars>>

\* The arguments tell whether the call is a payment.
ToolCall(t, pays) ==
  /\ pc = "stream" /\ ~cancel /\ Len(calls) < MaxCalls
  /\ pays => t \in Payment
  /\ calls' = Append(calls, [tool |-> t, pays |-> pays, state |-> "streamed"])
  /\ produced' = TRUE /\ spoke' = IF produced THEN spoke ELSE spoke + 1
  /\ UNCHANGED <<injection, pc, iter, chain, tries, base, at, fresh, then, cursor, shown, humanVars,
                 dataVars, cancel, late, endVars, approvalVars>>

\* The round's stream is over; chain and the attempt go out of scope.
StreamOver == chain' = <<>> /\ tries' = 0 /\ produced' = FALSE /\ spoke' = 0

\* The stream closes.  Without a tool runtime, the first call fails the turn.
StreamEnds ==
  /\ pc = "stream" /\ ~cancel /\ StreamOver
  /\ \/ /\ Round = {}
        /\ Leave("complete")
        /\ UNCHANGED <<at, fresh>>
     \/ /\ Round # {} /\ base = 0
        /\ Leave("failed")
        /\ UNCHANGED <<at, fresh>>
     \/ /\ Round # {}
        /\ pc' = "call" /\ at' = base + 1 /\ fresh' = FALSE
        /\ UNCHANGED endVars
  /\ UNCHANGED <<injection, iter, calls, base, then, cursor, shown, humanVars, dataVars, cancel,
                 late, approvalVars>>

StreamCancelled ==
  /\ pc \in {"stream", "backoff"} /\ cancel
  /\ StreamOver /\ Leave("cancelled")
  /\ UNCHANGED <<injection, iter, callVars, humanVars, dataVars, cancel, late, approvalVars>>

\* Mutant: one retry too many.
StreamRetriesMore ==
  /\ pc = "stream" /\ ~cancel /\ ~produced /\ tries <= MaxRetries
  /\ pc' = "backoff"
  /\ UNCHANGED <<injection, iter, streamVars, callVars, humanVars, dataVars, cancel, late, endVars,
                 approvalVars>>

\* A retryable error before any output: the same provider once more, after a pause.
StreamRetries ==
  /\ pc = "stream" /\ ~cancel /\ ~produced /\ tries < MaxRetries
  /\ pc' = "backoff"
  /\ UNCHANGED <<injection, iter, streamVars, callVars, humanVars, dataVars, cancel, late, endVars, approvalVars>>

Backoff ==
  /\ pc = "backoff" /\ ~cancel
  /\ pc' = "stream" /\ tries' = tries + 1
  /\ UNCHANGED <<injection, iter, chain, produced, spoke, callVars, humanVars, dataVars, cancel, late,
                 endVars, approvalVars>>

\* Mutant: the attempt is given up even though its output was seen.
FailOverAnyway ==
  /\ pc = "stream" /\ ~cancel
  /\ Len(chain) > 1
  /\ chain' = Tail(chain) /\ tries' = 0 /\ produced' = FALSE
  /\ UNCHANGED <<injection, pc, iter, spoke, callVars, humanVars, dataVars, cancel, late, endVars, approvalVars>>

\* Any other error before any output: the next provider of the chain.
FailOver ==
  /\ pc = "stream" /\ ~cancel /\ ~produced
  /\ Len(chain) > 1
  /\ chain' = Tail(chain) /\ tries' = 0 /\ produced' = FALSE
  /\ UNCHANGED <<injection, pc, iter, spoke, callVars, humanVars, dataVars, cancel, late, endVars, approvalVars>>

\* An error after output, or from the last provider.
StreamFails ==
  /\ pc = "stream" /\ ~cancel
  /\ produced \/ Len(chain) = 1
  /\ StreamOver /\ Leave("failed")
  /\ UNCHANGED <<injection, iter, callVars, humanVars, dataVars, cancel, late, approvalVars>>

-----------------------------------------------------------------------------
(* The tool calls of a round *)

Current == Tools(at)

\* The current call is answered on the sink, and the loop goes to the next one.
Answers(state) ==
  /\ calls' = [calls EXCEPT ![at].state = state]
  /\ shown' = Append(shown, at)
  /\ at' = at + 1 /\ pc' = "call"

\* The engine flushes the queued calls, and then goes on.
FlushThen(next) == pc' = "flush" /\ then' = next /\ cursor' = 0

\* The engine puts an approval.request out, and waits in decide.
AskFor(gate) == pc' = "ask" /\ then' = gate /\ Announce(Turn)

\* The queued calls are dropped with the round.
RoundCancelled ==
  /\ pc = "call" /\ at <= Len(calls) /\ cancel
  /\ Leave("cancelled")
  /\ UNCHANGED <<injection, iter, streamVars, callVars, humanVars, dataVars, cancel, late, approvalVars>>

\* The call is looked at; new is said of one the turn has not made before.
Look(new) ==
  /\ pc = "call" /\ at <= Len(calls) /\ ~cancel
  /\ new \/ \E i \in 1..(at - 1) : Tools(i) = Current
  /\ fresh' = (fresh \/ new)

\* Mutant: the answer does not wait for the calls queued before it.
ScreenFailsAtOnce(new) ==
  /\ Look(new)
  /\ Answers("refused")
  /\ UNCHANGED <<injection, iter, streamVars, base, then, cursor, humanVars, dataVars, cancel, late, endVars,
                 approvalVars>>

\* The arguments are malformed, or the caller has no right to the resource.
ScreenFails(new) ==
  /\ Look(new)
  /\ FlushThen("refuse")
  /\ UNCHANGED <<injection, iter, streamVars, calls, base, at, shown, humanVars, dataVars, cancel, late,
                 endVars, approvalVars>>

\* A tainted turn takes no dangerous action.
ScreenBlocks(new) ==
  /\ Look(new)
  /\ tainted /\ Current \in Danger
  /\ Answers("refused")
  /\ UNCHANGED <<injection, iter, streamVars, base, then, cursor, humanVars, dataVars, cancel, late, endVars,
                 approvalVars>>

\* Untrusted content is in play, and may have reached the arguments.
MayBeInfluenced ==
  injection /\ untrusted /\ Current \in Danger /\ Current \notin confirmed

\* The scan of the arguments is suspicious.
ScreenAsks(new) ==
  /\ Look(new)
  /\ ~(tainted /\ Current \in Danger)
  /\ MayBeInfluenced
  /\ AskFor("confirm")
  /\ UNCHANGED <<injection, iter, streamVars, calls, base, at, cursor, shown, humanVars, dataVars, cancel, late,
                 endVars>>

\* Mutant: the taint gate is closed in a later round only.
ScreenPassesTainted(new) ==
  /\ Look(new)
  /\ ~(tainted /\ Current \in Danger /\ at = base + 1)
  /\ pc' = "gate"
  /\ UNCHANGED <<injection, iter, streamVars, calls, base, at, then, cursor, shown, humanVars, dataVars, cancel,
                 late, endVars, approvalVars>>

ScreenPasses(new) ==
  /\ Look(new)
  /\ ~(tainted /\ Current \in Danger)
  /\ pc' = "gate"
  /\ UNCHANGED <<injection, iter, streamVars, calls, base, at, then, cursor, shown, humanVars, dataVars, cancel,
                 late, endVars, approvalVars>>

\* Egress DLP: sensitive content, a secret, or a destination off the list.
DlpBlocks ==
  /\ pc = "gate" /\ Current \in Danger
  /\ FlushThen("refuse")
  /\ UNCHANGED <<injection, iter, streamVars, calls, base, at, fresh, shown, humanVars, dataVars, cancel, late,
                 endVars, approvalVars>>

\* Mutant: a tool approved for the session needs no answer, a payment included.
NeedsApprovalUnlessKnown == (calls[at].pays \/ Current \in Gated) /\ Current \notin approved

NeedsApproval == calls[at].pays \/ (Current \in Gated /\ Current \notin approved)

Gate ==
  /\ pc = "gate" /\ NeedsApproval
  /\ FlushThen("approve")
  /\ UNCHANGED <<injection, iter, streamVars, calls, base, at, fresh, shown, humanVars, dataVars, cancel, late,
                 endVars, approvalVars>>

\* The call goes through the batch.
Batched(i) == ~injection /\ ~calls[i].pays /\ Tools(i) \notin Gated

Queue ==
  /\ pc = "gate" /\ Batched(at)
  /\ calls' = [calls EXCEPT ![at].state = "queued"]
  /\ at' = at + 1 /\ pc' = "call"
  /\ UNCHANGED <<injection, iter, streamVars, base, fresh, then, cursor, shown, humanVars, dataVars, cancel, late,
                 endVars, approvalVars>>

Serial ==
  /\ pc = "gate" /\ ~NeedsApproval /\ (injection \/ Current \in Gated)
  /\ FlushThen("fire")
  /\ UNCHANGED <<injection, iter, streamVars, calls, base, at, fresh, shown, humanVars, dataVars, cancel, late,
                 endVars, approvalVars>>

TailFlush ==
  /\ pc = "call" /\ at > Len(calls)
  /\ FlushThen("tail")
  /\ UNCHANGED <<injection, iter, streamVars, calls, base, at, fresh, shown, humanVars, dataVars, cancel, late,
                 endVars, approvalVars>>

-----------------------------------------------------------------------------
(* The flush: the futures of the queued calls are polled in turn *)

Pending == In("queued") \cup In("inflight") \cup In("cleared")

\* Mutant: the calls that edit the file do not wait for each other.
CanEnterUnlocked(i) == TRUE

\* The file's mutex is handed on in the order it was asked for.
CanEnter(i) == Tools(i) \in Edits => \A j \in Pending : j < i => Tools(j) \notin Edits

Runnable == In("inflight") \cup {i \in In("queued") : CanEnter(i)}

\* A pass over the futures in their order, from the first again after the last.
IsPolled(i) ==
  LET above == {j \in Runnable : j > cursor}
  IN  i = Min(IF above = {} THEN Runnable ELSE above)

\* Mutant: the token is looked at before the call enters, and not again.
PollLooksOnce(i) ==
  /\ pc = "flush" /\ In("cleared") = {} /\ Runnable # {} /\ IsPolled(i)
  /\ calls' = [calls EXCEPT ![i].state = IF @ = "inflight" THEN "cleared"
                                         ELSE IF cancel THEN "dropped" ELSE "inflight"]
  /\ cursor' = i
  /\ UNCHANGED <<injection, pc, iter, streamVars, base, at, fresh, then, shown, humanVars, dataVars, cancel,
                 late, endVars, approvalVars>>

\* A call looks at the token, enters and yields; polled again it looks once more.
Poll(i) ==
  /\ pc = "flush" /\ In("cleared") = {} /\ Runnable # {} /\ IsPolled(i)
  /\ calls' = [calls EXCEPT ![i].state = IF cancel THEN "dropped"
                                         ELSE IF @ = "queued" THEN "inflight" ELSE "cleared"]
  /\ cursor' = i
  /\ UNCHANGED <<injection, pc, iter, streamVars, base, at, fresh, then, shown, humanVars, dataVars, cancel,
                 late, endVars, approvalVars>>

\* It is dispatched in the same poll, whatever the token has become since that look.
Dispatch(i) ==
  /\ pc = "flush" /\ calls[i].state = "cleared"
  /\ calls' = [calls EXCEPT ![i].state = "fired"]
  /\ late' = IF cancel THEN late \cup {i} ELSE late
  /\ UNCHANGED <<injection, pc, iter, streamVars, base, at, fresh, then, cursor, shown, humanVars, dataVars,
                 cancel, endVars, approvalVars>>

Raised(i) == IF Tools(i) \in Regulated THEN "regulated" ELSE class

\* The results are shown one by one, in the order of the calls; a call that was dropped has none.
ShowResult ==
  /\ pc = "flush" /\ Pending = {} /\ In("fired") # {}
  /\ LET i == Min(In("fired"))
     IN  /\ calls' = [calls EXCEPT ![i].state = "answered"]
         /\ shown' = Append(shown, i)
         /\ class' = Raised(i)
  /\ UNCHANGED <<injection, pc, iter, streamVars, base, at, fresh, then, cursor, humanVars, tainted,
                 untrusted, cancel, late, endVars, approvalVars>>

\* Mutant: the results of the last batch of a round are not shown.
FlushEndsSilently ==
  /\ pc = "flush" /\ Pending = {} /\ (In("fired") = {} \/ then = "tail")
  /\ pc' = then /\ then' = "none" /\ cursor' = 0
  /\ UNCHANGED <<injection, iter, streamVars, calls, base, at, fresh, shown, humanVars, dataVars,
                 cancel, late, endVars, approvalVars>>

FlushEnds ==
  /\ pc = "flush" /\ Pending = {} /\ In("fired") = {}
  /\ pc' = then /\ then' = "none" /\ cursor' = 0
  /\ UNCHANGED <<injection, iter, streamVars, calls, base, at, fresh, shown, humanVars, dataVars,
                 cancel, late, endVars, approvalVars>>

AnswerRefused ==
  /\ pc = "refuse"
  /\ Answers("refused")
  /\ UNCHANGED <<injection, iter, streamVars, base, fresh, then, cursor, humanVars, dataVars, cancel, late,
                 endVars, approvalVars>>

\* The model only repeated itself, or is found to go in circles.
Stuck ==
  /\ pc = "tail"
  /\ Leave("capped")
  /\ UNCHANGED <<injection, iter, streamVars, callVars, humanVars, dataVars, cancel, late, approvalVars>>

NextRound ==
  /\ pc = "tail" /\ fresh
  /\ pc' = "loop" /\ fresh' = FALSE
  /\ UNCHANGED <<injection, iter, streamVars, calls, base, at, then, cursor, shown, humanVars, dataVars, cancel, late, endVars, approvalVars>>

-----------------------------------------------------------------------------
(* The approval gate and the serial dispatch *)

Ask ==
  /\ pc = "approve"
  /\ AskFor("approve")
  /\ UNCHANGED <<injection, iter, streamVars, calls, base, at, fresh, cursor, shown, humanVars, dataVars, cancel,
                 late, endVars>>

\* decide has returned v to the engine.
Decided(v) ==
  /\ pc = "ask" /\ ask[Turn] = "decided" /\ verdict[Turn].answer = v
  /\ then' = "none"
  /\ ask' = [ask EXCEPT ![Turn] = "idle"]
  /\ verdict' = [verdict EXCEPT ![Turn] = Nothing]
  /\ UNCHANGED <<pending, channel, asks, responds, credit>>

Confirmed(v) ==
  /\ then = "confirm" /\ v # "reject" /\ Decided(v)
  /\ confirmed' = IF v = "approve_for_session" THEN confirmed \cup {Current} ELSE confirmed
  /\ pc' = "gate"
  /\ UNCHANGED <<injection, iter, streamVars, calls, base, at, fresh, cursor, shown, approved, yes, dataVars, cancel, late, endVars>>

\* A payment is cleared by a plain approve only.
Clears(v) == v = "approve" \/ (v = "approve_for_session" /\ ~calls[at].pays)

Approved(v) ==
  /\ then = "approve" /\ Decided(v) /\ Clears(v)
  /\ approved' = IF v = "approve_for_session" THEN approved \cup {Current} ELSE approved
  /\ yes' = IF v = "approve" THEN yes \cup {at} ELSE yes
  /\ pc' = "fire"
  /\ UNCHANGED <<injection, iter, streamVars, calls, base, at, fresh, cursor, shown, confirmed, dataVars, cancel, late, endVars>>

Denied(v) ==
  /\ Decided(v)
  /\ v = "reject" \/ (then = "approve" /\ ~Clears(v))
  /\ Answers("refused")
  /\ UNCHANGED <<injection, iter, streamVars, base, fresh, cursor, humanVars, dataVars, cancel, late,
                 endVars>>

\* dispatch_one, and what its result does to the turn; an injection may be found in it.
Fire(suspicious) ==
  /\ pc = "fire"
  /\ suspicious => injection
  /\ Answers("answered")
  /\ class' = Raised(at)
  /\ tainted' = (tainted \/ suspicious)
  /\ untrusted' = (untrusted \/ injection)
  /\ late' = IF cancel THEN late \cup {at} ELSE late
  /\ UNCHANGED <<injection, iter, streamVars, base, fresh, then, cursor, humanVars, cancel, endVars, approvalVars>>

-----------------------------------------------------------------------------
(* The specification *)

\* turn.stop, or the timeout of the turn.
Stop ==
  /\ ~cancel /\ pc # "ended" /\ WorkerFree
  /\ cancel' = TRUE
  /\ UNCHANGED <<injection, pc, iter, streamVars, callVars, humanVars, dataVars, late, endVars, approvalVars>>

Admission == StopEarly \/ Begin \/ Refuse \/ Admit \/ RailsBlock \/ Finish

Model ==
  \/ IterCapped \/ LoopCancelled \/ RouteFails \/ (\E s \in Chains(Provider) : Route(s))
  \/ StreamCancelled \/ Backoff

\* What the provider puts in its stream, and how it ends it: with a close or an error.
Output == Text \/ \E t \in Tool, pays \in BOOLEAN : ToolCall(t, pays)
OutputEnds == StreamEnds \/ StreamRetries \/ FailOver \/ StreamFails

CallScreen ==
  \/ RoundCancelled \/ TailFlush
  \/ \E new \in BOOLEAN : ScreenFails(new) \/ ScreenBlocks(new) \/ ScreenAsks(new) \/ ScreenPasses(new)
  \/ DlpBlocks \/ Gate \/ Queue \/ Serial

Dispatching ==
  \/ (\E i \in Calls : Poll(i) \/ Dispatch(i)) \/ ShowResult \/ FlushEnds \/ AnswerRefused \/ Stuck \/ NextRound
  \/ \E suspicious \in BOOLEAN : Fire(suspicious)

Asking == Ask \/ \E v \in Answer : Confirmed(v) \/ Approved(v) \/ Denied(v)

\* What the turn's task does, on a worker thread it can get: by itself, ...
EngineStep == WorkerFree /\ (Admission \/ Model \/ CallScreen \/ Dispatching \/ Asking)

\* ... and with what its provider sends.
StreamStep == WorkerFree /\ (Output \/ OutputEnds)

TurnStep == EngineStep \/ StreamStep

OtherVars == <<injection, pc, iter, streamVars, callVars, humanVars, dataVars, cancel, late, endVars>>

Gates == pc # "ended" /\ (\E a \in Asker : Deciding(a) \/ RegisterUnannounced(a)) /\ UNCHANGED OtherVars

Next ==
  \/ TurnStep \/ Stop \/ Gates
  \/ (pc # "ended" /\ Clients /\ UNCHANGED OtherVars)

Spec == Init /\ [][Next]_vars

\* The task is scheduled when a worker is free: what it awaits besides its provider, the
\* place for an event on the bounded sink included, comes.
Scheduled == SF_vars(EngineStep)

\* A stream is not fed for ever: the provider closes it, or it fails.
StreamsEnd == SF_vars(WorkerFree /\ OutputEnds)

\* decide returns within its timeout.
GatesReturn == \A a \in Asker : WF_vars(Deciding(a) /\ UNCHANGED OtherVars)

FairSpec == Spec /\ Scheduled /\ StreamsEnd /\ GatesReturn

-----------------------------------------------------------------------------
(* Properties *)

CallStates == {"streamed", "queued", "inflight", "cleared", "fired", "dropped", "answered",
               "refused"}

\* Every variable of the turn and of its approvals stays in its domain.
TypeOK ==
  /\ ApprovalsTypeOK
  /\ injection \in BOOLEAN
  /\ pc \in {"start", "admit", "loop", "stream", "backoff", "call", "gate", "flush", "refuse", "approve", "ask",
             "fire", "tail", "finish", "ended"}
  /\ iter \in 0..MaxIters /\ class \in {"open", "regulated"}
  /\ tainted \in BOOLEAN /\ untrusted \in BOOLEAN
  /\ chain \in Chains(Provider) \cup {<<>>} /\ tries \in 0..MaxRetries /\ produced \in BOOLEAN
  /\ spoke \in 0..Cardinality(Provider)
  /\ calls \in Seq([tool : Tool, pays : BOOLEAN, state : CallStates])
  /\ base \in 0..Len(calls) /\ at \in 1..(Len(calls) + 1) /\ cursor \in 0..Len(calls)
  /\ fresh \in BOOLEAN /\ then \in {"none", "refuse", "approve", "confirm", "fire", "tail"}
  /\ approved \subseteq Gated /\ confirmed \subseteq Danger
  /\ yes \subseteq Calls /\ shown \in Seq(Calls)
  /\ cancel \in BOOLEAN /\ late \subseteq Calls
  /\ why \in {"none", "cancelled", "failed", "complete", "capped"}
  /\ dones \in 0..1 /\ wire \in {"none", "started", "stopped", "failed", "complete", "capped"}
  /\ audited \in BOOLEAN

\* The answers of batched, serial and refused calls reach the sink in the order in which the
\* model made the calls, and none twice.
ResultsInOrder == \A i, j \in DOMAIN shown : i < j => shown[i] < shown[j]

\* A turn that ends of itself has answered every call that it showed the client.
EveryCallAnswered ==
  pc = "ended" /\ why \in {"complete", "capped"} /\ ~cancel => Range(shown) = Calls

\* What crosses a payment boundary had an ask of its own that came back with a plain approve,
\* and what is gated had one, or was approved for the session: no timeout, lost sender,
\* other decision or batch lets it by.  Which ask the human's answer was sent for is another
\* matter: AnswersItsOwn below.
GatedNeedsYes ==
  \A i \in In("answered") :
    /\ calls[i].pays => i \in yes
    /\ Tools(i) \in Gated => i \in yes \/ Tools(i) \in approved

\* Of two calls that edit the file the later one enters when the earlier one is through.
EditsInOrder ==
  \A i, j \in Calls :
    i < j /\ {Tools(i), Tools(j)} \subseteq Edits /\ calls[j].state \in {"inflight", "cleared", "fired"}
      => i \notin Pending

\* Once a poisoned result is known the turn takes no dangerous action, not even one whose
\* call was streamed before, or confirmed.
TaintIsHeeded ==
  [][tainted => \A i \in Calls : Tools(i) \in Danger /\ calls'[i].state \in {"fired", "answered"}
                                  => calls[i].state = calls'[i].state]_vars

\* No model outside the house sees a round of a turn whose tools brought in regulated data,
\* neither first nor after a retry or a failover.
RegulatedStaysHome ==
  pc \in {"stream", "backoff"} /\ class = "regulated" => Head(chain) \in House

\* The client hears one attempt of a round: an attempt is repeated before its first output only.
OneVoice == spoke <= 1

\* After a stop two calls at most are dispatched: the one of the batch that had looked at the
\* token when it was set, and the one behind the batch that waited to be dispatched by itself.
LateIsOneOfEach == \A i, j \in late : i < j => Batched(i) /\ ~Batched(j)

\* An ask is cleared by an accepted answer, and an answer clears one ask: none by a timeout,
\* a lost sender, or an answer that another ask has used.
AnswerClearsOne == credit >= 0

\* What the client sees of the turn.
Phase == CASE pc \in {"start", "admit"} -> "new" [] pc = "ended" -> "done" [] OTHER -> "open"
Outcome == IF pc = "ended" THEN why ELSE "none"

Contract ==
  INSTANCE TurnContract WITH phase <- Phase, asked <- Len(calls), settled <- base, answered <- shown,
                             stopped <- cancel, outcome <- Outcome

\* The engine keeps its contract with the client: whatever fails, races or is refused, answers
\* come in the order of the calls and within their round, and the turn ends once.
ImplementsTurnContract == Contract!Spec

\* Every turn ends, whatever its model asks for, though asks block every worker there is, and
\* whether or not anybody answers them; as long as its provider ends its streams and its sink
\* is read.
TurnEnds == <>(pc = "ended")

-----------------------------------------------------------------------------
(* Promises of comments and documents that the code does not keep *)

\* "no further tool is dispatched" after a cancel: a stop that comes while the engine waits
\* for an approval keeps the call from being dispatched.
StopBeatsApproval == [][pc = "ask" /\ cancel => pc' # "fire"]_vars

\* "a [`CancelToken`] can abort the turn mid-flight: [...] no further tool is dispatched".
NothingLate == late = {}

\* A turn that dropped calls because of a stop is reported as stopped.
DroppedIsReported == pc = "ended" /\ In("dropped") # {} => why = "cancelled"

\* A turn that put turn.started on the wire puts its end there too.
EndIsOnWire == pc = "ended" => wire # "started"

\* A turn that fails is in the audit trail.
EndIsAudited == pc = "ended" /\ wire = "failed" => audited

\* An answer decides the ask whose approval_id it carries.
AnswersItsOwn == ask[Turn] = "decided" => verdict[Turn].own

\* A respond that was told 202 resumes the wait.
AcceptedIsHeeded == \A a \in Asker : ask[a] = "expired" => channel[a] = {}

\* Asks leave a worker for the answers.
WorkerLeft == WorkerFree

=============================================================================
