---------------------------- MODULE TurnContract ----------------------------
(***************************************************************************)
(* What the engine promises the client of a turn, without providers,       *)
(* gates, batches or approvals: the turn opens or is turned away; it shows *)
(* the calls that its model makes, round by round, and answers them in the *)
(* order it showed them; it begins a round when the calls of the last are  *)
(* answered; it ends once, and unless it was stopped or failed it has      *)
(* answered everything by then.                                            *)
(***************************************************************************)
EXTENDS Naturals, Sequences

VARIABLES
  phase,     \* "new", "open", "done"
  asked,     \* the number of calls shown
  settled,   \* the number of those shown before the round began
  answered,  \* the calls that have their answer, in the order of the answers
  stopped,   \* has the client stopped the turn
  outcome    \* how the turn ended

vars == <<phase, asked, settled, answered, stopped, outcome>>

Init ==
  /\ phase = "new" /\ asked = 0 /\ settled = 0 /\ answered = <<>>
  /\ stopped = FALSE /\ outcome = "none"

Answered == {answered[k] : k \in DOMAIN answered}

\* The turn is stopped before it opened, or is turned away.
TurnAway(o) ==
  /\ phase = "new" /\ o \in {"cancelled", "failed"}
  /\ o = "cancelled" => stopped
  /\ phase' = "done" /\ outcome' = o
  /\ UNCHANGED <<asked, settled, answered, stopped>>

Open ==
  /\ phase = "new"
  /\ phase' = "open"
  /\ UNCHANGED <<asked, settled, answered, stopped, outcome>>

\* The model is asked again, when it can be told all that it asked for.
NextRound ==
  /\ phase = "open" /\ ~stopped /\ Answered = 1..asked
  /\ settled' = asked
  /\ UNCHANGED <<phase, asked, answered, stopped, outcome>>

\* One more call is shown, before any call of the round is answered.
ShowCall ==
  /\ phase = "open" /\ ~stopped /\ Answered = 1..settled
  /\ asked' = asked + 1
  /\ UNCHANGED <<phase, settled, answered, stopped, outcome>>

\* A call of the round is answered: with its result, or with a refusal.
Answer(i) ==
  /\ phase = "open"
  /\ i \in (settled + 1)..asked
  /\ \A j \in Answered : j < i
  /\ answered' = Append(answered, i)
  /\ UNCHANGED <<phase, asked, settled, stopped, outcome>>

\* The client may stop the turn while it runs.
Stop ==
  /\ phase # "done" /\ ~stopped
  /\ stopped' = TRUE
  /\ UNCHANGED <<phase, asked, settled, answered, outcome>>

\* The turn ends.
End(o) ==
  /\ phase = "open"
  /\ o = "cancelled" => stopped
  /\ o \in {"complete", "capped"} => stopped \/ Answered = 1..asked
  /\ phase' = "done" /\ outcome' = o
  /\ UNCHANGED <<asked, settled, answered, stopped>>

Next ==
  \/ Open \/ NextRound \/ ShowCall \/ Stop
  \/ \E i \in (settled + 1)..asked : Answer(i)
  \/ \E o \in {"cancelled", "failed", "complete", "capped"} : TurnAway(o) \/ End(o)

Spec == Init /\ [][Next]_vars

=============================================================================
