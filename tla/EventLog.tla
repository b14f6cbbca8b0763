------------------------------ MODULE EventLog ------------------------------
(***************************************************************************)
(* The append-only, hash-chained log of ainxt-eventlog, for one session:    *)
(* one JSONL file that every JsonlEventLog opened on the directory appends  *)
(* to, and the head (last seq, last hash) each of them caches.              *)
(*                                                                         *)
(* A reader skips a line that does not parse, so of the file only the       *)
(* records that parse are kept, and what its last, unterminated line holds. *)
(* The hash of a record is its id: every attempt to append hashes a         *)
(* different preimage and SHA-256 does not collide.                         *)
(***************************************************************************)
EXTENDS Naturals, Sequences

CONSTANTS
  Handle,       \* the JsonlEventLogs open on the directory
  Faults,       \* what may go wrong, of FaultKinds
  MaxAppends,   \* bound: calls of append
  MaxRestarts   \* bound: reopenings

FaultKinds == {"refused", "torn", "split", "unended", "unread"}

ASSUME LogAssumption ==
  /\ Faults \subseteq FaultKinds
  /\ MaxAppends \in Nat /\ MaxRestarts \in Nat

VARIABLES
  recs,     \* the records on disk that parse, in file order
  utf8,     \* "yes" while the whole file is UTF-8, as read_to_string demands
  tail,     \* the unterminated last line: "none", "record" (of recs), "junk"
  head,     \* per handle: index[session], NotLoaded until the first touch
  pending,  \* per handle: the record its append writes
  pc,       \* per handle: "idle", "write" the line, "end" the line
  acked,    \* the ids of the records append returned Ok for
  harm,     \* what has gone wrong so far that may have harmed the file
  appends, restarts

vars == <<recs, utf8, tail, head, pending, pc, acked, harm, appends, restarts>>

Genesis   == 0
NotLoaded == [seq |-> 0, hash |-> Genesis, loaded |-> "no"]
HeadAt(seq, hash) == [seq |-> seq, hash |-> hash, loaded |-> "yes"]

Init ==
  /\ recs = <<>> /\ utf8 = "yes" /\ tail = "none"
  /\ head = [h \in Handle |-> NotLoaded]
  /\ pending = [h \in Handle |-> [id |-> 0, seq |-> 0, prev |-> Genesis]]
  /\ pc = [h \in Handle |-> "idle"]
  /\ acked = {} /\ harm = {}
  /\ appends = 0 /\ restarts = 0

\* read_file: a file it cannot read whole is a file without records.
Visible == IF utf8 = "yes" THEN recs ELSE <<>>

HeadOf(records) ==
  IF records = <<>> THEN HeadAt(0, Genesis)
  ELSE HeadAt(records[Len(records)].seq, records[Len(records)].id)

\* Mutant: the head is not rebuilt from the disk.
SeedFresh(h) == IF head[h].loaded = "yes" THEN head[h] ELSE HeadOf(<<>>)

\* The head append chains to: the cached one, else what the file on disk gives.
Seed(h) == IF head[h].loaded = "yes" THEN head[h] ELSE HeadOf(Visible)

Goto(h, p) == pc' = [pc EXCEPT ![h] = p]

-----------------------------------------------------------------------------
(* append, under the handle's index lock *)

\* The record that follows seed, to be written by h.
Prepare(h, seed) ==
  /\ pc[h] = "idle"
  /\ appends < MaxAppends
  /\ appends' = appends + 1
  /\ pending' = [pending EXCEPT ![h] =
       [id |-> appends + 1, seq |-> seed.seq + 1, prev |-> seed.hash]]
  /\ Goto(h, "write")

\* Mutant: the cached head advances before the write.
BeginAdvances(h) ==
  /\ Prepare(h, Seed(h))
  /\ head' = [head EXCEPT ![h] = HeadAt(Seed(h).seq + 1, appends + 1)]
  /\ UNCHANGED <<recs, utf8, tail, acked, harm, restarts>>

\* Load the head on the first touch and chain the new record to it.
Begin(h) ==
  /\ Prepare(h, Seed(h))
  /\ head' = [head EXCEPT ![h] = Seed(h)]
  /\ UNCHANGED <<recs, utf8, tail, acked, harm, restarts>>

\* The read that loads the head fails, and is taken for an empty file.
Misread(h) ==
  /\ "unread" \in Faults
  /\ head[h].loaded = "no"
  /\ Prepare(h, HeadOf(<<>>))
  /\ head' = [head EXCEPT ![h] = HeadOf(<<>>)]
  /\ harm' = harm \cup {"unread"}
  /\ UNCHANGED <<recs, utf8, tail, acked, restarts>>

\* Bytes after an unterminated line join it: what that line held no longer parses.
Glued == IF tail = "record" THEN SubSeq(recs, 1, Len(recs) - 1) ELSE recs

\* Mutant: the file is opened to write, not to append.
WriteLineTruncates(h) ==
  /\ pc[h] = "write"
  /\ recs' = <<pending[h]>>
  /\ tail' = "record"
  /\ Goto(h, "end")
  /\ UNCHANGED <<utf8, head, pending, acked, harm, appends, restarts>>

\* write_all(line): O_APPEND, at the end of the file.
WriteLine(h) ==
  /\ pc[h] = "write"
  /\ recs' = IF tail = "none" THEN Append(recs, pending[h]) ELSE Glued
  /\ tail' = IF tail = "none" THEN "record" ELSE "junk"
  /\ Goto(h, "end")
  /\ UNCHANGED <<utf8, head, pending, acked, harm, appends, restarts>>

\* write_all("\n"); flush; advance the cached head; Ok(rec).
EndLine(h) ==
  /\ pc[h] = "end"
  /\ tail' = "none"
  /\ head' = [head EXCEPT ![h] = HeadAt(pending[h].seq, pending[h].id)]
  /\ acked' = acked \cup {pending[h].id}
  /\ Goto(h, "idle")
  /\ UNCHANGED <<recs, utf8, pending, harm, appends, restarts>>

-----------------------------------------------------------------------------
(* A write that fails, or a process that dies in it: append does not return Ok *)

\* Mutants: a failed write poisons the index lock; its error is dropped.
RefusedPoisons(h) ==
  /\ "refused" \in Faults
  /\ pc[h] = "write"
  /\ Goto(h, "poisoned")
  /\ UNCHANGED <<recs, utf8, tail, head, pending, acked, harm, appends, restarts>>

RefusedAnswersOk(h) ==
  /\ "refused" \in Faults
  /\ pc[h] = "write"
  /\ acked' = acked \cup {pending[h].id}
  /\ Goto(h, "idle")
  /\ UNCHANGED <<recs, utf8, tail, head, pending, harm, appends, restarts>>

\* The open fails, or nothing of the line reaches the file.
Refused(h) ==
  /\ "refused" \in Faults
  /\ pc[h] = "write"
  /\ Goto(h, "idle")
  /\ UNCHANGED <<recs, utf8, tail, head, pending, acked, harm, appends, restarts>>

\* Part of the line reaches the file; split: it ends inside a multi-byte character.
Torn(h) ==
  /\ pc[h] = "write"
  /\ \/ "torn" \in Faults /\ harm' = harm \cup {"torn"} /\ UNCHANGED utf8
     \/ "split" \in Faults /\ harm' = harm \cup {"split"} /\ utf8' = "no"
  /\ recs' = Glued
  /\ tail' = "junk"
  /\ Goto(h, "idle")
  /\ UNCHANGED <<head, pending, acked, appends, restarts>>

\* The line reaches the file, its newline does not.
Unended(h) ==
  /\ "unended" \in Faults
  /\ pc[h] = "end"
  /\ harm' = harm \cup {"unended"}
  /\ Goto(h, "idle")
  /\ UNCHANGED <<recs, utf8, tail, head, pending, acked, appends, restarts>>

\* The process restarts (after a death: after one of the three above).
Reopen(h) ==
  /\ pc[h] = "idle"
  /\ restarts < MaxRestarts
  /\ restarts' = restarts + 1
  /\ head' = [head EXCEPT ![h] = NotLoaded]
  /\ UNCHANGED <<recs, utf8, tail, pending, pc, acked, harm, appends>>

Next ==
  \E h \in Handle :
    \/ Begin(h) \/ Misread(h) \/ WriteLine(h) \/ EndLine(h)
    \/ Refused(h) \/ Torn(h) \/ Unended(h) \/ Reopen(h)

Spec == Init /\ [][Next]_vars

-----------------------------------------------------------------------------
Ids == {Visible[i].id : i \in DOMAIN Visible}

\* verify: the i-th record is number i and names its predecessor's hash.
Verifies ==
  \A i \in DOMAIN Visible :
    /\ Visible[i].seq = i
    /\ Visible[i].prev = IF i = 1 THEN Genesis ELSE Visible[i - 1].id

-----------------------------------------------------------------------------
\* Every variable keeps its type.
Record == [id : Nat, seq : Nat, prev : Nat]

TypeOK ==
  /\ recs \in Seq(Record)
  /\ utf8 \in {"yes", "no"}
  /\ tail \in {"none", "record", "junk"}
  /\ tail = "record" => recs # <<>>
  /\ head \in [Handle -> [seq : Nat, hash : Nat, loaded : {"yes", "no"}]]
  /\ pending \in [Handle -> Record]
  /\ pc \in [Handle -> {"idle", "write", "end"}]
  /\ acked \subseteq Nat /\ harm \subseteq FaultKinds \ {"refused"}
  /\ appends \in Nat /\ restarts \in Nat

\* At every moment, an append half done, refused or retried and a restart included,
\* verify accepts a log that nothing has harmed.
ChainVerifies == harm = {} => Verifies

\* What append returned Ok for is in the log, as long as nothing has harmed it.
AcknowledgedKept == harm = {} => acked \subseteq Ids

\* "monotonic seq": a replay cursor never sees a number twice or out of order,
\* whatever failed, unless a head was loaded from a file that could not be read.
SeqIncreases ==
  "unread" \notin harm =>
    \A i, j \in DOMAIN Visible : i < j => Visible[i].seq < Visible[j].seq

\* Append-only: no later write, failed write or restart drops an acknowledged record
\* from the file or puts another one in its place.
AcknowledgedStays ==
  [][\A i \in DOMAIN recs :
       recs[i].id \in acked => i \in DOMAIN recs' /\ recs'[i] = recs[i]]_vars

\* "A failed append does not corrupt the chain seed for the next writer".
FailedAppendIsHarmless == Verifies

\* replay_verified: a log that verifies holds every acknowledged record.
VerifiedIsComplete == Verifies => acked \subseteq Ids

\* "crash-safe": the acknowledged records that readers see, they go on seeing.
HistoryStaysReadable ==
  [][\A i \in DOMAIN Visible :
       Visible[i].id \in acked => i \in DOMAIN Visible' /\ Visible'[i] = Visible[i]]_vars

\* "rebuild the chain head from disk (survives process restart)".
HeadSurvivesRestart ==
  \A i, j \in DOMAIN Visible : i < j => Visible[i].seq < Visible[j].seq

=============================================================================
