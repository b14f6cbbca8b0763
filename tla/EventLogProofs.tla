--------------------------- MODULE EventLogProofs ---------------------------
(***************************************************************************)
(* A log with one writer verifies, and holds whatever append acknowledged,  *)
(* as long as no write or read has failed halfway: for any number of        *)
(* appends, refused appends and restarts.                                   *)
(***************************************************************************)
EXTENDS EventLog, TLAPS

LastHash == IF recs = <<>> THEN Genesis ELSE recs[Len(recs)].id

Chained ==
  \A i \in 1..Len(recs) :
    /\ recs[i].seq = i
    /\ recs[i].prev = IF i = 1 THEN Genesis ELSE recs[i - 1].id

\* What one handle knows of the file, by where its append stands.
HandleInv(h) ==
  /\ pc[h] = "idle" =>
       /\ tail = "none"
       /\ head[h].loaded = "yes" => head[h].seq = Len(recs) /\ head[h].hash = LastHash
  /\ pc[h] = "write" =>
       /\ tail = "none"
       /\ head[h].loaded = "yes"
       /\ head[h].seq = Len(recs) /\ head[h].hash = LastHash
       /\ pending[h].seq = Len(recs) + 1 /\ pending[h].prev = LastHash
  /\ pc[h] = "end" =>
       /\ tail = "record"
       /\ recs # <<>> /\ recs[Len(recs)] = pending[h]

\* A log that nothing has harmed.
Sound ==
  /\ utf8 = "yes"
  /\ Chained
  /\ \A h \in Handle : HandleInv(h)
  /\ \A a \in acked : \E i \in 1..Len(recs) : recs[i].id = a

LogInv == TypeOK /\ (harm = {} => Sound)

HeadType == [seq : Nat, hash : Nat, loaded : {"yes", "no"}]

-----------------------------------------------------------------------------
\* The head of any sequence of records is a head.
LEMMA HeadOfType == ASSUME NEW rs \in Seq(Record) PROVE HeadOf(rs) \in HeadType
<1>1. CASE rs = <<>>
  BY <1>1 DEF HeadOf, HeadAt, Genesis, HeadType
<1>2. CASE rs # <<>>
  <2>1. Len(rs) \in 1..Len(rs)
    BY <1>2
  <2>2. rs[Len(rs)] \in Record
    BY <2>1
  <2> QED BY <1>2, <2>2 DEF HeadOf, HeadAt, Record, HeadType
<1> QED BY <1>1, <1>2

\* Preparing a record behind any head preserves the types.
LEMMA PrepareType ==
  ASSUME TypeOK, NEW h \in Handle, NEW seed \in HeadType, Prepare(h, seed),
         head' = [head EXCEPT ![h] = seed]
  PROVE  /\ head' \in [Handle -> HeadType] /\ pending' \in [Handle -> Record]
         /\ pc' \in [Handle -> {"idle", "write", "end"}] /\ appends' \in Nat
<1>1. [id |-> appends + 1, seq |-> seed.seq + 1, prev |-> seed.hash] \in Record
  BY DEF TypeOK, Record, HeadType
<1> QED BY <1>1 DEF Prepare, TypeOK, Goto, HeadType

\* The steps of append, of its failures and of a restart preserve the types.
LEMMA LogTypeStep == ASSUME TypeOK, [Next]_vars PROVE TypeOK'
<1>1. CASE UNCHANGED vars
  BY <1>1 DEF TypeOK, vars
<1>2. ASSUME NEW h \in Handle, Begin(h) \/ Misread(h) PROVE TypeOK'
  <2>1. Visible \in Seq(Record) /\ <<>> \in Seq(Record)
    BY DEF TypeOK, Visible
  <2>2. Seed(h) \in HeadType /\ HeadOf(<<>>) \in HeadType
    BY <2>1, HeadOfType DEF Seed, TypeOK, HeadType
  <2>3. PICK seed \in HeadType : Prepare(h, seed) /\ head' = [head EXCEPT ![h] = seed]
    BY <1>2, <2>2 DEF Begin, Misread
  <2>4. /\ head' \in [Handle -> HeadType] /\ pending' \in [Handle -> Record]
        /\ pc' \in [Handle -> {"idle", "write", "end"}] /\ appends' \in Nat
    BY <2>3, PrepareType
  <2>5. /\ UNCHANGED <<recs, utf8, tail, acked, restarts>>
        /\ harm' \subseteq FaultKinds \ {"refused"}
    BY <1>2 DEF Begin, Misread, TypeOK, FaultKinds
  <2> QED BY <2>4, <2>5 DEF TypeOK, HeadType
<1>3. ASSUME NEW h \in Handle, WriteLine(h) PROVE TypeOK'
  <2>1. pending[h] \in Record
    BY DEF TypeOK
  <2>2. CASE tail = "none"
    <3>1. recs' = Append(recs, pending[h]) /\ tail' = "record"
      BY <1>3, <2>2 DEF WriteLine
    <3>2. recs' \in Seq(Record) /\ Len(recs') = Len(recs) + 1
      BY <2>1, <3>1 DEF TypeOK
    <3>3. recs' # <<>>
      BY <3>2 DEF TypeOK
    <3> QED BY <1>3, <3>1, <3>2, <3>3 DEF WriteLine, TypeOK, Goto
  <2>3. CASE tail # "none"
    <3>1. Glued \in Seq(Record)
      BY DEF Glued, TypeOK
    <3> QED BY <1>3, <2>3, <3>1 DEF WriteLine, TypeOK, Goto
  <2> QED BY <2>2, <2>3
<1>4. ASSUME NEW h \in Handle, EndLine(h) PROVE TypeOK'
  BY <1>4 DEF EndLine, HeadAt, TypeOK, Record, Goto
<1>5. ASSUME NEW h \in Handle, Refused(h) PROVE TypeOK'
  BY <1>5 DEF Refused, TypeOK, Goto
<1>6. ASSUME NEW h \in Handle, Torn(h) PROVE TypeOK'
  <2>1. Glued \in Seq(Record)
    BY DEF Glued, TypeOK
  <2> QED BY <1>6, <2>1 DEF Torn, TypeOK, Goto, FaultKinds
<1>7. ASSUME NEW h \in Handle, Unended(h) PROVE TypeOK'
  BY <1>7 DEF Unended, TypeOK, Goto, FaultKinds
<1>8. ASSUME NEW h \in Handle, Reopen(h) PROVE TypeOK'
  BY <1>8 DEF Reopen, NotLoaded, Genesis, TypeOK
<1> QED BY <1>1, <1>2, <1>3, <1>4, <1>5, <1>6, <1>7, <1>8 DEF Next

\* Type correctness, whatever fails.
THEOREM LogTypeCorrect == Spec => []TypeOK
<1>1. Init => TypeOK
  BY LogAssumption DEF Init, TypeOK, NotLoaded, Genesis, Record
<1> QED BY <1>1, LogTypeStep, PTL DEF Spec

-----------------------------------------------------------------------------
\* The head of a chained log is its length and its last hash.
LEMMA HeadOfChain ==
  ASSUME TypeOK, Chained
  PROVE  HeadOf(recs) = HeadAt(Len(recs), LastHash)
<1>1. CASE recs = <<>>
  BY <1>1 DEF HeadOf, LastHash
<1>2. CASE recs # <<>>
  <2>1. Len(recs) \in 1..Len(recs)
    BY <1>2 DEF TypeOK
  <2>2. recs[Len(recs)].seq = Len(recs)
    BY <2>1 DEF Chained
  <2> QED BY <1>2, <2>2 DEF HeadOf, LastHash
<1> QED BY <1>1, <1>2

\* One more record that continues the chain keeps it a chain.
LEMMA ChainGrows ==
  ASSUME TypeOK, Chained, NEW r \in Record,
         r.seq = Len(recs) + 1, r.prev = LastHash,
         recs' = Append(recs, r)
  PROVE  /\ Chained'
         /\ Len(recs') = Len(recs) + 1
         /\ recs'[Len(recs')] = r
         /\ \A i \in 1..Len(recs) : recs'[i] = recs[i]
<1>1. recs \in Seq(Record) /\ Len(recs) \in Nat
  BY DEF TypeOK
<1>2. Len(recs') = Len(recs) + 1 /\ recs'[Len(recs) + 1] = r
  BY <1>1
<1>3. \A i \in 1..Len(recs) : recs'[i] = recs[i]
  BY <1>1
<1>4. Chained'
  <2> SUFFICES ASSUME NEW i \in 1..Len(recs')
               PROVE  /\ recs'[i].seq = i
                      /\ recs'[i].prev = IF i = 1 THEN Genesis ELSE recs'[i - 1].id
    BY DEF Chained
  <2>1. CASE i \in 1..Len(recs)
    <3>1. recs'[i] = recs[i] /\ (i # 1 => recs'[i - 1] = recs[i - 1])
      BY <1>1, <1>3, <2>1
    <3> QED BY <2>1, <3>1 DEF Chained
  <2>2. CASE i = Len(recs) + 1
    <3>1. recs'[i] = r
      BY <1>2, <2>2
    <3>2. CASE recs = <<>>
      <4>1. i = 1
        BY <2>2, <3>2
      <4> QED BY <3>1, <3>2, <4>1, <2>2 DEF LastHash
    <3>3. CASE recs # <<>>
      <4>1. Len(recs) \in 1..Len(recs) /\ i # 1 /\ i - 1 = Len(recs)
        BY <1>1, <2>2, <3>3
      <4>2. recs'[i - 1] = recs[Len(recs)]
        BY <1>3, <4>1
      <4> QED BY <3>1, <3>3, <4>1, <4>2, <2>2 DEF LastHash
    <3> QED BY <3>2, <3>3
  <2> QED BY <1>1, <1>2, <2>1, <2>2
<1> QED BY <1>2, <1>3, <1>4

-----------------------------------------------------------------------------
SoleWriter == \E h \in Handle : Handle = {h}

\* The log starts empty, and an empty log verifies.
LEMMA LogInit == Init => LogInv
BY LogAssumption
DEF Init, LogInv, Sound, TypeOK, NotLoaded, Genesis, Record, Chained, HandleInv, LastHash

\* Every harmless step of the sole writer keeps the log chained to the head it caches.
LEMMA LogStep ==
  ASSUME SoleWriter, LogInv, [Next]_vars
  PROVE  LogInv'
<1>t. TypeOK /\ TypeOK'
  BY LogTypeStep DEF LogInv
<1> SUFFICES ASSUME harm' = {} PROVE Sound'
  BY <1>t DEF LogInv
<1>1. CASE UNCHANGED vars
  BY <1>1 DEF vars, TypeOK, LogInv, Sound, Chained, HandleInv, LastHash
<1> SUFFICES ASSUME NEW h \in Handle, Handle = {h},
                    \/ Begin(h) \/ Misread(h) \/ WriteLine(h) \/ EndLine(h)
                    \/ Refused(h) \/ Torn(h) \/ Unended(h) \/ Reopen(h)
             PROVE  Sound'
  BY <1>1 DEF Next, SoleWriter
<1>9. harm = {} /\ ~Misread(h) /\ ~Torn(h) /\ ~Unended(h)
  BY DEF Begin, Misread, WriteLine, EndLine, Refused, Torn, Unended, Reopen
<1> USE <1>t, <1>9 DEF LogInv, Sound
<1>0. HandleInv(h) /\ pc[h] \in {"idle", "write", "end"}
  BY DEF TypeOK
<1>2. CASE Begin(h)
  <2>1. UNCHANGED <<recs, utf8, tail, acked>> /\ pc[h] = "idle" /\ pc'[h] = "write"
    BY <1>2 DEF Begin, Prepare, Goto, TypeOK
  <2>2. Seed(h).loaded = "yes" /\ Seed(h).seq = Len(recs) /\ Seed(h).hash = LastHash
    <3>1. CASE head[h].loaded = "yes"
      BY <1>0, <2>1, <3>1 DEF Seed, HandleInv
    <3>2. CASE head[h].loaded # "yes"
      <4>1. Seed(h) = HeadAt(Len(recs), LastHash)
        BY <3>2, HeadOfChain DEF Seed, Visible
      <4> QED BY <4>1 DEF HeadAt
    <3> QED BY <3>1, <3>2
  <2>3. /\ head' = [head EXCEPT ![h] = Seed(h)]
        /\ pending' = [pending EXCEPT ![h] =
             [id |-> appends + 1, seq |-> Seed(h).seq + 1, prev |-> Seed(h).hash]]
    BY <1>2 DEF Begin, Prepare
  <2>5. /\ head'[h].loaded = "yes"
        /\ head'[h].seq = Len(recs) /\ head'[h].hash = LastHash
        /\ pending'[h].seq = Len(recs) + 1 /\ pending'[h].prev = LastHash
    BY <2>2, <2>3 DEF TypeOK
  <2>6. LastHash' = LastHash /\ Chained'
    BY <2>1 DEF LastHash, Chained
  <2>7. HandleInv(h)'
    BY <1>0, <2>1, <2>5, <2>6 DEF HandleInv
  <2> QED BY <1>t, <2>1, <2>6, <2>7
<1>3. CASE WriteLine(h)
  <2>1. /\ pc[h] = "write" /\ pc'[h] = "end" /\ tail = "none"
        /\ UNCHANGED <<utf8, head, pending, acked>>
    BY <1>0, <1>3 DEF WriteLine, Goto, TypeOK, HandleInv
  <2>2. recs' = Append(recs, pending[h]) /\ tail' = "record"
    BY <1>3, <2>1 DEF WriteLine
  <2>3. pending[h] \in Record /\ pending[h].seq = Len(recs) + 1
        /\ pending[h].prev = LastHash
    BY <1>0, <2>1 DEF HandleInv, TypeOK
  <2>4. /\ Chained'
        /\ Len(recs') = Len(recs) + 1
        /\ recs'[Len(recs')] = pending[h]
        /\ \A i \in 1..Len(recs) : recs'[i] = recs[i]
    BY <2>2, <2>3, ChainGrows
  <2>5. recs' # <<>>
    BY <1>t, <2>2 DEF TypeOK
  <2>6. HandleInv(h)'
    BY <2>1, <2>2, <2>4, <2>5 DEF HandleInv
  <2>7. \A a \in acked' : \E i \in 1..Len(recs') : recs'[i].id = a
    <3> SUFFICES ASSUME NEW a \in acked PROVE \E i \in 1..Len(recs') : recs'[i].id = a
      BY <2>1
    <3>1. PICK i \in 1..Len(recs) : recs[i].id = a
      OBVIOUS
    <3>2. i \in 1..Len(recs') /\ recs'[i] = recs[i]
      BY <2>4, <3>1 DEF TypeOK
    <3> QED BY <3>1, <3>2
  <2> QED BY <1>t, <2>1, <2>4, <2>6, <2>7
<1>4. CASE EndLine(h)
  <2>1. /\ pc[h] = "end" /\ pc'[h] = "idle" /\ tail' = "none"
        /\ UNCHANGED <<recs, utf8>>
        /\ head'[h] = HeadAt(pending[h].seq, pending[h].id)
        /\ acked' = acked \cup {pending[h].id}
    BY <1>4 DEF EndLine, Goto, TypeOK
  <2>2. recs # <<>> /\ recs[Len(recs)] = pending[h]
    BY <1>0, <2>1 DEF HandleInv
  <2>3. Len(recs) \in 1..Len(recs)
    BY <2>2 DEF TypeOK
  <2>4. recs[Len(recs)].seq = Len(recs)
    BY <2>3 DEF Chained
  <2>5. head'[h].seq = Len(recs) /\ head'[h].hash = LastHash
    BY <2>1, <2>2, <2>4 DEF HeadAt, LastHash
  <2>6. LastHash' = LastHash /\ Chained'
    BY <2>1 DEF LastHash, Chained
  <2>7. HandleInv(h)'
    BY <2>1, <2>5, <2>6 DEF HandleInv
  <2>8. \A a \in acked' : \E i \in 1..Len(recs) : recs[i].id = a
    BY <2>1, <2>2, <2>3
  <2> QED BY <1>t, <2>1, <2>6, <2>7, <2>8
<1>5. CASE Refused(h)
  <2>1. /\ pc[h] = "write" /\ pc'[h] = "idle"
        /\ UNCHANGED <<recs, utf8, tail, head, acked>>
    BY <1>5 DEF Refused, Goto, TypeOK
  <2>2. LastHash' = LastHash /\ Chained'
    BY <2>1 DEF LastHash, Chained
  <2>3. HandleInv(h)'
    BY <1>0, <2>1, <2>2 DEF HandleInv
  <2> QED BY <1>t, <2>1, <2>2, <2>3
<1>8. CASE Reopen(h)
  <2>1. /\ pc[h] = "idle" /\ pc'[h] = "idle"
        /\ UNCHANGED <<recs, utf8, tail, acked>>
        /\ head'[h].loaded = "no"
    BY <1>8 DEF Reopen, NotLoaded, TypeOK
  <2>2. LastHash' = LastHash /\ Chained'
    BY <2>1 DEF LastHash, Chained
  <2>3. HandleInv(h)'
    BY <1>0, <2>1 DEF HandleInv
  <2> QED BY <1>t, <2>1, <2>2, <2>3
<1> QED BY <1>2, <1>3, <1>4, <1>5, <1>8

\* What the invariant says of the readers.
LEMMA LogInvSuffices == LogInv => ChainVerifies /\ AcknowledgedKept
<1> SUFFICES ASSUME LogInv, harm = {} PROVE Verifies /\ acked \subseteq Ids
  BY DEF ChainVerifies, AcknowledgedKept
<1>1. Visible = recs /\ DOMAIN recs = 1..Len(recs)
  BY DEF LogInv, Sound, TypeOK, Visible
<1>2. Verifies
  BY <1>1 DEF LogInv, Sound, Chained, Verifies
<1>3. acked \subseteq Ids
  BY <1>1 DEF LogInv, Sound, Ids
<1> QED BY <1>2, <1>3

\* append, one writer: verify accepts the log at every moment, an append half done,
\* a refused one and a restart included, unless a write or a read failed halfway.
THEOREM SoleWriterChain == ASSUME SoleWriter PROVE Spec => []ChainVerifies
<1>1. LogInv /\ [Next]_vars => LogInv'
  BY LogStep
<1> QED BY <1>1, LogInit, LogInvSuffices, PTL DEF Spec

\* ... and every record that append returned Ok for is in it.
THEOREM SoleWriterKeeps == ASSUME SoleWriter PROVE Spec => []AcknowledgedKept
<1>1. LogInv /\ [Next]_vars => LogInv'
  BY LogStep
<1> QED BY <1>1, LogInit, LogInvSuffices, PTL DEF Spec

-----------------------------------------------------------------------------
(* What was acknowledged stays, whatever fails and whoever writes *)

Attempts == 1..appends

\* An attempt is acknowledged at the end of its line only, so that the record of a line
\* without an end is nobody's promise.
AckInv ==
  /\ acked \subseteq Attempts
  /\ \A h \in Handle : pc[h] # "idle" => pending[h].id \in Attempts \ acked
  /\ \A g, h \in Handle :
       pc[g] # "idle" /\ pc[h] # "idle" /\ pending[g].id = pending[h].id => g = h
  /\ tail = "record" => recs[Len(recs)].id \notin acked

\* The id of a new attempt is above all others, and an acknowledgement ends the line.
LEMMA AckStep == ASSUME TypeOK, AckInv, [Next]_vars PROVE AckInv'
<1>0. appends \in Nat /\ recs \in Seq(Record) /\ pc \in [Handle -> {"idle", "write", "end"}]
      /\ pending \in [Handle -> Record]
  BY DEF TypeOK
<1>1. CASE UNCHANGED vars
  BY <1>1 DEF vars, AckInv, Attempts
<1>2. ASSUME NEW h \in Handle, Begin(h) \/ Misread(h) PROVE AckInv'
  <2>1. PICK r : /\ r.id = appends + 1 /\ pending' = [pending EXCEPT ![h] = r]
                 /\ pc' = [pc EXCEPT ![h] = "write"] /\ appends' = appends + 1
                 /\ UNCHANGED <<recs, tail, acked>>
    BY <1>2 DEF Begin, Misread, Prepare, Goto
  <2>2. Attempts \subseteq Attempts' /\ appends + 1 \in Attempts' /\ appends + 1 \notin Attempts
    BY <1>0, <2>1 DEF Attempts
  <2>3. \A g \in Handle : g # h => pending'[g] = pending[g] /\ pc'[g] = pc[g]
    BY <1>0, <2>1
  <2>4. pending'[h].id = appends + 1
    BY <1>0, <2>1
  <2> QED BY <2>1, <2>2, <2>3, <2>4 DEF AckInv
\* No attempt begins, and none is acknowledged.
<1>3. ASSUME UNCHANGED <<pending, acked, appends>>, \A g \in Handle : pc'[g] # "idle" => pc[g] # "idle",
             tail' = "record" => recs'[Len(recs')].id \notin acked
      PROVE  AckInv'
  BY <1>3 DEF AckInv, Attempts
<1>4. ASSUME NEW h \in Handle, WriteLine(h) PROVE AckInv'
  <2>1. pc[h] = "write" /\ pc' = [pc EXCEPT ![h] = "end"] /\ UNCHANGED <<pending, acked, appends>>
    BY <1>4 DEF WriteLine, Goto
  <2>2. \A g \in Handle : pc'[g] # "idle" => pc[g] # "idle"
    BY <1>0, <2>1
  <2>3. ASSUME tail' = "record" PROVE recs'[Len(recs')].id \notin acked
    <3>1. recs' = Append(recs, pending[h])
      BY <1>4, <2>3 DEF WriteLine
    <3>2. recs'[Len(recs')] = pending[h]
      BY <1>0, <3>1
    <3> QED BY <2>1, <3>2 DEF AckInv
  <2> QED BY <1>3, <2>1, <2>2, <2>3
<1>5. ASSUME NEW h \in Handle, EndLine(h) PROVE AckInv'
  <2>1. /\ pc[h] = "end" /\ tail' = "none" /\ pc' = [pc EXCEPT ![h] = "idle"]
        /\ acked' = acked \cup {pending[h].id} /\ UNCHANGED <<pending, appends>>
    BY <1>5 DEF EndLine, Goto
  <2>2. pending[h].id \in Attempts
    BY <2>1 DEF AckInv
  <2>3. \A g \in Handle : pc'[g] # "idle" => g # h /\ pc[g] # "idle"
    BY <1>0, <2>1
  <2>4. \A g \in Handle : pc'[g] # "idle" => pending[g].id # pending[h].id
    BY <2>1, <2>3 DEF AckInv
  <2> QED BY <2>1, <2>2, <2>3, <2>4 DEF AckInv, Attempts
<1>6. ASSUME NEW h \in Handle, Refused(h) \/ Unended(h) \/ Reopen(h) PROVE AckInv'
  <2>1. UNCHANGED <<recs, tail, pending, acked, appends>>
    BY <1>6 DEF Refused, Unended, Reopen
  <2>2. \A g \in Handle : pc'[g] # "idle" => pc[g] # "idle"
    BY <1>0, <1>6 DEF Refused, Unended, Reopen, Goto
  <2>3. tail' = "record" => recs'[Len(recs')].id \notin acked
    BY <2>1 DEF AckInv
  <2> QED BY <1>3, <2>1, <2>2, <2>3
<1>7. ASSUME NEW h \in Handle, Torn(h) PROVE AckInv'
  <2>1. tail' = "junk" /\ UNCHANGED <<pending, acked, appends>>
    BY <1>7 DEF Torn
  <2>2. \A g \in Handle : pc'[g] # "idle" => pc[g] # "idle"
    BY <1>0, <1>7 DEF Torn, Goto
  <2> QED BY <1>3, <2>1, <2>2
<1> QED BY <1>1, <1>2, <1>4, <1>5, <1>6, <1>7 DEF Next

\* Bytes that join an unterminated line take nothing with them but its record.
LEMMA GluedKeeps ==
  ASSUME TypeOK, NEW i \in DOMAIN recs, tail = "record" => i # Len(recs)
  PROVE  i \in DOMAIN Glued /\ Glued[i] = recs[i]
<1>1. recs \in Seq(Record) /\ Len(recs) \in Nat /\ i \in 1..Len(recs)
  BY DEF TypeOK
<1>2. CASE tail = "record"
  <2>1. Glued = SubSeq(recs, 1, Len(recs) - 1)
    BY <1>2 DEF Glued
  <2>2. i \in 1..(Len(recs) - 1)
    BY <1>1, <1>2
  <2>3. DOMAIN SubSeq(recs, 1, Len(recs) - 1) = 1..(Len(recs) - 1)
        /\ SubSeq(recs, 1, Len(recs) - 1)[i] = recs[i]
    BY <1>1, <2>2
  <2> QED BY <2>1, <2>2, <2>3
<1>3. CASE tail # "record"
  BY <1>3 DEF Glued
<1> QED BY <1>2, <1>3

\* "append-only": a record that was acknowledged stays in its place, however many handles write,
\* restart and fail.
THEOREM AcknowledgedNeverMoves == Spec => AcknowledgedStays
<1>1. Init => TypeOK /\ AckInv
  BY LogInit DEF LogInv, Init, AckInv, Attempts
<1>2. TypeOK /\ AckInv /\ [Next]_vars
        => [\A i \in DOMAIN recs : recs[i].id \in acked => i \in DOMAIN recs' /\ recs'[i] = recs[i]]_vars
  <2> SUFFICES ASSUME TypeOK, AckInv, NEW h \in Handle,
                      \/ Begin(h) \/ Misread(h) \/ WriteLine(h) \/ EndLine(h)
                      \/ Refused(h) \/ Torn(h) \/ Unended(h) \/ Reopen(h),
                      NEW i \in DOMAIN recs, recs[i].id \in acked
               PROVE  i \in DOMAIN recs' /\ recs'[i] = recs[i]
    BY DEF Next
  <2>1. tail = "record" => i # Len(recs)
    BY DEF AckInv
  <2>2. CASE recs' = Glued
    BY <2>1, <2>2, GluedKeeps
  <2>3. CASE recs' = Append(recs, pending[h])
    <3>1. recs \in Seq(Record) /\ Len(recs) \in Nat /\ i \in 1..Len(recs)
      BY DEF TypeOK
    <3>2. DOMAIN recs' = 1..(Len(recs) + 1) /\ recs'[i] = recs[i]
      BY <2>3, <3>1
    <3> QED BY <3>1, <3>2
  <2>4. CASE UNCHANGED recs
    BY <2>4
  <2> QED BY <2>2, <2>3, <2>4
          DEF Begin, Misread, WriteLine, EndLine, Refused, Torn, Unended, Reopen
<1> QED BY <1>1, <1>2, AckStep, LogTypeStep, PTL DEF Spec, AcknowledgedStays

-----------------------------------------------------------------------------
(* The numbers of one writer rise, whatever fails but the read of its head *)

\* The cached head is above every record on disk, except the one of a line without an end,
\* which the next line will take with it; so is the number a started append is to write.
Rising ==
  /\ \A i, j \in DOMAIN recs : i < j => recs[i].seq < recs[j].seq
  /\ \A h \in Handle : head[h].loaded = "yes" =>
       \A i \in DOMAIN recs : recs[i].seq <= head[h].seq \/ (tail = "record" /\ i = Len(recs))
  /\ \A h \in Handle : pc[h] # "idle" => head[h].loaded = "yes" /\ pending[h].seq = head[h].seq + 1
  /\ \A h \in Handle : pc[h] = "end" => \A i \in DOMAIN recs : recs[i].seq <= pending[h].seq

RiseInv == "unread" \notin harm /\ utf8 = "yes" => Rising

\* The records of a line without an end aside, the others stay in place.
LEMMA GluedIs ==
  ASSUME TypeOK
  PROVE  /\ DOMAIN Glued \subseteq DOMAIN recs
         /\ \A i \in DOMAIN Glued : Glued[i] = recs[i] /\ ~(tail = "record" /\ i = Len(recs))
<1>1. recs \in Seq(Record) /\ Len(recs) \in Nat /\ DOMAIN recs = 1..Len(recs)
  BY DEF TypeOK
<1>2. CASE tail = "record"
  <2>1. Glued = SubSeq(recs, 1, Len(recs) - 1)
    BY <1>2 DEF Glued
  <2>2. DOMAIN SubSeq(recs, 1, Len(recs) - 1) = 1..(Len(recs) - 1)
        /\ \A i \in 1..(Len(recs) - 1) : SubSeq(recs, 1, Len(recs) - 1)[i] = recs[i]
    BY <1>1
  <2>3. \A i \in 1..(Len(recs) - 1) : i \in DOMAIN recs /\ i # Len(recs)
    <3>1. \A n \in Nat : \A i \in 1..(n - 1) : i \in 1..n /\ i # n
      OBVIOUS
    <3> QED BY <1>1, <3>1
  <2> QED BY <2>1, <2>2, <2>3
<1>3. CASE tail # "record"
  BY <1>3 DEF Glued
<1> QED BY <1>2, <1>3

LEMMA RiseStep ==
  ASSUME SoleWriter, TypeOK, RiseInv, [Next]_vars PROVE RiseInv'
<1>1. CASE UNCHANGED vars
  BY <1>1 DEF vars, RiseInv, Rising
<1> SUFFICES ASSUME NEW h \in Handle, Handle = {h},
                    \/ Begin(h) \/ Misread(h) \/ WriteLine(h) \/ EndLine(h)
                    \/ Refused(h) \/ Torn(h) \/ Unended(h) \/ Reopen(h),
                    "unread" \notin harm', utf8' = "yes"
             PROVE  Rising'
  BY <1>1 DEF Next, SoleWriter, RiseInv
<1>2. Rising /\ ~Misread(h) /\ utf8 = "yes"
  BY DEF RiseInv, Begin, Misread, WriteLine, EndLine, Refused, Torn, Unended, Reopen
<1>3. /\ recs \in Seq(Record) /\ Len(recs) \in Nat /\ DOMAIN recs = 1..Len(recs)
      /\ \A i \in DOMAIN recs : recs[i].seq \in Nat
      /\ pending[h] \in Record /\ head[h].seq \in Nat
      /\ head \in [Handle -> HeadType] /\ pc \in [Handle -> {"idle", "write", "end"}]
      /\ pending \in [Handle -> Record]
  <2>1. recs \in Seq(Record) /\ Len(recs) \in Nat /\ DOMAIN recs = 1..Len(recs)
    BY DEF TypeOK
  <2>2. \A i \in DOMAIN recs : recs[i] \in Record
    BY <2>1
  <2>3. /\ head \in [Handle -> HeadType] /\ pc \in [Handle -> {"idle", "write", "end"}]
        /\ pending \in [Handle -> Record]
    BY DEF TypeOK, HeadType
  <2>4. pending[h] \in Record /\ head[h] \in HeadType
    BY <2>3
  <2>5. \A r \in Record : r.seq \in Nat
    BY DEF Record
  <2>6. head[h].seq \in Nat
    BY <2>4 DEF HeadType
  <2> QED BY <2>1, <2>2, <2>3, <2>4, <2>5, <2>6
<1>4. /\ \A i, j \in DOMAIN recs : i < j => recs[i].seq < recs[j].seq
      /\ head[h].loaded = "yes" =>
           \A i \in DOMAIN recs : recs[i].seq <= head[h].seq \/ (tail = "record" /\ i = Len(recs))
      /\ pc[h] # "idle" => head[h].loaded = "yes" /\ pending[h].seq = head[h].seq + 1
      /\ pc[h] = "end" => \A i \in DOMAIN recs : recs[i].seq <= pending[h].seq
  BY <1>2 DEF Rising
\* The sole handle is all there is to look at.
<1>5. SUFFICES
      /\ \A i, j \in DOMAIN recs' : i < j => recs'[i].seq < recs'[j].seq
      /\ head'[h].loaded = "yes" =>
           \A i \in DOMAIN recs' : recs'[i].seq <= head'[h].seq \/ (tail' = "record" /\ i = Len(recs'))
      /\ pc'[h] # "idle" => head'[h].loaded = "yes" /\ pending'[h].seq = head'[h].seq + 1
      /\ pc'[h] = "end" => \A i \in DOMAIN recs' : recs'[i].seq <= pending'[h].seq
  BY <1>5 DEF Rising
<1>6. CASE Begin(h)
  <2>1. /\ UNCHANGED <<recs, tail>> /\ head' = [head EXCEPT ![h] = Seed(h)] /\ pc'[h] = "write"
        /\ pending'[h].seq = Seed(h).seq + 1
    BY <1>3, <1>6 DEF Begin, Prepare, Goto
  <2>2. head'[h] = Seed(h)
    BY <1>3, <2>1
  <2>3. Seed(h).loaded = "yes"
        /\ \A i \in DOMAIN recs : recs[i].seq <= Seed(h).seq \/ (tail = "record" /\ i = Len(recs))
    <3>1. CASE head[h].loaded = "yes"
      BY <1>4, <3>1 DEF Seed
    <3>2. CASE head[h].loaded # "yes"
      <4>1. Seed(h) = HeadOf(recs)
        BY <1>2, <3>2 DEF Seed, Visible
      <4>2. CASE recs = <<>>
        BY <1>3, <4>1, <4>2 DEF HeadOf, HeadAt
      <4>3. CASE recs # <<>>
        <5>1. Seed(h).seq = recs[Len(recs)].seq /\ Seed(h).loaded = "yes"
          BY <4>1, <4>3 DEF HeadOf, HeadAt
        <5>2. Len(recs) \in DOMAIN recs
          BY <1>3, <4>3
        <5>3. \A i \in DOMAIN recs : i < Len(recs) \/ i = Len(recs)
          BY <1>3
        <5>4. \A i \in DOMAIN recs : recs[i].seq <= recs[Len(recs)].seq
          BY <1>3, <1>4, <5>2, <5>3
        <5> QED BY <5>1, <5>4
      <4> QED BY <4>2, <4>3
    <3> QED BY <3>1, <3>2
  <2> QED BY <1>4, <2>1, <2>2, <2>3
\* What was glued rises like what was there.
<1>7. ASSUME recs' = Glued
      PROVE  /\ \A i, j \in DOMAIN recs' : i < j => recs'[i].seq < recs'[j].seq
             /\ head[h].loaded = "yes" => \A i \in DOMAIN recs' : recs'[i].seq <= head[h].seq
  BY <1>4, <1>7, GluedIs
<1>8. CASE WriteLine(h)
  <2>1. /\ pc[h] = "write" /\ pc'[h] = "end" /\ UNCHANGED <<head, pending>>
        /\ head[h].loaded = "yes" /\ pending[h].seq = head[h].seq + 1
    BY <1>3, <1>4, <1>8 DEF WriteLine, Goto
  <2>2. CASE tail = "none"
    <3>1. recs' = Append(recs, pending[h]) /\ tail' = "record"
      BY <1>8, <2>2 DEF WriteLine
    <3>2. /\ Len(recs') = Len(recs) + 1 /\ DOMAIN recs' = 1..(Len(recs) + 1)
          /\ recs'[Len(recs) + 1] = pending[h] /\ \A i \in DOMAIN recs : recs'[i] = recs[i]
      BY <1>3, <3>1
    <3>3. \A i \in DOMAIN recs' : i \in DOMAIN recs \/ i = Len(recs) + 1
      BY <1>3, <3>2
    <3>4. \A i \in DOMAIN recs : recs[i].seq <= head[h].seq
      BY <1>4, <2>1, <2>2
    <3>5. \A i \in DOMAIN recs : recs'[i].seq < pending[h].seq /\ recs'[i].seq <= head[h].seq
                                 /\ recs'[i].seq <= pending[h].seq
      <4>1. \A n, m \in Nat : n <= m => n < m + 1 /\ n <= m + 1
        OBVIOUS
      <4> QED BY <1>3, <2>1, <3>2, <3>4, <4>1
    <3>6. ASSUME NEW i \in DOMAIN recs', NEW j \in DOMAIN recs', i < j
          PROVE  recs'[i].seq < recs'[j].seq
      <4>1. i \in DOMAIN recs
        BY <1>3, <3>2, <3>6
      <4>2. CASE j \in DOMAIN recs
        BY <1>4, <3>2, <3>6, <4>1, <4>2
      <4>3. CASE j = Len(recs) + 1
        BY <3>2, <3>5, <4>1, <4>3
      <4> QED BY <3>3, <4>2, <4>3
    <3>7. pending[h].seq <= pending[h].seq
      BY <1>3 DEF Record
    <3> QED BY <2>1, <3>1, <3>2, <3>3, <3>5, <3>6, <3>7
  <2>3. CASE tail # "none"
    <3>1. recs' = Glued
      BY <1>8, <2>3 DEF WriteLine
    <3>2. \A i \in DOMAIN recs' : recs'[i].seq \in Nat /\ recs'[i].seq <= head[h].seq
      BY <1>3, <1>7, <2>1, <3>1, GluedIs
    <3>3. \A i \in DOMAIN recs' : recs'[i].seq <= pending[h].seq
      BY <1>3, <2>1, <3>2
    <3> QED BY <1>7, <2>1, <3>1, <3>2, <3>3
  <2> QED BY <2>2, <2>3
<1>9. CASE EndLine(h)
  <2>1. /\ pc[h] = "end" /\ pc'[h] = "idle" /\ UNCHANGED recs
        /\ head'[h].seq = pending[h].seq
    BY <1>3, <1>9 DEF EndLine, Goto, HeadAt
  <2> QED BY <1>4, <2>1
<1>10. CASE Refused(h) \/ Unended(h)
  <2>1. pc'[h] = "idle" /\ UNCHANGED <<recs, tail, head>>
    BY <1>3, <1>10 DEF Refused, Unended, Goto
  <2> QED BY <1>4, <2>1
<1>11. CASE Torn(h)
  <2>1. pc'[h] = "idle" /\ recs' = Glued /\ UNCHANGED head
    BY <1>3, <1>11 DEF Torn, Goto
  <2> QED BY <1>7, <2>1
<1>12. CASE Reopen(h)
  <2>1. pc'[h] = "idle" /\ UNCHANGED <<recs, tail>> /\ head'[h].loaded = "no"
    BY <1>3, <1>12 DEF Reopen, NotLoaded
  <2> QED BY <1>4, <2>1
<1> QED BY <1>2, <1>6, <1>8, <1>9, <1>10, <1>11, <1>12

\* "monotonic seq", one writer: torn, split, unended and refused lines and restarts included, no
\* reader sees a number twice or out of order, unless a head was loaded by a read that failed.
THEOREM SoleWriterCounts == ASSUME SoleWriter PROVE Spec => []SeqIncreases
<1>1. Init => TypeOK /\ RiseInv
  BY LogInit DEF LogInv, Init, RiseInv, Rising, NotLoaded
<1>2. RiseInv => SeqIncreases
  BY DEF RiseInv, Rising, SeqIncreases, Visible
<1>3. TypeOK /\ RiseInv /\ [Next]_vars => RiseInv'
  BY RiseStep
<1> QED BY <1>1, <1>2, <1>3, LogTypeStep, PTL DEF Spec

=============================================================================
