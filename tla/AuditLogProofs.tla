--------------------------- MODULE AuditLogProofs ---------------------------
(***************************************************************************)
(* The audit log for any handlers, channel, file size and checkpoint       *)
(* interval and any number of records and restarts: the reserve, the       *)
(* sequence numbers, the chain the verifier accepts and the sealed end.    *)
(***************************************************************************)
EXTENDS AuditLog, FiniteSetTheorems, WellFoundedInduction, TLAPS

-----------------------------------------------------------------------------
(* The inductive invariants *)

\* Emitters past the check are counted as emits to come; a record is at hand
\* while one is written; no line on its way or in the active file has a hash
\* that was not computed.
PathOK ==
  /\ emits + Cardinality(checked) <= MaxEmits
  /\ writer.pc \in {"raw", "rotate_anchor", "write"} => writer.work # <<>>
  /\ writer.line.hash <= hashes
  /\ \A i \in 1 .. Len(active) : active[i].hash <= hashes

Data(q) == {i \in 1 .. Len(q) : q[i].kind = "data"}

\* The handlers past the check may still send.
ReserveOK ==
  Cardinality(Data(queue)) + Cardinality(checked)
    <= (Capacity - Reserve) + (Cardinality(Emitters) - 1)

TInv == TypeOK /\ PathOK

\* A line is chained and its file renamed away.
Pending == writer.pc \in {"rotate_anchor", "write"}

\* The writer's counter is the length of the file it writes, and the anchor's
\* offset is inside that file, except between a rename and the anchor after it.
ExtentOK ==
  /\ mem.bytes = Len(active)
  /\ Pending => active = <<>>
  /\ writer.pc # "rotate_anchor" => anchor.bytes <= Len(active)

\* The number seq is above the first n lines of s, and head is the hash of the
\* one before it.
Above(s, seq, head, n) ==
  \A i \in 1 .. n :
    Readable(s[i]) => s[i].seq < seq /\ (seq = s[i].seq + 1 => head = s[i].hash)

\* A line that was not torn is above every readable line in front of it.
AscentOK ==
  \A i, j \in 1 .. Len(Log) :
    i < j /\ Readable(Log[i]) /\ Log[j] # Torn =>
      /\ Log[i].seq < Log[j].seq
      /\ Log[j].seq = Log[i].seq + 1 => Log[j].prev = Log[i].hash

\* So is the line that waits for its file, and otherwise the chain; and the
\* anchor is above what is in front of its offset.
TipOK ==
  /\ IF Pending
     THEN /\ Above(Log, writer.line.seq, writer.line.prev, Len(Log))
          /\ writer.line # Torn
          /\ chain = [seq |-> writer.line.seq + 1, head |-> writer.line.hash]
     ELSE Above(Log, chain.seq, chain.head, Len(Log))
  /\ writer.pc # "rotate_anchor" =>
       Above(Log, anchor.seq, anchor.head, Len(rotated) + anchor.bytes)

\* No death inside a rotation and no unreadable file.
Resumable == fault \notin {"rotation", "unreadable"}

SeqInv == Resumable => ExtentOK /\ AscentOK /\ TipOK

\* Without faults line i has the number i - 1 and the chain is at the end.
ExactOK ==
  /\ \A i \in 1 .. Len(Log) : Readable(Log[i]) /\ Log[i].seq = i - 1
  /\ IF Pending THEN writer.line.seq = Len(Log) /\ ~writer.line.glued
                ELSE chain.seq = Len(Log)
  /\ ~Pending /\ anchor.bytes = Len(active) => anchor.seq = Len(Log)
  /\ Log = <<>> => chain.head = 0 /\ anchor.head = 0 /\ ~Pending

\* A checkpoint is made of a log that has lines, and names one of them.
PointsOK ==
  /\ mem.since > 0 \/ writer.pc = "cp_line" => Log # <<>>
  /\ \A p \in points :
       p.seq + 1 \in 1 .. Len(Log) /\ Log[p.seq + 1].hash = p.head

ExactInv == fault = "none" => ExactOK /\ PointsOK

\* A record the handler was told is queued is in the log, in the channel or in
\* the writer's hands.
HeldOK ==
  \A a \in accepted :
    \/ \E i \in 1 .. Len(Log) : Log[i].id = a
    \/ \E i \in 1 .. Len(queue) : queue[i].id = a /\ queue[i].kind \in {"data", "auth"}
    \/ \E i \in 1 .. Len(writer.work) : writer.work[i].id = a

\* How the writer comes to its end.
EndOK ==
  /\ phase # "serving" => checked = {}
  /\ writer.closing \/ writer.pc = "done" =>
       /\ queue = <<>> /\ ~timer /\ phase \in {"join", "failed", "ok"}
       /\ mem.seen = dropped
  /\ phase = "ok" => writer.pc = "done"
  /\ Pending => /\ writer.line.id = Head(writer.work).id
                /\ writer.line.count = Head(writer.work).count
  /\ writer.pc \in {"recv", "drain", "seal", "ack", "done"} => writer.work = <<>>
  /\ writer.then = "ack" =>
       writer.work = <<>> /\ writer.pc \in {"cp_line", "cp_anchor", "ack"}
  /\ writer.pc \in {"ack", "done"} => anchor.bytes = Len(active)

\* The number of drops a line or a record to write tells.
Told(x) == IF x.id = 0 THEN x.count ELSE 0

\* The lines of s behind the first b tell n drops.
Tally(s, b, n) == IsFiniteSet(DropsTold(s, b + 1)) /\ DroppedSince(s, b + 1) = n

InHand(work) == IF work = <<>> THEN 0 ELSE Told(work[1])

\* What this process has told, and will tell with what is in the writer's hands,
\* is what it has seen of the drop counter; only the first record in its hands
\* can be a sentinel.
ToldOK ==
  /\ base <= Len(Log)
  /\ \A i \in 2 .. Len(writer.work) : Told(writer.work[i]) = 0
  /\ \E n \in Nat : Tally(Log, base, n) /\ mem.seen = n + InHand(writer.work)

SealInv == fault = "none" => HeldOK /\ EndOK /\ ToldOK

-----------------------------------------------------------------------------
(* Sequences and counting *)

\* What is a sequence over a set is one over a larger set.
LEMMA SeqGrows ==
  ASSUME NEW S, NEW T, S \subseteq T
  PROVE  Seq(S) \subseteq Seq(T)
<1> SUFFICES ASSUME NEW s \in Seq(S) PROVE s \in Seq(T)
  OBVIOUS
<1>1. s \in [1 .. Len(s) -> T]
  OBVIOUS
<1> QED BY <1>1

\* What Append does to the length and the places.
LEMMA AppendFacts ==
  ASSUME NEW S, NEW s \in Seq(S), NEW x \in S
  PROVE  /\ Append(s, x) \in Seq(S)
         /\ Len(Append(s, x)) = Len(s) + 1
         /\ \A i \in 1 .. Len(s) : Append(s, x)[i] = s[i]
         /\ Append(s, x)[Len(s) + 1] = x
  OBVIOUS

\* What Tail does to the length and the places.
LEMMA TailFacts ==
  ASSUME NEW S, NEW s \in Seq(S), s # <<>>
  PROVE  /\ Tail(s) \in Seq(S)
         /\ Len(s) \in Nat \ {0} /\ Len(Tail(s)) = Len(s) - 1
         /\ \A i \in 1 .. Len(s) - 1 : Tail(s)[i] = s[i + 1]
         /\ Head(s) = s[1] /\ s[1] \in S
  OBVIOUS

\* What concatenation does to the length and the places.
LEMMA ConcatFacts ==
  ASSUME NEW S, NEW s \in Seq(S), NEW t \in Seq(S)
  PROVE  /\ s \o t \in Seq(S)
         /\ Len(s \o t) = Len(s) + Len(t)
         /\ \A i \in 1 .. Len(s) : (s \o t)[i] = s[i]
         /\ \A i \in 1 .. Len(t) : (s \o t)[Len(s) + i] = t[i]
  OBVIOUS

\* A set of emitters has a size, which one more emitter raises and one emitter
\* less lowers by one.
LEMMA Count ==
  ASSUME NEW S \in SUBSET Emitters
  PROVE  /\ Cardinality(S) \in Nat
         /\ Cardinality(S) <= Cardinality(Emitters)
         /\ Cardinality(Emitters) \in Nat
         /\ \A e \in Emitters \ S : Cardinality(S \cup {e}) = Cardinality(S) + 1
         /\ \A e \in S : Cardinality(S \ {e}) = Cardinality(S) - 1 /\ Cardinality(S) > 0
<1>1. IsFiniteSet(S) /\ IsFiniteSet(Emitters) /\ Cardinality(S) <= Cardinality(Emitters)
  BY AuditAssumption, FS_Subset
<1>2. Cardinality(S) \in Nat /\ Cardinality(Emitters) \in Nat
  BY <1>1, FS_CardinalityType
<1>3. \A e \in Emitters \ S : Cardinality(S \cup {e}) = Cardinality(S) + 1
  BY <1>1, FS_AddElement
<1>4. \A e \in S : Cardinality(S \ {e}) = Cardinality(S) - 1 /\ Cardinality(S) > 0
  <2> SUFFICES ASSUME NEW e \in S
               PROVE  Cardinality(S \ {e}) = Cardinality(S) - 1 /\ Cardinality(S) > 0
    OBVIOUS
  <2>1. Cardinality(S \ {e}) = Cardinality(S) - 1
    BY <1>1, FS_RemoveElement
  <2>2. Cardinality(S) # 0
    BY <1>1, FS_EmptySet
  <2> QED BY <2>1, <2>2, <1>2
<1> QED BY <1>1, <1>2, <1>3, <1>4

-----------------------------------------------------------------------------
(* Types *)

Queued(n) == [kind : Message, id : 0 .. n]

Written(n) == [id : 0 .. n, count : 0 .. n]

Phases == {"serving", "flush", "flushing", "flushed", "join", "ok", "failed"}

WriterType(n) ==
  [pc : PC, work : Seq(Written(n)), line : Line,
   then : {"recv", "drain", "seal", "ack"}, closing : BOOLEAN]

\* The steps of the handlers, the timer and the coordinator leave the writer and
\* the files alone, and the number of emits only grows.
LEMMA SinkTypes ==
  ASSUME TInv, UNCHANGED <<process, state, disk>>,
         checked' \subseteq Emitters,
         emits' \in emits .. MaxEmits,
         emits' + Cardinality(checked') <= MaxEmits,
         queue' \in Seq(Queued(emits')), Len(queue') <= Capacity,
         accepted' \subseteq 1 .. emits',
         dropped' \in dropped .. emits',
         timer' \in BOOLEAN, phase' \in Phases
  PROVE  TInv'
<1> USE DEF TInv, process, state, disk
<1>1. PathOK'
  BY DEF PathOK
<1>2. /\ emits \in Nat /\ emits' \in Nat /\ emits <= emits' /\ dropped \in Nat
      /\ emits' \in 0 .. MaxEmits /\ dropped' \in 0 .. emits' /\ dropped <= dropped'
  BY AuditAssumption DEF TypeOK
<1>3. writer' \in WriterType(emits')
  <2>1. Written(emits) \subseteq Written(emits')
    BY <1>2 DEF Written
  <2>2. Seq(Written(emits)) \subseteq Seq(Written(emits'))
    BY <2>1, SeqGrows
  <2> HIDE DEF Written
  <2>3. writer \in [pc : PC, work : Seq(Written(emits)), line : Line,
                    then : {"recv", "drain", "seal", "ack"}, closing : BOOLEAN]
    BY DEF TypeOK, Written
  <2> QED BY <2>2, <2>3, Zenon DEF WriterType
<1>4. mem' \in [bytes : Nat, since : Nat, seen : 0 .. dropped']
  <2>1. mem \in [bytes : Nat, since : Nat, seen : 0 .. dropped] /\ mem' = mem
    BY DEF TypeOK
  <2>2. 0 .. dropped \subseteq 0 .. dropped'
    BY <1>2
  <2> QED BY <2>1, <2>2
<1>5. TypeOK'
  BY <1>2, <1>3, <1>4 DEF TypeOK, WriterType, Written, Queued, Phases
<1> QED BY <1>1, <1>5

-----------------------------------------------------------------------------
(* The reserve *)

\* A queue has finitely many data records, and no more than messages.
LEMMA DataCount ==
  ASSUME NEW S, NEW q \in Seq(S)
  PROVE  /\ IsFiniteSet(Data(q))
         /\ Cardinality(Data(q)) \in Nat
         /\ Cardinality(Data(q)) <= Len(q)
<1>0. Len(q) \in Nat
  OBVIOUS
<1>1. IsFiniteSet(1 .. Len(q)) /\ Cardinality(1 .. Len(q)) = Len(q)
  BY <1>0, FS_Interval
<1>2. Data(q) \in SUBSET (1 .. Len(q))
  BY DEF Data
<1> QED BY <1>1, <1>2, FS_Subset, FS_CardinalityType

\* A send adds at most one data record, and none if it is of another kind.
LEMMA DataSent ==
  ASSUME NEW n \in Nat, NEW q \in Seq(Queued(n)), NEW m \in Queued(n)
  PROVE  /\ Cardinality(Data(Append(q, m))) <= Cardinality(Data(q)) + 1
         /\ m.kind # "data" => Cardinality(Data(Append(q, m))) = Cardinality(Data(q))
<1> HIDE DEF Queued
<1>1. /\ Len(Append(q, m)) = Len(q) + 1 /\ Len(q) \in Nat
      /\ \A i \in 1 .. Len(q) : Append(q, m)[i] = q[i]
      /\ Append(q, m)[Len(q) + 1] = m
  BY AppendFacts
<1>2. IsFiniteSet(Data(q)) /\ Cardinality(Data(q)) \in Nat
  BY DataCount
<1>3. CASE m.kind = "data"
  <2>1. Data(Append(q, m)) = Data(q) \cup {Len(q) + 1}
    BY <1>1, <1>3 DEF Data
  <2>2. Cardinality(Data(q) \cup {Len(q) + 1}) \in {Cardinality(Data(q)), Cardinality(Data(q)) + 1}
    BY <1>2, FS_AddElement
  <2> QED BY <2>1, <2>2, <1>2, <1>3
<1>4. CASE m.kind # "data"
  <2>1. Data(Append(q, m)) = Data(q)
    BY <1>1, <1>4 DEF Data
  <2> QED BY <2>1, <1>2
<1> QED BY <1>3, <1>4

\* Taking a message adds no data record.
LEMMA DataTaken ==
  ASSUME NEW S, NEW q \in Seq(S), q # <<>>
  PROVE  /\ Cardinality(Data(Tail(q))) \in Nat
         /\ Cardinality(Data(Tail(q))) <= Cardinality(Data(q))
<1> DEFINE f == [i \in Data(Tail(q)) |-> i + 1]
<1>1. /\ Tail(q) \in Seq(S) /\ Len(Tail(q)) = Len(q) - 1 /\ Len(q) \in Nat
      /\ \A i \in 1 .. Len(q) - 1 : Tail(q)[i] = q[i + 1]
  BY TailFacts
<1>2. \A i \in Data(Tail(q)) : i \in Nat /\ i + 1 \in Data(q)
  BY <1>1 DEF Data
<1>3. f \in Injection(Data(Tail(q)), Data(q))
  BY <1>2 DEF Injection, IsInjective
<1>4. IsFiniteSet(Data(q)) /\ Cardinality(Data(Tail(q))) \in Nat
  BY <1>1, DataCount
<1> QED BY <1>3, <1>4, FS_Injection

\* The invariant of the reserve does not depend on the writer or the files.
LEMMA ReserveKept ==
  ASSUME TypeOK, ReserveOK, checked' \in SUBSET checked, queue' = queue \/ queue' = <<>>
  PROVE  ReserveOK'
<1>1. /\ Cardinality(checked) \in Nat /\ Cardinality(checked') \in Nat
      /\ Cardinality(checked') <= Cardinality(checked)
      /\ Cardinality(Emitters) \in Nat
  <2>1. IsFiniteSet(checked)
    BY AuditAssumption, FS_Subset DEF TypeOK
  <2>2. /\ Cardinality(checked') <= Cardinality(checked)
    BY <2>1, FS_Subset
  <2> QED BY <2>2, Count DEF TypeOK
<1>2. Cardinality(Data(queue)) \in Nat
  BY DataCount DEF TypeOK
<1>3. Cardinality(Data(queue')) <= Cardinality(Data(queue)) /\ Cardinality(Data(queue')) \in Nat
  <2>1. CASE queue' = queue
    BY <2>1, <1>2
  <2>2. CASE queue' = <<>>
    <3>1. Data(queue') = {}
      BY <2>2 DEF Data
    <3> QED BY <3>1, <1>2, FS_EmptySet
  <2> QED BY <2>1, <2>2
<1>4. Capacity - Reserve \in Nat
  BY AuditAssumption
<1> HIDE DEF Data
<1> QED BY <1>1, <1>2, <1>3, <1>4, AuditAssumption DEF ReserveOK

-----------------------------------------------------------------------------
(* Types and reserve: the handlers, the timer and the coordinator *)

\* What the type invariant says of the sink.
LEMMA SinkFacts ==
  ASSUME TInv, ReserveOK
  PROVE  /\ emits \in Nat /\ MaxEmits \in Nat /\ emits <= MaxEmits
         /\ dropped \in Nat /\ dropped <= emits
         /\ Len(queue) \in Nat /\ Len(queue) <= Capacity /\ Capacity \in Nat
         /\ Reserve \in Nat /\ Reserve < Capacity
         /\ queue \in Seq(Queued(emits))
         /\ accepted \subseteq 1 .. emits /\ checked \subseteq Emitters
         /\ timer \in BOOLEAN /\ phase \in Phases
         /\ Cardinality(checked) \in Nat /\ Cardinality(checked) <= Cardinality(Emitters)
         /\ Cardinality(Emitters) \in Nat
         /\ emits + Cardinality(checked) <= MaxEmits
         /\ Cardinality(Data(queue)) \in Nat
         /\ Cardinality(Data(queue)) <= Len(queue)
         /\ Cardinality(Data(queue)) + Cardinality(checked)
              <= (Capacity - Reserve) + (Cardinality(Emitters) - 1)
<1>1. /\ emits \in Nat /\ MaxEmits \in Nat /\ emits <= MaxEmits
      /\ dropped \in Nat /\ dropped <= emits
      /\ Capacity \in Nat /\ Reserve \in Nat /\ Reserve < Capacity
      /\ accepted \subseteq 1 .. emits /\ checked \subseteq Emitters
  BY AuditAssumption DEF TInv, TypeOK
<1>2. queue \in Seq(Queued(emits)) /\ Len(queue) <= Capacity
  BY DEF TInv, TypeOK, Queued
<1>3. timer \in BOOLEAN /\ phase \in Phases
  BY DEF TInv, TypeOK, Phases
<1>4. /\ Cardinality(checked) \in Nat /\ Cardinality(checked) <= Cardinality(Emitters)
      /\ Cardinality(Emitters) \in Nat
  BY <1>1, Count
<1>5. emits + Cardinality(checked) <= MaxEmits
  BY DEF TInv, PathOK
<1>6. Cardinality(Data(queue)) \in Nat /\ Cardinality(Data(queue)) <= Len(queue)
  BY <1>2, DataCount
<1>7. Len(queue) \in Nat
  BY <1>2
<1> QED BY <1>1, <1>2, <1>3, <1>4, <1>5, <1>6, <1>7 DEF ReserveOK

\* A queue with one more message.
LEMMA SendTypes ==
  ASSUME TInv, ReserveOK, Room > 0, NEW n \in Nat, emits <= n, NEW m \in Queued(n),
         queue' = Append(queue, m)
  PROVE  queue' \in Seq(Queued(n)) /\ Len(queue') = Len(queue) + 1 /\ Len(queue') <= Capacity
<1>1. /\ queue \in Seq(Queued(emits)) /\ emits \in Nat
      /\ Len(queue) \in Nat /\ Capacity \in Nat /\ Len(queue) < Capacity
  BY SinkFacts DEF Room
<1>2. Queued(emits) \subseteq Queued(n)
  BY <1>1 DEF Queued
<1>3. queue \in Seq(Queued(n))
  BY <1>1, <1>2, SeqGrows
<1> HIDE DEF Queued
<1> QED BY <1>1, <1>3, AppendFacts

\* A data record reads the capacity: the reserve counts it among those to come.
LEMMA EmitDataTypes ==
  ASSUME TInv, ReserveOK, NEW e \in Emitters, EmitData(e)
  PROVE  TInv' /\ ReserveOK'
<1>0. /\ UNCHANGED <<process, state, disk>> /\ queue' = queue /\ accepted' = accepted
      /\ timer' = timer /\ phase' = phase
      /\ e \notin checked /\ emits + Cardinality(checked) < MaxEmits
  BY DEF EmitData
<1>a. CASE HasRoom
  <2>1. checked' = checked \cup {e} /\ emits' = emits /\ dropped' = dropped
    BY <1>a DEF EmitData
  <2>2. checked' \in SUBSET Emitters /\ Cardinality(checked') = Cardinality(checked) + 1
    BY <2>1, <1>0, SinkFacts, Count
  <2>3. Cardinality(checked') <= Cardinality(Emitters)
    BY <2>2, Count
  <2>4. TInv'
    BY <2>1, <2>2, <1>0, SinkFacts, SinkTypes
  <2>5. Cardinality(Data(queue)) <= Capacity - Reserve - 1
    BY <1>a, SinkFacts DEF HasRoom, Room
  <2>6. ReserveOK'
    BY <2>2, <2>3, <2>5, <1>0, SinkFacts DEF ReserveOK
  <2> QED BY <2>4, <2>6
<1>b. CASE ~HasRoom
  <2>1. checked' = checked /\ emits' = emits + 1 /\ dropped' = dropped + 1
    BY <1>b DEF EmitData
  <2>2. queue \in Seq(Queued(emits + 1))
    <3>1. Queued(emits) \subseteq Queued(emits + 1)
      BY SinkFacts DEF Queued
    <3> QED BY <3>1, SinkFacts, SeqGrows
  <2>t. timer' \in BOOLEAN /\ phase' \in Phases /\ Len(queue) <= Capacity
    BY <2>1, <1>0, SinkFacts
  <2>f. /\ emits \in Nat /\ MaxEmits \in Nat /\ dropped \in Nat /\ dropped <= emits
        /\ Cardinality(checked) \in Nat /\ emits + Cardinality(checked) <= MaxEmits
        /\ accepted \subseteq 1 .. emits
    BY SinkFacts
  <2>a. accepted' \subseteq 1 .. emits'
    BY <2>1, <1>0, <2>f
  <2>n. /\ emits' \in emits .. MaxEmits
        /\ emits' + Cardinality(checked') <= MaxEmits
        /\ dropped' \in dropped .. emits'
    BY <2>1, <1>0, <2>f
  <2>3. TInv'
    BY <2>1, <2>2, <2>n, <2>a, <2>t, <1>0, SinkFacts, SinkTypes
  <2>4. ReserveOK'
    BY <2>1, <1>0 DEF ReserveOK
  <2> QED BY <2>3, <2>4
<1> QED BY <1>a, <1>b

\* It is sent or dropped: one to come is one in the channel.
LEMMA EmitDataSendTypes ==
  ASSUME TInv, ReserveOK, NEW e \in Emitters, EmitDataSend(e)
  PROVE  TInv' /\ ReserveOK'
<1>0. /\ UNCHANGED <<process, state, disk>> /\ timer' = timer /\ phase' = phase
      /\ e \in checked /\ checked' = checked \ {e} /\ emits' = emits + 1
  BY DEF EmitDataSend
<1>1. /\ checked' \in SUBSET Emitters /\ Cardinality(checked') = Cardinality(checked) - 1
      /\ Cardinality(checked) > 0
  BY <1>0, SinkFacts, Count
<1>a. CASE Room > 0
  <2> DEFINE m == [kind |-> "data", id |-> emits + 1]
  <2>1. /\ queue' = Append(queue, m) /\ accepted' = accepted \cup {emits + 1}
        /\ dropped' = dropped
    BY <1>a DEF EmitDataSend, Send
  <2>2. m \in Queued(emits + 1) /\ emits + 1 \in Nat /\ emits <= emits + 1
    BY SinkFacts DEF Queued, Message
  <2>3. queue' \in Seq(Queued(emits + 1)) /\ Len(queue') <= Capacity
    BY <1>a, <2>1, <2>2, SendTypes
  <2>t. timer' \in BOOLEAN /\ phase' \in Phases /\ Len(queue) <= Capacity
    BY <2>1, <1>0, <1>1, SinkFacts
  <2>f. /\ emits \in Nat /\ MaxEmits \in Nat /\ dropped \in Nat /\ dropped <= emits
        /\ Cardinality(checked) \in Nat /\ emits + Cardinality(checked) <= MaxEmits
        /\ accepted \subseteq 1 .. emits
    BY SinkFacts
  <2>a. accepted' \subseteq 1 .. emits'
    BY <2>1, <1>0, <1>1, <2>f
  <2>n. /\ emits' \in emits .. MaxEmits
        /\ emits' + Cardinality(checked') <= MaxEmits
        /\ dropped' \in dropped .. emits'
    BY <2>1, <1>0, <1>1, <2>f
  <2>4. TInv'
    BY <2>1, <2>3, <2>n, <2>a, <2>t, <1>0, <1>1, SinkTypes
  <2>5. queue \in Seq(Queued(emits + 1))
    <3>1. Queued(emits) \subseteq Queued(emits + 1)
      BY SinkFacts DEF Queued
    <3> QED BY <3>1, SinkFacts, SeqGrows
  <2> HIDE DEF m
  <2>6. Cardinality(Data(queue')) <= Cardinality(Data(queue)) + 1
    BY <2>1, <2>2, <2>5, DataSent
  <2>7. Cardinality(Data(queue')) \in Nat
    BY <2>3, DataCount
  <2>8. Cardinality(Data(queue')) + Cardinality(checked')
          <= Cardinality(Data(queue)) + Cardinality(checked)
    BY <2>6, <2>7, <1>1, SinkFacts
  <2>9. Cardinality(checked') \in Nat
    BY <1>1, Count
  <2>10. ReserveOK'
    BY <2>7, <2>8, <2>9, SinkFacts DEF ReserveOK
  <2> QED BY <2>4, <2>10
<1>b. CASE ~(Room > 0)
  <2>1. queue' = queue /\ accepted' = accepted /\ dropped' = dropped + 1
    BY <1>b DEF EmitDataSend
  <2>2. queue \in Seq(Queued(emits + 1))
    <3>1. Queued(emits) \subseteq Queued(emits + 1)
      BY SinkFacts DEF Queued
    <3> QED BY <3>1, SinkFacts, SeqGrows
  <2>t. timer' \in BOOLEAN /\ phase' \in Phases /\ Len(queue) <= Capacity
    BY <2>1, <1>0, <1>1, SinkFacts
  <2>f. /\ emits \in Nat /\ MaxEmits \in Nat /\ dropped \in Nat /\ dropped <= emits
        /\ Cardinality(checked) \in Nat /\ emits + Cardinality(checked) <= MaxEmits
        /\ accepted \subseteq 1 .. emits
    BY SinkFacts
  <2>a. accepted' \subseteq 1 .. emits'
    BY <2>1, <1>0, <1>1, <2>f
  <2>n. /\ emits' \in emits .. MaxEmits
        /\ emits' + Cardinality(checked') <= MaxEmits
        /\ dropped' \in dropped .. emits'
    BY <2>1, <1>0, <1>1, <2>f
  <2>3. TInv'
    BY <2>1, <2>2, <2>n, <2>a, <2>t, <1>0, <1>1, SinkTypes
  <2>r. /\ Cardinality(Data(queue)) \in Nat /\ Cardinality(checked) \in Nat
        /\ Capacity \in Nat /\ Reserve \in Nat /\ Cardinality(Emitters) \in Nat
    BY SinkFacts
  <2>4. ReserveOK'
    BY <2>1, <1>1, <2>r DEF ReserveOK, Data
  <2> QED BY <2>3, <2>4
<1> QED BY <1>a, <1>b

\* A fail-closed record is no data record.
LEMMA EmitAuthTypes ==
  ASSUME TInv, ReserveOK, EmitAuth
  PROVE  TInv' /\ ReserveOK'
<1> DEFINE m == [kind |-> "auth", id |-> emits + 1]
<1>0. /\ UNCHANGED <<process, state, disk>> /\ timer' = timer /\ phase' = phase
      /\ checked' = checked /\ emits' = emits + 1 /\ dropped' = dropped
      /\ accepted' = accepted \cup {emits + 1} /\ queue' = Append(queue, m)
      /\ Room > 0 /\ emits + Cardinality(checked) < MaxEmits
  BY DEF EmitAuth, Send
<1>1. m \in Queued(emits + 1) /\ emits + 1 \in Nat /\ emits <= emits + 1 /\ m.kind # "data"
  BY SinkFacts DEF Queued, Message
<1>2. queue' \in Seq(Queued(emits + 1)) /\ Len(queue') <= Capacity
  BY <1>0, <1>1, SendTypes
<1>t. timer' \in BOOLEAN /\ phase' \in Phases /\ Len(queue) <= Capacity
  BY <1>0, SinkFacts
<1>f. /\ emits \in Nat /\ MaxEmits \in Nat /\ dropped \in Nat /\ dropped <= emits
      /\ Cardinality(checked) \in Nat /\ emits + Cardinality(checked) <= MaxEmits
      /\ accepted \subseteq 1 .. emits
  BY SinkFacts
<1>a. accepted' \subseteq 1 .. emits'
  BY <1>0, <1>f
<1>n. /\ emits' \in emits .. MaxEmits
      /\ emits' + Cardinality(checked') <= MaxEmits
      /\ dropped' \in dropped .. emits'
  BY <1>0, <1>f
<1>3. TInv'
  BY <1>0, <1>2, <1>n, <1>a, <1>t, SinkFacts, SinkTypes
<1>4. queue \in Seq(Queued(emits + 1))
  <2>1. Queued(emits) \subseteq Queued(emits + 1)
    BY SinkFacts DEF Queued
  <2> QED BY <2>1, SinkFacts, SeqGrows
<1> HIDE DEF m
<1>5. Cardinality(Data(queue')) = Cardinality(Data(queue))
  BY <1>0, <1>1, <1>4, DataSent
<1> QED BY <1>0, <1>3, <1>5 DEF ReserveOK

\* A request of the timer or of the coordinator: its message is no record.
LEMMA RequestTypes ==
  ASSUME TInv, ReserveOK, NEW k \in {"flush", "checkpoint"}, Room > 0, Send(k, 0),
         UNCHANGED <<process, state, disk, checked, emits, accepted, dropped, timer>>,
         phase' \in Phases
  PROVE  TInv' /\ ReserveOK'
<1> DEFINE m == [kind |-> k, id |-> 0]
<1>1. m \in Queued(emits) /\ emits \in Nat /\ m.kind # "data"
  BY SinkFacts DEF Queued, Message
<1>2. queue' = Append(queue, m)
  BY DEF Send
<1>3. queue' \in Seq(Queued(emits)) /\ Len(queue') <= Capacity
  BY <1>1, <1>2, SendTypes
<1>4. TInv'
  BY <1>3, SinkFacts, SinkTypes
<1> HIDE DEF m
<1>5. Cardinality(Data(queue')) = Cardinality(Data(queue))
  BY <1>1, <1>2, SinkFacts, DataSent
<1> QED BY <1>4, <1>5 DEF ReserveOK

\* The coordinator's steps without a message.
LEMMA PhaseTypes ==
  ASSUME TInv, ReserveOK, UNCHANGED <<Coordinator, queue>>,
         timer' \in BOOLEAN, phase' \in Phases
  PROVE  TInv' /\ ReserveOK'
<1>1. /\ UNCHANGED <<process, state, disk>> /\ queue' = queue /\ checked' = checked
      /\ emits' = emits /\ accepted' = accepted /\ dropped' = dropped
  BY DEF Coordinator
<1>2. TInv'
  BY <1>1, SinkFacts, SinkTypes
<1> QED BY <1>1, <1>2 DEF ReserveOK

\* The coordinator sends no record.
LEMMA ShutdownTypes ==
  ASSUME TInv, ReserveOK, Shutdown
  PROVE  TInv' /\ ReserveOK'
<1>1. CASE RequestFlush
  BY <1>1, RequestTypes DEF RequestFlush, Coordinator, Phases
<1>2. CASE ServiceDropped
  BY <1>2, SinkFacts, PhaseTypes DEF ServiceDropped, Phases
<1>3. CASE BeginJoin
  BY <1>3, PhaseTypes DEF BeginJoin, ReleaseSenders, Phases
<1>4. CASE Joined
  BY <1>4, SinkFacts, PhaseTypes DEF Joined, Phases
<1>5. CASE DeadlineExpires
  BY <1>5, SinkFacts, PhaseTypes DEF DeadlineExpires, Phases
<1>6. CASE RuntimeDropsTimer
  BY <1>6, SinkFacts, PhaseTypes DEF RuntimeDropsTimer
<1> QED BY <1>1, <1>2, <1>3, <1>4, <1>5, <1>6 DEF Shutdown

\* The timer sends no record.
LEMMA TimerTickTypes ==
  ASSUME TInv, ReserveOK, TimerTick
  PROVE  TInv' /\ ReserveOK'
  BY SinkFacts, RequestTypes DEF TimerTick

-----------------------------------------------------------------------------
(* Types and reserve: the writer *)

MemType == [bytes : Nat, since : Nat, seen : 0 .. dropped]

TipType(n) == [seq : Nat, head : 0 .. n]

AnchorType(n) == [seq : Nat, head : 0 .. n, bytes : Nat]

\* The writer's record, field by field.
Made(pc, work, line, then, closing) ==
  [pc |-> pc, work |-> work, line |-> line, then |-> then, closing |-> closing]

\* What the type invariant says of the writer and the files.
LEMMA WriterFacts ==
  ASSUME TInv
  PROVE  /\ writer \in WriterType(emits) /\ mem \in MemType
         /\ hashes \in Nat /\ chain \in TipType(hashes)
         /\ active \in Seq(Line) /\ rotated \in Seq(Line)
         /\ anchor \in AnchorType(hashes) /\ points \subseteq TipType(hashes)
         /\ phase \in Phases /\ emits \in Nat /\ dropped \in Nat /\ dropped <= emits
         /\ fault \in Faults /\ base \in Nat /\ starts \in 0 .. MaxStarts
<1>1. writer \in WriterType(emits)
  BY DEF TInv, TypeOK, WriterType, Written
<1>2. mem \in MemType
  BY DEF TInv, TypeOK, MemType
<1>3. hashes \in Nat /\ chain \in TipType(hashes)
  BY DEF TInv, TypeOK, TipType
<1>4. active \in Seq(Line) /\ rotated \in Seq(Line)
  BY DEF TInv, TypeOK
<1>5. anchor \in AnchorType(hashes) /\ points \subseteq TipType(hashes)
  BY DEF TInv, TypeOK, TipType, AnchorType
<1>6. phase \in Phases /\ fault \in Faults /\ base \in Nat /\ starts \in 0 .. MaxStarts
  BY DEF TInv, TypeOK, Phases
<1>7. emits \in Nat /\ dropped \in Nat /\ dropped <= emits
  BY AuditAssumption DEF TInv, TypeOK
<1> QED BY <1>1, <1>2, <1>3, <1>4, <1>5, <1>6, <1>7

\* The writer's record is made of its fields.
LEMMA MadeOf ==
  ASSUME NEW n, NEW w \in WriterType(n)
  PROVE  /\ w = Made(w.pc, w.work, w.line, w.then, w.closing)
         /\ w.pc \in PC /\ w.work \in Seq(Written(n)) /\ w.line \in Line
         /\ w.then \in {"recv", "drain", "seal", "ack"} /\ w.closing \in BOOLEAN
<1> HIDE DEF Written, Line, PC
<1> QED BY DEF WriterType, Made

\* What is made of fields of the right types is a writer, and has those fields.
LEMMA MadeType ==
  ASSUME NEW n, NEW pc \in PC, NEW work \in Seq(Written(n)), NEW line \in Line,
         NEW then \in {"recv", "drain", "seal", "ack"}, NEW closing \in BOOLEAN
  PROVE  Made(pc, work, line, then, closing) \in WriterType(n)
<1> HIDE DEF Written, Line, PC
<1> QED BY DEF WriterType, Made

\* A torn line is a line, and its hash is no record's.
LEMMA TornType == Torn \in Line /\ Torn.hash = 0
  BY DEF Torn, Line

\* A hash of the past is one of the future.
LEMMA TipsGrow ==
  ASSUME NEW m \in Nat, NEW n \in Nat, m <= n
  PROVE  TipType(m) \subseteq TipType(n) /\ AnchorType(m) \subseteq AnchorType(n)
  BY DEF TipType, AnchorType

\* A step of the writer.
LEMMA WriterTypes ==
  ASSUME TInv, ReserveOK,
         UNCHANGED <<process, checked, emits, accepted, dropped, timer>>,
         queue' = queue \/ (queue # <<>> /\ queue' = Tail(queue)),
         writer' \in WriterType(emits), mem' \in MemType,
         hashes' \in Nat, chain' \in TipType(hashes'),
         active' \in Seq(Line), rotated' \in Seq(Line),
         anchor' \in AnchorType(hashes'), points' \subseteq TipType(hashes'),
         phase' \in Phases,
         writer'.pc \in {"raw", "rotate_anchor", "write"} => writer'.work # <<>>,
         writer'.line.hash <= hashes',
         \A i \in 1 .. Len(active') : active'[i].hash <= hashes'
  PROVE  TInv' /\ ReserveOK'
<1> HIDE DEF Queued
<1>1. queue' \in Seq(Queued(emits)) /\ Len(queue') <= Capacity
  <2>1. queue \in Seq(Queued(emits)) /\ Len(queue) <= Capacity /\ Capacity \in Nat
    BY SinkFacts
  <2>2. CASE queue' = queue
    BY <2>1, <2>2
  <2>3. CASE queue # <<>> /\ queue' = Tail(queue)
    <3>1. /\ Tail(queue) \in Seq(Queued(emits)) /\ Len(queue) \in Nat
          /\ Len(Tail(queue)) = Len(queue) - 1
      BY <2>1, <2>3, TailFacts
    <3>2. queue' = Tail(queue)
      BY <2>3
    <3>3. Len(queue) - 1 <= Capacity
      BY <2>1, <3>1
    <3> QED BY <3>1, <3>2, <3>3
  <2> QED BY <2>2, <2>3
<1>2. Cardinality(Data(queue')) \in Nat /\ Cardinality(Data(queue')) <= Cardinality(Data(queue))
  <2>1. CASE queue' = queue
    BY <2>1, SinkFacts
  <2>2. CASE queue # <<>> /\ queue' = Tail(queue)
    BY <2>2, SinkFacts, DataTaken
  <2> QED BY <2>1, <2>2
<1>3. ReserveOK'
  <2>1. /\ Cardinality(checked) \in Nat /\ Cardinality(Emitters) \in Nat
        /\ Cardinality(Data(queue)) \in Nat /\ Capacity \in Nat /\ Reserve \in Nat
        /\ Cardinality(Data(queue)) + Cardinality(checked)
             <= (Capacity - Reserve) + (Cardinality(Emitters) - 1)
    BY SinkFacts
  <2>2. checked' = checked
    OBVIOUS
  <2> QED BY <1>2, <2>1, <2>2 DEF ReserveOK
<1>4. PathOK'
  BY DEF PathOK, TInv
<1>5. /\ fault' \in Faults /\ checked' \subseteq Emitters /\ emits' \in 0 .. MaxEmits
      /\ accepted' \subseteq 1 .. emits' /\ dropped' \in 0 .. emits' /\ timer' \in BOOLEAN
      /\ base' \in Nat /\ starts' \in 0 .. MaxStarts
  BY DEF TInv, TypeOK, process
<1>6. /\ writer' \in [pc : PC, work : Seq([id : 0 .. emits', count : 0 .. emits']),
                      line : Line, then : {"recv", "drain", "seal", "ack"},
                      closing : BOOLEAN]
      /\ mem' \in [bytes : Nat, since : Nat, seen : 0 .. dropped']
  BY DEF WriterType, Written, MemType
<1>7. TypeOK'
  BY <1>1, <1>5, <1>6 DEF TypeOK, Queued, TipType, AnchorType, Phases
<1> QED BY <1>3, <1>4, <1>7 DEF TInv

\* A step of the writer that leaves the files and the chain alone.
LEMMA QuietTypes ==
  ASSUME TInv, ReserveOK,
         UNCHANGED <<process, checked, emits, accepted, dropped, timer, chain, hashes, disk>>,
         queue' = queue \/ (queue # <<>> /\ queue' = Tail(queue)),
         NEW pc \in PC, NEW work \in Seq(Written(emits)), NEW line \in {writer.line, Torn},
         NEW then \in {"recv", "drain", "seal", "ack"}, NEW closing \in BOOLEAN,
         pc \in {"raw", "rotate_anchor", "write"} => work # <<>>,
         writer' = Made(pc, work, line, then, closing),
         mem' \in MemType, phase' \in Phases
  PROVE  TInv' /\ ReserveOK'
<1>1. line \in Line /\ line.hash <= hashes
  <2>1. writer.line \in Line /\ writer.line.hash <= hashes /\ hashes \in Nat
    BY WriterFacts, MadeOf DEF TInv, PathOK
  <2> QED BY <2>1, TornType
<1>2. writer' \in WriterType(emits)
  BY <1>1, MadeType
<1>3. writer'.pc = pc /\ writer'.work = work /\ writer'.line = line
  BY DEF Made
<1>4. /\ active' = active /\ rotated' = rotated /\ anchor' = anchor /\ points' = points
      /\ hashes' = hashes /\ chain' = chain
  BY DEF disk
<1>5. \A i \in 1 .. Len(active') : active'[i].hash <= hashes'
  BY <1>4 DEF TInv, PathOK
<1>6. /\ hashes' \in Nat /\ chain' \in TipType(hashes')
      /\ active' \in Seq(Line) /\ rotated' \in Seq(Line)
      /\ anchor' \in AnchorType(hashes') /\ points' \subseteq TipType(hashes')
  BY <1>4, WriterFacts
<1> HIDE DEF WriterType, MemType, TipType, AnchorType, Line
<1> QED BY <1>1, <1>2, <1>3, <1>4, <1>5, <1>6, WriterTypes

\* What the writer tells first goes in front of what it was given.
LEMMA WithGapFacts ==
  ASSUME TInv, NEW work \in Seq(Written(emits))
  PROVE  /\ WithGap(work) \in Seq(Written(emits))
         /\ work # <<>> => WithGap(work) # <<>>
         /\ \A i \in 1 .. Len(work) : \E k \in 1 .. Len(WithGap(work)) : WithGap(work)[k] = work[i]
<1>1. CASE dropped > mem.seen
  <2> DEFINE x == Entry(0, dropped - mem.seen)
  <2>1. x \in Written(emits)
    BY <1>1, WriterFacts DEF Entry, Written, MemType
  <2>2. WithGap(work) = <<x>> \o work
    BY <1>1 DEF WithGap
  <2> HIDE DEF x, Written
  <2>3. <<x>> \in Seq(Written(emits)) /\ Len(<<x>>) = 1
    BY <2>1
  <2>4. /\ <<x>> \o work \in Seq(Written(emits)) /\ Len(<<x>> \o work) = 1 + Len(work)
        /\ \A i \in 1 .. Len(work) : (<<x>> \o work)[1 + i] = work[i]
        /\ Len(work) \in Nat
    BY <2>3, ConcatFacts
  <2>5. <<x>> \o work # <<>>
    BY <2>4
  <2>6. \A i \in 1 .. Len(work) : 1 + i \in 1 .. Len(<<x>> \o work)
    BY <2>4
  <2> QED BY <2>2, <2>4, <2>5, <2>6
<1>2. CASE ~(dropped > mem.seen)
  BY <1>2 DEF WithGap
<1> QED BY <1>1, <1>2

\* The writer after it has taken a record.
LEMMA TakeRecordForm ==
  ASSUME TInv, TakeRecord
  PROVE  /\ writer' = Made("raw", WithGap(<<Entry(Head(queue).id, 0)>>), writer.line,
                           writer.pc, writer.closing)
         /\ <<Entry(Head(queue).id, 0)>> \in Seq(Written(emits))
         /\ writer.pc \in {"recv", "drain"} /\ queue # <<>> /\ queue' = Tail(queue)
         /\ mem' = [mem EXCEPT !.seen = dropped]
<1>1. writer = Made(writer.pc, writer.work, writer.line, writer.then, writer.closing)
  BY WriterFacts, MadeOf
<1>2. writer' = [writer EXCEPT !.pc = "raw", !.then = writer.pc,
                               !.work = WithGap(<<Entry(Head(queue).id, 0)>>)]
  BY DEF TakeRecord
<1>3. writer' = Made("raw", WithGap(<<Entry(Head(queue).id, 0)>>), writer.line,
                     writer.pc, writer.closing)
  BY <1>1, <1>2 DEF Made
<1>4. Head(queue) \in Queued(emits) /\ queue # <<>>
  <2> HIDE DEF Queued
  <2>1. queue \in Seq(Queued(emits)) /\ queue # <<>>
    BY DEF TInv, TypeOK, Queued, TakeRecord
  <2> QED BY <2>1, TailFacts
<1>5. Entry(Head(queue).id, 0) \in Written(emits)
  BY <1>4, WriterFacts DEF Queued, Written, Entry
<1> HIDE DEF Made, Written, Entry
<1> QED BY <1>3, <1>4, <1>5 DEF TakeRecord, Dequeue

\* The writer after it has taken a checkpoint request.
LEMMA TakeCheckpointForm ==
  ASSUME TInv, TakeCheckpoint
  PROVE  /\ \/ /\ writer' = Made("cp_line", writer.work, writer.line, "recv", writer.closing)
               /\ writer.pc = "recv" /\ mem.since > 0
            \/ writer' = writer
         /\ writer.pc \in {"recv", "drain"} /\ queue # <<>> /\ queue' = Tail(queue)
<1>1. writer = Made(writer.pc, writer.work, writer.line, writer.then, writer.closing)
  BY WriterFacts, MadeOf
<1>2. CASE At("recv") /\ mem.since > 0
  <2>1. writer' = [writer EXCEPT !.pc = "cp_line", !.then = "recv"]
    BY <1>2 DEF TakeCheckpoint
  <2> QED BY <1>1, <1>2, <2>1 DEF Made, At, TakeCheckpoint, Dequeue
<1>3. CASE ~(At("recv") /\ mem.since > 0)
  BY <1>3 DEF TakeCheckpoint, Dequeue
<1> QED BY <1>2, <1>3

\* The writer after it has taken a flush request.
LEMMA TakeFlushForm ==
  ASSUME TInv, TakeFlush
  PROVE  /\ writer' = Made("drain", writer.work, writer.line, writer.then, writer.closing)
         /\ writer.pc = "recv" /\ queue # <<>> /\ queue' = Tail(queue)
<1>1. writer = Made(writer.pc, writer.work, writer.line, writer.then, writer.closing)
  BY WriterFacts, MadeOf
<1> QED BY <1>1 DEF Made, TakeFlush, At, Dequeue

\* The writer at the beginning of a flush.
LEMMA BeginFlushForm ==
  ASSUME TInv, NEW c \in BOOLEAN, BeginFlush(c)
  PROVE  /\ writer' = Made(IF FlushWork = <<>> THEN "seal" ELSE "raw", FlushWork,
                           writer.line, "seal", c)
         /\ FlushWork \in Seq(Written(emits))
         /\ mem' = [mem EXCEPT !.seen = dropped]
<1>1. writer = Made(writer.pc, writer.work, writer.line, writer.then, writer.closing)
  BY WriterFacts, MadeOf
<1>2. writer' = [writer EXCEPT !.pc = IF FlushWork = <<>> THEN "seal" ELSE "raw",
                               !.work = FlushWork, !.then = "seal", !.closing = c]
  BY DEF BeginFlush
<1>3. <<>> \in Seq(Written(emits))
  OBVIOUS
<1>4. FlushWork \in Seq(Written(emits))
  BY <1>3, WithGapFacts DEF FlushWork
<1> HIDE DEF FlushWork
<1>5. writer' = Made(IF FlushWork = <<>> THEN "seal" ELSE "raw", FlushWork,
                     writer.line, "seal", c)
  BY <1>1, <1>2 DEF Made
<1> QED BY <1>4, <1>5 DEF BeginFlush

\* The writer at the end of a flush.
LEMMA SealForm ==
  ASSUME TInv, Seal
  PROVE  /\ writer' = Made(IF mem.since > 0 THEN "cp_line" ELSE "cp_anchor", writer.work,
                           writer.line, "ack", writer.closing)
         /\ writer.pc = "seal"
<1>1. writer = Made(writer.pc, writer.work, writer.line, writer.then, writer.closing)
  BY WriterFacts, MadeOf
<1> QED BY <1>1 DEF Made, Seal, At

\* The writer after it has answered a flush.
LEMMA AnswerForm ==
  ASSUME TInv, NEW o, Answer(o)
  PROVE  writer' = Made(IF writer.closing THEN "done" ELSE "recv", <<>>, Torn, "recv", FALSE)
  BY DEF Answer, Waiting, Made

\* The writer after an error.
LEMMA GiveUpForm ==
  ASSUME TInv, GiveUp
  PROVE  \/ /\ writer' = Made(writer.then, <<>>, Torn, writer.then, writer.closing)
            /\ phase' = phase /\ writer.then \in {"recv", "drain"}
         \/ Answer("failed")
<1>1. writer = Made(writer.pc, writer.work, writer.line, writer.then, writer.closing)
  BY WriterFacts, MadeOf
<1>2. CASE writer.then \in {"recv", "drain"}
  <2>1. writer' = [writer EXCEPT !.pc = writer.then, !.work = <<>>, !.line = Torn]
    BY <1>2 DEF GiveUp
  <2>2. writer' = Made(writer.then, <<>>, Torn, writer.then, writer.closing)
    BY <1>1, <2>1 DEF Made
  <2> QED BY <1>2, <2>2 DEF GiveUp
<1>3. CASE writer.then \notin {"recv", "drain"}
  BY <1>3 DEF GiveUp
<1> QED BY <1>2, <1>3


\* The writer after it has written a line.
LEMMA PutForm ==
  ASSUME TInv, NEW line, Put(line)
  PROVE  /\ writer' = Made(IF mem.since + 1 >= CheckpointInterval THEN "cp_line"
                           ELSE IF Tail(writer.work) # <<>> THEN "raw" ELSE writer.then,
                           Tail(writer.work), Torn, writer.then, writer.closing)
         /\ active' = Append(active, line)
         /\ mem' = [mem EXCEPT !.bytes = mem.bytes + 1, !.since = mem.since + 1]
<1>1. writer = Made(writer.pc, writer.work, writer.line, writer.then, writer.closing)
  BY WriterFacts, MadeOf
<1> DEFINE w == [writer EXCEPT !.work = Tail(writer.work)]
<1>2. w = Made(writer.pc, Tail(writer.work), writer.line, writer.then, writer.closing)
  <2> DEFINE t == Tail(writer.work)
  <2> HIDE DEF t
  <2>1. [writer EXCEPT !.work = t] = Made(writer.pc, t, writer.line, writer.then, writer.closing)
    BY <1>1 DEF Made
  <2> QED BY <2>1 DEF t
<1>3. /\ active' = Append(active, line)
      /\ mem' = [mem EXCEPT !.bytes = mem.bytes + 1, !.since = mem.since + 1]
  BY DEF Put
<1>a. CASE mem.since + 1 >= CheckpointInterval
  <2>1. writer' = [w EXCEPT !.pc = "cp_line", !.line = Torn]
    BY <1>a DEF Put
  <2> HIDE DEF w
  <2>2. writer' = Made("cp_line", Tail(writer.work), Torn, writer.then, writer.closing)
    BY <1>2, <2>1 DEF Made
  <2> QED BY <1>a, <1>3, <2>2
<1>b. CASE ~(mem.since + 1 >= CheckpointInterval)
  <2>1. writer' = Go(w)
    BY <1>b DEF Put
  <2> HIDE DEF w
  <2>2. w.work = Tail(writer.work) /\ w.then = writer.then
    BY <1>2 DEF Made
  <2>3. writer' = Made(IF Tail(writer.work) # <<>> THEN "raw" ELSE writer.then,
                       Tail(writer.work), Torn, writer.then, writer.closing)
    BY <1>2, <2>1, <2>2 DEF Made, Go
  <2> QED BY <1>b, <1>3, <2>3
<1> QED BY <1>a, <1>b

\* The writer after it has renamed the file.
LEMMA RotateRenameForm ==
  ASSUME TInv, RotateRename
  PROVE  writer' = Made("rotate_anchor", writer.work, [Chained EXCEPT !.glued = FALSE],
                        writer.then, writer.closing)
<1>1. writer = Made(writer.pc, writer.work, writer.line, writer.then, writer.closing)
  BY WriterFacts, MadeOf
<1>2. writer' = [writer EXCEPT !.pc = "rotate_anchor", !.line = [Chained EXCEPT !.glued = FALSE]]
  BY DEF RotateRename
<1> HIDE DEF Chained
<1> QED BY <1>1, <1>2 DEF Made

\* The writer after the anchor of a rotation.
LEMMA RotateAnchorForm ==
  ASSUME TInv, RotateAnchor
  PROVE  writer' = Made("write", writer.work, writer.line, writer.then, writer.closing)
<1>1. writer = Made(writer.pc, writer.work, writer.line, writer.then, writer.closing)
  BY WriterFacts, MadeOf
<1> QED BY <1>1 DEF Made, RotateAnchor

\* The writer after the signed line of a checkpoint.
LEMMA CpLineForm ==
  ASSUME TInv, CpLine
  PROVE  writer' = Made("cp_anchor", writer.work, writer.line, writer.then, writer.closing)
<1>1. writer = Made(writer.pc, writer.work, writer.line, writer.then, writer.closing)
  BY WriterFacts, MadeOf
<1> QED BY <1>1 DEF Made, CpLine

\* The writer after the anchor of a checkpoint.
LEMMA CpAnchorForm ==
  ASSUME TInv, CpAnchor
  PROVE  writer' = Made(IF writer.work # <<>> THEN "raw" ELSE writer.then, writer.work,
                        Torn, writer.then, writer.closing)
<1>1. writer = Made(writer.pc, writer.work, writer.line, writer.then, writer.closing)
  BY WriterFacts, MadeOf
<1> QED BY <1>1 DEF Made, CpAnchor, Go

\* The steps that take a message, begin or end a flush, or give up at a
\* checkpoint.
LEMMA TakeTypes ==
  ASSUME TInv, ReserveOK,
         TakeRecord \/ TakeCheckpoint \/ TakeFlush \/ DrainEnds \/ ChannelCloses
           \/ Seal \/ Ack \/ CheckpointFails
  PROVE  TInv' /\ ReserveOK'
<1>0. /\ writer \in WriterType(emits) /\ mem \in MemType /\ phase \in Phases
      /\ dropped \in Nat
  BY WriterFacts
<1>w. /\ writer.pc \in PC /\ writer.work \in Seq(Written(emits)) /\ writer.line \in Line
      /\ writer.then \in {"recv", "drain", "seal", "ack"} /\ writer.closing \in BOOLEAN
  BY <1>0, MadeOf
<1>m. [mem EXCEPT !.seen = dropped] \in MemType
  BY <1>0 DEF MemType
<1>e. <<>> \in Seq(Written(emits)) /\ FALSE \in BOOLEAN /\ Torn \in {writer.line, Torn}
  OBVIOUS
<1>p. {"recv", "drain", "raw", "cp_line", "cp_anchor", "seal", "done"} \subseteq PC
  BY DEF PC
<1>1. CASE TakeRecord
  <2>1. /\ UNCHANGED <<process, checked, emits, accepted, dropped, timer, chain, hashes, disk>>
        /\ phase' = phase
    BY <1>1 DEF TakeRecord, Dequeue
  <2> DEFINE work == WithGap(<<Entry(Head(queue).id, 0)>>)
  <2>2. work \in Seq(Written(emits)) /\ work # <<>>
    BY <1>1, TakeRecordForm, WithGapFacts
  <2>3. /\ writer' = Made("raw", work, writer.line, writer.pc, writer.closing)
        /\ writer.pc \in {"recv", "drain", "seal", "ack"}
        /\ queue # <<>> /\ queue' = Tail(queue) /\ mem' \in MemType
    BY <1>1, <1>m, TakeRecordForm
  <2> HIDE DEF work
  <2> QED BY <2>1, <2>2, <2>3, <1>0, <1>w, <1>p, QuietTypes
<1>2. CASE TakeCheckpoint
  <2>1. /\ UNCHANGED <<process, checked, emits, accepted, dropped, timer, chain, hashes, disk>>
        /\ phase' = phase /\ mem' = mem
    BY <1>2 DEF TakeCheckpoint, Dequeue
  <2>2. queue # <<>> /\ queue' = Tail(queue) /\ writer.pc \in {"recv", "drain"}
    BY <1>2, TakeCheckpointForm
  <2>3. CASE writer' = Made("cp_line", writer.work, writer.line, "recv", writer.closing)
    BY <2>1, <2>2, <2>3, <1>0, <1>w, <1>p, QuietTypes
  <2>4. CASE writer' = writer
    <3>1. writer' = Made(writer.pc, writer.work, writer.line, writer.then, writer.closing)
      BY <2>4, <1>0, MadeOf
    <3> QED BY <2>1, <2>2, <3>1, <1>0, <1>w, QuietTypes
  <2> QED BY <1>2, <2>3, <2>4, TakeCheckpointForm
<1>3. CASE TakeFlush
  <2>1. /\ UNCHANGED <<process, checked, emits, accepted, dropped, timer, chain, hashes, disk>>
        /\ phase' = phase /\ mem' = mem
    BY <1>3 DEF TakeFlush, Dequeue
  <2>2. /\ queue # <<>> /\ queue' = Tail(queue)
        /\ writer' = Made("drain", writer.work, writer.line, writer.then, writer.closing)
    BY <1>3, TakeFlushForm
  <2> QED BY <2>1, <2>2, <1>0, <1>w, <1>p, QuietTypes
<1>4. CASE DrainEnds \/ ChannelCloses
  <2>1. PICK c \in BOOLEAN : BeginFlush(c)
    BY <1>4 DEF DrainEnds, ChannelCloses
  <2>2. /\ UNCHANGED <<process, checked, emits, accepted, dropped, timer, chain, hashes, disk>>
        /\ phase' = phase /\ queue' = queue
    BY <2>1 DEF BeginFlush, sink
  <2> DEFINE pc == IF FlushWork = <<>> THEN "seal" ELSE "raw"
  <2>3. /\ writer' = Made(pc, FlushWork, writer.line, "seal", c)
        /\ FlushWork \in Seq(Written(emits)) /\ mem' \in MemType
    BY <2>1, <1>m, BeginFlushForm
  <2>4. /\ pc \in PC /\ "seal" \in {"recv", "drain", "seal", "ack"}
        /\ pc \in {"raw", "rotate_anchor", "write"} => FlushWork # <<>>
    BY <1>p
  <2> HIDE DEF pc, FlushWork
  <2> QED BY <2>2, <2>3, <2>4, <1>0, <1>w, QuietTypes
<1>5. CASE Seal
  <2>1. /\ UNCHANGED <<process, checked, emits, accepted, dropped, timer, chain, hashes, disk>>
        /\ phase' = phase /\ queue' = queue /\ mem' = mem
    BY <1>5 DEF Seal, sink
  <2> DEFINE pc == IF mem.since > 0 THEN "cp_line" ELSE "cp_anchor"
  <2>2. writer' = Made(pc, writer.work, writer.line, "ack", writer.closing)
    BY <1>5, SealForm
  <2>3. /\ pc \in PC /\ "ack" \in {"recv", "drain", "seal", "ack"}
        /\ pc \notin {"raw", "rotate_anchor", "write"}
    BY <1>p
  <2> HIDE DEF pc
  <2> QED BY <2>1, <2>2, <2>3, <1>0, <1>w, QuietTypes
<1>6. ASSUME NEW o \in Phases, Answer(o),
             UNCHANGED <<process, sink, chain, hashes, mem, disk>>
      PROVE  TInv' /\ ReserveOK'
  <2>1. /\ UNCHANGED <<process, checked, emits, accepted, dropped, timer, chain, hashes, disk>>
        /\ phase' \in Phases /\ queue' = queue /\ mem' = mem
    BY <1>0, <1>6 DEF Answer, sink
  <2> DEFINE pc == IF writer.closing THEN "done" ELSE "recv"
  <2>2. writer' = Made(pc, <<>>, Torn, "recv", FALSE)
    BY <1>6, AnswerForm
  <2>3. pc \in PC /\ pc \notin {"raw", "rotate_anchor", "write"}
    BY <1>p
  <2> HIDE DEF pc
  <2> QED BY <2>1, <2>2, <2>3, <1>0, <1>e, QuietTypes
<1>7. CASE Ack
  BY <1>6, <1>7 DEF Ack, Phases
<1>8. CASE CheckpointFails
  <2>1. CASE Answer("failed")
    BY <1>6, <1>8, <2>1 DEF CheckpointFails, Phases
  <2>2. CASE /\ writer' = Made(writer.then, <<>>, Torn, writer.then, writer.closing)
             /\ phase' = phase /\ writer.then \in {"recv", "drain"}
    <3>1. /\ UNCHANGED <<process, checked, emits, accepted, dropped, timer, chain, hashes, disk>>
          /\ queue' = queue /\ mem' = mem
      BY <1>8 DEF CheckpointFails, sink
    <3>2. writer.then \in PC
      BY <2>2, <1>p
    <3> QED BY <2>2, <3>1, <3>2, <1>0, <1>w, <1>e, QuietTypes
  <2> QED BY <1>8, <2>1, <2>2, GiveUpForm DEF CheckpointFails
<1> QED BY <1>1, <1>2, <1>3, <1>4, <1>5, <1>7, <1>8

\* The first line of a file is glued to nothing.
LEMMA UngluedFacts ==
  ASSUME NEW l \in Line
  PROVE  /\ [l EXCEPT !.glued = FALSE] \in Line
         /\ [l EXCEPT !.glued = FALSE].seq = l.seq
         /\ [l EXCEPT !.glued = FALSE].prev = l.prev
         /\ [l EXCEPT !.glued = FALSE].hash = l.hash
         /\ [l EXCEPT !.glued = FALSE].id = l.id
         /\ [l EXCEPT !.glued = FALSE].count = l.count
         /\ [l EXCEPT !.glued = FALSE].glued = FALSE
  BY DEF Line

\* What a record becomes when it is chained.
LEMMA ChainedFacts ==
  ASSUME TInv, writer.work # <<>>
  PROVE  /\ Chained \in Line /\ [Chained EXCEPT !.glued = FALSE] \in Line
         /\ Chained.seq = chain.seq /\ Chained.prev = chain.head
         /\ Chained.hash = hashes + 1 /\ Chained.id = Head(writer.work).id
         /\ Chained.count = Head(writer.work).count
         /\ [Chained EXCEPT !.glued = FALSE].seq = chain.seq
         /\ [Chained EXCEPT !.glued = FALSE].prev = chain.head
         /\ [Chained EXCEPT !.glued = FALSE].hash = hashes + 1
         /\ [Chained EXCEPT !.glued = FALSE].id = Head(writer.work).id
         /\ [Chained EXCEPT !.glued = FALSE].count = Head(writer.work).count
         /\ [Chained EXCEPT !.glued = FALSE].glued = FALSE
<1>1. /\ hashes \in Nat /\ chain.seq \in Nat /\ chain.head \in Nat
  BY WriterFacts DEF TipType
<1>2. Head(writer.work).id \in Nat /\ Head(writer.work).count \in Nat
  <2>1. writer.work \in Seq(Written(emits))
    BY WriterFacts, MadeOf
  <2>2. Head(writer.work) \in Written(emits)
    <3> HIDE DEF Written
    <3> QED BY <2>1, TailFacts
  <2> QED BY <2>2, WriterFacts DEF Written
<1> DEFINE i == Head(writer.work).id
           c == Head(writer.work).count
           g == active # <<>> /\ active[Len(active)] = Torn
<1>3. g \in BOOLEAN
  OBVIOUS
<1>4. Chained = [seq |-> chain.seq, prev |-> chain.head, hash |-> hashes + 1,
                 id |-> i, count |-> c, glued |-> g]
  BY DEF Chained
<1> HIDE DEF i, c, g
<1>5. i \in Nat /\ c \in Nat
  BY <1>2 DEF i, c
<1>6. Chained \in Line
  BY <1>1, <1>3, <1>4, <1>5 DEF Line
<1>7. /\ Chained.seq = chain.seq /\ Chained.prev = chain.head
      /\ Chained.hash = hashes + 1 /\ Chained.id = i
      /\ Chained.count = c
  BY <1>4
<1> QED BY <1>6, <1>7, UngluedFacts DEF i, c

\* The hashes in the active file.
LEMMA ActiveHashes ==
  ASSUME TInv
  PROVE  \A i \in 1 .. Len(active) : active[i].hash <= hashes /\ active[i].hash \in Nat
<1>1. \A i \in 1 .. Len(active) : active[i] \in Line
  <2> HIDE DEF Line
  <2> QED BY WriterFacts
<1>2. \A i \in 1 .. Len(active) : active[i].hash \in Nat
  BY <1>1 DEF Line
<1>3. \A i \in 1 .. Len(active) : active[i].hash <= hashes
  BY DEF TInv, PathOK
<1> QED BY <1>2, <1>3

\* A line is appended to the active file.
LEMMA PutTypes ==
  ASSUME TInv, ReserveOK, NEW line \in Line, Put(line), writer.work # <<>>,
         UNCHANGED <<process, sink, rotated, anchor, points, phase>>,
         hashes' \in Nat, hashes <= hashes', line.hash <= hashes',
         chain' \in TipType(hashes')
  PROVE  TInv' /\ ReserveOK'
<1>0. /\ writer \in WriterType(emits) /\ mem \in MemType /\ phase \in Phases
      /\ active \in Seq(Line) /\ rotated \in Seq(Line) /\ hashes \in Nat
      /\ anchor \in AnchorType(hashes) /\ points \subseteq TipType(hashes)
  BY WriterFacts
<1>1. /\ UNCHANGED <<process, checked, emits, accepted, dropped, timer>>
      /\ queue' = queue /\ phase' \in Phases /\ rotated' \in Seq(Line)
  BY <1>0 DEF sink
<1>2. /\ writer.then \in {"recv", "drain", "seal", "ack"} /\ writer.closing \in BOOLEAN
      /\ writer.work \in Seq(Written(emits))
  BY <1>0, MadeOf
<1> DEFINE work == Tail(writer.work)
           pc == IF mem.since + 1 >= CheckpointInterval THEN "cp_line"
                 ELSE IF Tail(writer.work) # <<>> THEN "raw" ELSE writer.then
<1>3. /\ writer' = Made(pc, work, Torn, writer.then, writer.closing)
      /\ active' = Append(active, line)
      /\ mem' = [mem EXCEPT !.bytes = mem.bytes + 1, !.since = mem.since + 1]
  BY PutForm
<1>4. work \in Seq(Written(emits))
  <2> HIDE DEF Written
  <2> QED BY <1>2, TailFacts
<1>5. pc \in PC /\ (pc \in {"raw", "rotate_anchor", "write"} => work # <<>>)
  BY <1>2 DEF PC
<1> HIDE DEF work, pc
<1>6. writer' \in WriterType(emits) /\ writer'.pc = pc /\ writer'.work = work /\ writer'.line = Torn
  <2>1. writer' \in WriterType(emits)
    BY <1>2, <1>3, <1>4, <1>5, TornType, MadeType
  <2> QED BY <1>3, <2>1 DEF Made
<1>7. mem' \in MemType
  <2>1. mem.bytes + 1 \in Nat /\ mem.since + 1 \in Nat
    BY <1>0 DEF MemType
  <2> QED BY <1>0, <1>3, <2>1 DEF MemType
<1>8. active' \in Seq(Line) /\ \A i \in 1 .. Len(active') : active'[i].hash <= hashes'
  <2>1. \A i \in 1 .. Len(active) : active[i].hash <= hashes /\ active[i].hash \in Nat
    BY ActiveHashes
  <2>2. /\ active' \in Seq(Line) /\ Len(active') = Len(active) + 1 /\ Len(active) \in Nat
        /\ \A i \in 1 .. Len(active) : active'[i] = active[i]
        /\ active'[Len(active) + 1] = line
    <3> HIDE DEF Line
    <3> QED BY <1>0, <1>3, AppendFacts
  <2> SUFFICES ASSUME NEW i \in 1 .. Len(active') PROVE active'[i].hash <= hashes'
    BY <2>2
  <2>3. CASE i = Len(active) + 1
    BY <2>2, <2>3
  <2>4. CASE i \in 1 .. Len(active)
    BY <2>1, <2>2, <2>4, <1>0
  <2> QED BY <2>2, <2>3, <2>4
<1>9. anchor' \in AnchorType(hashes') /\ points' \subseteq TipType(hashes')
  BY <1>0, TipsGrow
<1>10. writer'.line.hash <= hashes'
  BY <1>6, TornType
<1> HIDE DEF WriterType, MemType, TipType, AnchorType, Line
<1> QED BY <1>1, <1>5, <1>6, <1>7, <1>8, <1>9, <1>10, WriterTypes

\* The chain moves on.
LEMMA ChainAppendFacts ==
  ASSUME TInv, ChainAppend
  PROVE  /\ hashes' = hashes + 1 /\ hashes \in Nat /\ hashes' \in Nat
         /\ chain' \in TipType(hashes')
         /\ chain'.seq = chain.seq + 1 /\ chain'.head = hashes + 1 /\ chain.seq \in Nat
<1>1. hashes \in Nat /\ chain.seq \in Nat
  BY WriterFacts DEF TipType
<1> QED BY <1>1 DEF ChainAppend, TipType

\* A line is written, in the old file or behind a rotation.
LEMMA WriteTypes ==
  ASSUME TInv, ReserveOK, Write \/ WriteRotated
  PROVE  TInv' /\ ReserveOK'
<1>0. writer.work # <<>>
  BY DEF TInv, PathOK, Write, WriteRotated, At
<1>1. CASE Write
  <2>1. Chained \in Line /\ Chained.hash = hashes + 1
    BY <1>0, ChainedFacts
  <2>2. hashes' = hashes + 1 /\ hashes \in Nat /\ chain' \in TipType(hashes')
    BY <1>1, ChainAppendFacts DEF Write
  <2>3. hashes' \in Nat /\ hashes <= hashes' /\ Chained.hash <= hashes'
    BY <2>1, <2>2
  <2>4. Put(Chained) /\ UNCHANGED <<process, sink, rotated, anchor, points, phase>>
    BY <1>1 DEF Write
  <2> HIDE DEF TipType, Line, Chained
  <2> QED BY <1>0, <2>1, <2>2, <2>3, <2>4, PutTypes
<1>2. CASE WriteRotated
  <2>1. writer.line \in Line /\ hashes \in Nat /\ writer.line.hash <= hashes
    BY WriterFacts, MadeOf DEF TInv, PathOK
  <2>2. /\ Put(writer.line) /\ UNCHANGED <<process, sink, rotated, anchor, points, phase>>
        /\ hashes' = hashes /\ chain' = chain
    BY <1>2 DEF WriteRotated
  <2>3. chain' \in TipType(hashes') /\ hashes' \in Nat /\ hashes <= hashes'
    BY <2>1, <2>2, WriterFacts
  <2> HIDE DEF TipType, Line
  <2> QED BY <1>0, <2>1, <2>2, <2>3, PutTypes
<1> QED BY <1>1, <1>2

\* A full file is renamed away.
LEMMA RotateRenameTypes ==
  ASSUME TInv, ReserveOK, RotateRename
  PROVE  TInv' /\ ReserveOK'
<1>0. /\ writer \in WriterType(emits) /\ mem \in MemType /\ phase \in Phases
      /\ active \in Seq(Line) /\ rotated \in Seq(Line) /\ hashes \in Nat
      /\ anchor \in AnchorType(hashes) /\ points \subseteq TipType(hashes)
  BY WriterFacts
<1>1. writer.work # <<>>
  BY DEF TInv, PathOK, RotateRename, At
<1>2. /\ UNCHANGED <<process, checked, emits, accepted, dropped, timer>>
      /\ queue' = queue /\ phase' \in Phases
  BY <1>0 DEF RotateRename, sink
<1>3. hashes' = hashes + 1 /\ hashes' \in Nat /\ chain' \in TipType(hashes')
  BY ChainAppendFacts DEF RotateRename
<1>4. active' = <<>> /\ active' \in Seq(Line) /\ rotated' \in Seq(Line)
  <2>1. active' = <<>> /\ rotated' = rotated \o active
    BY DEF RotateRename
  <2> HIDE DEF Line
  <2> QED BY <2>1, <1>0
<1>5. mem' \in MemType
  BY <1>0 DEF MemType, RotateRename
<1>6. anchor' \in AnchorType(hashes') /\ points' \subseteq TipType(hashes')
  <2>1. anchor' = anchor /\ points' = points /\ hashes <= hashes'
    BY <1>0, <1>3 DEF RotateRename
  <2> QED BY <1>0, <1>3, <2>1, TipsGrow
<1> DEFINE line == [Chained EXCEPT !.glued = FALSE]
<1>7. line \in Line /\ line.hash = hashes + 1
  BY <1>1, ChainedFacts
<1>8. writer' = Made("rotate_anchor", writer.work, line, writer.then, writer.closing)
  BY RotateRenameForm
<1> HIDE DEF line
<1>9. writer' \in WriterType(emits)
  <2>1. /\ writer.then \in {"recv", "drain", "seal", "ack"} /\ writer.closing \in BOOLEAN
        /\ writer.work \in Seq(Written(emits)) /\ "rotate_anchor" \in PC
    BY <1>0, MadeOf DEF PC
  <2> QED BY <1>7, <1>8, <2>1, MadeType
<1>10. writer'.work = writer.work /\ writer'.line = line
  BY <1>8 DEF Made
<1>11. writer'.line.hash <= hashes' /\ \A i \in 1 .. Len(active') : active'[i].hash <= hashes'
  BY <1>0, <1>3, <1>4, <1>7, <1>10
<1> HIDE DEF WriterType, MemType, TipType, AnchorType, Line
<1> QED BY <1>1, <1>2, <1>3, <1>4, <1>5, <1>6, <1>9, <1>10, <1>11, WriterTypes

\* The steps that write the anchor or a checkpoint.
LEMMA AnchorTypes ==
  ASSUME TInv, ReserveOK, RotateAnchor \/ CpLine \/ CpAnchor
  PROVE  TInv' /\ ReserveOK'
<1>0. /\ writer \in WriterType(emits) /\ mem \in MemType /\ phase \in Phases
      /\ active \in Seq(Line) /\ rotated \in Seq(Line) /\ hashes \in Nat
      /\ chain \in TipType(hashes)
      /\ anchor \in AnchorType(hashes) /\ points \subseteq TipType(hashes)
  BY WriterFacts
<1>1. /\ UNCHANGED <<process, checked, emits, accepted, dropped, timer, chain, hashes>>
      /\ queue' = queue /\ phase' = phase /\ active' = active /\ rotated' = rotated
  BY DEF RotateAnchor, CpLine, CpAnchor, sink
<1>2. mem' \in MemType
  BY <1>0 DEF MemType, RotateAnchor, CpLine, CpAnchor
<1>3. anchor' \in AnchorType(hashes)
  BY <1>0 DEF AnchorType, TipType, MemType, RotateAnchor, CpLine, CpAnchor, WriteAnchor
<1>4. points' \subseteq TipType(hashes)
  <2>1. CheckpointOfLast \in TipType(hashes)
    BY <1>0 DEF CheckpointOfLast, TipType
  <2>2. points' = points \/ points' = points \cup {CheckpointOfLast}
    BY DEF RotateAnchor, CpLine, CpAnchor
  <2> HIDE DEF CheckpointOfLast, TipType
  <2> QED BY <1>0, <2>1, <2>2
<1>w. /\ writer.then \in {"recv", "drain", "seal", "ack"} /\ writer.closing \in BOOLEAN
      /\ writer.work \in Seq(Written(emits)) /\ writer.line \in Line
  BY <1>0, MadeOf
<1>5. PICK pc \in PC, line \in {writer.line, Torn} :
        /\ writer' = Made(pc, writer.work, line, writer.then, writer.closing)
        /\ pc \in {"raw", "rotate_anchor", "write"} => writer.work # <<>>
  <2>1. CASE RotateAnchor
    <3>1. writer.work # <<>>
      BY <2>1 DEF TInv, PathOK, RotateAnchor, At
    <3> QED BY <2>1, <3>1, RotateAnchorForm DEF PC
  <2>2. CASE CpLine
    BY <2>2, CpLineForm DEF PC
  <2>3. CASE CpAnchor
    <3> DEFINE pc == IF writer.work # <<>> THEN "raw" ELSE writer.then
    <3>1. pc \in PC /\ (pc \in {"raw", "rotate_anchor", "write"} => writer.work # <<>>)
      BY <1>w DEF PC
    <3>2. writer' = Made(pc, writer.work, Torn, writer.then, writer.closing)
      BY <2>3, CpAnchorForm
    <3> HIDE DEF pc
    <3> QED BY <3>1, <3>2
  <2> QED BY <2>1, <2>2, <2>3
<1>6. line \in Line /\ line.hash <= hashes
  <2>1. writer.line.hash <= hashes
    BY DEF TInv, PathOK
  <2> QED BY <1>0, <1>w, <2>1, TornType
<1>7. writer' \in WriterType(emits)
  BY <1>w, <1>5, <1>6, MadeType
<1>8. writer'.pc = pc /\ writer'.work = writer.work /\ writer'.line = line
  BY <1>5 DEF Made
<1>9. \A i \in 1 .. Len(active') : active'[i].hash <= hashes'
  BY <1>1 DEF TInv, PathOK
<1>10. writer'.pc \in {"raw", "rotate_anchor", "write"} => writer'.work # <<>>
  BY <1>5, <1>8
<1>11. /\ hashes' \in Nat /\ chain' \in TipType(hashes') /\ active' \in Seq(Line)
       /\ rotated' \in Seq(Line) /\ anchor' \in AnchorType(hashes')
       /\ points' \subseteq TipType(hashes') /\ phase' \in Phases /\ writer'.line.hash <= hashes'
  BY <1>0, <1>1, <1>3, <1>4, <1>6, <1>8
<1> HIDE DEF WriterType, MemType, TipType, AnchorType, Line
<1> QED BY <1>1, <1>2, <1>7, <1>9, <1>10, <1>11, WriterTypes

\* A line is lost to an error.
LEMMA WriteFailsTypes ==
  ASSUME TInv, ReserveOK, WriteFails
  PROVE  TInv' /\ ReserveOK'
<1>0. /\ writer \in WriterType(emits) /\ mem \in MemType /\ phase \in Phases
      /\ active \in Seq(Line) /\ rotated \in Seq(Line) /\ hashes \in Nat
      /\ chain \in TipType(hashes)
      /\ anchor \in AnchorType(hashes) /\ points \subseteq TipType(hashes)
  BY WriterFacts
<1>1. /\ UNCHANGED <<process, checked, emits, accepted, dropped, timer>>
      /\ queue' = queue /\ active' = active /\ rotated' = rotated /\ mem' = mem
      /\ anchor' = anchor /\ points' = points
  BY DEF WriteFails, sink, disk
<1>2. hashes' \in Nat /\ hashes <= hashes' /\ chain' \in TipType(hashes')
  <2>1. CASE ChainAppend
    <3>1. hashes' = hashes + 1 /\ hashes' \in Nat /\ chain' \in TipType(hashes')
      BY <2>1, ChainAppendFacts
    <3> QED BY <1>0, <3>1
  <2>2. CASE UNCHANGED <<chain, hashes>>
    BY <1>0, <2>2
  <2> QED BY <2>1, <2>2 DEF WriteFails
<1>3. anchor' \in AnchorType(hashes') /\ points' \subseteq TipType(hashes')
  BY <1>0, <1>1, <1>2, TipsGrow
<1>w. /\ writer.then \in {"recv", "drain", "seal", "ack"} /\ writer.closing \in BOOLEAN
  BY <1>0, MadeOf
<1>4. PICK pc \in PC, then \in {"recv", "drain", "seal", "ack"}, closing \in BOOLEAN :
        /\ writer' = Made(pc, <<>>, Torn, then, closing)
        /\ pc \notin {"raw", "rotate_anchor", "write"}
  <2>1. CASE Answer("failed")
    <3> DEFINE pc == IF writer.closing THEN "done" ELSE "recv"
    <3>1. pc \in PC /\ pc \notin {"raw", "rotate_anchor", "write"}
      BY DEF PC
    <3>2. writer' = Made(pc, <<>>, Torn, "recv", FALSE)
      BY <2>1, AnswerForm
    <3> HIDE DEF pc
    <3> QED BY <3>1, <3>2
  <2>2. CASE /\ writer' = Made(writer.then, <<>>, Torn, writer.then, writer.closing)
             /\ writer.then \in {"recv", "drain"}
    <3>1. writer.then \in PC
      BY <2>2 DEF PC
    <3> QED BY <1>w, <2>2, <3>1
  <2> QED BY <2>1, <2>2, GiveUpForm DEF WriteFails
<1>5. writer' \in WriterType(emits)
  <2>1. <<>> \in Seq(Written(emits))
    OBVIOUS
  <2> QED BY <1>4, <2>1, TornType, MadeType
<1>6. writer'.pc = pc /\ writer'.line = Torn
  BY <1>4 DEF Made
<1>7. phase' \in Phases
  <2>1. phase' = phase \/ Answer("failed")
    BY GiveUpForm DEF WriteFails
  <2> QED BY <1>0, <2>1 DEF Answer, Phases
<1>8. \A i \in 1 .. Len(active') : active'[i].hash <= hashes'
  <2>1. \A i \in 1 .. Len(active) : active[i].hash <= hashes /\ active[i].hash \in Nat
    BY ActiveHashes
  <2> QED BY <1>0, <1>1, <1>2, <2>1
<1>9. writer'.line.hash <= hashes'
  BY <1>2, <1>6, TornType
<1> HIDE DEF WriterType, MemType, TipType, AnchorType, Line
<1> QED BY <1>0, <1>1, <1>2, <1>3, <1>4, <1>5, <1>6, <1>7, <1>8, <1>9, WriterTypes

-----------------------------------------------------------------------------
(* Restart *)

\* A set of places that is not empty has a last one.
LEMMA MaxFacts ==
  ASSUME NEW n \in Nat, NEW S, S \subseteq 1 .. n, S # {}
  PROVE  Max(S) \in S /\ \A y \in S : Max(S) >= y
<1> DEFINE T == {n - x : x \in S}
           R == OpToRel(<, Nat)
<1>1. T \subseteq Nat /\ T # {}
  OBVIOUS
<1>2. \A x, y \in Nat : x < y => <<x, y>> \in R
  BY DEF OpToRel
<1>3. IsWellFoundedOn(R, Nat)
  BY NatLessThanWellFounded
<1> HIDE DEF R
<1>4. PICK t \in T : \A u \in T : ~(<<u, t>> \in R)
  BY <1>1, <1>3, WFMin
<1>5. \A u \in T : t <= u
  <2> HIDE DEF T
  <2> TAKE u \in T
  <2>1. u \in Nat /\ t \in Nat
    BY <1>1, <1>4
  <2>2. ~(u < t)
    BY <1>2, <1>4, <2>1
  <2> QED BY <2>1, <2>2
<1>6. PICK x \in S : t = n - x
  BY <1>4
<1>7. \A y \in S : x >= y
  <2> TAKE y \in S
  <2>1. n - y \in T
    OBVIOUS
  <2>2. n - x <= n - y
    BY <1>5, <1>6, <2>1
  <2> QED BY <2>2
<1>8. \E z \in S : \A y \in S : z >= y
  BY <1>7
<1> QED BY <1>8 DEF Max

\* What the next process takes up: the last line behind the offset that parses,
\* or the anchor.
LEMMA ReconstructFacts ==
  ASSUME TInv, NEW a \in Seq(Line), \A i \in 1 .. Len(a) : a[i].hash <= hashes
  PROVE  /\ \A read \in {"ok", "error"} : Reconstruct(a, read) \in TipType(hashes)
         /\ Offset(a) \in 0 .. Len(a)
         /\ anchor.bytes <= Len(a) => Offset(a) = anchor.bytes
         /\ \/ /\ \A i \in Offset(a) + 1 .. Len(a) : ~Parses(a, i)
               /\ Reconstruct(a, "ok") = [seq |-> anchor.seq, head |-> anchor.head]
            \/ \E l \in Offset(a) + 1 .. Len(a) :
                 /\ Parses(a, l)
                 /\ \A i \in l + 1 .. Len(a) : ~Parses(a, i)
                 /\ Reconstruct(a, "ok") = [seq |-> a[l].seq + 1, head |-> a[l].hash]
<1>0. /\ Len(a) \in Nat /\ anchor.bytes \in Nat /\ hashes \in Nat
      /\ anchor.seq \in Nat /\ anchor.head \in 0 .. hashes
  BY WriterFacts DEF AnchorType
<1>1. Offset(a) \in 0 .. Len(a) /\ (anchor.bytes <= Len(a) => Offset(a) = anchor.bytes)
  BY <1>0 DEF Offset
<1> DEFINE valid == {i \in Offset(a) + 1 .. Len(a) : Parses(a, i)}
           last == a[Max(valid)]
<1>2. /\ Reconstruct(a, "ok")
           = IF valid # {} THEN [seq |-> last.seq + 1, head |-> last.hash]
             ELSE [seq |-> anchor.seq, head |-> anchor.head]
      /\ Reconstruct(a, "error") = [seq |-> anchor.seq, head |-> anchor.head]
  BY DEF Reconstruct, LoadChainState
<1>3. Reconstruct(a, "error") \in TipType(hashes)
  BY <1>0, <1>2 DEF TipType
<1>4. ASSUME Reconstruct(a, "ok") \in TipType(hashes)
      PROVE  \A read \in {"ok", "error"} : Reconstruct(a, read) \in TipType(hashes)
  BY <1>3, <1>4
<1>a. CASE valid = {}
  <2>1. \A i \in Offset(a) + 1 .. Len(a) : ~Parses(a, i)
    BY <1>a
  <2>2. Reconstruct(a, "ok") = [seq |-> anchor.seq, head |-> anchor.head]
    BY <1>2, <1>a
  <2>3. Reconstruct(a, "ok") \in TipType(hashes)
    BY <1>0, <2>2 DEF TipType
  <2> QED BY <1>1, <1>4, <2>1, <2>2, <2>3
<1>b. CASE valid # {}
  <2>1. valid \subseteq 1 .. Len(a)
    BY <1>0, <1>1
  <2>2. Max(valid) \in valid /\ \A y \in valid : Max(valid) >= y
    <3> HIDE DEF valid
    <3> QED BY <1>0, <1>b, <2>1, MaxFacts
  <2> DEFINE l == Max(valid)
  <2>3. Reconstruct(a, "ok") = [seq |-> a[l].seq + 1, head |-> a[l].hash]
    BY <1>2, <1>b
  <2> HIDE DEF l
  <2>4. l \in valid /\ \A y \in valid : l >= y
    BY <2>2 DEF l
  <2>5. l \in Offset(a) + 1 .. Len(a) /\ Parses(a, l) /\ l \in 1 .. Len(a)
    BY <2>1, <2>4
  <2>6. \A i \in l + 1 .. Len(a) : ~Parses(a, i)
    BY <1>0, <1>1, <2>4, <2>5
  <2>7. a[l] \in Line
    <3> HIDE DEF Line
    <3> QED BY <2>5
  <2>8. a[l].seq + 1 \in Nat /\ a[l].hash \in 0 .. hashes
    <3>1. a[l].seq \in Nat /\ a[l].hash \in Nat
      BY <2>7 DEF Line
    <3>2. a[l].hash <= hashes
      BY <2>5
    <3> QED BY <1>0, <3>1, <3>2
  <2>9. Reconstruct(a, "ok") \in TipType(hashes)
    BY <2>3, <2>8 DEF TipType
  <2> HIDE DEF valid
  <2> QED BY <1>1, <1>4, <2>3, <2>5, <2>6, <2>9
<1> QED BY <1>a, <1>b

\* The file that a death leaves.
LEMMA LeftFacts ==
  ASSUME TInv, Restart
  PROVE  \E a \in Seq(Line) :
           /\ Open(a)
           /\ \A i \in 1 .. Len(a) : a[i].hash <= hashes
           /\ \/ a = active
              \/ a = Append(active, Torn) /\ writer.pc \in {"raw", "write"}
<1>1. active \in Seq(Line) /\ \A i \in 1 .. Len(active) : active[i].hash <= hashes
  BY WriterFacts, ActiveHashes
<1>2. CASE Open(active)
  BY <1>1, <1>2
<1>3. CASE AtWrite /\ Open(Append(active, Torn))
  <2> DEFINE a == Append(active, Torn)
  <2>1. /\ a \in Seq(Line) /\ Len(a) = Len(active) + 1 /\ Len(active) \in Nat
        /\ \A i \in 1 .. Len(active) : a[i] = active[i]
        /\ a[Len(active) + 1] = Torn
    <3> HIDE DEF Line
    <3> QED BY <1>1, TornType, AppendFacts
  <2>2. \A i \in 1 .. Len(a) : a[i].hash <= hashes
    <3> HIDE DEF a
    <3> SUFFICES ASSUME NEW i \in 1 .. Len(a) PROVE a[i].hash <= hashes
      OBVIOUS
    <3>1. CASE i = Len(active) + 1
      BY <2>1, <3>1, TornType, WriterFacts
    <3>2. CASE i \in 1 .. Len(active)
      BY <1>1, <2>1, <3>2
    <3> QED BY <2>1, <3>1, <3>2
  <2> QED BY <1>3, <2>1, <2>2 DEF AtWrite, At
<1> QED BY <1>2, <1>3 DEF Restart

\* A new process takes up what the last one left.
LEMMA RestartTypes ==
  ASSUME TInv, ReserveOK, Restart
  PROVE  TInv' /\ ReserveOK'
<1>1. PICK a \in Seq(Line) : Open(a) /\ \A i \in 1 .. Len(a) : a[i].hash <= hashes
  BY LeftFacts
<1>2. /\ active' = a /\ writer' = Waiting
      /\ mem' = [bytes |-> Len(a), since |-> 0, seen |-> 0]
      /\ base' = Len(rotated) + Len(a)
      /\ \E read \in {"ok", "error"} : chain' = Reconstruct(a, read)
  BY <1>1 DEF Open
<1>3. /\ starts < MaxStarts /\ starts' = starts + 1
      /\ checked' = {} /\ queue' = <<>> /\ accepted' = {} /\ dropped' = 0 /\ timer' = TRUE
      /\ phase' = "serving" /\ fault' = fault /\ emits' = emits /\ hashes' = hashes
      /\ rotated' = rotated /\ anchor' = anchor /\ points' = points
  BY DEF Restart
<1>4. chain' \in TipType(hashes)
  BY <1>1, <1>2, ReconstructFacts
<1>5. writer' \in WriterType(emits) /\ writer'.pc = "recv" /\ writer'.line = Torn
  <2>1. writer' = Made("recv", <<>>, Torn, "recv", FALSE)
    BY <1>2 DEF Waiting, Made
  <2>2. <<>> \in Seq(Written(emits)) /\ "recv" \in PC /\ FALSE \in BOOLEAN
    BY DEF PC
  <2>3. writer' \in WriterType(emits)
    BY <2>1, <2>2, TornType, MadeType
  <2> QED BY <2>1, <2>3 DEF Made
<1>6. Len(a) \in Nat /\ Len(rotated) \in Nat
  BY WriterFacts
<1>7. Cardinality({}) = 0
  BY FS_EmptySet
<1>8. PathOK'
  <2>1. emits' + Cardinality(checked') <= MaxEmits
    BY <1>3, <1>7, SinkFacts
  <2>2. writer'.line.hash <= hashes'
    BY <1>3, <1>5, TornType, WriterFacts
  <2> QED BY <1>1, <1>2, <1>3, <1>5, <2>1, <2>2 DEF PathOK
<1>9. TypeOK'
  <2>1. /\ fault' \in Faults /\ checked' \subseteq Emitters /\ emits' \in 0 .. MaxEmits
        /\ accepted' \subseteq 1 .. emits' /\ dropped' \in 0 .. emits' /\ timer' \in BOOLEAN
        /\ phase' \in Phases
    BY <1>3, WriterFacts DEF TInv, TypeOK, Phases
  <2>2. base' \in Nat /\ starts' \in 0 .. MaxStarts
    BY <1>2, <1>3, <1>6, AuditAssumption DEF TInv, TypeOK
  <2>3. mem' \in [bytes : Nat, since : Nat, seen : 0 .. dropped']
    BY <1>2, <1>3, <1>6
  <2>4. queue' \in Seq(Queued(emits')) /\ Len(queue') <= Capacity
    BY <1>3, AuditAssumption
  <2>5. /\ hashes' \in Nat /\ chain' \in TipType(hashes') /\ active' \in Seq(Line)
        /\ rotated' \in Seq(Line) /\ anchor' \in AnchorType(hashes')
        /\ points' \subseteq TipType(hashes')
    BY <1>2, <1>3, <1>4, WriterFacts
  <2>6. writer' \in WriterType(emits')
    BY <1>3, <1>5
  <2> HIDE DEF Line, PC
  <2> QED BY <2>1, <2>2, <2>3, <2>4, <2>5, <2>6
       DEF TypeOK, WriterType, Written, Queued, TipType, AnchorType, Phases
<1>10. ReserveOK'
  BY <1>3, <1>7, ReserveKept, FS_EmptySet DEF TInv
<1> QED BY <1>8, <1>9, <1>10 DEF TInv

\* The types and the reserve hold at the start.
LEMMA TypesInit ==
  Init => TInv /\ ReserveOK
<1> SUFFICES ASSUME Init PROVE TInv /\ ReserveOK
  OBVIOUS
<1> USE DEF Init
<1>1. writer \in WriterType(emits)
  <2>1. writer = Made("recv", <<>>, Torn, "recv", FALSE)
    BY DEF Waiting, Made
  <2>2. <<>> \in Seq(Written(emits)) /\ "recv" \in PC /\ FALSE \in BOOLEAN
    BY DEF PC
  <2> QED BY <2>1, <2>2, TornType, MadeType
<1>2. Cardinality({}) = 0
  BY FS_EmptySet
<1>3. PathOK
  BY <1>2, TornType, AuditAssumption DEF PathOK, Waiting
<1>4. TypeOK
  BY <1>1, AuditAssumption DEF TypeOK, WriterType, Written, Genesis
<1>5. ReserveOK
  <2>1. Data(queue) = {}
    BY DEF Data
  <2>2. Cardinality(Emitters) \in Nat
    BY Count
  <2>3. 0 <= (Capacity - Reserve) + (Cardinality(Emitters) - 1)
    BY <2>2, AuditAssumption
  <2>4. Cardinality(Data(queue)) = 0 /\ Cardinality(checked) = 0
    BY <1>2, <2>1
  <2> QED BY <2>3, <2>4 DEF ReserveOK
<1> QED BY <1>3, <1>4, <1>5 DEF TInv

\* Every step keeps the types and the reserve.
LEMMA TypesNext ==
  TInv /\ ReserveOK /\ [Next]_vars => TInv' /\ ReserveOK'
<1> SUFFICES ASSUME TInv, ReserveOK, [Next]_vars PROVE TInv' /\ ReserveOK'
  OBVIOUS
<1>1. CASE Emit
  BY <1>1, EmitAuthTypes, EmitDataTypes, EmitDataSendTypes DEF Emit
<1>2. CASE TimerTick
  BY <1>2, TimerTickTypes
<1>3. CASE WriterStep
  BY <1>3, TakeTypes, WriteTypes, RotateRenameTypes, AnchorTypes, WriteFailsTypes DEF WriterStep
<1>4. CASE Shutdown
  BY <1>4, ShutdownTypes
<1>5. CASE Restart
  BY <1>5, RestartTypes
<1>6. CASE UNCHANGED vars
  BY <1>6 DEF vars, process, sink, state, disk, TInv, TypeOK, PathOK, ReserveOK
<1> QED BY <1>1, <1>2, <1>3, <1>4, <1>5, <1>6 DEF Next

\* The types hold, whatever fails: in particular the hash a restarted process
\* takes up was computed.
THEOREM TypeCorrect == Spec => []TypeOK
<1>1. TInv /\ ReserveOK => TypeOK
  BY DEF TInv
<1> QED BY <1>1, TypesInit, TypesNext, PTL DEF Spec

\* The data plane eats into the fail-closed reserve of the channel by no more
\* than the handlers that can be between the check and the send.
THEOREM ReserveHolds == Spec => []ReserveErosionBounded
<1>1. TInv /\ ReserveOK => ReserveErosionBounded
  <2> SUFFICES ASSUME TInv, ReserveOK PROVE ReserveErosionBounded
    OBVIOUS
  <2>1. Cardinality(Data(queue)) <= (Capacity - Reserve) + (Cardinality(Emitters) - 1)
    <3>1. /\ Cardinality(Data(queue)) + Cardinality(checked)
               <= (Capacity - Reserve) + (Cardinality(Emitters) - 1)
          /\ Cardinality(Data(queue)) \in Nat /\ Cardinality(checked) \in Nat
          /\ Capacity \in Nat /\ Reserve \in Nat /\ Cardinality(Emitters) \in Nat
      BY SinkFacts
    <3> QED BY <3>1
  <2> QED BY <2>1 DEF ReserveErosionBounded, Data
<1> QED BY <1>1, TypesInit, TypesNext, PTL DEF Spec

-----------------------------------------------------------------------------
(* The log *)

\* The log is the rotated files and then the active one.
LEMMA LogFacts ==
  ASSUME TInv
  PROVE  /\ Log \in Seq(Line)
         /\ Len(Log) = Len(rotated) + Len(active)
         /\ Len(rotated) \in Nat /\ Len(active) \in Nat /\ Len(Log) \in Nat
         /\ \A i \in 1 .. Len(active) : Log[Len(rotated) + i] = active[i]
         /\ \A i \in 1 .. Len(Log) : Log[i] \in Line /\ Log[i].seq \in Nat
<1> HIDE DEF Line
<1>1. rotated \in Seq(Line) /\ active \in Seq(Line)
  BY WriterFacts
<1>2. /\ Log \in Seq(Line) /\ Len(Log) = Len(rotated) + Len(active)
      /\ \A i \in 1 .. Len(active) : Log[Len(rotated) + i] = active[i]
  BY <1>1, ConcatFacts DEF Log
<1>3. Len(rotated) \in Nat /\ Len(active) \in Nat /\ Len(Log) \in Nat
  BY <1>1, <1>2
<1>4. \A i \in 1 .. Len(Log) : Log[i] \in Line
  BY <1>2
<1>5. \A i \in 1 .. Len(Log) : Log[i].seq \in Nat
  BY <1>4 DEF Line
<1> QED BY <1>2, <1>3, <1>4, <1>5

\* A rename does not change the log.
LEMMA LogRenamed ==
  ASSUME TInv, rotated' = rotated \o active, active' = <<>>
  PROVE  Log' = Log
<1> HIDE DEF Line
<1>1. rotated \o active \in Seq(Line)
  BY WriterFacts
<1>2. \A s \in Seq(Line) : s \o <<>> = s
  OBVIOUS
<1> QED BY <1>1, <1>2 DEF Log

\* A write adds a line at the end.
LEMMA LogPut ==
  ASSUME TInv, NEW line \in Line, rotated' = rotated, active' = Append(active, line)
  PROVE  /\ Len(Log') = Len(Log) + 1
         /\ \A i \in 1 .. Len(Log) : Log'[i] = Log[i]
         /\ Log'[Len(Log) + 1] = line
<1> HIDE DEF Line
<1>1. rotated \in Seq(Line) /\ active \in Seq(Line)
  BY WriterFacts
<1>2. /\ Append(active, line) \in Seq(Line) /\ Len(Append(active, line)) = Len(active) + 1
      /\ \A i \in 1 .. Len(active) : Append(active, line)[i] = active[i]
      /\ Append(active, line)[Len(active) + 1] = line
  BY <1>1, AppendFacts
<1> DEFINE b == Append(active, line)
<1> HIDE DEF b
<1>3. /\ Len(rotated \o b) = Len(rotated) + Len(b)
      /\ \A i \in 1 .. Len(rotated) : (rotated \o b)[i] = rotated[i]
      /\ \A i \in 1 .. Len(b) : (rotated \o b)[Len(rotated) + i] = b[i]
  BY <1>1, <1>2, ConcatFacts DEF b
<1>4. /\ Len(Log) = Len(rotated) + Len(active) /\ Len(rotated) \in Nat /\ Len(active) \in Nat
      /\ \A i \in 1 .. Len(rotated) : Log[i] = rotated[i]
      /\ \A i \in 1 .. Len(active) : Log[Len(rotated) + i] = active[i]
  BY <1>1, ConcatFacts DEF Log
<1>5. Log' = rotated \o b
  BY DEF Log, b
<1>6. /\ Len(b) = Len(active) + 1 /\ b[Len(active) + 1] = line
      /\ \A i \in 1 .. Len(active) : b[i] = active[i]
  BY <1>2 DEF b
<1>7. Len(Log') = Len(Log) + 1 /\ Log'[Len(Log) + 1] = line
  <2>1. Len(active) + 1 \in 1 .. Len(b) /\ Len(Log) + 1 = Len(rotated) + (Len(active) + 1)
    BY <1>4, <1>6
  <2> QED BY <1>3, <1>4, <1>5, <1>6, <2>1
<1>8. \A i \in 1 .. Len(Log) : Log'[i] = Log[i]
  <2> SUFFICES ASSUME NEW i \in 1 .. Len(Log) PROVE Log'[i] = Log[i]
    OBVIOUS
  <2>1. CASE i \in 1 .. Len(rotated)
    BY <1>3, <1>4, <1>5, <2>1
  <2>2. CASE i \notin 1 .. Len(rotated)
    <3>1. i - Len(rotated) \in 1 .. Len(active) /\ i = Len(rotated) + (i - Len(rotated))
      BY <1>4, <2>2
    <3>2. i - Len(rotated) \in 1 .. Len(b)
      BY <1>4, <1>6, <3>1
    <3> QED BY <1>3, <1>4, <1>5, <1>6, <3>1, <3>2
  <2> QED BY <2>1, <2>2
<1> QED BY <1>7, <1>8

\* A line that has a hash is not a torn one.
LEMMA NotTorn ==
  ASSUME NEW l, l.hash # 0
  PROVE  l # Torn
  BY TornType

-----------------------------------------------------------------------------
(* Sequence numbers *)

\* A step that leaves the files, the chain and a line on its way alone.
LEMMA SeqQuiet ==
  ASSUME TInv, SeqInv, UNCHANGED <<fault, chain, active, rotated, anchor>>,
         mem'.bytes = mem.bytes,
         \/ writer' = writer
         \/ /\ writer.pc \notin {"rotate_anchor", "write"}
            /\ writer'.pc \notin {"rotate_anchor", "write"}
  PROVE  SeqInv'
<1>1. Log' = Log
  BY DEF Log
<1> SUFFICES ASSUME Resumable PROVE (ExtentOK /\ AscentOK /\ TipOK)'
  BY DEF SeqInv, Resumable
<1>2. ExtentOK /\ AscentOK /\ TipOK
  BY DEF SeqInv, Resumable
<1>3. ExtentOK'
  BY <1>2 DEF ExtentOK, Pending
<1>4. AscentOK'
  BY <1>1, <1>2 DEF AscentOK
<1>5. TipOK'
  BY <1>1, <1>2 DEF TipOK, Pending
<1> QED BY <1>3, <1>4, <1>5

\* A line above all others is appended and the chain moves behind it.
LEMMA SeqPut ==
  ASSUME TInv, SeqInv, NEW line \in Line, line # Torn,
         Resumable => Above(Log, line.seq, line.prev, Len(Log)),
         chain' = [seq |-> line.seq + 1, head |-> line.hash],
         active' = Append(active, line), mem'.bytes = mem.bytes + 1,
         writer'.pc \notin {"rotate_anchor", "write"}, writer.pc # "rotate_anchor",
         UNCHANGED <<fault, rotated, anchor>>
  PROVE  SeqInv'
<1> SUFFICES ASSUME Resumable PROVE (ExtentOK /\ AscentOK /\ TipOK)'
  BY DEF SeqInv, Resumable
<1>0. ExtentOK /\ AscentOK /\ TipOK /\ Above(Log, line.seq, line.prev, Len(Log))
  BY DEF SeqInv, Resumable
<1>1. /\ Len(Log') = Len(Log) + 1
      /\ \A i \in 1 .. Len(Log) : Log'[i] = Log[i]
      /\ Log'[Len(Log) + 1] = line
  BY LogPut
<1>2. /\ Len(Log) = Len(rotated) + Len(active) /\ Len(rotated) \in Nat /\ Len(active) \in Nat
      /\ Len(Log) \in Nat /\ \A i \in 1 .. Len(Log) : Log[i].seq \in Nat
  BY LogFacts
<1>3. line.seq \in Nat
  BY DEF Line
<1>4. Len(active') = Len(active) + 1
  <2> HIDE DEF Line
  <2> QED BY WriterFacts, AppendFacts
<1>5. anchor.bytes \in Nat
  BY WriterFacts DEF AnchorType
<1>6. ExtentOK'
  BY <1>0, <1>2, <1>4, <1>5 DEF ExtentOK, Pending
<1> HIDE DEF Log
<1>7. AscentOK'
  <2> SUFFICES ASSUME NEW i \in 1 .. Len(Log) + 1, NEW j \in 1 .. Len(Log) + 1,
                      i < j, Readable(Log'[i]), Log'[j] # Torn
               PROVE  /\ Log'[i].seq < Log'[j].seq
                      /\ Log'[j].seq = Log'[i].seq + 1 => Log'[j].prev = Log'[i].hash
    BY <1>1 DEF AscentOK
  <2>1. i \in 1 .. Len(Log) /\ Log'[i] = Log[i]
    BY <1>1, <1>2
  <2>2. CASE j = Len(Log) + 1
    BY <1>0, <1>1, <2>1, <2>2 DEF Above
  <2>3. CASE j \in 1 .. Len(Log)
    BY <1>0, <1>1, <2>1, <2>3 DEF AscentOK
  <2>4. j = Len(Log) + 1 \/ j \in 1 .. Len(Log)
    <3>1. \A n \in Nat : \A k \in 1 .. n + 1 : k = n + 1 \/ k \in 1 .. n
      OBVIOUS
    <3>2. Len(Log) \in Nat
      BY <1>2
    <3> QED BY <3>1, <3>2
  <2> QED BY <2>2, <2>3, <2>4
<1>8. TipOK'
  <2>1. Above(Log', line.seq + 1, line.hash, Len(Log) + 1)
    <3> SUFFICES ASSUME NEW i \in 1 .. Len(Log) + 1, Readable(Log'[i])
                 PROVE  /\ Log'[i].seq < line.seq + 1
                        /\ line.seq + 1 = Log'[i].seq + 1 => line.hash = Log'[i].hash
      BY DEF Above
    <3>1. CASE i = Len(Log) + 1
      BY <1>1, <1>3, <3>1
    <3>2. CASE i \in 1 .. Len(Log)
      <4>1. Log'[i] = Log[i] /\ Log[i].seq < line.seq /\ Log[i].seq \in Nat
        BY <1>0, <1>1, <1>2, <3>2 DEF Above
      <4> QED BY <1>3, <4>1
    <3>3. i = Len(Log) + 1 \/ i \in 1 .. Len(Log)
      <4>1. \A n \in Nat : \A k \in 1 .. n + 1 : k = n + 1 \/ k \in 1 .. n
        OBVIOUS
      <4>2. Len(Log) \in Nat
        BY <1>2
      <4> QED BY <4>1, <4>2
    <3> QED BY <3>1, <3>2, <3>3
  <2>2. Above(Log', anchor.seq, anchor.head, Len(rotated) + anchor.bytes)
    <3>1. Above(Log, anchor.seq, anchor.head, Len(rotated) + anchor.bytes)
      BY <1>0 DEF TipOK
    <3>2. anchor.bytes <= Len(active)
      BY <1>0 DEF ExtentOK
    <3>3. Len(rotated) + anchor.bytes <= Len(Log)
      BY <1>2, <1>5, <3>2
    <3>4. \A i \in 1 .. Len(rotated) + anchor.bytes : Log'[i] = Log[i]
      BY <1>1, <1>2, <1>5, <3>3
    <3> QED BY <3>1, <3>4 DEF Above
  <2>3. chain'.seq = line.seq + 1 /\ chain'.head = line.hash
    OBVIOUS
  <2> HIDE DEF Above
  <2> QED BY <1>1, <2>1, <2>2, <2>3 DEF TipOK, Pending
<1> QED BY <1>6, <1>7, <1>8

\* Lines below a number are below the next one.
LEMMA AboveNext ==
  ASSUME TInv, NEW seq \in Nat, NEW head, NEW next, NEW n, n \in 0 .. Len(Log),
         Above(Log, seq, head, n)
  PROVE  Above(Log, seq + 1, next, n)
<1>1. \A i \in 1 .. n : Log[i].seq \in Nat
  BY LogFacts
<1> HIDE DEF Log
<1> QED BY <1>1 DEF Above

\* The lines after n that cannot be read do not matter.
LEMMA AboveMore ==
  ASSUME NEW s, Len(s) \in Nat, NEW seq, NEW head, NEW n \in 0 .. Len(s),
         Above(s, seq, head, n),
         \A i \in n + 1 .. Len(s) : ~Readable(s[i])
  PROVE  Above(s, seq, head, Len(s))
<1> SUFFICES ASSUME NEW i \in 1 .. Len(s), Readable(s[i])
             PROVE  s[i].seq < seq /\ (seq = s[i].seq + 1 => head = s[i].hash)
  BY DEF Above
<1>2. i \in 1 .. n
  OBVIOUS
<1> QED BY <1>2 DEF Above

\* A line that is written is above every line in front of it.
LEMMA WriteSeq ==
  ASSUME TInv, SeqInv, Write \/ WriteRotated
  PROVE  SeqInv'
<1>0. /\ writer.work # <<>> /\ writer.pc \in {"raw", "write"}
      /\ UNCHANGED <<fault, rotated, anchor>>
  BY DEF TInv, PathOK, Write, WriteRotated, At, process
<1>w. /\ writer.then \notin {"rotate_anchor", "write"} /\ mem \in MemType
  BY WriterFacts, MadeOf
<1>p. ASSUME NEW line, Put(line)
      PROVE  /\ writer'.pc \notin {"rotate_anchor", "write"}
             /\ mem'.bytes = mem.bytes + 1
             /\ active' = Append(active, line)
  <2>1. writer'.pc \notin {"rotate_anchor", "write"}
    BY <1>p, <1>w, PutForm DEF Made
  <2>2. mem'.bytes = mem.bytes + 1
    BY <1>p, <1>w, PutForm DEF MemType
  <2> QED BY <1>p, <2>1, <2>2, PutForm
<1>1. CASE Write
  <2>1. Put(Chained) /\ ChainAppend /\ writer.pc = "raw"
    BY <1>1 DEF Write, At
  <2>2. /\ Chained \in Line /\ Chained.seq = chain.seq /\ Chained.prev = chain.head
        /\ Chained.hash = hashes + 1
    BY <1>0, ChainedFacts
  <2>3. hashes \in Nat
    BY WriterFacts
  <2>4. Chained # Torn
    BY <2>2, <2>3, NotTorn
  <2>5. chain' = [seq |-> Chained.seq + 1, head |-> Chained.hash]
    BY <2>1, <2>2 DEF ChainAppend
  <2>6. Resumable => Above(Log, Chained.seq, Chained.prev, Len(Log))
    BY <2>1, <2>2 DEF SeqInv, Resumable, TipOK, Pending
  <2> HIDE DEF Chained, Line
  <2> QED BY <1>0, <1>p, <2>1, <2>2, <2>4, <2>5, <2>6, SeqPut
<1>2. CASE WriteRotated
  <2>1. Put(writer.line) /\ chain' = chain /\ writer.pc = "write"
    BY <1>2 DEF WriteRotated, At
  <2>2. writer.line \in Line
    BY WriterFacts, MadeOf
  <2>3. CASE ~Resumable
    <3>1. ~Resumable'
      BY <1>0, <2>3 DEF Resumable
    <3> QED BY <3>1 DEF SeqInv, Resumable
  <2>4. CASE Resumable
    <3>1. /\ Above(Log, writer.line.seq, writer.line.prev, Len(Log))
          /\ writer.line # Torn
          /\ chain' = [seq |-> writer.line.seq + 1, head |-> writer.line.hash]
      BY <2>1, <2>4 DEF SeqInv, Resumable, TipOK, Pending
    <3> HIDE DEF Line
    <3> QED BY <1>0, <1>p, <2>1, <2>2, <3>1, SeqPut
  <2> QED BY <2>3, <2>4
<1> QED BY <1>1, <1>2

\* A line that waits for its file is above every line in front of it.
LEMMA RotateRenameSeq ==
  ASSUME TInv, SeqInv, RotateRename
  PROVE  SeqInv'
<1>0. /\ writer.work # <<>> /\ writer.pc = "raw" /\ active' = <<>>
      /\ UNCHANGED <<fault, anchor>> /\ ChainAppend
      /\ mem' = [mem EXCEPT !.bytes = 0]
  BY DEF TInv, PathOK, RotateRename, At, process
<1> SUFFICES ASSUME Resumable PROVE (ExtentOK /\ AscentOK /\ TipOK)'
  BY <1>0 DEF SeqInv, Resumable
<1>1. ExtentOK /\ AscentOK /\ TipOK
  BY DEF SeqInv, Resumable
<1>2. Log' = Log
  BY LogRenamed DEF RotateRename
<1> DEFINE line == [Chained EXCEPT !.glued = FALSE]
<1>3. line.seq = chain.seq /\ line.prev = chain.head /\ line.hash = hashes + 1
  BY <1>0, ChainedFacts
<1>4. writer' = Made("rotate_anchor", writer.work, line, writer.then, writer.closing)
  BY RotateRenameForm
<1> HIDE DEF line
<1>5. writer'.pc = "rotate_anchor" /\ writer'.line = line
  BY <1>4 DEF Made
<1>6. line # Torn
  BY <1>3, WriterFacts, NotTorn
<1>7. chain' = [seq |-> line.seq + 1, head |-> line.hash]
  BY <1>0, <1>3 DEF ChainAppend
<1>8. Above(Log, line.seq, line.prev, Len(Log))
  BY <1>0, <1>1, <1>3 DEF TipOK, Pending
<1>9. ExtentOK'
  <2>1. mem'.bytes = 0
    BY <1>0, WriterFacts DEF MemType
  <2> QED BY <1>0, <1>5, <2>1 DEF ExtentOK
<1>10. AscentOK'
  BY <1>1, <1>2 DEF AscentOK
<1>11. TipOK'
  <2> HIDE DEF Above, Log
  <2> QED BY <1>2, <1>5, <1>6, <1>7, <1>8 DEF TipOK, Pending
<1> QED BY <1>9, <1>10, <1>11

\* An anchor is above every line in front of its offset.
LEMMA AnchorSeq ==
  ASSUME TInv, SeqInv, RotateAnchor \/ CpAnchor
  PROVE  SeqInv'
<1>0. /\ UNCHANGED <<fault, chain, active, rotated, mem>> /\ WriteAnchor
  BY DEF RotateAnchor, CpAnchor, process
<1> SUFFICES ASSUME Resumable PROVE (ExtentOK /\ AscentOK /\ TipOK)'
  BY <1>0 DEF SeqInv, Resumable
<1>1. ExtentOK /\ AscentOK /\ TipOK
  BY DEF SeqInv, Resumable
<1>2. Log' = Log
  BY <1>0 DEF Log
<1>3. /\ anchor'.seq = chain.seq /\ anchor'.head = chain.head
      /\ anchor'.bytes = Len(active)
  BY <1>0, <1>1 DEF WriteAnchor, ExtentOK
<1>4. /\ Len(Log) = Len(rotated) + Len(active) /\ Len(Log) \in Nat /\ Len(active) \in Nat
      /\ Len(rotated) \in Nat
  BY LogFacts
<1>5. AscentOK'
  BY <1>1, <1>2 DEF AscentOK
<1>a. CASE RotateAnchor
  <2>1. writer.pc = "rotate_anchor"
    BY <1>a DEF RotateAnchor, At
  <2>2. writer'.pc = "write" /\ writer'.line = writer.line
    BY <1>a, RotateAnchorForm DEF Made
  <2>3. ExtentOK'
    BY <1>0, <1>1, <1>3, <1>4, <2>1, <2>2 DEF ExtentOK, Pending
  <2>4. /\ Above(Log, writer.line.seq, writer.line.prev, Len(Log))
        /\ writer.line # Torn
        /\ chain = [seq |-> writer.line.seq + 1, head |-> writer.line.hash]
    BY <1>1, <2>1 DEF TipOK, Pending
  <2>5. Above(Log, chain.seq, chain.head, Len(Log))
    <3>1. writer.line.seq \in Nat
      BY WriterFacts, MadeOf DEF Line
    <3>2. Above(Log, writer.line.seq + 1, writer.line.hash, Len(Log))
      BY <1>4, <2>4, <3>1, AboveNext
    <3>3. chain.seq = writer.line.seq + 1 /\ chain.head = writer.line.hash
      BY <2>4
    <3> HIDE DEF Above, Log
    <3> QED BY <3>2, <3>3
  <2>6. Len(rotated) + Len(active) = Len(Log)
    BY <1>4
  <2>7. TipOK'
    <3> HIDE DEF Above, Log
    <3> QED BY <1>0, <1>2, <1>3, <2>2, <2>4, <2>5, <2>6 DEF TipOK, Pending
  <2> QED BY <1>5, <2>3, <2>7
<1>b. CASE CpAnchor
  <2>1. writer.pc = "cp_anchor"
    BY <1>b DEF CpAnchor, At
  <2>2. writer'.pc \notin {"rotate_anchor", "write"}
    <3>1. writer.then \notin {"rotate_anchor", "write"}
      BY WriterFacts, MadeOf
    <3> QED BY <1>b, <3>1, CpAnchorForm DEF Made
  <2>3. ExtentOK'
    BY <1>0, <1>1, <1>3, <1>4, <2>2 DEF ExtentOK, Pending
  <2>4. Above(Log, chain.seq, chain.head, Len(Log))
    BY <1>1, <2>1 DEF TipOK, Pending
  <2>5. Len(rotated) + Len(active) = Len(Log)
    BY <1>4
  <2>6. TipOK'
    <3> HIDE DEF Above, Log
    <3> QED BY <1>0, <1>2, <1>3, <2>2, <2>4, <2>5 DEF TipOK, Pending
  <2> QED BY <1>5, <2>3, <2>6
<1> QED BY <1>a, <1>b

\* A number whose line is lost to an error is never used.
LEMMA WriteFailsSeq ==
  ASSUME TInv, SeqInv, WriteFails
  PROVE  SeqInv'
<1>0. /\ UNCHANGED <<fault, active, rotated, anchor, mem>>
      /\ writer.pc \in {"raw", "write"}
  BY DEF WriteFails, process, disk, At
<1> SUFFICES ASSUME Resumable PROVE (ExtentOK /\ AscentOK /\ TipOK)'
  BY <1>0 DEF SeqInv, Resumable
<1>1. ExtentOK /\ AscentOK /\ TipOK
  BY DEF SeqInv, Resumable
<1>2. Log' = Log
  BY <1>0 DEF Log
<1>3. Len(Log) \in 0 .. Len(Log)
  BY LogFacts
<1>4. writer'.pc \notin {"rotate_anchor", "write"}
  <2>1. CASE Answer("failed")
    BY <2>1, AnswerForm DEF Made
  <2>2. CASE /\ writer' = Made(writer.then, <<>>, Torn, writer.then, writer.closing)
             /\ writer.then \in {"recv", "drain"}
    BY <2>2 DEF Made
  <2> QED BY <2>1, <2>2, GiveUpForm DEF WriteFails
<1>5. ExtentOK'
  BY <1>0, <1>1, <1>4 DEF ExtentOK, Pending
<1>6. AscentOK'
  BY <1>1, <1>2 DEF AscentOK
<1>7. Above(Log, chain'.seq, chain'.head, Len(Log))
  <2>1. CASE At("raw") /\ ChainAppend
    <3>1. chain'.seq = chain.seq + 1 /\ chain.seq \in Nat
      BY <2>1, ChainAppendFacts
    <3>2. Above(Log, chain.seq, chain.head, Len(Log))
      BY <1>1, <2>1 DEF TipOK, Pending, At
    <3>3. Above(Log, chain.seq + 1, chain'.head, Len(Log))
      BY <1>3, <3>1, <3>2, AboveNext
    <3> QED BY <3>1, <3>3
  <2>2. CASE At("write") /\ UNCHANGED <<chain, hashes>>
    <3>1. /\ Above(Log, writer.line.seq, writer.line.prev, Len(Log))
          /\ chain = [seq |-> writer.line.seq + 1, head |-> writer.line.hash]
      BY <1>1, <2>2 DEF TipOK, Pending, At
    <3>2. writer.line.seq \in Nat
      BY WriterFacts, MadeOf DEF Line
    <3>3. Above(Log, writer.line.seq + 1, writer.line.hash, Len(Log))
      BY <1>3, <3>1, <3>2, AboveNext
    <3>4. chain'.seq = writer.line.seq + 1 /\ chain'.head = writer.line.hash
      BY <2>2, <3>1
    <3> QED BY <3>3, <3>4
  <2> QED BY <2>1, <2>2 DEF WriteFails
<1>8. Above(Log, anchor.seq, anchor.head, Len(rotated) + anchor.bytes)
  BY <1>0, <1>1 DEF TipOK
<1>9. TipOK'
  <2> HIDE DEF Above, Log
  <2> QED BY <1>0, <1>2, <1>4, <1>7, <1>8 DEF TipOK, Pending
<1> QED BY <1>5, <1>6, <1>9

\* A line that is not torn and above all lines it follows, and followed by none
\* that can be read, is the tip.
LEMMA AboveLine ==
  ASSUME NEW s, Len(s) \in Nat, \A i \in 1 .. Len(s) : s[i].seq \in Nat,
         NEW k \in 1 .. Len(s),
         \A i \in 1 .. Len(s) : i < k /\ Readable(s[i]) => s[i].seq < s[k].seq,
         \A i \in k + 1 .. Len(s) : ~Readable(s[i])
  PROVE  Above(s, s[k].seq + 1, s[k].hash, Len(s))
<1> SUFFICES ASSUME NEW i \in 1 .. Len(s), Readable(s[i])
             PROVE  /\ s[i].seq < s[k].seq + 1
                    /\ s[k].seq + 1 = s[i].seq + 1 => s[k].hash = s[i].hash
  BY DEF Above
<1>1. CASE i < k
  <2>1. s[i].seq < s[k].seq /\ s[i].seq \in Nat /\ s[k].seq \in Nat
    BY <1>1
  <2> QED BY <2>1
<1>2. CASE i = k
  <2>1. s[k].seq \in Nat
    OBVIOUS
  <2> QED BY <1>2, <2>1
<1>3. CASE i > k
  BY <1>3
<1> QED BY <1>1, <1>2, <1>3

\* What a death leaves of the log: all of it, and a torn line at most.
LEMMA LogLeft ==
  ASSUME TInv, NEW a \in Seq(Line), rotated' = rotated, active' = a,
         a = active \/ a = Append(active, Torn)
  PROVE  /\ Len(Log') \in Nat /\ Len(Log) <= Len(Log')
         /\ Len(Log') = Len(rotated) + Len(a) /\ Len(a) \in Nat /\ Len(active) <= Len(a)
         /\ \A i \in 1 .. Len(Log) : Log'[i] = Log[i]
         /\ \A i \in Len(Log) + 1 .. Len(Log') : Log'[i] = Torn
         /\ \A i \in 1 .. Len(a) : Log'[Len(rotated) + i] = a[i]
         /\ \A i \in 1 .. Len(Log') : Log'[i].seq \in Nat
<1>1. /\ Len(Log) = Len(rotated) + Len(active) /\ Len(Log) \in Nat
      /\ Len(rotated) \in Nat /\ Len(active) \in Nat
      /\ \A i \in 1 .. Len(Log) : Log[i].seq \in Nat
  BY LogFacts
<1>2. /\ Len(Log') = Len(rotated) + Len(a)
      /\ \A i \in 1 .. Len(a) : Log'[Len(rotated) + i] = a[i]
  <2>1. Log' = rotated \o a
    BY DEF Log
  <2> HIDE DEF Line
  <2> QED BY <2>1, WriterFacts, ConcatFacts
<1>3. Len(a) \in Nat
  OBVIOUS
<1>4. CASE a = active
  <2>1. Log' = Log
    BY <1>4 DEF Log
  <2> HIDE DEF Log
  <2> QED BY <1>1, <1>2, <1>3, <1>4, <2>1
<1>5. CASE a = Append(active, Torn)
  <2>1. /\ Len(Log') = Len(Log) + 1
        /\ \A i \in 1 .. Len(Log) : Log'[i] = Log[i]
        /\ Log'[Len(Log) + 1] = Torn
    BY <1>5, TornType, LogPut
  <2>2. Torn.seq \in Nat
    BY DEF Torn
  <2> HIDE DEF Log
  <2>3. Len(a) = Len(active) + 1
    BY <1>1, <1>2, <1>3, <2>1
  <2>4. \A i \in 1 .. Len(Log') : Log'[i].seq \in Nat
    <3> SUFFICES ASSUME NEW i \in 1 .. Len(Log') PROVE Log'[i].seq \in Nat
      OBVIOUS
    <3>1. CASE i = Len(Log) + 1
      BY <2>1, <2>2, <3>1
    <3>2. CASE i \in 1 .. Len(Log)
      BY <1>1, <2>1, <3>2
    <3> QED BY <1>1, <2>1, <3>1, <3>2
  <2>5. \A i \in Len(Log) + 1 .. Len(Log') : Log'[i] = Torn
    <3> SUFFICES ASSUME NEW i \in Len(Log) + 1 .. Len(Log') PROVE Log'[i] = Torn
      OBVIOUS
    <3>1. i = Len(Log) + 1
      BY <1>1, <2>1
    <3> QED BY <2>1, <3>1
  <2> QED BY <1>1, <1>2, <1>3, <2>1, <2>3, <2>4, <2>5
<1> QED BY <1>4, <1>5

\* The chain a new process reconstructs is above every line on the disk.
LEMMA RestartSeq ==
  ASSUME TInv, SeqInv, Restart
  PROVE  SeqInv'
<1>1. PICK a \in Seq(Line) :
        /\ Open(a)
        /\ \A i \in 1 .. Len(a) : a[i].hash <= hashes
        /\ a = active \/ a = Append(active, Torn)
  BY LeftFacts
<1>a. /\ active' = a /\ writer'.pc = "recv"
      /\ mem'.bytes = Len(a) /\ UNCHANGED <<fault, rotated, anchor>>
  BY <1>1 DEF Open, Restart, Waiting
<1> SUFFICES ASSUME Resumable PROVE (ExtentOK /\ AscentOK /\ TipOK)'
  BY <1>a DEF SeqInv, Resumable
<1>b. fault # "rotation" /\ fault # "unreadable"
  BY DEF Resumable
<1>c. chain' = Reconstruct(a, "ok")
  BY <1>1, <1>b DEF Open
<1>2. /\ active' = a /\ chain' = Reconstruct(a, "ok") /\ writer'.pc = "recv"
      /\ mem'.bytes = Len(a) /\ UNCHANGED <<fault, rotated, anchor>>
  BY <1>a, <1>c
<1>3. ExtentOK /\ AscentOK /\ TipOK /\ writer.pc \notin {"rotate_anchor", "write"}
  BY <1>b DEF SeqInv, Resumable, Restart
<1>4. /\ Len(Log') \in Nat /\ Len(Log) <= Len(Log')
      /\ Len(Log') = Len(rotated) + Len(a) /\ Len(a) \in Nat /\ Len(active) <= Len(a)
      /\ \A i \in 1 .. Len(Log) : Log'[i] = Log[i]
      /\ \A i \in Len(Log) + 1 .. Len(Log') : Log'[i] = Torn
      /\ \A i \in 1 .. Len(a) : Log'[Len(rotated) + i] = a[i]
      /\ \A i \in 1 .. Len(Log') : Log'[i].seq \in Nat
  BY <1>1, <1>2, LogLeft
<1>5. /\ Len(Log) = Len(rotated) + Len(active) /\ Len(Log) \in Nat
      /\ Len(rotated) \in Nat /\ Len(active) \in Nat
  BY LogFacts
<1>6. anchor.bytes \in Nat /\ anchor.bytes <= Len(active)
  BY <1>3, WriterFacts DEF ExtentOK, AnchorType
<1>7. ExtentOK'
  BY <1>2, <1>4, <1>5, <1>6 DEF ExtentOK, Pending
<1> HIDE DEF Log
<1>8. AscentOK'
  <2> SUFFICES ASSUME NEW i \in 1 .. Len(Log'), NEW j \in 1 .. Len(Log'),
                      i < j, Readable(Log'[i]), Log'[j] # Torn
               PROVE  /\ Log'[i].seq < Log'[j].seq
                      /\ Log'[j].seq = Log'[i].seq + 1 => Log'[j].prev = Log'[i].hash
    BY DEF AscentOK
  <2>1. j \in 1 .. Len(Log)
    BY <1>4, <1>5
  <2>2. i \in 1 .. Len(Log)
    BY <1>5, <2>1
  <2>3. Log'[i] = Log[i] /\ Log'[j] = Log[j]
    BY <1>4, <2>1, <2>2
  <2> QED BY <1>3, <2>1, <2>2, <2>3 DEF AscentOK
<1>9. Above(Log', anchor.seq, anchor.head, Len(rotated) + anchor.bytes)
  <2>1. Above(Log, anchor.seq, anchor.head, Len(rotated) + anchor.bytes)
    BY <1>3 DEF TipOK
  <2>2. Len(rotated) + anchor.bytes <= Len(Log)
    BY <1>5, <1>6
  <2>3. \A i \in 1 .. Len(rotated) + anchor.bytes : Log'[i] = Log[i]
    BY <1>4, <1>5, <1>6, <2>2
  <2> QED BY <2>1, <2>3 DEF Above
<1>10. Offset(a) = anchor.bytes
  <2>1. anchor.bytes <= Len(a)
    BY <1>4, <1>5, <1>6
  <2> QED BY <1>1, <2>1, ReconstructFacts
<1>11. \A l \in 0 .. Len(a) : (\A i \in l + 1 .. Len(a) : ~Parses(a, i)) =>
         \A i \in Len(rotated) + l + 1 .. Len(Log') : ~Readable(Log'[i])
  <2> SUFFICES ASSUME NEW l \in 0 .. Len(a), \A i \in l + 1 .. Len(a) : ~Parses(a, i),
                      NEW i \in Len(rotated) + l + 1 .. Len(Log')
               PROVE  ~Readable(Log'[i])
    OBVIOUS
  <2> DEFINE k == i - Len(rotated)
  <2>1. k \in l + 1 .. Len(a) /\ k \in 1 .. Len(a) /\ i = Len(rotated) + k
    BY <1>4, <1>5
  <2> HIDE DEF k
  <2>2. Log'[i] = a[k] /\ ~Parses(a, k)
    BY <1>4, <2>1
  <2> QED BY <2>2 DEF Parses, Readable
<1>12. Above(Log', chain'.seq, chain'.head, Len(Log'))
  <2>1. CASE /\ \A i \in Offset(a) + 1 .. Len(a) : ~Parses(a, i)
             /\ Reconstruct(a, "ok") = [seq |-> anchor.seq, head |-> anchor.head]
    <3>1. anchor.bytes \in 0 .. Len(a) /\ Len(rotated) + anchor.bytes \in 0 .. Len(Log')
      BY <1>4, <1>5, <1>6
    <3>2. \A i \in Len(rotated) + anchor.bytes + 1 .. Len(Log') : ~Readable(Log'[i])
      BY <1>10, <1>11, <2>1, <3>1
    <3>3. Above(Log', anchor.seq, anchor.head, Len(Log'))
      BY <1>4, <1>9, <3>1, <3>2, AboveMore
    <3>4. chain'.seq = anchor.seq /\ chain'.head = anchor.head
      BY <1>2, <2>1
    <3> QED BY <3>3, <3>4
  <2>2. ASSUME NEW l \in Offset(a) + 1 .. Len(a), Parses(a, l),
               \A i \in l + 1 .. Len(a) : ~Parses(a, i),
               Reconstruct(a, "ok") = [seq |-> a[l].seq + 1, head |-> a[l].hash]
        PROVE  Above(Log', chain'.seq, chain'.head, Len(Log'))
    <3> DEFINE k == Len(rotated) + l
    <3>1. l \in 1 .. Len(a) /\ l \in 0 .. Len(a) /\ k \in 1 .. Len(Log')
      BY <1>4, <1>5, <1>6, <1>10
    <3>2. Log'[k] = a[l] /\ a[l] # Torn
      BY <1>4, <2>2, <3>1 DEF Parses
    <3>3. \A i \in k + 1 .. Len(Log') : ~Readable(Log'[i])
      BY <1>11, <2>2, <3>1
    <3> HIDE DEF k
    <3>4. \A i \in 1 .. Len(Log') : i < k /\ Readable(Log'[i]) => Log'[i].seq < Log'[k].seq
      BY <1>8, <3>1, <3>2 DEF AscentOK
    <3>5. Above(Log', Log'[k].seq + 1, Log'[k].hash, Len(Log'))
      BY <1>4, <3>1, <3>3, <3>4, AboveLine
    <3>6. chain'.seq = Log'[k].seq + 1 /\ chain'.head = Log'[k].hash
      BY <1>2, <2>2, <3>2
    <3> QED BY <3>5, <3>6
  <2> QED BY <1>1, <2>1, <2>2, ReconstructFacts
<1>13. TipOK'
  <2> HIDE DEF Above
  <2> QED BY <1>2, <1>9, <1>12 DEF TipOK, Pending
<1> QED BY <1>7, <1>8, <1>13

\* An empty log ascends.
LEMMA SeqInit ==
  Init => SeqInv
<1> SUFFICES ASSUME Init PROVE ExtentOK /\ AscentOK /\ TipOK
  BY DEF SeqInv, Resumable
<1>1. Log = <<>> /\ Len(Log) = 0
  BY DEF Init, Log
<1>2. ExtentOK
  BY DEF Init, ExtentOK, Waiting, Pending
<1> HIDE DEF Log
<1>3. AscentOK
  BY <1>1 DEF AscentOK
<1>4. TipOK
  BY <1>1 DEF Init, TipOK, Waiting, Pending, Above
<1> QED BY <1>2, <1>3, <1>4

\* Every step keeps the ascent.
LEMMA SeqNext ==
  TInv /\ SeqInv /\ [Next]_vars => SeqInv'
<1> SUFFICES ASSUME TInv, SeqInv, [Next]_vars PROVE SeqInv'
  OBVIOUS
<1>w. writer.then \notin {"rotate_anchor", "write"} /\ mem \in MemType
  BY WriterFacts, MadeOf
<1>1. CASE Emit \/ TimerTick \/ Shutdown \/ UNCHANGED vars
  <2>1. UNCHANGED <<fault, chain, active, rotated, anchor, mem, writer>>
    BY <1>1 DEF Emit, EmitAuth, EmitData, EmitDataSend, TimerTick, Shutdown, ServiceDropped,
                RequestFlush, BeginJoin, Joined, DeadlineExpires, RuntimeDropsTimer,
                Coordinator, vars, process, state, disk
  <2> QED BY <2>1, SeqQuiet
<1>2. CASE \/ TakeRecord \/ TakeCheckpoint \/ TakeFlush \/ DrainEnds \/ ChannelCloses
           \/ CpLine \/ Seal \/ Ack \/ CheckpointFails
  <2>1. UNCHANGED <<fault, chain, active, rotated, anchor>> /\ mem'.bytes = mem.bytes
    BY <1>2, <1>w DEF TakeRecord, TakeCheckpoint, TakeFlush, DrainEnds, ChannelCloses,
          BeginFlush, CpLine, Seal, Ack, CheckpointFails, process, disk, MemType
  <2>2. \/ writer' = writer
        \/ /\ writer.pc \notin {"rotate_anchor", "write"}
           /\ writer'.pc \notin {"rotate_anchor", "write"}
    <3>1. CASE TakeRecord
      BY <3>1, TakeRecordForm DEF Made
    <3>2. CASE TakeCheckpoint
      BY <3>2, TakeCheckpointForm DEF Made
    <3>3. CASE TakeFlush
      BY <3>3, TakeFlushForm DEF Made
    <3>4. CASE DrainEnds \/ ChannelCloses
      <4>1. PICK c \in BOOLEAN : BeginFlush(c)
        BY <3>4 DEF DrainEnds, ChannelCloses
      <4>2. writer'.pc \notin {"rotate_anchor", "write"}
        BY <4>1, BeginFlushForm DEF Made
      <4> QED BY <3>4, <4>2 DEF DrainEnds, ChannelCloses, At
    <3>5. CASE CpLine
      BY <3>5, CpLineForm DEF Made, CpLine, At
    <3>6. CASE Seal
      BY <3>6, SealForm DEF Made
    <3>7. CASE Ack
      BY <3>7, AnswerForm DEF Made, Ack, At
    <3>8. CASE CheckpointFails
      <4>1. writer.pc \notin {"rotate_anchor", "write"}
        BY <3>8 DEF CheckpointFails
      <4>2. writer'.pc \notin {"rotate_anchor", "write"}
        <5>1. CASE Answer("failed")
          BY <5>1, AnswerForm DEF Made
        <5>2. CASE /\ writer' = Made(writer.then, <<>>, Torn, writer.then, writer.closing)
                   /\ writer.then \in {"recv", "drain"}
          BY <5>2 DEF Made
        <5> QED BY <3>8, <5>1, <5>2, GiveUpForm DEF CheckpointFails
      <4> QED BY <4>1, <4>2
    <3> QED BY <1>2, <3>1, <3>2, <3>3, <3>4, <3>5, <3>6, <3>7, <3>8
  <2> QED BY <2>1, <2>2, SeqQuiet
<1>3. CASE Write \/ WriteRotated
  BY <1>3, WriteSeq
<1>4. CASE RotateRename
  BY <1>4, RotateRenameSeq
<1>5. CASE RotateAnchor \/ CpAnchor
  BY <1>5, AnchorSeq
<1>6. CASE WriteFails
  BY <1>6, WriteFailsSeq
<1>7. CASE Restart
  BY <1>7, RestartSeq
<1> QED BY <1>1, <1>2, <1>3, <1>4, <1>5, <1>6, <1>7 DEF Next, WriterStep

\* While no process dies inside a rotation and the files can be read, the
\* number of a line that can be read is never issued again: not by a process
\* that takes the chain up from a file with a torn end, and not after writes
\* that failed.  A line that is glued to a torn one is not readable, and its
\* number may be issued again.
THEOREM NumbersUsedOnce ==
  ASSUME "rotation" \notin Faults, "unreadable" \notin Faults
  PROVE  Spec => []ReadableNeverReissued
<1>1. Init => TInv /\ ReserveOK /\ SeqInv
  BY TypesInit, SeqInit
<1>2. TInv /\ ReserveOK /\ SeqInv /\ [Next]_vars => (TInv /\ ReserveOK /\ SeqInv)'
  BY TypesNext, SeqNext
<1>3. TInv /\ ReserveOK /\ SeqInv => ReadableNeverReissued
  <2> SUFFICES ASSUME TInv, SeqInv PROVE ReadableNeverReissued
    OBVIOUS
  <2>1. Resumable
    BY WriterFacts DEF Resumable
  <2>2. AscentOK
    BY <2>1 DEF SeqInv, Resumable
  <2> QED BY <2>2 DEF AscentOK, ReadableNeverReissued
<1> QED BY <1>1, <1>2, <1>3, PTL DEF Spec

-----------------------------------------------------------------------------
(* The chain the verifier accepts *)

\* A step that leaves the files, the chain and a line on its way alone, and
\* orders a checkpoint only when something was written.
LEMMA ExactQuiet ==
  ASSUME TInv, ExactInv, UNCHANGED <<fault, chain, active, rotated, anchor, points>>,
         \/ writer' = writer /\ mem' = mem
         \/ /\ writer.pc \notin {"rotate_anchor", "write"}
            /\ writer'.pc \notin {"rotate_anchor", "write"}
            /\ mem'.since > 0 => mem.since > 0
            /\ writer'.pc = "cp_line" => mem.since > 0
  PROVE  ExactInv'
<1>1. Log' = Log
  BY DEF Log
<1> SUFFICES ASSUME fault = "none" PROVE (ExactOK /\ PointsOK)'
  BY DEF ExactInv
<1>2. ExactOK /\ PointsOK
  BY DEF ExactInv
<1> HIDE DEF Log
<1>3. ExactOK'
  BY <1>1, <1>2 DEF ExactOK, Pending
<1>4. PointsOK'
  BY <1>1, <1>2 DEF PointsOK
<1> QED BY <1>3, <1>4

\* The next line is appended.
LEMMA ExactPut ==
  ASSUME TInv, SeqInv, ExactInv, NEW line \in Line, line # Torn,
         fault = "none" => line.seq = Len(Log) /\ ~line.glued,
         chain' = [seq |-> line.seq + 1, head |-> line.hash],
         active' = Append(active, line), writer.pc # "rotate_anchor",
         writer'.pc \notin {"rotate_anchor", "write"},
         UNCHANGED <<fault, rotated, anchor, points>>
  PROVE  ExactInv'
<1> SUFFICES ASSUME fault = "none" PROVE (ExactOK /\ PointsOK)'
  BY DEF ExactInv
<1>0. ExactOK /\ PointsOK /\ ExtentOK /\ line.seq = Len(Log) /\ ~line.glued
  BY DEF ExactInv, SeqInv, Resumable
<1>1. /\ Len(Log') = Len(Log) + 1 /\ Len(Log) \in Nat /\ Len(active) \in Nat
      /\ \A i \in 1 .. Len(Log) : Log'[i] = Log[i]
      /\ Log'[Len(Log) + 1] = line
  BY LogPut, LogFacts
<1>2. Len(active') = Len(active) + 1
  <2> HIDE DEF Line
  <2> QED BY WriterFacts, AppendFacts
<1>3. Log' # <<>>
  BY <1>1
<1>4. anchor'.bytes # Len(active')
  <2>1. anchor.bytes <= Len(active) /\ anchor.bytes \in Nat
    BY <1>0, WriterFacts DEF ExtentOK, AnchorType
  <2> QED BY <1>1, <1>2, <2>1
<1> HIDE DEF Log
<1>5. \A i \in 1 .. Len(Log') : Readable(Log'[i]) /\ Log'[i].seq = i - 1
  <2> SUFFICES ASSUME NEW i \in 1 .. Len(Log') PROVE Readable(Log'[i]) /\ Log'[i].seq = i - 1
    OBVIOUS
  <2>1. CASE i = Len(Log) + 1
    BY <1>0, <1>1, <2>1 DEF Readable
  <2>2. CASE i \in 1 .. Len(Log)
    BY <1>0, <1>1, <2>2 DEF ExactOK
  <2> QED BY <1>1, <2>1, <2>2
<1>6. chain'.seq = Len(Log')
  BY <1>0, <1>1
<1>7. ExactOK'
  BY <1>3, <1>4, <1>5, <1>6 DEF ExactOK, Pending
<1>8. \A p \in points : p.seq + 1 \in 1 .. Len(Log') /\ Log'[p.seq + 1].hash = p.head
  BY <1>0, <1>1 DEF PointsOK
<1>9. PointsOK'
  BY <1>3, <1>8 DEF PointsOK
<1> QED BY <1>7, <1>9

\* Without faults the next line has the next number.
LEMMA WriteExact ==
  ASSUME TInv, SeqInv, ExactInv, Write \/ WriteRotated
  PROVE  ExactInv'
<1> SUFFICES ASSUME fault = "none" PROVE ExactInv'
  BY DEF ExactInv, Write, WriteRotated, process
<1>0. /\ writer.work # <<>> /\ writer.pc \in {"raw", "write"}
      /\ UNCHANGED <<fault, rotated, anchor, points>>
  BY DEF TInv, PathOK, Write, WriteRotated, At, process
<1>w. writer.then \notin {"rotate_anchor", "write"}
  BY WriterFacts, MadeOf
<1>e. ExactOK /\ TipOK
  BY DEF ExactInv, SeqInv, Resumable
<1>1. CASE Write
  <2>1. Put(Chained) /\ ChainAppend /\ writer.pc = "raw"
    BY <1>1 DEF Write, At
  <2>2. /\ Chained \in Line /\ Chained.seq = chain.seq /\ Chained.hash = hashes + 1
    BY <1>0, ChainedFacts
  <2>3. Chained # Torn
    BY <2>2, WriterFacts, NotTorn
  <2>4. chain' = [seq |-> Chained.seq + 1, head |-> Chained.hash]
    BY <2>1, <2>2 DEF ChainAppend
  <2>5. Chained.seq = Len(Log)
    BY <1>e, <2>1, <2>2 DEF ExactOK, Pending
  <2>6. ~Chained.glued
    <3>1. active # <<>> => active[Len(active)] # Torn
      <4> SUFFICES ASSUME active # <<>> PROVE active[Len(active)] # Torn
        OBVIOUS
      <4>1. Len(active) \in 1 .. Len(active)
        <5> HIDE DEF Line
        <5> QED BY WriterFacts
      <4>2. /\ Len(rotated) + Len(active) \in 1 .. Len(Log)
            /\ Log[Len(rotated) + Len(active)] = active[Len(active)]
        BY <4>1, LogFacts
      <4> QED BY <1>e, <4>2 DEF ExactOK, Readable
    <3> QED BY <3>1 DEF Chained
  <2>7. /\ active' = Append(active, Chained) /\ writer'.pc \notin {"rotate_anchor", "write"}
    BY <1>w, <2>1, PutForm DEF Made
  <2> HIDE DEF Chained, Line
  <2> QED BY <1>0, <2>1, <2>2, <2>3, <2>4, <2>5, <2>6, <2>7, ExactPut
<1>2. CASE WriteRotated
  <2>1. Put(writer.line) /\ chain' = chain /\ writer.pc = "write"
    BY <1>2 DEF WriteRotated, At
  <2>2. writer.line \in Line
    BY WriterFacts, MadeOf
  <2>3. /\ writer.line # Torn /\ writer.line.seq = Len(Log) /\ ~writer.line.glued
        /\ chain' = [seq |-> writer.line.seq + 1, head |-> writer.line.hash]
    BY <1>e, <2>1 DEF TipOK, ExactOK, Pending
  <2>4. /\ active' = Append(active, writer.line) /\ writer'.pc \notin {"rotate_anchor", "write"}
    BY <1>w, <2>1, PutForm DEF Made
  <2> HIDE DEF Line
  <2> QED BY <1>0, <2>1, <2>2, <2>3, <2>4, ExactPut
<1> QED BY <1>1, <1>2

\* A rename loses no line and leaves no gap.
LEMMA RotateRenameExact ==
  ASSUME TInv, SeqInv, ExactInv, RotateRename
  PROVE  ExactInv'
<1>0. /\ writer.work # <<>> /\ writer.pc = "raw" /\ mem.bytes > 0
      /\ UNCHANGED <<fault, anchor, points>>
      /\ mem' = [mem EXCEPT !.bytes = 0]
  BY DEF TInv, PathOK, RotateRename, At, process, MustRotate
<1> SUFFICES ASSUME fault = "none" PROVE (ExactOK /\ PointsOK)'
  BY <1>0 DEF ExactInv
<1>1. ExactOK /\ PointsOK /\ ExtentOK
  BY DEF ExactInv, SeqInv, Resumable
<1>2. Log' = Log
  BY LogRenamed DEF RotateRename
<1> DEFINE line == [Chained EXCEPT !.glued = FALSE]
<1>3. line.seq = chain.seq /\ line.glued = FALSE
  BY <1>0, ChainedFacts
<1>4. writer' = Made("rotate_anchor", writer.work, line, writer.then, writer.closing)
  BY RotateRenameForm
<1> HIDE DEF line
<1>5. writer'.pc = "rotate_anchor" /\ writer'.line = line
  BY <1>4 DEF Made
<1>6. Len(Log) > 0 /\ Log # <<>>
  <2>1. Len(active) > 0
    BY <1>0, <1>1 DEF ExtentOK
  <2>2. Len(Log) = Len(rotated) + Len(active) /\ Len(rotated) \in Nat /\ Len(active) \in Nat
    BY LogFacts
  <2>3. Len(Log) > 0
    BY <2>1, <2>2
  <2> HIDE DEF Log
  <2> QED BY <2>3
<1>7. line.seq = Len(Log) /\ ~line.glued
  BY <1>0, <1>1, <1>3 DEF ExactOK, Pending
<1> HIDE DEF Log
<1>8. ExactOK'
  BY <1>1, <1>2, <1>5, <1>6, <1>7 DEF ExactOK, Pending
<1>9. mem'.since = mem.since
  BY <1>0, WriterFacts DEF MemType
<1>10. PointsOK'
  BY <1>0, <1>1, <1>2, <1>6 DEF PointsOK
<1> QED BY <1>8, <1>10

\* An anchor at the end of the file is at the end of the chain.
LEMMA AnchorExact ==
  ASSUME TInv, SeqInv, ExactInv, RotateAnchor \/ CpAnchor
  PROVE  ExactInv'
<1>0. UNCHANGED <<fault, chain, active, rotated, points, mem>> /\ WriteAnchor
  BY DEF RotateAnchor, CpAnchor, process
<1> SUFFICES ASSUME fault = "none" PROVE (ExactOK /\ PointsOK)'
  BY <1>0 DEF ExactInv
<1>1. ExactOK /\ PointsOK /\ ExtentOK
  BY DEF ExactInv, SeqInv, Resumable
<1>2. Log' = Log
  BY <1>0 DEF Log
<1>3. anchor'.seq = chain.seq /\ anchor'.head = chain.head
  BY <1>0 DEF WriteAnchor
<1>4. /\ writer.pc \in {"rotate_anchor", "write"} <=> writer'.pc \in {"rotate_anchor", "write"}
      /\ writer'.pc \in {"rotate_anchor", "write"} => writer'.line = writer.line
      /\ writer'.pc # "cp_line"
  <2>1. CASE RotateAnchor
    BY <2>1, RotateAnchorForm DEF Made, RotateAnchor, At
  <2>2. CASE CpAnchor
    <3>1. writer.then \notin {"rotate_anchor", "write", "cp_line"}
      BY WriterFacts, MadeOf
    <3> QED BY <2>2, <3>1, CpAnchorForm DEF Made, CpAnchor, At
  <2> QED BY <2>1, <2>2
<1> HIDE DEF Log
<1>5. ExactOK'
  BY <1>0, <1>1, <1>2, <1>3, <1>4 DEF ExactOK, Pending
<1>6. PointsOK'
  BY <1>0, <1>1, <1>2, <1>4 DEF PointsOK
<1> QED BY <1>5, <1>6

\* A checkpoint names the last line.
LEMMA CpLineExact ==
  ASSUME TInv, SeqInv, ExactInv, CpLine
  PROVE  ExactInv'
<1>0. /\ UNCHANGED <<fault, chain, active, rotated, anchor>>
      /\ points' = points \cup {CheckpointOfLast} /\ mem' = [mem EXCEPT !.since = 0]
      /\ writer.pc = "cp_line"
  BY DEF CpLine, process, At
<1> SUFFICES ASSUME fault = "none" PROVE (ExactOK /\ PointsOK)'
  BY <1>0 DEF ExactInv
<1>1. ExactOK /\ PointsOK /\ TipOK
  BY DEF ExactInv, SeqInv, Resumable
<1>2. Log' = Log
  BY <1>0 DEF Log
<1>3. writer'.pc = "cp_anchor"
  BY CpLineForm DEF Made
<1>4. mem'.since = 0
  BY <1>0, WriterFacts DEF MemType
<1>5. Len(Log) \in Nat /\ Log # <<>> /\ Log \in Seq(Line)
  BY <1>0, <1>1, LogFacts DEF PointsOK
<1>6. Len(Log) > 0
  <2> HIDE DEF Log, Line
  <2> QED BY <1>5
<1> HIDE DEF Log
<1>7. chain.seq = Len(Log) /\ chain.head = Log[Len(Log)].hash
  <2>1. chain.seq = Len(Log) /\ Above(Log, chain.seq, chain.head, Len(Log))
    BY <1>0, <1>1 DEF ExactOK, TipOK, Pending
  <2>2. Len(Log) \in 1 .. Len(Log)
    BY <1>5, <1>6
  <2>3. Readable(Log[Len(Log)]) /\ Log[Len(Log)].seq = Len(Log) - 1
    BY <1>1, <2>2 DEF ExactOK
  <2>4. chain.seq = Log[Len(Log)].seq + 1
    BY <1>5, <2>1, <2>3
  <2> QED BY <2>1, <2>2, <2>3, <2>4 DEF Above
<1>8. /\ CheckpointOfLast.seq + 1 \in 1 .. Len(Log)
      /\ Log[CheckpointOfLast.seq + 1].hash = CheckpointOfLast.head
  <2>1. CheckpointOfLast.seq = Len(Log) - 1 /\ CheckpointOfLast.head = chain.head
    BY <1>5, <1>6, <1>7 DEF CheckpointOfLast
  <2>2. CheckpointOfLast.seq + 1 = Len(Log)
    BY <1>5, <2>1
  <2> QED BY <1>5, <1>6, <1>7, <2>1, <2>2
<1>9. ExactOK'
  BY <1>0, <1>1, <1>2, <1>3 DEF ExactOK, Pending
<1>10. PointsOK'
  <2> HIDE DEF CheckpointOfLast
  <2>1. \A p \in points' : p.seq + 1 \in 1 .. Len(Log) /\ Log[p.seq + 1].hash = p.head
    BY <1>0, <1>1, <1>8 DEF PointsOK
  <2> QED BY <1>2, <1>3, <1>4, <2>1 DEF PointsOK
<1> QED BY <1>9, <1>10

\* Without faults a new process goes on where the last one ended.
LEMMA RestartExact ==
  ASSUME TInv, SeqInv, ExactInv, Restart
  PROVE  ExactInv'
<1>a. fault' = fault /\ rotated' = rotated /\ anchor' = anchor /\ points' = points
  BY DEF Restart
<1> SUFFICES ASSUME fault = "none" PROVE (ExactOK /\ PointsOK)'
  BY <1>a DEF ExactInv
<1>0. Open(active) /\ writer.pc \notin {"rotate_anchor", "write"}
  BY DEF Restart
<1>b. fault # "unreadable"
  OBVIOUS
<1>1. /\ active' = active /\ chain' = Reconstruct(active, "ok") /\ writer'.pc = "recv"
      /\ mem'.since = 0
  BY <1>0, <1>b DEF Open, Waiting
<1>2. ExactOK /\ PointsOK /\ ExtentOK /\ TipOK
  BY DEF ExactInv, SeqInv, Resumable
<1>3. Log' = Log
  BY <1>a, <1>1 DEF Log
<1>4. /\ Len(Log) = Len(rotated) + Len(active) /\ Len(Log) \in Nat
      /\ Len(rotated) \in Nat /\ Len(active) \in Nat
      /\ \A i \in 1 .. Len(active) : Log[Len(rotated) + i] = active[i]
      /\ active \in Seq(Line) /\ \A i \in 1 .. Len(active) : active[i].hash <= hashes
  BY LogFacts, WriterFacts, ActiveHashes
<1>5. anchor.bytes \in Nat /\ anchor.bytes <= Len(active)
  BY <1>0, <1>2, WriterFacts DEF ExtentOK, AnchorType
<1>6. Offset(active) = anchor.bytes
  BY <1>4, <1>5, ReconstructFacts
<1> HIDE DEF Log
<1>7. \A i \in 1 .. Len(active) : Parses(active, i) /\ active[i].seq = Len(rotated) + i - 1
  <2> SUFFICES ASSUME NEW i \in 1 .. Len(active)
               PROVE  Parses(active, i) /\ active[i].seq = Len(rotated) + i - 1
    OBVIOUS
  <2>1. Len(rotated) + i \in 1 .. Len(Log) /\ Log[Len(rotated) + i] = active[i]
    BY <1>4
  <2>2. Readable(active[i]) /\ active[i].seq = Len(rotated) + i - 1
    BY <1>2, <2>1 DEF ExactOK
  <2> QED BY <2>2 DEF Readable, Parses
<1>8. chain'.seq = Len(Log) /\ (Log = <<>> => chain'.head = 0)
  <2>1. CASE /\ \A i \in Offset(active) + 1 .. Len(active) : ~Parses(active, i)
             /\ Reconstruct(active, "ok") = [seq |-> anchor.seq, head |-> anchor.head]
    <3>1. anchor.bytes = Len(active)
      <4>1. CASE anchor.bytes < Len(active)
        <5>1. Len(active) \in Offset(active) + 1 .. Len(active) /\ Len(active) \in 1 .. Len(active)
          BY <1>4, <1>5, <1>6, <4>1
        <5> QED BY <1>7, <2>1, <5>1
      <4> QED BY <1>4, <1>5, <4>1
    <3>2. chain'.seq = anchor.seq /\ chain'.head = anchor.head
      BY <1>1, <2>1
    <3> QED BY <1>0, <1>2, <3>1, <3>2 DEF ExactOK, Pending
  <2>2. ASSUME NEW l \in Offset(active) + 1 .. Len(active),
               \A i \in l + 1 .. Len(active) : ~Parses(active, i),
               Reconstruct(active, "ok") = [seq |-> active[l].seq + 1, head |-> active[l].hash]
        PROVE  chain'.seq = Len(Log) /\ (Log = <<>> => chain'.head = 0)
    <3>1. l = Len(active)
      <4>1. CASE l < Len(active)
        <5>1. Len(active) \in l + 1 .. Len(active) /\ Len(active) \in 1 .. Len(active)
          BY <1>4, <1>5, <1>6, <4>1
        <5> QED BY <1>7, <2>2, <5>1
      <4> QED BY <1>4, <1>5, <1>6, <4>1
    <3>2. l \in 1 .. Len(active)
      BY <1>4, <1>5, <1>6
    <3>3. active[l].seq = Len(rotated) + Len(active) - 1
      BY <1>7, <3>1, <3>2
    <3>4. Len(Log) > 0
      BY <1>4, <3>2
    <3>5. Log # <<>>
      BY <3>4
    <3>6. chain'.seq = active[l].seq + 1
      BY <1>1, <2>2
    <3> QED BY <1>4, <3>3, <3>5, <3>6
  <2> QED BY <1>4, <2>1, <2>2, ReconstructFacts
<1>9. ExactOK'
  BY <1>a, <1>0, <1>1, <1>2, <1>3, <1>8 DEF ExactOK, Pending
<1>10. PointsOK'
  BY <1>a, <1>1, <1>2, <1>3 DEF PointsOK
<1> QED BY <1>9, <1>10

\* The empty log is exact.
LEMMA ExactInit ==
  Init => ExactInv
<1> SUFFICES ASSUME Init PROVE ExactOK /\ PointsOK
  BY DEF ExactInv
<1>1. Log = <<>> /\ Len(Log) = 0
  BY DEF Init, Log
<1> HIDE DEF Log
<1>2. ExactOK
  BY <1>1 DEF Init, ExactOK, Waiting, Pending, Genesis
<1>3. PointsOK
  BY <1>1 DEF Init, PointsOK, Waiting
<1> QED BY <1>2, <1>3

\* Every step keeps the numbers exact and the checkpoints bound.
LEMMA ExactNext ==
  TInv /\ SeqInv /\ ExactInv /\ [Next]_vars => ExactInv'
<1> SUFFICES ASSUME TInv, SeqInv, ExactInv, [Next]_vars PROVE ExactInv'
  OBVIOUS
<1>w. writer.then \notin {"rotate_anchor", "write"} /\ mem \in MemType
  BY WriterFacts, MadeOf
<1>1. CASE Emit \/ TimerTick \/ Shutdown \/ UNCHANGED vars
  <2>1. UNCHANGED <<fault, chain, active, rotated, anchor, points, mem, writer>>
    BY <1>1 DEF Emit, EmitAuth, EmitData, EmitDataSend, TimerTick, Shutdown, ServiceDropped,
                RequestFlush, BeginJoin, Joined, DeadlineExpires, RuntimeDropsTimer,
                Coordinator, vars, process, state, disk
  <2> QED BY <2>1, ExactQuiet
<1>2. CASE TakeRecord \/ TakeCheckpoint \/ TakeFlush \/ DrainEnds \/ ChannelCloses \/ Seal \/ Ack
  <2>1. UNCHANGED <<fault, chain, active, rotated, anchor, points>> /\ mem'.since = mem.since
    BY <1>2, <1>w DEF TakeRecord, TakeCheckpoint, TakeFlush, DrainEnds, ChannelCloses,
          BeginFlush, Seal, Ack, process, disk, MemType
  <2>2. \/ writer' = writer /\ mem' = mem
        \/ /\ writer.pc \notin {"rotate_anchor", "write"}
           /\ writer'.pc \notin {"rotate_anchor", "write"}
           /\ writer'.pc = "cp_line" => mem.since > 0
    <3>1. CASE TakeRecord
      BY <3>1, TakeRecordForm DEF Made
    <3>2. CASE TakeCheckpoint
      BY <3>2, TakeCheckpointForm DEF Made, TakeCheckpoint
    <3>3. CASE TakeFlush
      BY <3>3, TakeFlushForm DEF Made
    <3>4. CASE DrainEnds \/ ChannelCloses
      <4>1. PICK c \in BOOLEAN : BeginFlush(c)
        BY <3>4 DEF DrainEnds, ChannelCloses
      <4>2. writer'.pc \notin {"rotate_anchor", "write", "cp_line"}
        BY <4>1, BeginFlushForm DEF Made
      <4> QED BY <3>4, <4>2 DEF DrainEnds, ChannelCloses, At
    <3>5. CASE Seal
      BY <3>5, SealForm DEF Made
    <3>6. CASE Ack
      BY <3>6, AnswerForm DEF Made, Ack, At
    <3> QED BY <1>2, <3>1, <3>2, <3>3, <3>4, <3>5, <3>6
  <2> QED BY <2>1, <2>2, ExactQuiet
<1>3. CASE Write \/ WriteRotated
  BY <1>3, WriteExact
<1>4. CASE RotateRename
  BY <1>4, RotateRenameExact
<1>5. CASE RotateAnchor \/ CpAnchor
  BY <1>5, AnchorExact
<1>6. CASE CpLine
  BY <1>6, CpLineExact
<1>7. CASE WriteFails \/ CheckpointFails
  BY <1>7 DEF WriteFails, CheckpointFails, ExactInv, process
<1>8. CASE Restart
  BY <1>8, RestartExact
<1> QED BY <1>1, <1>2, <1>3, <1>4, <1>5, <1>6, <1>7, <1>8 DEF Next, WriterStep

\* While nothing fails but processes between two effects outside a rotation, the
\* log is one chain at every moment, over any number of processes and rotated
\* files, and every signed checkpoint is bound to the record it names.
THEOREM OneChain == Spec => []VerifierAccepts
<1>1. Init => TInv /\ ReserveOK /\ SeqInv /\ ExactInv
  BY TypesInit, SeqInit, ExactInit
<1>2. TInv /\ ReserveOK /\ SeqInv /\ ExactInv /\ [Next]_vars
        => (TInv /\ ReserveOK /\ SeqInv /\ ExactInv)'
  BY TypesNext, SeqNext, ExactNext
<1>3. TInv /\ ReserveOK /\ SeqInv /\ ExactInv => VerifierAccepts
  <2> SUFFICES ASSUME TInv, SeqInv, ExactInv, fault = "none"
               PROVE  ChainOk(Log) /\ CheckpointsBind(Log)
    BY DEF VerifierAccepts
  <2>1. AscentOK /\ ExactOK /\ PointsOK
    BY DEF SeqInv, Resumable, ExactInv
  <2>2. Len(Log) \in Nat
    BY LogFacts
  <2> HIDE DEF Log
  <2>3. ChainOk(Log)
    <3> SUFFICES ASSUME NEW i \in 1 .. Len(Log) - 1 PROVE Follows(Log, i)
      BY DEF ChainOk
    <3>1. i \in 1 .. Len(Log) /\ i + 1 \in 1 .. Len(Log) /\ i < i + 1 /\ (i + 1) - 1 = (i - 1) + 1
      BY <2>2
    <3>2. /\ Readable(Log[i]) /\ Log[i].seq = i - 1
          /\ Log[i + 1] # Torn /\ Log[i + 1].seq = (i + 1) - 1
      BY <2>1, <3>1 DEF ExactOK, Readable
    <3>3. Log[i + 1].seq = Log[i].seq + 1
      BY <3>1, <3>2
    <3> QED BY <2>1, <3>1, <3>2, <3>3 DEF AscentOK, Follows
  <2>4. CheckpointsBind(Log)
    <3> SUFFICES ASSUME NEW p \in points
                 PROVE  \E i \in 1 .. Len(Log) : Log[i].seq = p.seq /\ Log[i].hash = p.head
      BY DEF CheckpointsBind
    <3>1. p.seq + 1 \in 1 .. Len(Log) /\ Log[p.seq + 1].hash = p.head
      BY <2>1 DEF PointsOK
    <3>2. p.seq \in Nat
      BY WriterFacts DEF TipType
    <3>3. Log[p.seq + 1].seq = p.seq
      BY <2>1, <3>1, <3>2 DEF ExactOK
    <3> QED BY <3>1, <3>3
  <2> QED BY <2>3, <2>4
<1> QED BY <1>1, <1>2, <1>3, PTL DEF Spec

-----------------------------------------------------------------------------
(* The sealed end *)

\* The size of an interval from 1.
LEMMA UpTo ==
  ASSUME NEW c \in Nat
  PROVE  IsFiniteSet(1 .. c) /\ Cardinality(1 .. c) = c
<1>1. IsFiniteSet(1 .. c) /\ Cardinality(1 .. c) = IF 1 > c THEN 0 ELSE c - 1 + 1
  BY FS_Interval
<1> QED BY <1>1

\* A line more raises the tally by the drops it tells.
LEMMA TallyPut ==
  ASSUME NEW s, NEW r, NEW b \in Nat, Len(s) \in Nat, b <= Len(s), Len(r) = Len(s) + 1,
         \A i \in 1 .. Len(s) : r[i] = s[i],
         NEW n \in Nat, Tally(s, b, n), Told(r[Len(s) + 1]) \in Nat
  PROVE  Tally(r, b, n + Told(r[Len(s) + 1]))
<1> DEFINE l == Len(s) + 1
           D == DropsTold(s, b + 1)
           E == DropsTold(r, b + 1)
<1>1. IsFiniteSet(D) /\ Cardinality(D) = n
  BY DEF Tally, DroppedSince
<1>2. \A j : j \in b + 1 .. Len(s) => r[j] = s[j] /\ j \in b + 1 .. Len(r) /\ j # l
  OBVIOUS
<1>3. \A j : j \in b + 1 .. Len(r) <=> j \in b + 1 .. Len(s) \/ j = l
  OBVIOUS
<1>4. \A d : d \in D <=> \E j \in b + 1 .. Len(s) : s[j].id = 0 /\ d \in {j} \X (1 .. s[j].count)
  BY DEF DropsTold
<1>5. \A d : d \in E <=> \E j \in b + 1 .. Len(r) : r[j].id = 0 /\ d \in {j} \X (1 .. r[j].count)
  BY DEF DropsTold
<1> HIDE DEF l, D, E
<1>d. \A d \in D : d \in E
  <2> SUFFICES ASSUME NEW d \in D PROVE d \in E
    OBVIOUS
  <2>1. PICK j \in b + 1 .. Len(s) : s[j].id = 0 /\ d \in {j} \X (1 .. s[j].count)
    BY <1>4
  <2>2. j \in b + 1 .. Len(r) /\ r[j].id = 0 /\ d \in {j} \X (1 .. r[j].count)
    BY <1>2, <2>1
  <2> QED BY <1>5, <2>2
<1>e. \A d \in E : d \in D \/ (r[l].id = 0 /\ d \in {l} \X (1 .. r[l].count))
  <2> SUFFICES ASSUME NEW d \in E, d \notin D
               PROVE  r[l].id = 0 /\ d \in {l} \X (1 .. r[l].count)
    OBVIOUS
  <2>1. PICK j \in b + 1 .. Len(r) : r[j].id = 0 /\ d \in {j} \X (1 .. r[j].count)
    BY <1>5
  <2>2. CASE j = l
    BY <2>1, <2>2
  <2>3. CASE j # l
    <3>1. j \in b + 1 .. Len(s) /\ r[j] = s[j]
      BY <1>2, <1>3, <2>3
    <3> QED BY <1>4, <2>1, <3>1
  <2> QED BY <2>2, <2>3
<1>6. CASE r[l].id = 0
  <2> DEFINE F == {l} \X (1 .. r[l].count)
  <2>1. r[l].count \in Nat /\ Told(r[l]) = r[l].count
    BY <1>6 DEF Told, l
  <2>2. IsFiniteSet(F) /\ Cardinality(F) = r[l].count
    <3>1. IsFiniteSet({l}) /\ Cardinality({l}) = 1
      BY FS_Singleton
    <3>2. IsFiniteSet(1 .. r[l].count) /\ Cardinality(1 .. r[l].count) = r[l].count
      BY <2>1, UpTo
    <3>3. IsFiniteSet(F) /\ Cardinality(F) = Cardinality({l}) * Cardinality(1 .. r[l].count)
      BY <3>1, <3>2, FS_Product
    <3> QED BY <2>1, <3>1, <3>2, <3>3
  <2>3. E = D \cup F
    <3>1. l \in b + 1 .. Len(r)
      BY DEF l
    <3>2. \A d \in F : d \in E
      BY <1>5, <1>6, <3>1
    <3> HIDE DEF F
    <3>3. \A d \in E : d \in D \/ d \in F
      BY <1>e DEF F
    <3> QED BY <1>d, <3>2, <3>3
  <2>4. D \cap F = {}
    <3> SUFFICES ASSUME NEW d \in D, d \in F PROVE FALSE
      OBVIOUS
    <3>1. d[1] = l
      OBVIOUS
    <3>2. PICK j \in b + 1 .. Len(s) : d \in {j} \X (1 .. s[j].count)
      BY <1>4
    <3>3. d[1] = j
      BY <3>2
    <3> QED BY <1>2, <3>1, <3>3
  <2> HIDE DEF F
  <2>5. /\ IsFiniteSet(D \cup F)
        /\ Cardinality(D \cup F) = Cardinality(D) + Cardinality(F) - Cardinality(D \cap F)
    BY <1>1, <2>2, FS_Union
  <2>6. Cardinality(D \cap F) = 0
    BY <2>4, FS_EmptySet
  <2>7. IsFiniteSet(E) /\ Cardinality(E) = n + Told(r[l])
    BY <1>1, <2>1, <2>2, <2>3, <2>5, <2>6
  <2> QED BY <2>7 DEF Tally, DroppedSince, E, l
<1>7. CASE r[l].id # 0
  <2>1. E = D
    BY <1>d, <1>e, <1>7
  <2>2. Told(r[l]) = 0
    BY <1>7 DEF Told
  <2>3. IsFiniteSet(E) /\ Cardinality(E) = n + Told(r[l])
    BY <1>1, <2>1, <2>2
  <2> QED BY <2>3 DEF Tally, DroppedSince, E, l
<1> QED BY <1>6, <1>7

\* A process that has just begun has told nothing.
LEMMA TallyNone ==
  ASSUME NEW s, Len(s) \in Nat
  PROVE  Tally(s, Len(s), 0)
<1>1. Len(s) + 1 .. Len(s) = {}
  OBVIOUS
<1>2. DropsTold(s, Len(s) + 1) = {}
  BY <1>1 DEF DropsTold
<1> QED BY <1>2, FS_EmptySet DEF Tally, DroppedSince

\* What a record in the writer's hands tells is a number.
LEMMA ToldType ==
  ASSUME TInv
  PROVE  /\ \A i \in 1 .. Len(writer.work) : Told(writer.work[i]) \in Nat
         /\ InHand(writer.work) \in Nat
         /\ Len(writer.work) \in Nat /\ writer.work \in Seq(Written(emits))
<1>1. writer.work \in Seq(Written(emits)) /\ emits \in Nat
  BY WriterFacts, MadeOf
<1>2. \A x \in Written(emits) : Told(x) \in Nat
  BY <1>1 DEF Written, Told
<1> HIDE DEF Written, Told
<1>3. \A i \in 1 .. Len(writer.work) : Told(writer.work[i]) \in Nat
  BY <1>1, <1>2
<1>4. InHand(writer.work) \in Nat
  BY <1>1, <1>3 DEF InHand
<1> QED BY <1>1, <1>3, <1>4

\* The drops not yet told go in front, so the writer's hands hold all of them.
LEMMA WithGapTold ==
  ASSUME TInv, NEW work \in Seq(Written(emits)),
         \A i \in 1 .. Len(work) : Told(work[i]) = 0
  PROVE  /\ \A i \in 2 .. Len(WithGap(work)) : Told(WithGap(work)[i]) = 0
         /\ dropped = mem.seen + InHand(WithGap(work))
<1>0. dropped \in Nat /\ mem.seen \in Nat /\ mem.seen <= dropped /\ Len(work) \in Nat
  BY WriterFacts DEF MemType
<1>1. CASE dropped > mem.seen
  <2> DEFINE x == Entry(0, dropped - mem.seen)
  <2>1. x \in Written(emits) /\ Told(x) = dropped - mem.seen
    BY <1>1, WriterFacts DEF Entry, Written, MemType, Told
  <2>2. WithGap(work) = <<x>> \o work
    BY <1>1 DEF WithGap
  <2> HIDE DEF x, Written, Told
  <2>3. <<x>> \in Seq(Written(emits)) /\ Len(<<x>>) = 1 /\ <<x>>[1] = x
    BY <2>1
  <2>4. /\ Len(<<x>> \o work) = 1 + Len(work) /\ (<<x>> \o work)[1] = x
        /\ \A i \in 1 .. Len(work) : (<<x>> \o work)[1 + i] = work[i]
    BY <2>3, ConcatFacts
  <2> DEFINE w == <<x>> \o work
  <2> HIDE DEF w
  <2>5. Len(w) = 1 + Len(work) /\ w[1] = x /\ \A i \in 1 .. Len(work) : w[1 + i] = work[i]
    BY <2>4 DEF w
  <2>6. \A i \in 2 .. Len(w) : Told(w[i]) = 0
    <3> SUFFICES ASSUME NEW i \in 2 .. Len(w) PROVE Told(w[i]) = 0
      OBVIOUS
    <3>1. i - 1 \in 1 .. Len(work) /\ 1 + (i - 1) = i
      BY <1>0, <2>5
    <3> QED BY <2>5, <3>1
  <2>7. w # <<>>
    BY <1>0, <2>5
  <2>8. InHand(w) = dropped - mem.seen
    BY <2>1, <2>5, <2>7 DEF InHand
  <2>9. WithGap(work) = w
    BY <2>2 DEF w
  <2> QED BY <1>0, <2>6, <2>8, <2>9
<1>2. CASE ~(dropped > mem.seen)
  <2>1. WithGap(work) = work /\ dropped = mem.seen
    BY <1>0, <1>2 DEF WithGap
  <2> HIDE DEF Written, Told
  <2>2. InHand(work) = 0
    BY DEF InHand
  <2>3. \A i \in 2 .. Len(work) : Told(work[i]) = 0
    OBVIOUS
  <2> QED BY <1>0, <2>1, <2>2, <2>3
<1> QED BY <1>1, <1>2

\* A step of a handler, the timer or the coordinator.
LEMMA SealSink ==
  ASSUME TInv, SealInv, fault = "none",
         UNCHANGED <<fault, base, writer, mem, active, rotated, anchor>>,
         \A a \in accepted' \ accepted :
           \E i \in 1 .. Len(queue') : queue'[i].id = a /\ queue'[i].kind \in {"data", "auth"},
         \A i \in 1 .. Len(queue) : \E k \in 1 .. Len(queue') : queue'[k] = queue[i],
         phase' # "serving" => checked' = {},
         writer.closing \/ writer.pc = "done" =>
           /\ queue' = queue /\ dropped' = dropped /\ ~timer'
           /\ phase' \in {"join", "failed", "ok"},
         phase' = "ok" => writer.pc = "done"
  PROVE  SealInv'
<1>1. HeldOK /\ EndOK /\ ToldOK
  BY DEF SealInv
<1>2. Log' = Log
  BY DEF Log
<1> HIDE DEF Log
<1>3. HeldOK'
  <2> SUFFICES ASSUME NEW a \in accepted'
               PROVE  \/ \E i \in 1 .. Len(Log) : Log[i].id = a
                      \/ \E i \in 1 .. Len(queue') :
                           queue'[i].id = a /\ queue'[i].kind \in {"data", "auth"}
                      \/ \E i \in 1 .. Len(writer.work) : writer.work[i].id = a
    BY <1>2 DEF HeldOK
  <2>1. CASE a \in accepted
    BY <1>1, <2>1 DEF HeldOK
  <2>2. CASE a \notin accepted
    BY <2>2
  <2> QED BY <2>1, <2>2
<1>4. EndOK'
  BY <1>1 DEF EndOK, Pending
<1>5. ToldOK'
  BY <1>1, <1>2 DEF ToldOK
<1> QED BY <1>3, <1>4, <1>5 DEF SealInv

\* A message behind the others.
LEMMA SentFacts ==
  ASSUME TInv, NEW m, m.kind \in Message, queue' = Append(queue, m), NEW n \in Nat,
         m \in Queued(n), emits <= n
  PROVE  /\ \A i \in 1 .. Len(queue) : \E k \in 1 .. Len(queue') : queue'[k] = queue[i]
         /\ \E k \in 1 .. Len(queue') : queue'[k] = m
<1>1. queue \in Seq(Queued(emits)) /\ emits \in Nat
  BY WriterFacts DEF TInv, TypeOK, Queued
<1>2. Queued(emits) \subseteq Queued(n)
  BY <1>1 DEF Queued
<1>3. queue \in Seq(Queued(n))
  BY <1>1, <1>2, SeqGrows
<1> HIDE DEF Queued
<1>4. /\ Len(queue') = Len(queue) + 1 /\ Len(queue) \in Nat
      /\ \A i \in 1 .. Len(queue) : queue'[i] = queue[i]
      /\ queue'[Len(queue) + 1] = m
  BY <1>3, AppendFacts
<1>5. \A i \in 1 .. Len(queue) : i \in 1 .. Len(queue')
  BY <1>4
<1>6. Len(queue) + 1 \in 1 .. Len(queue')
  BY <1>4
<1> QED BY <1>4, <1>5, <1>6

\* The handlers, the timer and the coordinator lose no record and no drop.
LEMMA SinkSeal ==
  ASSUME TInv, SealInv, fault = "none", Emit \/ TimerTick \/ Shutdown
  PROVE  SealInv'
<1>0. UNCHANGED <<fault, base, writer, mem, active, rotated, anchor>>
  BY DEF Emit, EmitAuth, EmitData, EmitDataSend, TimerTick, Shutdown, ServiceDropped,
         RequestFlush, BeginJoin, Joined, DeadlineExpires, RuntimeDropsTimer,
         Coordinator, process, state, disk
<1>1. EndOK
  BY DEF SealInv
<1>2. emits \in Nat
  BY WriterFacts
<1>3. CASE \E e \in Emitters : EmitData(e)
  <2>1. queue' = queue /\ accepted' = accepted /\ phase = "serving" /\ phase' = phase
    BY <1>3 DEF EmitData
  <2>2. ~(writer.closing \/ writer.pc = "done")
    BY <1>1, <2>1 DEF EndOK
  <2> QED BY <1>0, <2>1, <2>2, SealSink
<1>4. CASE \E e \in Emitters : EmitDataSend(e)
  <2>1. PICK e \in Emitters : EmitDataSend(e)
    BY <1>4
  <2>2. phase = "serving" /\ phase' = phase
    BY <1>1, <2>1 DEF EndOK, EmitDataSend
  <2>3. ~(writer.closing \/ writer.pc = "done")
    BY <1>1, <2>2 DEF EndOK
  <2> DEFINE m == [kind |-> "data", id |-> emits + 1]
  <2>4. /\ m \in Queued(emits + 1) /\ m.kind \in Message \cap {"data", "auth"}
        /\ m.id = emits + 1 /\ emits <= emits + 1
    BY <1>2 DEF Queued, Message
  <2>5. CASE queue' = queue /\ accepted' = accepted
    BY <1>0, <2>2, <2>3, <2>5, SealSink
  <2>6. CASE queue' = Append(queue, m) /\ accepted' = accepted \cup {emits + 1}
    <3> HIDE DEF m
    <3>1. /\ \A i \in 1 .. Len(queue) : \E k \in 1 .. Len(queue') : queue'[k] = queue[i]
          /\ \E k \in 1 .. Len(queue') : queue'[k] = m
      BY <1>2, <2>4, <2>6, SentFacts
    <3>2. \A a \in accepted' \ accepted :
            \E i \in 1 .. Len(queue') : queue'[i].id = a /\ queue'[i].kind \in {"data", "auth"}
      BY <2>4, <2>6, <3>1
    <3> QED BY <1>0, <2>2, <2>3, <3>1, <3>2, SealSink
  <2> QED BY <2>1, <2>5, <2>6 DEF EmitDataSend, Send
<1>5. CASE EmitAuth
  <2>1. phase = "serving" /\ phase' = phase
    BY <1>5 DEF EmitAuth
  <2>2. ~(writer.closing \/ writer.pc = "done")
    BY <1>1, <2>1 DEF EndOK
  <2> DEFINE m == [kind |-> "auth", id |-> emits + 1]
  <2>3. /\ m \in Queued(emits + 1) /\ m.kind \in Message \cap {"data", "auth"}
        /\ m.id = emits + 1 /\ emits <= emits + 1
    BY <1>2 DEF Queued, Message
  <2>4. queue' = Append(queue, m) /\ accepted' = accepted \cup {emits + 1}
    BY <1>5 DEF EmitAuth, Send
  <2> HIDE DEF m
  <2>5. /\ \A i \in 1 .. Len(queue) : \E k \in 1 .. Len(queue') : queue'[k] = queue[i]
        /\ \E k \in 1 .. Len(queue') : queue'[k] = m
    BY <1>2, <2>3, <2>4, SentFacts
  <2>6. \A a \in accepted' \ accepted :
          \E i \in 1 .. Len(queue') : queue'[i].id = a /\ queue'[i].kind \in {"data", "auth"}
    BY <2>3, <2>4, <2>5
  <2> QED BY <1>0, <2>1, <2>2, <2>5, <2>6, SealSink
<1>6. CASE TimerTick \/ RequestFlush
  <2>1. PICK k \in {"flush", "checkpoint"} : Send(k, 0)
    BY <1>6 DEF TimerTick, RequestFlush
  <2> DEFINE m == [kind |-> k, id |-> 0]
  <2>2. m \in Queued(emits) /\ m.kind \in Message /\ emits <= emits
    BY <1>2 DEF Queued, Message
  <2>3. queue' = Append(queue, m) /\ accepted' = accepted /\ checked' = checked
    BY <1>6, <2>1 DEF TimerTick, RequestFlush, Send, Coordinator
  <2> HIDE DEF m
  <2>4. \A i \in 1 .. Len(queue) : \E j \in 1 .. Len(queue') : queue'[j] = queue[i]
    BY <1>2, <2>2, <2>3, SentFacts
  <2>5. ~(writer.closing \/ writer.pc = "done")
    BY <1>1, <1>6 DEF EndOK, TimerTick, RequestFlush
  <2>6. /\ phase' # "serving" => phase # "serving"
        /\ phase' # "ok" \/ phase = "ok"
    BY <1>6 DEF TimerTick, RequestFlush
  <2> QED BY <1>0, <1>1, <2>3, <2>4, <2>5, <2>6, SealSink DEF EndOK
<1>7. CASE ServiceDropped \/ BeginJoin \/ Joined \/ DeadlineExpires \/ RuntimeDropsTimer
  <2>1. queue' = queue /\ accepted' = accepted /\ dropped' = dropped /\ checked' = checked
    BY <1>7 DEF ServiceDropped, BeginJoin, Joined, DeadlineExpires, RuntimeDropsTimer,
                Coordinator
  <2>2. phase' # "serving" => checked' = {}
    BY <1>1, <1>7, <2>1 DEF EndOK, ServiceDropped, BeginJoin, Joined, DeadlineExpires,
                       RuntimeDropsTimer
  <2>3. phase' = "ok" => writer.pc = "done"
    BY <1>1, <1>7 DEF EndOK, ServiceDropped, BeginJoin, ReleaseSenders, Joined,
                      DeadlineExpires, RuntimeDropsTimer, At
  <2>4. writer.closing \/ writer.pc = "done" => ~timer' /\ phase' \in {"join", "failed", "ok"}
    BY <1>1, <1>7 DEF EndOK, ServiceDropped, BeginJoin, ReleaseSenders, Joined,
                      DeadlineExpires, RuntimeDropsTimer
  <2> QED BY <1>0, <2>1, <2>2, <2>3, <2>4, SealSink
<1> QED BY <1>3, <1>4, <1>5, <1>6, <1>7 DEF Emit, Shutdown

\* A step that moves no record.
LEMMA HeldKept ==
  ASSUME HeldOK, Log' = Log, accepted' = accepted, queue' = queue,
         writer'.work = writer.work
  PROVE  HeldOK'
<1> HIDE DEF Log
<1> QED BY DEF HeldOK

\* The writer takes a message: a record goes to its hands.
LEMMA HeldTaken ==
  ASSUME TInv, HeldOK, Log' = Log, accepted' = accepted, queue # <<>>, queue' = Tail(queue),
         \A i \in 1 .. Len(writer.work) :
           \E k \in 1 .. Len(writer'.work) : writer'.work[k].id = writer.work[i].id,
         Head(queue).kind \in {"data", "auth"} =>
           \E k \in 1 .. Len(writer'.work) : writer'.work[k].id = Head(queue).id
  PROVE  HeldOK'
<1>1. queue \in Seq(Queued(emits))
  BY DEF TInv, TypeOK, Queued
<1> HIDE DEF Queued, Log
<1>2. /\ Len(queue) \in Nat \ {0} /\ Len(queue') = Len(queue) - 1
      /\ \A i \in 1 .. Len(queue) - 1 : queue'[i] = queue[i + 1]
      /\ Head(queue) = queue[1]
  BY <1>1, TailFacts
<1>3. \A i \in 1 .. Len(queue) : i = 1 \/ \E k \in 1 .. Len(queue') : queue'[k] = queue[i]
  <2> SUFFICES ASSUME NEW i \in 1 .. Len(queue), i # 1
               PROVE  \E k \in 1 .. Len(queue') : queue'[k] = queue[i]
    OBVIOUS
  <2>1. i - 1 \in 1 .. Len(queue') /\ i - 1 \in 1 .. Len(queue) - 1 /\ (i - 1) + 1 = i
    BY <1>2
  <2> QED BY <1>2, <2>1
<1> SUFFICES ASSUME NEW a \in accepted
             PROVE  \/ \E i \in 1 .. Len(Log) : Log[i].id = a
                    \/ \E i \in 1 .. Len(queue') :
                         queue'[i].id = a /\ queue'[i].kind \in {"data", "auth"}
                    \/ \E i \in 1 .. Len(writer'.work) : writer'.work[i].id = a
  BY DEF HeldOK
<1>4. CASE \E i \in 1 .. Len(queue) : queue[i].id = a /\ queue[i].kind \in {"data", "auth"}
  BY <1>2, <1>3, <1>4
<1>5. CASE \E i \in 1 .. Len(writer.work) : writer.work[i].id = a
  BY <1>5
<1> QED BY <1>4, <1>5 DEF HeldOK

\* A step that tells nothing.
LEMMA ToldKept ==
  ASSUME ToldOK, Log' = Log, base' = base, writer'.work = writer.work, mem'.seen = mem.seen
  PROVE  ToldOK'
<1> HIDE DEF Log
<1> QED BY DEF ToldOK

\* The writer takes up what it is to write, and the drops in front of it.
LEMMA ToldTaken ==
  ASSUME TInv, ToldOK, Log' = Log, base' = base, writer.work = <<>>,
         NEW work \in Seq(Written(emits)), \A i \in 1 .. Len(work) : Told(work[i]) = 0,
         writer'.work = WithGap(work), mem'.seen = dropped
  PROVE  ToldOK'
<1>1. /\ \A i \in 2 .. Len(WithGap(work)) : Told(WithGap(work)[i]) = 0
      /\ dropped = mem.seen + InHand(WithGap(work))
  BY WithGapTold
<1> HIDE DEF Log, Written, Told
<1>2. PICK n \in Nat : Tally(Log, base, n) /\ mem.seen = n + InHand(writer.work)
  BY DEF ToldOK
<1>3. mem.seen = n
  BY <1>2 DEF InHand
<1> QED BY <1>1, <1>2, <1>3 DEF ToldOK

\* A record taken is in the writer's hands, the drops in front of it.
LEMMA TakeSeal ==
  ASSUME TInv, SealInv, fault = "none", TakeRecord \/ TakeCheckpoint \/ TakeFlush
  PROVE  SealInv'
<1>1. HeldOK /\ EndOK /\ ToldOK
  BY DEF SealInv
<1>2. /\ UNCHANGED <<fault, base, accepted, checked, dropped, timer, active, rotated, anchor,
                    phase>>
      /\ queue # <<>> /\ queue' = Tail(queue) /\ writer.pc \in {"recv", "drain"}
  BY DEF TakeRecord, TakeCheckpoint, TakeFlush, Dequeue, process, disk, At
<1>3. Log' = Log
  BY <1>2 DEF Log
<1> HIDE DEF Log
<1>4. writer.work = <<>> /\ ~writer.closing /\ writer.then # "ack" /\ Len(writer.work) = 0
  BY <1>1, <1>2 DEF EndOK
<1>5. phase' # "ok"
  BY <1>1, <1>2 DEF EndOK
<1>6. CASE TakeRecord
  <2> DEFINE e == <<Entry(Head(queue).id, 0)>>
  <2>1. /\ writer' = Made("raw", WithGap(e), writer.line, writer.pc, writer.closing)
        /\ e \in Seq(Written(emits)) /\ mem' = [mem EXCEPT !.seen = dropped]
    BY <1>6, TakeRecordForm
  <2>2. /\ writer'.pc = "raw" /\ writer'.work = WithGap(e) /\ writer'.then = writer.pc
        /\ writer'.closing = writer.closing
    BY <2>1 DEF Made
  <2>3. mem'.seen = dropped
    BY <2>1, WriterFacts DEF MemType
  <2>4. \A i \in 1 .. Len(e) : Told(e[i]) = 0
    BY DEF Told, Entry
  <2>5. Len(e) = 1 /\ e[1].id = Head(queue).id
    BY DEF Entry
  <2> HIDE DEF e
  <2>6. \E k \in 1 .. Len(writer'.work) : writer'.work[k].id = Head(queue).id
    <3>1. 1 \in 1 .. Len(e)
      BY <2>5
    <3>2. \E k \in 1 .. Len(WithGap(e)) : WithGap(e)[k] = e[1]
      BY <2>1, <3>1, WithGapFacts
    <3> QED BY <2>2, <2>5, <3>2
  <2>7. HeldOK'
    BY <1>1, <1>2, <1>3, <1>4, <2>6, HeldTaken
  <2>8. ToldOK'
    BY <1>1, <1>2, <1>3, <1>4, <2>1, <2>2, <2>3, <2>4, ToldTaken
  <2>9. EndOK'
    BY <1>1, <1>2, <1>4, <1>5, <2>2 DEF EndOK, Pending
  <2> QED BY <2>7, <2>8, <2>9 DEF SealInv
<1>7. CASE TakeCheckpoint \/ TakeFlush
  <2>1. /\ writer'.work = writer.work /\ writer'.closing = writer.closing
        /\ \/ writer'.pc \in {"cp_line", "drain"} /\ writer'.then \in {"recv", writer.then}
           \/ writer' = writer
    BY <1>7, TakeCheckpointForm, TakeFlushForm DEF Made
  <2>2. mem' = mem /\ Head(queue).kind \notin {"data", "auth"}
    BY <1>7 DEF TakeCheckpoint, TakeFlush
  <2>3. HeldOK'
    BY <1>1, <1>2, <1>3, <1>4, <2>1, <2>2, HeldTaken
  <2>4. ToldOK'
    BY <1>1, <1>2, <1>3, <2>1, <2>2, ToldKept
  <2>5. EndOK'
    BY <1>1, <1>2, <1>4, <1>5, <2>1 DEF EndOK, Pending
  <2> QED BY <2>3, <2>4, <2>5 DEF SealInv
<1> QED BY <1>6, <1>7

\* A flush takes up the drops that no record has followed.
LEMMA FlushSeal ==
  ASSUME TInv, SealInv, fault = "none", DrainEnds \/ ChannelCloses
  PROVE  SealInv'
<1>1. HeldOK /\ EndOK /\ ToldOK
  BY DEF SealInv
<1>2. PICK c \in BOOLEAN : BeginFlush(c) /\ (c => SendersGone)
  BY DEF DrainEnds, ChannelCloses
<1>3. /\ UNCHANGED <<fault, base, sink, active, rotated, anchor, phase>>
      /\ queue = <<>> /\ writer.pc \in {"recv", "drain"}
  BY <1>2 DEF BeginFlush, DrainEnds, ChannelCloses, process, disk, At
<1>4. Log' = Log
  BY <1>3 DEF Log
<1> HIDE DEF Log
<1>5. writer.work = <<>> /\ phase' # "ok"
  BY <1>1, <1>3 DEF EndOK
<1>6. /\ writer' = Made(IF FlushWork = <<>> THEN "seal" ELSE "raw", FlushWork,
                        writer.line, "seal", c)
      /\ mem' = [mem EXCEPT !.seen = dropped]
  BY <1>2, BeginFlushForm
<1>7. /\ writer'.pc \in {"seal", "raw"} /\ (writer'.pc = "seal" => FlushWork = <<>>)
      /\ writer'.work = FlushWork /\ writer'.then = "seal" /\ writer'.closing = c
  BY <1>6 DEF Made
<1>8. mem'.seen = dropped
  BY <1>6, WriterFacts DEF MemType
<1>9. HeldOK'
  <2>1. Len(queue) = 0 /\ Len(writer.work) = 0
    BY <1>3, <1>5
  <2> QED BY <1>1, <1>3, <1>4, <2>1 DEF HeldOK, sink
<1>10. ToldOK'
  <2>1. <<>> \in Seq(Written(emits)) /\ \A i \in 1 .. Len(<<>>) : Told(<<>>[i]) = 0
    OBVIOUS
  <2> QED BY <1>1, <1>3, <1>4, <1>5, <1>7, <1>8, <2>1, ToldTaken DEF FlushWork
<1>11. EndOK'
  <2>1. c => ~timer /\ phase \in {"join", "failed", "ok"}
    BY <1>2 DEF SendersGone
  <2> QED BY <1>1, <1>3, <1>5, <1>7, <1>8, <2>1 DEF EndOK, Pending, sink
<1> QED BY <1>9, <1>10, <1>11 DEF SealInv

\* A line goes into the file: the record it is made of leaves the writer's hands.
LEMMA SealPut ==
  ASSUME TInv, SealInv, fault = "none", NEW line \in Line, Put(line),
         line.id = Head(writer.work).id, line.count = Head(writer.work).count,
         writer.pc \in {"raw", "write"},
         UNCHANGED <<process, sink, rotated, anchor, phase>>
  PROVE  SealInv'
<1>1. HeldOK /\ EndOK /\ ToldOK
  BY DEF SealInv
<1>2. /\ writer.work # <<>> /\ writer.work \in Seq(Written(emits))
      /\ writer.then \in {"recv", "drain", "seal", "ack"}
  BY WriterFacts, MadeOf DEF TInv, PathOK
<1>3. writer.then # "ack"
  BY <1>1 DEF EndOK
<1>4. /\ writer' = Made(IF mem.since + 1 >= CheckpointInterval THEN "cp_line"
                        ELSE IF Tail(writer.work) # <<>> THEN "raw" ELSE writer.then,
                        Tail(writer.work), Torn, writer.then, writer.closing)
      /\ active' = Append(active, line)
      /\ mem' = [mem EXCEPT !.bytes = mem.bytes + 1, !.since = mem.since + 1]
  BY PutForm
<1>5. /\ writer'.work = Tail(writer.work) /\ writer'.then = writer.then
      /\ writer'.closing = writer.closing
      /\ writer'.pc \in {"cp_line", "raw", writer.then}
      /\ writer'.pc \in {"cp_line", "raw"} \/ Tail(writer.work) = <<>>
  BY <1>4 DEF Made
<1>6. mem'.seen = mem.seen
  BY <1>4, WriterFacts DEF MemType
<1>7. /\ Len(Log') = Len(Log) + 1 /\ Len(Log) \in Nat
      /\ \A i \in 1 .. Len(Log) : Log'[i] = Log[i]
      /\ Log'[Len(Log) + 1] = line
  BY <1>4, LogPut, LogFacts
<1> DEFINE w == writer.work
<1>8. Told(line) = Told(w[1]) /\ Told(w[1]) \in Nat /\ line.id = w[1].id
  <2>1. Head(w) = w[1] /\ 1 \in 1 .. Len(w)
    BY <1>2
  <2>2. Told(line) = Told(Head(w))
    BY DEF Told
  <2>3. Told(w[1]) \in Nat
    BY <2>1, ToldType
  <2> QED BY <2>1, <2>2, <2>3
<1> HIDE DEF Log, Told, Written
<1>9. /\ Len(w) \in Nat \ {0} /\ Len(Tail(w)) = Len(w) - 1
      /\ \A i \in 1 .. Len(w) - 1 : Tail(w)[i] = w[i + 1]
  BY <1>2, TailFacts
<1>10. HeldOK'
  <2>1. accepted' = accepted /\ queue' = queue
    BY DEF sink
  <2> SUFFICES ASSUME NEW a \in accepted
               PROVE  \/ \E i \in 1 .. Len(Log') : Log'[i].id = a
                      \/ \E i \in 1 .. Len(queue) :
                           queue[i].id = a /\ queue[i].kind \in {"data", "auth"}
                      \/ \E i \in 1 .. Len(Tail(w)) : Tail(w)[i].id = a
    BY <1>5, <2>1 DEF HeldOK
  <2>2. CASE \E i \in 1 .. Len(Log) : Log[i].id = a
    <3>1. PICK i \in 1 .. Len(Log) : Log[i].id = a
      BY <2>2
    <3>2. i \in 1 .. Len(Log') /\ Log'[i].id = a
      BY <1>7, <3>1
    <3> QED BY <3>2
  <2>3. CASE \E i \in 1 .. Len(w) : w[i].id = a
    <3>1. PICK i \in 1 .. Len(w) : w[i].id = a
      BY <2>3
    <3>2. CASE i = 1
      <4>1. Len(Log) + 1 \in 1 .. Len(Log') /\ Log'[Len(Log) + 1].id = a
        BY <1>7, <1>8, <3>1, <3>2
      <4> QED BY <4>1
    <3>3. CASE i # 1
      <4>1. i - 1 \in 1 .. Len(Tail(w)) /\ i - 1 \in 1 .. Len(w) - 1 /\ (i - 1) + 1 = i
        BY <1>9, <3>3
      <4>2. Tail(w)[i - 1].id = a
        BY <1>9, <3>1, <4>1
      <4> QED BY <4>1, <4>2
    <3> QED BY <3>2, <3>3
  <2> QED BY <1>1, <2>2, <2>3 DEF HeldOK
<1>11. EndOK'
  <2>1. phase' # "ok"
    BY <1>1 DEF EndOK
  <2>2. writer'.pc \notin {"done", "ack", "rotate_anchor", "write"}
    BY <1>2, <1>3, <1>5
  <2> QED BY <1>1, <1>3, <1>5, <1>6, <2>1, <2>2 DEF EndOK, Pending, sink
<1>12. ToldOK'
  <2>1. PICK n \in Nat : Tally(Log, base, n) /\ mem.seen = n + InHand(w)
    BY <1>1 DEF ToldOK
  <2>2. InHand(w) = Told(w[1])
    BY <1>2 DEF InHand
  <2>3. base \in Nat /\ base <= Len(Log) /\ base' = base
    BY <1>1, WriterFacts DEF ToldOK, process
  <2>4. Tally(Log', base, n + Told(Log'[Len(Log) + 1]))
    BY <1>7, <1>8, <2>1, <2>3, TallyPut
  <2>5. Tally(Log', base, mem.seen)
    BY <1>7, <1>8, <2>1, <2>2, <2>4
  <2>6. \A i \in 1 .. Len(Tail(w)) : Told(Tail(w)[i]) = 0
    <3> SUFFICES ASSUME NEW i \in 1 .. Len(Tail(w)) PROVE Told(Tail(w)[i]) = 0
      OBVIOUS
    <3>1. i \in 1 .. Len(w) - 1 /\ i + 1 \in 2 .. Len(w)
      BY <1>9
    <3>2. Told(w[i + 1]) = 0
      BY <1>1, <3>1 DEF ToldOK
    <3> QED BY <1>9, <3>1, <3>2
  <2>7. InHand(Tail(w)) = 0
    <3>1. CASE Tail(w) = <<>>
      BY <3>1 DEF InHand
    <3>2. CASE Tail(w) # <<>>
      <4>1. Tail(w) \in Seq(Written(emits))
        BY <1>2, TailFacts
      <4>2. 1 \in 1 .. Len(Tail(w))
        BY <3>2, <4>1
      <4> QED BY <2>6, <3>2, <4>2 DEF InHand
    <3> QED BY <3>1, <3>2
  <2>8. mem.seen \in Nat
    BY WriterFacts DEF MemType
  <2>9. base <= Len(Log') /\ \A i \in 2 .. Len(Tail(w)) : i \in 1 .. Len(Tail(w))
    BY <1>7, <1>9, <2>3
  <2>10. mem.seen = mem.seen + InHand(Tail(w))
    BY <2>7, <2>8
  <2> HIDE DEF w
  <2>11. writer'.work = Tail(w)
    BY <1>5 DEF w
  <2> QED BY <1>6, <2>3, <2>5, <2>6, <2>8, <2>9, <2>10, <2>11 DEF ToldOK
<1> QED BY <1>10, <1>11, <1>12 DEF SealInv

\* A line is the record or the drops that were in the writer's hands.
LEMMA WriteSeal ==
  ASSUME TInv, SealInv, fault = "none", Write \/ WriteRotated
  PROVE  SealInv'
<1>1. CASE Write
  <2>1. writer.pc = "raw" /\ Put(Chained) /\ UNCHANGED <<process, sink, rotated, anchor, phase>>
    BY <1>1 DEF Write, At
  <2>2. writer.work # <<>>
    BY <2>1 DEF TInv, PathOK
  <2> QED BY <2>1, <2>2, ChainedFacts, SealPut
<1>2. CASE WriteRotated
  <2>1. /\ writer.pc = "write" /\ Put(writer.line)
        /\ UNCHANGED <<process, sink, rotated, anchor, phase>>
    BY <1>2 DEF WriteRotated, At
  <2>2. writer.line \in Line
    BY WriterFacts, MadeOf
  <2>3. writer.line.id = Head(writer.work).id /\ writer.line.count = Head(writer.work).count
    BY <2>1 DEF SealInv, EndOK, Pending
  <2> QED BY <2>1, <2>2, <2>3, SealPut
<1> QED BY <1>1, <1>2

\* The steps of the writer between two lines.
LEMMA BetweenSeal ==
  ASSUME TInv, SeqInv, SealInv, fault = "none",
         RotateRename \/ RotateAnchor \/ CpLine \/ CpAnchor \/ Seal
  PROVE  SealInv'
<1>1. HeldOK /\ EndOK /\ ToldOK /\ ExtentOK
  BY DEF SealInv, SeqInv, Resumable
<1>2. UNCHANGED <<fault, base, sink, phase>>
  BY DEF RotateRename, RotateAnchor, CpLine, CpAnchor, Seal, process
<1>3. Log' = Log
  <2>1. CASE RotateRename
    BY <2>1, LogRenamed DEF RotateRename
  <2>2. CASE RotateAnchor \/ CpLine \/ CpAnchor \/ Seal
    BY <2>2 DEF RotateAnchor, CpLine, CpAnchor, Seal, disk, Log
  <2> QED BY <2>1, <2>2
<1> HIDE DEF Log
<1>4. /\ writer'.work = writer.work /\ writer'.closing = writer.closing
      /\ writer.then \in {"recv", "drain", "seal", "ack"}
  BY WriterFacts, MadeOf, RotateRenameForm, RotateAnchorForm, CpLineForm, CpAnchorForm,
     SealForm DEF Made
<1>5. mem'.seen = mem.seen
  BY WriterFacts DEF RotateRename, RotateAnchor, CpLine, CpAnchor, Seal, MemType
<1>6. writer.pc \notin {"done", "recv", "drain"} /\ phase' # "ok"
  BY <1>1, <1>2 DEF RotateRename, RotateAnchor, CpLine, CpAnchor, Seal, At, EndOK
<1>7. HeldOK'
  BY <1>1, <1>2, <1>3, <1>4, HeldKept DEF sink
<1>8. ToldOK'
  BY <1>1, <1>2, <1>3, <1>4, <1>5, ToldKept
<1>9. EndOK'
  <2>1. CASE RotateRename
    <3>1. writer.pc = "raw" /\ writer.work # <<>>
      BY <2>1 DEF RotateRename, At, TInv, PathOK
    <3>2. /\ writer'.pc = "rotate_anchor" /\ writer'.then = writer.then
          /\ writer'.line = [Chained EXCEPT !.glued = FALSE]
      BY <2>1, RotateRenameForm DEF Made
    <3>3. writer'.line.id = Head(writer.work).id /\ writer'.line.count = Head(writer.work).count
      BY <3>1, <3>2, ChainedFacts
    <3> QED BY <1>1, <1>2, <1>4, <1>5, <1>6, <3>1, <3>2, <3>3 DEF EndOK, Pending, sink
  <2>2. CASE RotateAnchor
    <3>1. /\ writer.pc = "rotate_anchor" /\ writer'.pc = "write" /\ writer'.line = writer.line
          /\ writer'.then = writer.then
      BY <2>2, RotateAnchorForm DEF Made, RotateAnchor, At
    <3> QED BY <1>1, <1>2, <1>4, <1>5, <1>6, <3>1 DEF EndOK, Pending, sink
  <2>3. CASE CpLine
    <3>1. writer.pc = "cp_line" /\ writer'.pc = "cp_anchor" /\ writer'.then = writer.then
      BY <2>3, CpLineForm DEF Made, CpLine, At
    <3> QED BY <1>1, <1>2, <1>4, <1>5, <1>6, <3>1 DEF EndOK, Pending, sink
  <2>4. CASE CpAnchor
    <3>1. /\ writer.pc = "cp_anchor" /\ writer'.then = writer.then
          /\ \/ writer'.pc = "raw" /\ writer.work # <<>>
             \/ writer'.pc = writer.then /\ writer.work = <<>>
      BY <2>4, CpAnchorForm DEF Made, CpAnchor, At
    <3>2. anchor'.bytes = Len(active')
      BY <1>1, <2>4 DEF CpAnchor, WriteAnchor, ExtentOK
    <3> QED BY <1>1, <1>2, <1>4, <1>5, <1>6, <3>1, <3>2 DEF EndOK, Pending, sink
  <2>5. CASE Seal
    <3>1. writer.pc = "seal" /\ writer'.pc \in {"cp_line", "cp_anchor"} /\ writer'.then = "ack"
      BY <2>5, SealForm DEF Made, Seal, At
    <3> QED BY <1>1, <1>2, <1>4, <1>5, <1>6, <3>1 DEF EndOK, Pending, sink
  <2> QED BY <2>1, <2>2, <2>3, <2>4, <2>5
<1> QED BY <1>7, <1>8, <1>9 DEF SealInv

\* The writer ends only when the anchor is at the end of the file.
LEMMA AckSeal ==
  ASSUME TInv, SealInv, fault = "none", Ack
  PROVE  SealInv'
<1>1. HeldOK /\ EndOK /\ ToldOK
  BY DEF SealInv
<1>2. /\ UNCHANGED <<fault, base, sink, mem, active, rotated, anchor>> /\ writer.pc = "ack"
      /\ Answer("flushed")
  BY DEF Ack, process, disk, At
<1>3. Log' = Log
  BY <1>2 DEF Log
<1> HIDE DEF Log
<1>4. /\ writer'.pc = (IF writer.closing THEN "done" ELSE "recv") /\ writer'.work = <<>>
      /\ writer'.then = "recv" /\ writer'.closing = FALSE
  BY <1>2, AnswerForm DEF Made
<1>5. writer.work = <<>> /\ anchor.bytes = Len(active)
  BY <1>1, <1>2 DEF EndOK
<1>6. /\ phase' # "serving" => phase # "serving"
      /\ phase' # "ok"
      /\ phase \in {"join", "failed", "ok"} => phase' = phase
  BY <1>1, <1>2 DEF EndOK, Answer
<1>7. HeldOK'
  BY <1>1, <1>2, <1>3, <1>4, <1>5, HeldKept DEF sink
<1>8. ToldOK'
  BY <1>1, <1>2, <1>3, <1>4, <1>5, ToldKept
<1>9. EndOK'
  BY <1>1, <1>2, <1>4, <1>5, <1>6 DEF EndOK, Pending, sink
<1> QED BY <1>7, <1>8, <1>9 DEF SealInv

\* A new process owes nothing for what the last one accepted.
LEMMA RestartSeal ==
  ASSUME TInv, SealInv, fault = "none", Restart
  PROVE  SealInv'
<1>1. /\ accepted' = {} /\ checked' = {} /\ queue' = <<>> /\ dropped' = 0
      /\ phase' = "serving" /\ rotated' = rotated /\ Open(active)
  BY DEF Restart
<1>2. active' = active /\ writer' = Waiting /\ base' = Len(rotated) + Len(active)
  BY <1>1 DEF Open
<1>3. mem'.seen = 0
  BY <1>1 DEF Open
<1>4. Log' = Log /\ Len(Log) \in Nat /\ base' = Len(Log)
  BY <1>1, <1>2, LogFacts DEF Log
<1> HIDE DEF Log
<1>5. HeldOK'
  BY <1>1 DEF HeldOK
<1>6. EndOK'
  BY <1>1, <1>2 DEF EndOK, Waiting, Pending
<1>7. ToldOK'
  <2>1. Tally(Log, Len(Log), 0)
    BY <1>4, TallyNone
  <2>2. writer'.work = <<>> /\ InHand(writer'.work) = 0 /\ Len(writer'.work) = 0
    BY <1>2 DEF Waiting, InHand
  <2>3. 0 = 0 + InHand(writer'.work) /\ \A i \in 2 .. Len(writer'.work) : FALSE
    BY <2>2
  <2> QED BY <1>3, <1>4, <2>1, <2>3 DEF ToldOK
<1> QED BY <1>5, <1>6, <1>7 DEF SealInv

\* Nothing is owed at the start.
LEMMA SealInit ==
  Init => SealInv
<1> SUFFICES ASSUME Init PROVE SealInv
  OBVIOUS
<1>1. Log = <<>> /\ Len(Log) = 0 /\ base = 0
  BY DEF Init, Log
<1> HIDE DEF Log
<1>2. HeldOK
  BY DEF HeldOK, Init
<1>3. EndOK
  BY DEF EndOK, Init, Waiting, Pending
<1>4. ToldOK
  <2>1. Tally(Log, 0, 0)
    BY <1>1, TallyNone
  <2>2. writer.work = <<>> /\ InHand(writer.work) = 0 /\ Len(writer.work) = 0 /\ mem.seen = 0
    BY DEF Init, Waiting, InHand
  <2>3. \A i \in 2 .. Len(writer.work) : FALSE
    BY <2>2
  <2>4. mem.seen = 0 + InHand(writer.work)
    BY <2>2
  <2> QED BY <1>1, <2>1, <2>3, <2>4 DEF ToldOK
<1> QED BY <1>2, <1>3, <1>4 DEF SealInv

\* Every step keeps what is owed in sight.
LEMMA SealNext ==
  TInv /\ SeqInv /\ SealInv /\ [Next]_vars => SealInv'
<1> SUFFICES ASSUME TInv, SeqInv, SealInv, [Next]_vars PROVE SealInv'
  OBVIOUS
<1>0. fault' = fault
  BY DEF Next, Emit, EmitAuth, EmitData, EmitDataSend, TimerTick, WriterStep, TakeRecord,
         TakeCheckpoint, TakeFlush, DrainEnds, ChannelCloses, BeginFlush, Write,
         RotateRename, RotateAnchor, WriteRotated, CpLine, CpAnchor, Seal, Ack, WriteFails,
         CheckpointFails, Shutdown, ServiceDropped, RequestFlush, BeginJoin, Joined,
         DeadlineExpires, RuntimeDropsTimer, Coordinator, Restart, process, vars
<1> SUFFICES ASSUME fault = "none" PROVE SealInv'
  BY <1>0 DEF SealInv
<1>1. CASE UNCHANGED vars
  <2>1. /\ UNCHANGED <<fault, base, checked, queue, accepted, dropped, timer, writer, mem,
                       active, rotated, anchor, phase>>
    BY <1>1 DEF vars, process, sink, state, disk
  <2> QED BY <2>1 DEF SealInv, HeldOK, EndOK, ToldOK, Log, Pending
<1>2. CASE WriteFails \/ CheckpointFails
  BY <1>2 DEF WriteFails, CheckpointFails
<1> QED BY <1>1, <1>2, SinkSeal, TakeSeal, FlushSeal, WriteSeal, BetweenSeal, AckSeal,
           RestartSeal DEF Next, WriterStep

\* An orderly shutdown in which nothing fails seals the log: each record a handler
\* was told is queued is in the log, the anchor is at its head, and the sentinels
\* this process wrote tell every drop.
THEOREM SealedAtTheEnd == Spec => []ShutdownSeals
<1> DEFINE Inv == TInv /\ ReserveOK /\ SeqInv /\ ExactInv /\ SealInv
<1>1. Init => Inv
  BY TypesInit, SeqInit, ExactInit, SealInit
<1>2. Inv /\ [Next]_vars => Inv'
  BY TypesNext, SeqNext, ExactNext, SealNext
<1>3. Inv => ShutdownSeals
  <2> SUFFICES ASSUME Inv, phase = "ok", fault = "none"
               PROVE  Sealed /\ DroppedSince(Log, base + 1) = dropped
    BY DEF ShutdownSeals
  <2>1. HeldOK /\ EndOK /\ ToldOK /\ ExactOK /\ TipOK
    BY DEF SealInv, SeqInv, Resumable, ExactInv
  <2>2. /\ writer.pc = "done" /\ queue = <<>> /\ writer.work = <<>>
        /\ anchor.bytes = Len(active) /\ mem.seen = dropped
    BY <2>1 DEF EndOK
  <2>3. ~Pending /\ writer.pc # "rotate_anchor" /\ Len(queue) = 0 /\ Len(writer.work) = 0
    BY <2>2 DEF Pending
  <2>4. Len(Log) \in Nat /\ Len(Log) = Len(rotated) + Len(active) /\ Log \in Seq(Line)
    BY LogFacts
  <2> HIDE DEF Log
  <2>5. accepted \subseteq {Log[i].id : i \in 1 .. Len(Log)}
    BY <2>1, <2>3 DEF HeldOK
  <2>6. AnchorMatches(Log)
    <3>1. CASE Log = <<>>
      <4>1. Len(Log) = 0
        BY <3>1
      <4> QED BY <2>1, <2>2, <2>3, <3>1, <4>1 DEF AnchorMatches, ExactOK
    <3>2. CASE Log # <<>>
      <4>1. Len(Log) \in 1 .. Len(Log) /\ (Len(Log) - 1) + 1 = Len(Log)
        BY <2>4, <3>2
      <4>2. /\ Readable(Log[Len(Log)]) /\ Log[Len(Log)].seq = Len(Log) - 1
            /\ anchor.seq = Len(Log)
        BY <2>1, <2>2, <2>3, <4>1 DEF ExactOK
      <4>3. Above(Log, anchor.seq, anchor.head, Len(Log))
        BY <2>1, <2>2, <2>3, <2>4 DEF TipOK
      <4>4. anchor.seq = Log[Len(Log)].seq + 1
        BY <4>1, <4>2
      <4>5. anchor.head = Log[Len(Log)].hash
        BY <4>1, <4>2, <4>3, <4>4 DEF Above
      <4> QED BY <3>2, <4>4, <4>5 DEF AnchorMatches
    <3> QED BY <3>1, <3>2
  <2>7. DroppedSince(Log, base + 1) = dropped
    <3>1. PICK n \in Nat : Tally(Log, base, n) /\ mem.seen = n + InHand(writer.work)
      BY <2>1 DEF ToldOK
    <3>2. n = dropped
      BY <2>2, <3>1 DEF InHand
    <3> QED BY <3>1, <3>2 DEF Tally
  <2> QED BY <2>5, <2>6, <2>7 DEF Sealed
<1> QED BY <1>1, <1>2, <1>3, PTL DEF Spec

=============================================================================
