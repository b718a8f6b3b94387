------------------------------- MODULE AuditLog -------------------------------
(***************************************************************************)
(* The audit sink (audit.rs): handlers put records into a bounded channel, *)
(* one writer thread chains them into the active file, rotates it, writes  *)
(* checkpoints and the anchor; a timer asks for checkpoints; the shutdown  *)
(* coordinator flushes and joins the writer.  The process can die between  *)
(* any two effects on the disk and the next one takes the chain up from    *)
(* what it finds.                                                          *)
(*                                                                         *)
(* A line has the length 1.  A number that is never used twice stands for  *)
(* the hash of a record.  A process that dies leaves what it has written   *)
(* to the files; loss of power is not modelled.  Rotated files are never   *)
(* read by the writer; they are one sequence here, and pruning, which      *)
(* shortens it at the front, is left out.                                  *)
(***************************************************************************)
EXTENDS Naturals, Sequences, FiniteSets, FiniteSetsExt

CONSTANTS Emitters,            \* request handlers
          Capacity,            \* channel_capacity
          Reserve,             \* fail_closed_reserve
          RotateMax,           \* rotate_max_bytes
          CheckpointInterval,  \* CHECKPOINT_INTERVAL
          MaxEmits,            \* bound on records emitted
          MaxStarts,           \* bound on restarts
          Faults               \* what can go wrong besides a death between
                               \* two effects: nothing, a torn write, failing
                               \* writes, a death inside a rotation, a file
                               \* that cannot be read at a restart

ASSUME AuditAssumption ==
  /\ IsFiniteSet(Emitters)
  /\ Capacity \in Nat \ {0}
  /\ Reserve \in 0 .. Capacity - 1  \* AuditConfig::validate refuses any other
  /\ RotateMax \in Nat \ {0} /\ CheckpointInterval \in Nat \ {0}
  /\ MaxEmits \in Nat /\ MaxStarts \in Nat
  /\ Faults \subseteq {"none", "torn", "errors", "rotation", "unreadable"}

VARIABLES fault,     \* the fault of this behaviour; it never changes
          checked,   \* emitters between the capacity check and the send
          emits,     \* number of records emitted
          queue,     \* the channel
          accepted,  \* ids this process has answered with Queued
          dropped,   \* the drop counter
          timer,     \* does the checkpoint timer hold its sender?
          chain,     \* ChainState: the next seq and the head
          hashes,    \* number of hashes computed
          writer,    \* what the writer thread is doing
          mem,       \* its counters: file_bytes, records since the checkpoint,
                     \* last_seen_dropped
          active,    \* audit.jsonl
          rotated,   \* the rotated files, oldest first
          anchor,    \* audit.anchor.json
          points,    \* audit.checkpoints.jsonl
          base,      \* number of lines when this process began
          starts,    \* number of restarts
          phase      \* the audit phase of the shutdown coordinator

process == <<fault, base, starts>>
sink == <<checked, emits, queue, accepted, dropped, timer>>
state == <<chain, hashes, writer, mem>>
disk == <<active, rotated, anchor, points>>

vars == <<process, sink, state, disk, phase>>

\* A line of a file.  glued: it begins where a torn line ends, so that only a
\* reader who starts behind the torn line can parse it.
Line == [seq : Nat, prev : Nat, hash : Nat, id : Nat, count : Nat, glued : BOOLEAN]

\* A line without its end.
Torn == [seq |-> 0, prev |-> 0, hash |-> 0, id |-> 0, count |-> 0, glued |-> FALSE]

\* A record to write; id 0 is the gap sentinel.
Entry(id, count) == [id |-> id, count |-> count]

Genesis == [seq |-> 0, head |-> 0]

Message == {"data", "auth", "flush", "checkpoint"}

PC == {"recv", "drain", "raw", "rotate_anchor", "write", "cp_line", "cp_anchor",
       "seal", "ack", "done"}

TypeOK ==
  /\ fault \in Faults
  /\ checked \subseteq Emitters
  /\ emits \in 0 .. MaxEmits
  /\ queue \in Seq([kind : Message, id : 0 .. emits]) /\ Len(queue) <= Capacity
  /\ accepted \subseteq 1 .. emits
  /\ dropped \in 0 .. emits
  /\ timer \in BOOLEAN
  /\ hashes \in Nat
  /\ chain \in [seq : Nat, head : 0 .. hashes]
  /\ writer \in [pc : PC, work : Seq([id : 0 .. emits, count : 0 .. emits]), line : Line,
                 then : {"recv", "drain", "seal", "ack"}, closing : BOOLEAN]
  /\ mem \in [bytes : Nat, since : Nat, seen : 0 .. dropped]
  /\ active \in Seq(Line) /\ rotated \in Seq(Line)
  /\ anchor \in [seq : Nat, head : 0 .. hashes, bytes : Nat]
  /\ points \subseteq [seq : Nat, head : 0 .. hashes]
  /\ base \in Nat
  /\ starts \in 0 .. MaxStarts
  /\ phase \in {"serving", "flush", "flushing", "flushed", "join", "ok", "failed"}

Waiting == [pc |-> "recv", work |-> <<>>, line |-> Torn, then |-> "recv",
            closing |-> FALSE]

Init ==
  /\ fault \in Faults
  /\ checked = {} /\ emits = 0 /\ queue = <<>> /\ accepted = {} /\ dropped = 0
  /\ timer = TRUE
  /\ chain = Genesis /\ hashes = 0
  /\ writer = Waiting
  /\ mem = [bytes |-> 0, since |-> 0, seen |-> 0]
  /\ active = <<>> /\ rotated = <<>>
  /\ anchor = [seq |-> 0, head |-> 0, bytes |-> 0]
  /\ points = {}
  /\ base = 0 /\ starts = 0 /\ phase = "serving"

-----------------------------------------------------------------------------
(* The channel: AuditSink::emit *)

Room == Capacity - Len(queue)

\* A variant: the reserve is not checked.
HasRoomUnreserved == Room > 0

\* A record of the data plane needs more than the reserve.
HasRoom == Room > Reserve

Send(kind, id) == queue' = Append(queue, [kind |-> kind, id |-> id])

\* The capacity is read first, and the record sent or dropped later.
EmitData(e) ==
  /\ phase = "serving" /\ e \notin checked
  /\ emits + Cardinality(checked) < MaxEmits
  /\ IF HasRoom
     THEN checked' = checked \cup {e} /\ UNCHANGED <<emits, dropped>>
     ELSE emits' = emits + 1 /\ dropped' = dropped + 1 /\ UNCHANGED checked
  /\ UNCHANGED <<process, queue, accepted, timer, state, disk, phase>>

EmitDataSend(e) ==
  /\ e \in checked
  /\ checked' = checked \ {e}
  /\ emits' = emits + 1
  /\ IF Room > 0
     THEN /\ Send("data", emits + 1)
          /\ accepted' = accepted \cup {emits + 1}
          /\ UNCHANGED dropped
     ELSE dropped' = dropped + 1 /\ UNCHANGED <<queue, accepted>>
  /\ UNCHANGED <<process, timer, state, disk, phase>>

\* A fail-closed record; without room the caller's operation is refused and
\* nothing changes.
EmitAuth ==
  /\ phase = "serving" /\ Room > 0
  /\ emits + Cardinality(checked) < MaxEmits
  /\ emits' = emits + 1
  /\ Send("auth", emits + 1)
  /\ accepted' = accepted \cup {emits + 1}
  /\ UNCHANGED <<process, checked, dropped, timer, state, disk, phase>>

\* The timer waits for room; one request at a time is enough.
TimerTick ==
  /\ timer /\ Room > 0
  /\ \A i \in 1 .. Len(queue) : queue[i].kind # "checkpoint"
  /\ Send("checkpoint", 0)
  /\ UNCHANGED <<process, checked, emits, accepted, dropped, timer, state, disk, phase>>
-----------------------------------------------------------------------------
(* The writer: writer_task takes a message *)

At(pc) == writer.pc = pc

Dequeue == /\ queue' = Tail(queue)
           /\ UNCHANGED <<checked, emits, accepted, dropped, timer>>

\* What is dropped and not yet told is told first: maybe_write_gap_sentinel.
WithGap(work) ==
  IF dropped > mem.seen THEN <<Entry(0, dropped - mem.seen)>> \o work ELSE work

\* write_record, in the main loop or in the drain of a flush.
TakeRecord ==
  /\ writer.pc \in {"recv", "drain"}
  /\ queue # <<>> /\ Head(queue).kind \in {"data", "auth"}
  /\ Dequeue
  /\ writer' = [writer EXCEPT !.pc = "raw", !.then = writer.pc,
                              !.work = WithGap(<<Entry(Head(queue).id, 0)>>)]
  /\ mem' = [mem EXCEPT !.seen = dropped]
  /\ UNCHANGED <<process, chain, hashes, disk, phase>>

\* A checkpoint is due if something was written since the last one; a drain
\* skips the request, the flush makes its own.
TakeCheckpoint ==
  /\ writer.pc \in {"recv", "drain"}
  /\ queue # <<>> /\ Head(queue).kind = "checkpoint"
  /\ Dequeue
  /\ writer' = IF At("recv") /\ mem.since > 0
               THEN [writer EXCEPT !.pc = "cp_line", !.then = "recv"]
               ELSE writer
  /\ UNCHANGED <<process, chain, hashes, mem, disk, phase>>

TakeFlush ==
  /\ At("recv") /\ queue # <<>> /\ Head(queue).kind = "flush"
  /\ Dequeue
  /\ writer' = [writer EXCEPT !.pc = "drain"]
  /\ UNCHANGED <<process, chain, hashes, mem, disk, phase>>

\* A variant: drops are only told in front of a record.
FlushWorkNone == <<>>

\* What a flush writes before it seals: the drops that no record has followed.
FlushWork == WithGap(<<>>)

BeginFlush(closing) ==
  /\ writer' = [writer EXCEPT !.pc = IF FlushWork = <<>> THEN "seal" ELSE "raw",
                              !.work = FlushWork, !.then = "seal",
                              !.closing = closing]
  /\ mem' = [mem EXCEPT !.seen = dropped]
  /\ UNCHANGED <<process, sink, chain, hashes, disk, phase>>

DrainEnds == At("drain") /\ queue = <<>> /\ BeginFlush(FALSE)

\* Every sender is gone: the handlers', the timer's and the coordinator's.
SendersGone == phase \in {"join", "failed"} /\ ~timer

ChannelCloses == At("recv") /\ queue = <<>> /\ SendersGone /\ BeginFlush(TRUE)

-----------------------------------------------------------------------------
(* The writer: one record *)

\* ChainState::append.
Chained ==
  [seq |-> chain.seq, prev |-> chain.head, hash |-> hashes + 1,
   id |-> Head(writer.work).id, count |-> Head(writer.work).count,
   glued |-> active # <<>> /\ active[Len(active)] = Torn]

ChainAppend == /\ chain' = [seq |-> chain.seq + 1, head |-> hashes + 1]
               /\ hashes' = hashes + 1

MustRotate == mem.bytes > 0 /\ mem.bytes + 1 > RotateMax

\* What follows the write or the checkpoint of one record.
Go(w) == [w EXCEPT !.pc = IF w.work # <<>> THEN "raw" ELSE w.then, !.line = Torn]

\* write_all, and a checkpoint when it is due.
Put(line) ==
  LET w == [writer EXCEPT !.work = Tail(@)] IN
  /\ active' = Append(active, line)
  /\ mem' = [mem EXCEPT !.bytes = @ + 1, !.since = @ + 1]
  /\ writer' = IF mem.since + 1 >= CheckpointInterval
               THEN [w EXCEPT !.pc = "cp_line", !.line = Torn]
               ELSE Go(w)

Write ==
  /\ At("raw") /\ ~MustRotate
  /\ ChainAppend
  /\ Put(Chained)
  /\ UNCHANGED <<process, sink, rotated, anchor, points, phase>>

\* rotate: the record that needs the room is chained already.
RotateRename ==
  /\ At("raw") /\ MustRotate
  /\ ChainAppend
  /\ rotated' = rotated \o active /\ active' = <<>>
  /\ mem' = [mem EXCEPT !.bytes = 0]
  /\ writer' = [writer EXCEPT !.pc = "rotate_anchor",
                              !.line = [Chained EXCEPT !.glued = FALSE]]
  /\ UNCHANGED <<process, sink, anchor, points, phase>>

\* write_anchor: a new file takes the old one's name.
WriteAnchor == anchor' = [seq |-> chain.seq, head |-> chain.head, bytes |-> mem.bytes]

RotateAnchor ==
  /\ At("rotate_anchor")
  /\ WriteAnchor
  /\ writer' = [writer EXCEPT !.pc = "write"]
  /\ UNCHANGED <<process, sink, chain, hashes, mem, active, rotated, points, phase>>

WriteRotated ==
  /\ At("write")
  /\ Put(writer.line)
  /\ UNCHANGED <<process, sink, chain, hashes, rotated, anchor, points, phase>>

-----------------------------------------------------------------------------
(* The writer: checkpoints, the end of a flush, errors *)

\* A variant: the checkpoint names the next seq, not the last one.
CheckpointOfNext == [seq |-> chain.seq, head |-> chain.head]

\* write_checkpoint_line, saturating_sub included.
CheckpointOfLast ==
  [seq |-> IF chain.seq = 0 THEN 0 ELSE chain.seq - 1, head |-> chain.head]

\* do_checkpoint, with a signing key: the signed line and then the anchor.
CpLine ==
  /\ At("cp_line")
  /\ points' = points \cup {CheckpointOfLast}
  /\ mem' = [mem EXCEPT !.since = 0]
  /\ writer' = [writer EXCEPT !.pc = "cp_anchor"]
  /\ UNCHANGED <<process, sink, chain, hashes, active, rotated, anchor, phase>>

CpAnchor ==
  /\ At("cp_anchor")
  /\ WriteAnchor
  /\ writer' = Go(writer)
  /\ UNCHANGED <<process, sink, chain, hashes, mem, active, rotated, points, phase>>

\* The rest of WriterState::flush.
Seal ==
  /\ At("seal")
  /\ writer' = [writer EXCEPT !.pc = IF mem.since > 0 THEN "cp_line" ELSE "cp_anchor",
                              !.then = "ack"]
  /\ UNCHANGED <<process, sink, chain, hashes, mem, disk, phase>>

\* The flush answers; the last one, after the channel has closed, answers nobody.
Answer(outcome) ==
  /\ writer' = [Waiting EXCEPT !.pc = IF writer.closing THEN "done" ELSE "recv"]
  /\ phase' = IF phase = "flushing" THEN outcome ELSE phase

Ack ==
  /\ At("ack")
  /\ Answer("flushed")
  /\ UNCHANGED <<process, sink, chain, hashes, mem, disk>>

\* An error ends the record with what was to be written before it, or the flush.
GiveUp ==
  IF writer.then \in {"recv", "drain"}
  THEN /\ writer' = [writer EXCEPT !.pc = writer.then, !.work = <<>>, !.line = Torn]
       /\ UNCHANGED phase
  ELSE Answer("failed")

\* The write of a line fails and leaves nothing in the file; or the rotation
\* it needs fails in front of the rename.
WriteFails ==
  /\ fault = "errors"
  /\ \/ At("raw") /\ ChainAppend
     \/ At("write") /\ UNCHANGED <<chain, hashes>>
  /\ GiveUp
  /\ UNCHANGED <<process, sink, mem, disk>>

CheckpointFails ==
  /\ fault = "errors"
  /\ writer.pc \in {"cp_line", "cp_anchor"}
  /\ GiveUp
  /\ UNCHANGED <<process, sink, chain, hashes, mem, disk>>

-----------------------------------------------------------------------------
(* Shutdown: phase 3 of coordinate_shutdown and AuditShutdown::shutdown *)

Coordinator == <<process, checked, emits, accepted, dropped, state, disk>>

\* No handler is left.
ServiceDropped ==
  /\ phase = "serving" /\ checked = {}
  /\ phase' = "flush"
  /\ UNCHANGED <<Coordinator, queue, timer>>

RequestFlush ==
  /\ phase = "flush" /\ Room > 0
  /\ Send("flush", 0)
  /\ phase' = "flushing"
  /\ UNCHANGED <<Coordinator, timer>>

\* A variant: the timer keeps its sender.
ReleaseSendersSinkOnly == phase' = "join" /\ UNCHANGED timer

\* The timer is aborted and the coordinator's sink dropped.
ReleaseSenders == phase' = "join" /\ timer' = FALSE

BeginJoin ==
  /\ phase = "flushed"
  /\ ReleaseSenders
  /\ UNCHANGED <<Coordinator, queue>>

Joined ==
  /\ phase = "join" /\ At("done")
  /\ phase' = "ok"
  /\ UNCHANGED <<Coordinator, queue, timer>>

\* FlushTimeout and JoinTimeout: the sink is dropped, the timer is not.
DeadlineExpires ==
  /\ phase \in {"flush", "flushing", "join"}
  /\ phase' = "failed"
  /\ UNCHANGED <<Coordinator, queue, timer>>

\* The teardown of the runtime drops the timer's task.
RuntimeDropsTimer ==
  /\ phase = "failed" /\ timer
  /\ timer' = FALSE
  /\ UNCHANGED <<Coordinator, queue, phase>>

-----------------------------------------------------------------------------
(* Death and restart *)

\* The suffix of the active file behind the anchor's offset, which counts for
\* nothing when the file is shorter.
Offset(a) == IF anchor.bytes > Len(a) THEN 0 ELSE anchor.bytes

\* from_jsonl succeeds on a whole line, read from its beginning.
Parses(a, i) == a[i] # Torn /\ (~a[i].glued \/ i = Offset(a) + 1)

\* load_chain_state: the anchor, or genesis while there is none.
LoadChainState == [seq |-> anchor.seq, head |-> anchor.head]

\* A variant: the anchor, which is older than the last records, is the tip.
ReconstructFromAnchor(a, read) == LoadChainState

\* reconstruct_chain_state: the last line that parses, otherwise the anchor;
\* also when read_active_suffix fails, for an I/O error or because a line was
\* torn inside a character.
Reconstruct(a, read) ==
  LET valid == {i \in Offset(a) + 1 .. Len(a) : Parses(a, i)}
      last == a[Max(valid)]
  IN IF read = "ok" /\ valid # {} THEN [seq |-> last.seq + 1, head |-> last.hash]
     ELSE LoadChainState

\* WriterState::open over the file the last process has left.
Open(a) ==
  /\ active' = a
  /\ \E read \in {"ok", "error"} :
       /\ read = "error" => fault = "unreadable"
       /\ chain' = Reconstruct(a, read)
  /\ mem' = [bytes |-> Len(a), since |-> 0, seen |-> 0]
  /\ writer' = Waiting
  /\ base' = Len(rotated) + Len(a)

AtWrite == (At("raw") /\ ~MustRotate) \/ At("write")

Restart ==
  /\ starts < MaxStarts
  /\ starts' = starts + 1
  /\ fault = "rotation" \/ writer.pc \notin {"rotate_anchor", "write"}
  /\ \/ Open(active)
     \/ fault \in {"torn", "unreadable"} /\ AtWrite /\ Open(Append(active, Torn))
  /\ checked' = {} /\ queue' = <<>> /\ accepted' = {} /\ dropped' = 0
  /\ timer' = TRUE
  /\ phase' = "serving"
  /\ UNCHANGED <<fault, emits, hashes, rotated, anchor, points>>

-----------------------------------------------------------------------------

Emit == EmitAuth \/ \E e \in Emitters : EmitData(e) \/ EmitDataSend(e)

WriterStep ==
  \/ TakeRecord \/ TakeCheckpoint \/ TakeFlush \/ DrainEnds \/ ChannelCloses
  \/ Write \/ RotateRename \/ RotateAnchor \/ WriteRotated
  \/ CpLine \/ CpAnchor \/ Seal \/ Ack
  \/ WriteFails \/ CheckpointFails

Shutdown ==
  ServiceDropped \/ RequestFlush \/ BeginJoin \/ Joined \/ DeadlineExpires
    \/ RuntimeDropsTimer

Next == Emit \/ TimerTick \/ WriterStep \/ Shutdown \/ Restart

Spec == Init /\ [][Next]_vars

\* The writer's thread runs, the coordinator's task goes on when it can, and
\* the runtime is torn down.  Nothing says that a deadline expires.
Fairness ==
  /\ WF_vars(WriterStep)
  /\ WF_vars(RequestFlush) /\ WF_vars(BeginJoin) /\ WF_vars(Joined)
  /\ WF_vars(RuntimeDropsTimer)

FairSpec == Spec /\ Fairness

-----------------------------------------------------------------------------
(* The verifier: verify_dir without a key *)

Log == rotated \o active

Readable(line) == line # Torn /\ ~line.glued

Follows(s, i) == s[i + 1].seq = s[i].seq + 1 /\ s[i + 1].prev = s[i].hash

\* StreamReplay: no gap, no duplicate, no disorder, every link holds.
ChainOk(s) == \A i \in 1 .. Len(s) - 1 : Follows(s, i)

\* eval_checkpoints: a checkpoint of a seq in range is bound to its record.
CheckpointsBind(s) ==
  s # <<>> =>
    \A p \in points :
      p.seq \in s[1].seq .. s[Len(s)].seq =>
        \E i \in 1 .. Len(s) : s[i].seq = p.seq /\ s[i].hash = p.head

\* check_anchor.
AnchorMatches(s) ==
  IF s = <<>> THEN anchor.seq = 0 /\ anchor.head = 0
  ELSE anchor.seq = s[Len(s)].seq + 1 /\ anchor.head = s[Len(s)].hash

\* The drops that the lines from i on tell, one pair for each.
DropsTold(s, i) ==
  UNION {{j} \X (1 .. s[j].count) : j \in {k \in i .. Len(s) : s[k].id = 0}}

\* sentinel_dropped_count, tallied over the lines from i on.
DroppedSince(s, i) == Cardinality(DropsTold(s, i))

-----------------------------------------------------------------------------
(* Properties *)

\* The claim of WriterState::open: a crash cannot re-issue sequence numbers.
\* The lines on the disk ascend, and each that has the number after another's
\* is chained to it.  Three ways break it, and each takes a restart: a death
\* between the rename of a rotation and its anchor; a file that cannot be
\* read, which sends reconstruct_chain_state to the lagging anchor; a record
\* appended to a torn line, which the next process cannot read either, so
\* that its number is given out once more.
SeqNeverReissued ==
  \A i, j \in 1 .. Len(Log) :
    i < j /\ Log[i] # Torn /\ Log[j] # Torn =>
      /\ Log[i].seq < Log[j].seq
      /\ Log[j].seq = Log[i].seq + 1 => Log[j].prev = Log[i].hash

\* What reconstruct_chain_state does achieve, over deaths between two effects
\* outside a rotation, torn lines and failing writes: the number of a line
\* that can be read is never issued again, and the line with the next number
\* is chained to it.  The number of a line that was appended to a torn one may
\* be issued again.
ReadableNeverReissued ==
  \A i, j \in 1 .. Len(Log) :
    i < j /\ Readable(Log[i]) /\ Log[j] # Torn =>
      /\ Log[i].seq < Log[j].seq
      /\ Log[j].seq = Log[i].seq + 1 => Log[j].prev = Log[i].hash

\* While writes succeed and no death tears a line or interrupts a rotation, the
\* log on the disk is one chain at every moment, over any number of processes,
\* and every signed checkpoint is bound to the record it names.
VerifierAccepts ==
  fault = "none" => ChainOk(Log) /\ CheckpointsBind(Log)

\* Each record that a handler was told is queued is in the log, and the anchor is
\* at its head.
Sealed ==
  /\ accepted \subseteq {Log[i].id : i \in 1 .. Len(Log)}
  /\ AnchorMatches(Log)

\* An orderly shutdown seals the log: each record that a handler was told is
\* queued is in it, the records dropped are all told by sentinels, and the
\* anchor is at the head, so that the verifier accepts the directory.
ShutdownSeals ==
  phase = "ok" /\ fault = "none" => Sealed /\ DroppedSince(Log, base + 1) = dropped

\* Data-plane records eat into the reserve only by the handlers that had read
\* the capacity when it was still above the reserve (emit checks, then sends).
ReserveErosionBounded ==
  Cardinality({i \in 1 .. Len(queue) : queue[i].kind = "data"})
    <= (Capacity - Reserve) + (Cardinality(Emitters) - 1)

\* When the coordinator joins the writer or gives up, the writer sees the channel
\* close and ends, whether or not the deadline expires: no sender is forgotten.
WriterEnds ==
  (phase \in {"join", "failed"}) ~> (At("done") \/ phase = "serving")

=============================================================================
